---------------------------- MODULE VectorLemmas ----------------------------
(***************************************************************************)
(* What the operators of MtcIo compute, for vectors of any length: Through *)
(* is the sum of a beginning of the vector, and Consumed finds the block   *)
(* at which a loop over the vector stops.                                  *)
(***************************************************************************)
EXTENDS MtcIo, SequenceTheorems, WellFoundedInduction, TLAPS

-----------------------------------------------------------------------------
(* A word with or without the stop bit splits into that bit and the rest.  *)
LEMMA DivMod ==
  ASSUME NEW m \in Nat \ {0}, NEW r \in 0..(m - 1)
  PROVE  /\ r % m = r /\ r \div m = 0
         /\ (r + m) % m = r /\ (r + m) \div m = 1
OBVIOUS

(* What is cut to a word fits in it.                                       *)
LEMMA ModBelow ==
  ASSUME NEW m \in Nat \ {0}, NEW n \in Nat
  PROVE  n % m \in 0..(m - 1)
OBVIOUS

-----------------------------------------------------------------------------
(* Induction over the natural numbers for one set, from well-foundedness.  *)

NatLess == {p \in Nat \X Nat : p[1] < p[2]}

(* The order of the naturals, as a set of pairs, is well-founded.          *)
LEMMA NatLessWF == IsWellFoundedOn(NatLess, Nat)
<1>1. NatLess = OpToRel(<, Nat)
  BY DEF NatLess, OpToRel
<1>2. QED
  BY <1>1, NatLessThanWellFounded

(* A set of natural numbers that is not empty has a least element.         *)
LEMMA LeastElement ==
  ASSUME NEW T \in SUBSET Nat, T # {}
  PROVE  \E x \in T : \A y \in T : x <= y
<1>1. PICK x \in T : \A y \in T : ~ (<<y, x>> \in NatLess)
  BY NatLessWF, WFMin
<1>2. \A y \in T : <<y, x>> \in Nat \X Nat
  OBVIOUS
<1>3. \A y \in T : ~ (y < x)
  BY <1>1, <1>2 DEF NatLess
<1>4. QED
  BY <1>3

(* Induction over the members of a set, which needs no operator as a       *)
(* parameter.                                                              *)
LEMMA SetInduction ==
  ASSUME NEW S, 0 \in S, \A n \in Nat : n \in S => n + 1 \in S
  PROVE  \A n \in Nat : n \in S
<1> DEFINE T == {n \in Nat : n \notin S}
<1>1. SUFFICES ASSUME T # {} PROVE FALSE
  OBVIOUS
<1>2. PICK x \in T : \A y \in T : x <= y
  BY <1>1, LeastElement
<1>3. x # 0 /\ x - 1 \in Nat /\ ~ (x <= x - 1)
  OBVIOUS
<1>4. x - 1 \in S
  BY <1>2, <1>3
<1>5. QED
  BY <1>3, <1>4

-----------------------------------------------------------------------------
(* Through is the function its recursive equation describes.               *)

Sums(lens, n, f) ==
  /\ f \in [0..n -> Nat]
  /\ f[0] = 0
  /\ \A i \in 1..n : f[i] = f[i - 1] + lens[i]

(* Partial sums exist for every sequence.                                  *)
LEMMA SumsExist ==
  ASSUME NEW lens \in Seq(Nat)
  PROVE  \E f : Sums(lens, Len(lens), f)
<1> DEFINE S == {n \in Nat : n <= Len(lens) => \E f : Sums(lens, n, f)}
<1>1. 0 \in S
  <2>1. Sums(lens, 0, [i \in 0..0 |-> 0])
    BY DEF Sums
  <2>2. QED
    BY <2>1
<1>2. ASSUME NEW n \in Nat, n \in S PROVE n + 1 \in S
  <2>1. SUFFICES ASSUME n + 1 <= Len(lens) PROVE \E f : Sums(lens, n + 1, f)
    OBVIOUS
  <2>2. PICK f : Sums(lens, n, f)
    BY <1>2, <2>1
  <2> DEFINE g == [i \in 0..(n + 1) |-> IF i = n + 1 THEN f[n] + lens[n + 1] ELSE f[i]]
  <2>3. lens[n + 1] \in Nat /\ f[n] \in Nat
    BY <2>1, <2>2 DEF Sums
  <2>4. Sums(lens, n + 1, g)
    <3>1. f \in [0..n -> Nat] /\ f[0] = 0 /\ \A i \in 1..n : f[i] = f[i - 1] + lens[i]
      BY <2>2 DEF Sums
    <3>2. g \in [0..(n + 1) -> Nat] /\ g[0] = 0
      BY <3>1, <2>3
    <3>3. ASSUME NEW i \in 1..(n + 1) PROVE g[i] = g[i - 1] + lens[i]
      <4>1. CASE i = n + 1
        BY <4>1
      <4>2. CASE i # n + 1
        BY <4>2, <3>1
      <4>3. QED
        BY <4>1, <4>2
    <3>4. QED
      BY <3>2, <3>3 DEF Sums
  <2>5. QED
    BY <2>4
<1>3. \A n \in Nat : n \in S
  <2> HIDE DEF S
  <2>1. QED
    BY <1>1, <1>2, SetInduction
<1>4. QED
  BY <1>3

(* Through is the partial sums of the sizes.                               *)
LEMMA ThroughSums ==
  ASSUME NEW lens \in Seq(Nat)
  PROVE  Sums(lens, Len(lens), Through(lens))
<1> DEFINE Eq(f) == f = [i \in 0..Len(lens) |-> IF i = 0 THEN 0 ELSE f[i - 1] + lens[i]]
<1>1. PICK f : Sums(lens, Len(lens), f)
  BY SumsExist
<1>2. Eq(f)
  BY <1>1 DEF Sums
<1>3. Through(lens) = CHOOSE g : Eq(g)
  BY DEF Through
<1>4. Eq(Through(lens))
  BY <1>2, <1>3
<1> DEFINE t == Through(lens)
<1>5. /\ DOMAIN t = 0..Len(lens) /\ t[0] = 0
      /\ \A i \in 1..Len(lens) : t[i] = t[i - 1] + lens[i]
  BY <1>4, SMTT(30)
<1>6. t = f
  <2> DEFINE S == {n \in Nat : n <= Len(lens) => t[n] = f[n]}
  <2>1. 0 \in S
    BY <1>1, <1>5 DEF Sums
  <2>2. ASSUME NEW n \in Nat, n \in S PROVE n + 1 \in S
    <3>1. SUFFICES ASSUME n + 1 <= Len(lens) PROVE t[n + 1] = f[n + 1]
      OBVIOUS
    <3>2. t[n] = f[n]
      BY <2>2, <3>1
    <3>3. n + 1 \in 1..Len(lens) /\ (n + 1) - 1 = n
      BY <3>1
    <3>4. QED
      BY <1>1, <1>5, <3>2, <3>3 DEF Sums
  <2>3. \A n \in Nat : n \in S
    <3> HIDE DEF S
    <3>1. QED
      BY <2>1, <2>2, SetInduction
  <2>4. \A n \in 0..Len(lens) : t[n] = f[n]
    BY <2>3
  <2>5. DOMAIN f = 0..Len(lens) /\ f = [n \in 0..Len(lens) |-> f[n]]
    BY <1>1 DEF Sums
  <2>6. t = [n \in 0..Len(lens) |-> t[n]]
    BY <1>4
  <2>7. QED
    BY <2>4, <2>5, <2>6
<1>7. QED
  BY <1>1, <1>6

(* What the proofs use of Through.                                         *)
LEMMA ThroughFacts ==
  ASSUME NEW lens \in Seq(Nat)
  PROVE  /\ \A i \in 0..Len(lens) : Through(lens)[i] \in Nat
         /\ Through(lens)[0] = 0
         /\ \A i \in 1..Len(lens) :
              Through(lens)[i] = Through(lens)[i - 1] + lens[i] /\ lens[i] \in Nat
<1>1. Through(lens) \in [0..Len(lens) -> Nat]
  BY ThroughSums DEF Sums
<1>2. \A i \in 1..Len(lens) : lens[i] \in Nat
  OBVIOUS
<1>3. QED
  BY <1>1, <1>2, ThroughSums DEF Sums

(* More entries hold no less.                                              *)
LEMMA ThroughMonotone ==
  ASSUME NEW lens \in Seq(Nat), NEW i \in 0..Len(lens), NEW j \in i..Len(lens)
  PROVE  Through(lens)[i] <= Through(lens)[j]
<1> DEFINE t == Through(lens)
           S == {n \in Nat : i + n <= Len(lens) => t[i] <= t[i + n]}
<1>0. i \in Nat /\ j \in Nat /\ t[i] \in Nat
  BY ThroughFacts
<1>1. 0 \in S
  BY <1>0
<1>2. ASSUME NEW n \in Nat, n \in S PROVE n + 1 \in S
  <2>1. SUFFICES ASSUME i + (n + 1) <= Len(lens) PROVE t[i] <= t[i + (n + 1)]
    OBVIOUS
  <2>2. t[i] <= t[i + n]
    BY <1>2, <2>1
  <2>3. i + (n + 1) \in 1..Len(lens) /\ (i + (n + 1)) - 1 = i + n
    BY <2>1
  <2>4. t[i + (n + 1)] = t[i + n] + lens[i + (n + 1)]
    BY <2>3, ThroughFacts
  <2>5. lens[i + (n + 1)] \in Nat /\ t[i + n] \in Nat
    <3>1. i + n \in 0..Len(lens)
      BY <1>0, <2>1
    <3>2. QED
      BY <3>1, <2>3, ThroughFacts
  <2>6. QED
    BY <1>0, <2>2, <2>4, <2>5
<1>3. \A n \in Nat : n \in S
  <2> HIDE DEF S
  <2>1. QED
    BY <1>1, <1>2, SetInduction
<1>4. j - i \in Nat /\ i + (j - i) = j /\ j <= Len(lens)
  BY <1>0
<1>5. QED
  BY <1>3, <1>4

(* Sums of larger numbers are larger.                                      *)
LEMMA ThroughLess ==
  ASSUME NEW lens \in Seq(Nat), NEW more \in Seq(Nat), Len(more) = Len(lens),
         \A i \in 1..Len(lens) : lens[i] <= more[i]
  PROVE  Through(lens)[Len(lens)] <= Through(more)[Len(lens)]
<1> DEFINE t == Through(lens)
           u == Through(more)
           S == {m \in Nat : m <= Len(lens) => t[m] <= u[m]}
<1>1. 0 \in S
  BY ThroughFacts
<1>2. ASSUME NEW m \in Nat, m \in S PROVE m + 1 \in S
  <2>1. SUFFICES ASSUME m + 1 <= Len(lens) PROVE t[m + 1] <= u[m + 1]
    OBVIOUS
  <2>2. m + 1 \in 1..Len(lens) /\ (m + 1) - 1 = m /\ m \in 0..Len(lens) /\ m <= Len(lens)
    BY <2>1
  <2>3. t[m + 1] = t[m] + lens[m + 1] /\ lens[m + 1] \in Nat /\ t[m] \in Nat
    BY <2>2, ThroughFacts
  <2>4. u[m + 1] = u[m] + more[m + 1] /\ more[m + 1] \in Nat /\ u[m] \in Nat
    <3>1. m + 1 \in 1..Len(more) /\ m \in 0..Len(more)
      BY <2>2
    <3> QED  BY <2>2, <3>1, ThroughFacts
  <2>5. t[m] <= u[m] /\ lens[m + 1] <= more[m + 1]
    BY <1>2, <2>2
  <2> HIDE DEF t, u
  <2> QED  BY <2>3, <2>4, <2>5, SMTT(30)
<1>3. \A m \in Nat : m \in S
  <2> HIDE DEF S
  <2> QED  BY <1>1, <1>2, SetInduction
<1>4. Len(lens) \in Nat
  OBVIOUS
<1> QED  BY <1>3, <1>4

(* Blocks that are not empty count: the sum grows with every one.          *)
LEMMA ThroughStrict ==
  ASSUME NEW lens \in Seq(Nat \ {0}),
         NEW i \in 0..Len(lens), NEW j \in 0..Len(lens), i < j
  PROVE  Through(lens)[i] < Through(lens)[j]
<1>1. lens \in Seq(Nat)
  OBVIOUS
<1>2. Through(lens)[i] <= Through(lens)[j - 1]
  <2>1. j - 1 \in i..Len(lens)
    OBVIOUS
  <2>2. QED
    BY <1>1, <2>1, ThroughMonotone
<1>3. j \in 1..Len(lens) /\ lens[j] \in Nat \ {0}
  OBVIOUS
<1>4. Through(lens)[j] = Through(lens)[j - 1] + lens[j]
  BY <1>1, <1>3, ThroughFacts
<1>5. Through(lens)[i] \in Nat /\ Through(lens)[j - 1] \in Nat
  <2>1. j - 1 \in 0..Len(lens)
    BY <1>3
  <2>2. QED
    BY <1>1, <2>1, ThroughFacts
<1>6. QED
  BY <1>2, <1>3, <1>4, <1>5

(* The sum over a vector that goes on where another one, less r bytes,     *)
(* begins its block d + 1.                                                 *)
LEMMA ThroughShift ==
  ASSUME NEW lens \in Seq(Nat), NEW rest \in Seq(Nat),
         NEW d \in Nat, NEW n \in Nat, d + n <= Len(lens), n <= Len(rest),
         \A i \in 1..n : rest[i] = lens[d + i]
  PROVE  Through(rest)[n] = Through(lens)[d + n] - Through(lens)[d]
<1> DEFINE t == Through(lens)
           u == Through(rest)
           S == {m \in Nat : m <= n => u[m] = t[d + m] - t[d]}
<1>0. d \in 0..Len(lens) /\ t[d] \in Nat
  <2>1. d \in 0..Len(lens)
    OBVIOUS
  <2>2. QED
    BY <2>1, ThroughFacts
<1>1. 0 \in S
  BY <1>0, ThroughFacts
<1>2. ASSUME NEW m \in Nat, m \in S PROVE m + 1 \in S
  <2>1. SUFFICES ASSUME m + 1 <= n PROVE u[m + 1] = t[d + (m + 1)] - t[d]
    OBVIOUS
  <2>2. u[m] = t[d + m] - t[d]
    BY <1>2, <2>1
  <2>3. /\ m + 1 \in 1..Len(rest) /\ m + 1 \in 1..n /\ (m + 1) - 1 = m
        /\ d + (m + 1) \in 1..Len(lens) /\ (d + (m + 1)) - 1 = d + m
    BY <2>1
  <2>4. u[m + 1] = u[m] + rest[m + 1] /\ t[d + (m + 1)] = t[d + m] + lens[d + (m + 1)]
    BY <2>3, ThroughFacts
  <2>5. rest[m + 1] = lens[d + (m + 1)]
    BY <2>3
  <2>6. t[d + m] \in Nat /\ lens[d + (m + 1)] \in Nat
    <3>1. d + m \in 0..Len(lens)
      BY <2>1
    <3>2. QED
      BY <2>3, <3>1, ThroughFacts
  <2> HIDE DEF t, u
  <2>7. QED
    BY <1>0, <2>2, <2>4, <2>5, <2>6, SMTT(30)
<1>3. \A m \in Nat : m \in S
  <2> HIDE DEF S
  <2>1. QED
    BY <1>1, <1>2, SetInduction
<1>4. QED
  BY <1>3

(* The sum depends on the beginning of the vector only.                    *)
LEMMA ThroughPrefix ==
  ASSUME NEW lens \in Seq(Nat), NEW more \in Seq(Nat), NEW n \in 0..Len(lens),
         Len(lens) <= Len(more), \A i \in 1..n : more[i] = lens[i]
  PROVE  Through(more)[n] = Through(lens)[n]
<1>1. Through(more)[n] = Through(lens)[0 + n] - Through(lens)[0]
  <2>1. \A i \in 1..n : more[i] = lens[0 + i]
    <3>1. \A i \in 1..n : 0 + i = i
      OBVIOUS
    <3>2. QED
      BY <3>1, Zenon
  <2>2. 0 \in Nat /\ n \in Nat /\ 0 + n <= Len(lens) /\ n <= Len(more)
    OBVIOUS
  <2>3. QED
    BY <2>1, <2>2, ThroughShift
<1>2. Through(lens)[n] \in Nat /\ Through(lens)[0] = 0 /\ 0 + n = n
  BY ThroughFacts
<1>3. QED
  BY <1>1, <1>2

-----------------------------------------------------------------------------
(* The block at which the loop that consumes n bytes stops.                *)
LEMMA ConsumedFacts ==
  ASSUME NEW lens \in Seq(Nat), NEW n \in Nat
  PROVE  LET k == Consumed(lens, n)
         IN  /\ k \in 0..Len(lens)
             /\ Through(lens)[k] <= n
             /\ k < Len(lens) => n < Through(lens)[k + 1]
<1> DEFINE t == Through(lens)
           Stops == {i \in 0..Len(lens) : ConsumeStops(lens, n, i)}
           k == Consumed(lens, n)
<1>1. Len(lens) \in Stops /\ Stops \in SUBSET Nat
  BY DEF ConsumeStops
<1>2. PICK x \in Stops : \A y \in Stops : x <= y
  BY <1>1, LeastElement
<1>3. \A i \in 0..(x - 1) : ~ ConsumeStops(lens, n, i)
  <2>1. ASSUME NEW i \in 0..(x - 1), ConsumeStops(lens, n, i) PROVE FALSE
    <3>1. i \in Stops /\ ~ (x <= i)
      BY <2>1
    <3>2. QED
      BY <3>1, <1>2
  <2>2. QED
    BY <2>1
<1>4. /\ k \in 0..Len(lens) /\ ConsumeStops(lens, n, k)
      /\ \A i \in 0..(k - 1) : ~ ConsumeStops(lens, n, i)
  BY <1>2, <1>3 DEF Consumed
<1> HIDE DEF k
<1>5. t[k] <= n
  <2>1. CASE k = 0
    BY <2>1, ThroughFacts
  <2>2. CASE k # 0
    <3>1. /\ ~ ConsumeStops(lens, n, k - 1) /\ k \in 1..Len(lens)
          /\ k - 1 \in 0..Len(lens) /\ (k - 1) + 1 = k
      BY <1>4, <2>2
    <3>2. n - t[k - 1] >= lens[k]
      <4>1. ~ (n - t[k - 1] < lens[(k - 1) + 1])
        BY <3>1 DEF ConsumeStops, Left
      <4>2. t[k - 1] \in Nat /\ lens[k] \in Nat
        BY <3>1, ThroughFacts
      <4>3. QED
        BY <3>1, <4>1, <4>2
    <3>3. t[k] = t[k - 1] + lens[k] /\ t[k - 1] \in Nat /\ lens[k] \in Nat
      BY <3>1, ThroughFacts
    <3>4. QED
      BY <3>2, <3>3
  <2>3. QED
    BY <2>1, <2>2
<1>6. ASSUME k < Len(lens) PROVE n < t[k + 1]
  <2>1. n - t[k] < lens[k + 1]
    BY <1>4, <1>6 DEF ConsumeStops, Left
  <2>2. k + 1 \in 1..Len(lens) /\ (k + 1) - 1 = k
    BY <1>4, <1>6
  <2>3. t[k + 1] = t[k] + lens[k + 1] /\ t[k] \in Nat /\ lens[k + 1] \in Nat
    BY <2>2, <1>4, ThroughFacts
  <2>4. QED
    BY <2>1, <2>3
<1>7. QED
  BY <1>4, <1>5, <1>6 DEF k

(* What that loop leaves: the blocks behind the last one it took, the      *)
(* first of them shortened but not to nothing.                             *)
LEMMA ConsumeLeaves ==
  ASSUME NEW lens \in Seq(Nat), NEW n \in Nat
  PROVE  LET k    == Consumed(lens, n)
             rest == ConsumeRest(lens, n)
         IN  /\ rest \in Seq(Nat) /\ Len(rest) = Len(lens) - k
             /\ \A i \in 1..Len(rest) :
                  rest[i] = IF i = 1 THEN lens[k + 1] - (n - Through(lens)[k])
                                     ELSE lens[k + i]
             /\ rest # <<>> => rest[1] > 0
             /\ \A i \in 1..Len(rest) :
                  Through(rest)[i] = Through(lens)[k + i] - n
<1> DEFINE k    == Consumed(lens, n)
           t    == Through(lens)
           r    == n - t[k]
           rest == DropBlocks(lens, k, r)
<1>1. ConsumeRest(lens, n) = rest
  BY DEF ConsumeRest, Left
<1>2. lens \in Seq(Nat)
  OBVIOUS
<1>3. k \in 0..Len(lens) /\ t[k] <= n /\ (k < Len(lens) => n < t[k + 1])
  BY <1>2, ConsumedFacts
<1> HIDE DEF k
<1>4. t[k] \in Nat /\ r \in Nat
  BY <1>2, <1>3, ThroughFacts
<1>5. ASSUME k < Len(lens) PROVE r < lens[k + 1]
  <2>1. k + 1 \in 1..Len(lens) /\ (k + 1) - 1 = k
    BY <1>3, <1>5
  <2>2. t[k + 1] = t[k] + lens[k + 1] /\ lens[k + 1] \in Nat
    BY <1>2, <2>1, ThroughFacts
  <2>3. QED
    BY <1>3, <1>4, <1>5, <2>2
<1>6. /\ \A i \in 1..(Len(lens) - k) :
           rest[i] = IF i = 1 THEN lens[k + 1] - r ELSE lens[k + i]
      /\ rest \in Seq(Nat) /\ Len(rest) = Len(lens) - k
      /\ rest # <<>> => rest[1] > 0
  <2>1. \A i \in 1..(Len(lens) - k) : k + i \in 1..Len(lens)
    BY <1>3
  <2>2. \A i \in 1..(Len(lens) - k) : lens[k + i] \in Nat
    BY <2>1
  <2>3. Len(lens) - k > 0 => lens[k + 1] - r \in Nat \ {0}
    <3>1. SUFFICES ASSUME Len(lens) - k > 0 PROVE lens[k + 1] - r \in Nat \ {0}
      OBVIOUS
    <3>2. 1 \in 1..(Len(lens) - k) /\ k < Len(lens)
      BY <3>1, <1>3
    <3>3. lens[k + 1] \in Nat /\ r < lens[k + 1]
      BY <3>2, <2>2, <1>5
    <3> HIDE DEF r
    <3>4. QED
      BY <3>3, <1>4
  <2>4. \A i \in 1..(Len(lens) - k) :
          (IF i = 1 THEN lens[k + 1] - r ELSE lens[k + i]) \in Nat
    BY <2>2, <2>3, <1>3
  <2>5. Len(lens) - k \in Nat
    BY <1>3
  <2>6. /\ \A i \in 1..(Len(lens) - k) :
             rest[i] = IF i = 1 THEN lens[k + 1] - r ELSE lens[k + i]
        /\ rest \in Seq(Nat) /\ Len(rest) = Len(lens) - k
    <3> HIDE DEF r
    <3> QED  BY <2>4, <2>5 DEF DropBlocks
  <2>7. ASSUME Len(lens) - k > 0 PROVE rest[1] > 0
    <3>1. 1 \in 1..(Len(lens) - k) /\ k < Len(lens)
      BY <1>3, <2>5, <2>7
    <3>2. rest[1] = lens[k + 1] - r /\ lens[k + 1] \in Nat /\ r < lens[k + 1]
      BY <2>2, <2>6, <3>1, <1>5
    <3> HIDE DEF r, rest
    <3> QED  BY <1>4, <3>2
  <2> HIDE DEF r, rest
  <2>8. rest # <<>> => Len(lens) - k > 0
    BY <2>5, <2>6
  <2>9. QED
    BY <2>6, <2>7, <2>8
<1> HIDE DEF rest
<1>8. ASSUME NEW i \in 1..Len(rest) PROVE Through(rest)[i] = t[k + i] - n
  <2> DEFINE u == Through(rest)
             S == {m \in Nat : m + 1 <= Len(rest) => u[m + 1] = t[k + (m + 1)] - n}
  <2>0. rest \in Seq(Nat)
    BY <1>6
  <2>1. 0 \in S
    <3>1. SUFFICES ASSUME 1 <= Len(rest) PROVE u[1] = t[k + 1] - n
      OBVIOUS
    <3>2. 1 \in 1..Len(rest) /\ k + 1 \in 1..Len(lens) /\ (k + 1) - 1 = k
      BY <3>1, <1>3, <1>6
    <3>3. u[1] = u[1 - 1] + rest[1] /\ u[0] = 0
      BY <3>2, <2>0, ThroughFacts
    <3>4. t[k + 1] = t[k] + lens[k + 1] /\ lens[k + 1] \in Nat
      BY <3>2, <1>2, ThroughFacts
    <3>5. rest[1] = lens[k + 1] - r
      BY <3>2, <1>6
    <3>6. r = n - t[k]
      OBVIOUS
    <3> HIDE DEF t, u, r
    <3>7. QED
      BY <3>3, <3>4, <3>5, <3>6, <1>4
  <2>2. ASSUME NEW m \in Nat, m \in S PROVE m + 1 \in S
    <3>1. SUFFICES ASSUME (m + 1) + 1 <= Len(rest)
                   PROVE  u[(m + 1) + 1] = t[k + ((m + 1) + 1)] - n
      OBVIOUS
    <3>2. u[m + 1] = t[k + (m + 1)] - n
      BY <2>2, <3>1, <1>6, <1>3
    <3>3. /\ m + 2 \in 1..Len(rest) /\ (m + 2) - 1 = m + 1 /\ m + 2 # 1
          /\ k + (m + 2) \in 1..Len(lens) /\ (k + (m + 2)) - 1 = k + (m + 1)
      BY <3>1, <1>3, <1>6
    <3>4. u[m + 2] = u[m + 1] + rest[m + 2]
      BY <3>3, <2>0, ThroughFacts
    <3>5. t[k + (m + 2)] = t[k + (m + 1)] + lens[k + (m + 2)]
      BY <3>3, <1>2, ThroughFacts
    <3>6. rest[m + 2] = lens[k + (m + 2)]
      BY <3>3, <1>6
    <3>7. /\ t[k + (m + 1)] \in Nat /\ lens[k + (m + 2)] \in Nat
          /\ (m + 1) + 1 = m + 2
      <4>1. k + (m + 1) \in 0..Len(lens)
        BY <3>3, <1>3
      <4>2. QED
        BY <4>1, <3>3, <1>2, ThroughFacts
    <3>8. k + ((m + 1) + 1) = k + (m + 2) /\ n \in Nat /\ k \in Nat
      BY <1>3
    <3> HIDE DEF t, u, r
    <3>9. u[m + 2] = t[k + (m + 2)] - n
      BY <3>2, <3>4, <3>5, <3>6, <3>7, <3>8, SMTT(30)
    <3>10. QED
      BY <3>7, <3>8, <3>9
  <2>3. \A m \in Nat : m \in S
    <3> HIDE DEF S
    <3>1. QED
      BY <2>1, <2>2, SetInduction
  <2>4. i - 1 \in Nat /\ (i - 1) + 1 = i /\ i <= Len(rest)
    BY <1>6
  <2>5. i - 1 \in S
    BY <2>3, <2>4
  <2>6. QED
    BY <2>4, <2>5
<1>9. QED
  BY <1>1, <1>6, <1>8 DEF k, rest, r

(* The same when no block is empty: then none of the rest is.              *)
LEMMA ConsumeRestFacts ==
  ASSUME NEW lens \in Seq(Nat \ {0}), NEW n \in Nat
  PROVE  LET k    == Consumed(lens, n)
             rest == ConsumeRest(lens, n)
         IN  /\ rest \in Seq(Nat \ {0})
             /\ Len(rest) = Len(lens) - k
             /\ \A i \in 1..Len(rest) : rest[i] <= lens[k + i]
             /\ \A i \in 1..Len(rest) :
                  Through(rest)[i] = Through(lens)[k + i] - n
<1> DEFINE k    == Consumed(lens, n)
           rest == ConsumeRest(lens, n)
           r    == n - Through(lens)[k]
<1>1. lens \in Seq(Nat)
  OBVIOUS
<1>2. /\ rest \in Seq(Nat) /\ Len(rest) = Len(lens) - k
      /\ \A i \in 1..Len(rest) : rest[i] = IF i = 1 THEN lens[k + 1] - r ELSE lens[k + i]
      /\ rest # <<>> => rest[1] > 0
      /\ \A i \in 1..Len(rest) : Through(rest)[i] = Through(lens)[k + i] - n
  BY <1>1, ConsumeLeaves
<1>3. k \in 0..Len(lens) /\ r \in Nat
  <2>1. k \in 0..Len(lens) /\ Through(lens)[k] <= n
    BY <1>1, ConsumedFacts
  <2> HIDE DEF k
  <2>2. Through(lens)[k] \in Nat
    BY <1>1, <2>1, ThroughFacts
  <2> QED  BY <2>1, <2>2
<1> HIDE DEF k, rest, r
<1>4. ASSUME NEW i \in 1..Len(rest)
      PROVE  rest[i] \in Nat \ {0} /\ rest[i] <= lens[k + i]
  <2>1. k + i \in 1..Len(lens) /\ rest # <<>>
    BY <1>2, <1>3
  <2>2. lens[k + i] \in Nat \ {0} /\ rest[i] \in Nat
    BY <1>2, <2>1
  <2>3. rest[i] = IF i = 1 THEN lens[k + 1] - r ELSE lens[k + i]
    BY <1>2
  <2>4. CASE i = 1
    <3>1. rest[1] = lens[k + 1] - r /\ rest[1] > 0 /\ rest[1] \in Nat
      BY <1>2, <2>1, <2>2, <2>3, <2>4
    <3> QED  BY <1>3, <2>2, <2>4, <3>1
  <2>5. CASE i # 1
    BY <2>2, <2>3, <2>5
  <2> QED  BY <2>4, <2>5
<1>5. rest \in Seq(Nat \ {0})
  <2>1. Len(rest) \in Nat /\ rest = [i \in 1..Len(rest) |-> rest[i]]
    BY <1>2
  <2> QED  BY <1>4, <2>1
<1> QED  BY <1>2, <1>4, <1>5 DEF k, rest

-----------------------------------------------------------------------------
(* FlattenSeq of sequences over S is a sequence over S, as long as they    *)
(* are together.                                                           *)

Joined(S, seqs, k, f) ==
  /\ f \in [1..k -> Seq(S)]
  /\ \A i \in 1..k : f[i] = IF i = 1 THEN seqs[i] ELSE f[i - 1] \o seqs[i]

(* Sequences put together are as long as the sum of their lengths.         *)
LEMMA FlattenFacts ==
  ASSUME NEW S, NEW seqs \in Seq(Seq(S)), NEW lens \in Seq(Nat),
         Len(lens) = Len(seqs), \A i \in 1..Len(seqs) : lens[i] = Len(seqs[i])
  PROVE  /\ FlattenSeq(seqs) \in Seq(S)
         /\ Len(FlattenSeq(seqs)) = Through(lens)[Len(lens)]
<1> DEFINE n == Len(seqs)
           Def(f) == f = [i \in 1..n |-> IF i = 1 THEN seqs[i] ELSE f[i - 1] \o seqs[i]]
           T == {k \in Nat : k <= n => \E f : Joined(S, seqs, k, f)}
           t == Through(lens)
<1>1. \A i \in 1..n : seqs[i] \in Seq(S)
  OBVIOUS
<1>2. 0 \in T
  <2>1. Joined(S, seqs, 0, [i \in 1..0 |-> <<>>])
    BY DEF Joined
  <2>2. QED
    BY <2>1
<1>3. ASSUME NEW k \in Nat, k \in T PROVE k + 1 \in T
  <2>1. SUFFICES ASSUME k + 1 <= n PROVE \E f : Joined(S, seqs, k + 1, f)
    OBVIOUS
  <2>2. PICK f : Joined(S, seqs, k, f)
    BY <1>3, <2>1
  <2> DEFINE new == IF k + 1 = 1 THEN seqs[k + 1] ELSE f[k] \o seqs[k + 1]
             g   == [i \in 1..(k + 1) |-> IF i = k + 1 THEN new ELSE f[i]]
  <2>3. new \in Seq(S)
    <3>1. seqs[k + 1] \in Seq(S)
      BY <1>1, <2>1
    <3>2. ASSUME k + 1 # 1 PROVE f[k] \in Seq(S)
      BY <2>2, <3>2 DEF Joined
    <3>3. ASSUME k + 1 # 1 PROVE f[k] \o seqs[k + 1] \in Seq(S)
      BY <3>1, <3>2, <3>3, ConcatProperties
    <3>4. QED
      BY <3>1, <3>3
  <2> HIDE DEF new
  <2>4. g \in [1..(k + 1) -> Seq(S)]
    BY <2>2, <2>3 DEF Joined
  <2>5. ASSUME NEW i \in 1..(k + 1)
        PROVE  g[i] = IF i = 1 THEN seqs[i] ELSE g[i - 1] \o seqs[i]
    <3>1. CASE i = k + 1
      <4>1. i # 1 => g[i - 1] = f[k]
        BY <3>1
      <4>2. QED
        BY <3>1, <4>1 DEF new
    <3>2. CASE i # k + 1
      <4>1. i \in 1..k /\ g[i] = f[i] /\ (i # 1 => g[i - 1] = f[i - 1])
        BY <3>2
      <4>2. QED
        BY <4>1, <2>2 DEF Joined
    <3>3. QED
      BY <3>1, <3>2
  <2>6. Joined(S, seqs, k + 1, g)
    BY <2>4, <2>5 DEF Joined
  <2>7. QED
    BY <2>6
<1>4. \A k \in Nat : k \in T
  <2> HIDE DEF T
  <2>1. QED
    BY <1>2, <1>3, SetInduction
<1>5. PICK f : Joined(S, seqs, n, f)
  <2>1. n \in Nat
    OBVIOUS
  <2>2. QED
    BY <1>4, <2>1
<1>6. Def(f)
  BY <1>5 DEF Joined
<1> DEFINE g == CHOOSE h : Def(h)
<1>7. Def(g)
  BY <1>6
<1>8. ASSUME n # 0 PROVE g[n] \in Seq(S) /\ Len(g[n]) = t[n]
  <2> DEFINE Good(j) == g[j] \in Seq(S) /\ Len(g[j]) = t[j]
             U == {k \in Nat : k + 1 <= n => Good(k + 1)}
  <2> HIDE DEF g
  <2>1. \A i \in 1..n : g[i] = IF i = 1 THEN seqs[i] ELSE g[i - 1] \o seqs[i]
    BY <1>7
  <2>2. /\ t[0] = 0 /\ \A i \in 0..n : t[i] \in Nat
        /\ \A i \in 1..n : t[i] = t[i - 1] + Len(seqs[i])
    BY ThroughFacts
  <2> HIDE DEF t
  <2>3. 0 \in U
    <3>1. SUFFICES ASSUME 1 <= n PROVE Good(1)
      OBVIOUS
    <3>2. g[1] = seqs[1] /\ seqs[1] \in Seq(S) /\ t[1] = t[0] + Len(seqs[1])
      BY <2>1, <2>2, <3>1, <1>1
    <3>3. QED
      BY <2>2, <3>2
  <2>4. ASSUME NEW k \in Nat, k \in U PROVE k + 1 \in U
    <3>1. SUFFICES ASSUME k + 2 <= n PROVE Good(k + 2)
      OBVIOUS
    <3>2. Good(k + 1)
      BY <2>4, <3>1
    <3>3. k + 2 \in 1..n /\ k + 2 # 1 /\ (k + 2) - 1 = k + 1
      BY <3>1
    <3>4. g[k + 2] = g[k + 1] \o seqs[k + 2] /\ seqs[k + 2] \in Seq(S)
      BY <3>3, <2>1, <1>1
    <3>5. /\ g[k + 2] \in Seq(S)
          /\ Len(g[k + 2]) = Len(g[k + 1]) + Len(seqs[k + 2])
      <4>1. g[k + 1] \in Seq(S)
        BY <3>2
      <4> HIDE DEF Good
      <4>2. /\ g[k + 1] \o seqs[k + 2] \in Seq(S)
            /\ Len(g[k + 1] \o seqs[k + 2]) = Len(g[k + 1]) + Len(seqs[k + 2])
        BY <4>1, <3>4, ConcatProperties
      <4>3. QED
        BY <4>2, <3>4
    <3>6. t[k + 2] = t[k + 1] + Len(seqs[k + 2])
      BY <3>3, <2>2
    <3>7. QED
      BY <3>2, <3>5, <3>6
  <2>5. \A k \in Nat : k \in U
    <3> HIDE DEF U
    <3>1. QED
      BY <2>3, <2>4, SetInduction
  <2>6. n - 1 \in Nat /\ (n - 1) + 1 = n /\ n <= n
    BY <1>8
  <2>7. (n - 1) + 1 <= n => Good((n - 1) + 1)
    BY <2>5, <2>6
  <2> HIDE DEF n
  <2>8. QED
    BY <2>6, <2>7
<1>9. FlattenSeq(seqs) = IF n = 0 THEN seqs ELSE g[n]
  BY DEF FlattenSeq
<1>10. ASSUME n = 0 PROVE seqs \in Seq(S) /\ Len(seqs) = t[n]
  <2>1. t[0] = 0
    BY ThroughFacts
  <2>2. seqs = <<>>
    BY <1>10
  <2>3. QED
    BY <1>10, <2>1, <2>2
<1>11. t[n] = Through(lens)[Len(lens)]
  OBVIOUS
<1>12. QED
  BY <1>8, <1>9, <1>10, <1>11


-----------------------------------------------------------------------------
(* The same sequences, put together from the front or from the back.       *)

(* f[k] is what the first k of seqs make together.                         *)
Partials(S, seqs, k, f) ==
  /\ f \in [0..k -> Seq(S)]
  /\ f[0] = <<>>
  /\ \A i \in 1..k : f[i] = f[i - 1] \o seqs[i]

(* Every sequence of sequences has its partial concatenations.             *)
LEMMA PartialsExist ==
  ASSUME NEW S, NEW seqs \in Seq(Seq(S))
  PROVE  \E f : Partials(S, seqs, Len(seqs), f)
<1> DEFINE n == Len(seqs)
           T == {k \in Nat : k <= n => \E f : Partials(S, seqs, k, f)}
<1>1. 0 \in T
  <2>1. Partials(S, seqs, 0, [i \in 0..0 |-> <<>>])
    BY DEF Partials
  <2> QED  BY <2>1
<1>2. ASSUME NEW k \in Nat, k \in T PROVE k + 1 \in T
  <2>1. SUFFICES ASSUME k + 1 <= n PROVE \E f : Partials(S, seqs, k + 1, f)
    OBVIOUS
  <2>2. PICK f : Partials(S, seqs, k, f)
    BY <1>2, <2>1
  <2> DEFINE g == [i \in 0..(k + 1) |-> IF i = k + 1 THEN f[k] \o seqs[k + 1] ELSE f[i]]
  <2>3. f[k] \o seqs[k + 1] \in Seq(S)
    <3>1. seqs[k + 1] \in Seq(S) /\ f[k] \in Seq(S)
      BY <2>1, <2>2 DEF Partials
    <3> QED  BY <3>1, ConcatProperties
  <2>4. g \in [0..(k + 1) -> Seq(S)] /\ g[0] = <<>>
    BY <2>2, <2>3 DEF Partials
  <2>5. ASSUME NEW i \in 1..(k + 1) PROVE g[i] = g[i - 1] \o seqs[i]
    <3>1. CASE i = k + 1
      <4>0. i - 1 \in 0..(k + 1) /\ i - 1 # k + 1 /\ i - 1 = k /\ k + 1 \in 0..(k + 1)
        BY <3>1
      <4>1. g[i] = f[k] \o seqs[i]
        <5>1. g[k + 1] = f[k] \o seqs[k + 1]
          BY <4>0
        <5> HIDE DEF g
        <5> QED  BY <3>1, <5>1
      <4>2. g[i - 1] = f[k]
        BY <4>0
      <4> HIDE DEF g
      <4> QED  BY <4>1, <4>2
    <3>2. CASE i # k + 1
      <4>1. i \in 1..k /\ g[i] = f[i] /\ g[i - 1] = f[i - 1]
        BY <3>2
      <4> QED  BY <4>1, <2>2 DEF Partials
    <3> QED  BY <3>1, <3>2
  <2>6. Partials(S, seqs, k + 1, g)
    BY <2>4, <2>5 DEF Partials
  <2> QED  BY <2>6
<1>3. \A k \in Nat : k \in T
  <2> HIDE DEF T
  <2> QED  BY <1>1, <1>2, SetInduction
<1>4. n \in Nat /\ n <= n
  OBVIOUS
<1> QED  BY <1>3, <1>4

(* FlattenSeq is the last of them.                                         *)
LEMMA FlattenPartials ==
  ASSUME NEW S, NEW seqs \in Seq(Seq(S)), NEW f, Partials(S, seqs, Len(seqs), f)
  PROVE  FlattenSeq(seqs) = f[Len(seqs)]
<1> DEFINE n == Len(seqs)
           Def(h) == h = [i \in 1..n |-> IF i = 1 THEN seqs[i] ELSE h[i - 1] \o seqs[i]]
           g == CHOOSE h : Def(h)
           e == [i \in 1..n |-> f[i]]
<1>1. f[0] = <<>> /\ \A i \in 1..n : f[i] = f[i - 1] \o seqs[i] /\ f[i] \in Seq(S)
  BY SMTT(30) DEF Partials
<1>2. ASSUME 1 <= n PROVE f[1] = seqs[1]
  <2>1. 1 \in 1..n /\ seqs[1] \in Seq(S) /\ 1 - 1 = 0
    BY <1>2
  <2>2. <<>> \o seqs[1] = seqs[1]
    BY <2>1, ConcatEmptySeq
  <2> QED  BY <1>1, <2>1, <2>2
<1>3. Def(e)
  <2>1. ASSUME NEW i \in 1..n
        PROVE  e[i] = IF i = 1 THEN seqs[i] ELSE e[i - 1] \o seqs[i]
    <3>1. CASE i = 1
      BY <1>2, <3>1
    <3>2. CASE i # 1
      <4>1. i - 1 \in 1..n
        BY <3>2
      <4>2. e[i] = f[i] /\ e[i - 1] = f[i - 1] /\ f[i] = f[i - 1] \o seqs[i]
        BY <1>1, <4>1
      <4> HIDE DEF e
      <4> QED  BY <3>2, <4>2
    <3> QED  BY <3>1, <3>2
  <2> QED  BY <2>1
<1>4. Def(g)
  BY <1>3
<1>5. \A i \in 1..n : g[i] = IF i = 1 THEN seqs[i] ELSE g[i - 1] \o seqs[i]
  <2> HIDE DEF g
  <2> QED  BY <1>4
<1>6. FlattenSeq(seqs) = IF n = 0 THEN seqs ELSE g[n]
  BY DEF FlattenSeq
<1> HIDE DEF g
<1> DEFINE U == {k \in Nat : k + 1 <= n => g[k + 1] = f[k + 1]}
<1>7. 0 \in U
  BY <1>2, <1>5
<1>8. ASSUME NEW k \in Nat, k \in U PROVE k + 1 \in U
  <2>1. SUFFICES ASSUME k + 2 <= n PROVE g[k + 2] = f[k + 2]
    OBVIOUS
  <2>2. k + 2 \in 1..n /\ k + 2 # 1 /\ (k + 2) - 1 = k + 1 /\ k + 1 <= n
    BY <2>1
  <2>3. g[k + 2] = g[k + 1] \o seqs[k + 2] /\ f[k + 2] = f[k + 1] \o seqs[k + 2]
    <3>1. \A i \in 1..n : i # 1 => g[i] = g[i - 1] \o seqs[i]
      BY <1>5
    <3> QED  BY <1>1, <2>2, <3>1
  <2>4. g[k + 1] = f[k + 1]
    BY <1>8, <2>2
  <2> QED  BY <2>3, <2>4
<1>9. \A k \in Nat : k \in U
  <2> HIDE DEF U
  <2> QED  BY <1>7, <1>8, SetInduction
<1>10. CASE n = 0
  BY <1>1, <1>6, <1>10
<1>11. CASE n # 0
  <2>1. n - 1 \in Nat /\ (n - 1) + 1 = n /\ n <= n
    BY <1>11
  <2>2. n - 1 \in U
    BY <1>9, <2>1
  <2> QED  BY <1>6, <1>11, <2>1, <2>2
<1> QED  BY <1>10, <1>11

(* One more sequence at the end.                                           *)
LEMMA FlattenAppend ==
  ASSUME NEW S, NEW seqs \in Seq(Seq(S)), NEW s \in Seq(S)
  PROVE  FlattenSeq(Append(seqs, s)) = FlattenSeq(seqs) \o s
<1> DEFINE n == Len(seqs)
<1>1. PICK f : Partials(S, seqs, n, f)
  BY PartialsExist
<1> DEFINE new == Append(seqs, s)
           g == [i \in 0..(n + 1) |-> IF i = n + 1 THEN f[n] \o s ELSE f[i]]
<1>2. /\ new \in Seq(Seq(S)) /\ Len(new) = n + 1 /\ new[n + 1] = s
      /\ \A i \in 1..n : new[i] = seqs[i]
  BY AppendProperties
<1>3. f[n] \in Seq(S) /\ f[n] \o s \in Seq(S) /\ n \in Nat
  <2>1. f[n] \in Seq(S)
    BY <1>1 DEF Partials
  <2> QED  BY <2>1, ConcatProperties
<1> HIDE DEF new, n
<1>4. Partials(S, new, n + 1, g)
  <2>1. g \in [0..(n + 1) -> Seq(S)] /\ g[0] = <<>>
    BY <1>1, <1>3 DEF Partials
  <2>2. ASSUME NEW i \in 1..(n + 1) PROVE g[i] = g[i - 1] \o new[i]
    <3>1. CASE i = n + 1
      <4>1. g[i] = f[n] \o s /\ g[i - 1] = f[n] /\ new[i] = s
        BY <1>2, <1>3, <3>1
      <4> QED  BY <4>1
    <3>2. CASE i # n + 1
      <4>1. i \in 1..n /\ g[i] = f[i] /\ g[i - 1] = f[i - 1] /\ new[i] = seqs[i]
        BY <1>2, <1>3, <3>2
      <4> QED  BY <4>1, <1>1 DEF Partials
    <3> QED  BY <3>1, <3>2
  <2> QED  BY <2>1, <2>2 DEF Partials
<1>5. FlattenSeq(new) = g[n + 1] /\ g[n + 1] = f[n] \o s
  <2> HIDE DEF g
  <2>1. FlattenSeq(new) = g[n + 1]
    BY <1>2, <1>4, FlattenPartials
  <2> QED  BY <2>1, <1>3 DEF g
<1>6. FlattenSeq(seqs) = f[n]
  BY <1>1, FlattenPartials DEF n
<1> QED  BY <1>5, <1>6 DEF new

(* Two sequences put together: where the elements of each are.             *)
LEMMA Joins ==
  ASSUME NEW S, NEW s \in Seq(S), NEW t \in Seq(S), NEW both, both = s \o t
  PROVE  /\ both \in Seq(S) /\ Len(both) = Len(s) + Len(t)
         /\ \A i \in 1..Len(s) : both[i] = s[i]
         /\ \A i \in 1..Len(t) : both[Len(s) + i] = t[i]
  OBVIOUS

(* A sequence before two others: they can be put together first.           *)
LEMMA Reassociate ==
  ASSUME NEW U, NEW s \in Seq(U)
  PROVE  \A t \in Seq(U), u \in Seq(U) : s \o (t \o u) = (s \o t) \o u
<1>1. ASSUME NEW t \in Seq(U), NEW u \in Seq(U)
      PROVE  s \o (t \o u) = (s \o t) \o u
  BY ConcatAssociative, SMTT(30)
<1> QED  BY <1>1

(* One more sequence at the beginning.                                     *)
LEMMA FlattenCons ==
  ASSUME NEW S, NEW s \in Seq(S), NEW seqs \in Seq(Seq(S)), NEW new \in Seq(Seq(S)),
         Len(new) = Len(seqs) + 1, new[1] = s,
         \A i \in 1..Len(seqs) : new[i + 1] = seqs[i]
  PROVE  FlattenSeq(new) = s \o FlattenSeq(seqs)
<1>0. \A t \in Seq(S), u \in Seq(S) : s \o (t \o u) = (s \o t) \o u
  BY Reassociate, SMTT(30)
<1> DEFINE n == Len(seqs)
<1>1. PICK f : Partials(S, seqs, n, f)
  BY PartialsExist
<1> DEFINE g == [i \in 0..(n + 1) |-> IF i = 0 THEN <<>> ELSE s \o f[i - 1]]
<1>2. n \in Nat /\ \A i \in 0..n : f[i] \in Seq(S) /\ s \o f[i] \in Seq(S)
  <2>1. \A i \in 0..n : f[i] \in Seq(S)
    BY <1>1 DEF Partials
  <2> QED  BY <2>1, ConcatProperties
<1>3. /\ f[0] = <<>> /\ \A i \in 1..n : f[i] = f[i - 1] \o seqs[i]
      /\ \A i \in 1..n : seqs[i] \in Seq(S)
  <2>1. \A i \in 1..n : seqs[i] \in Seq(S)
    OBVIOUS
  <2> QED  BY <1>1, <2>1 DEF Partials
<1>4. Partials(S, new, n + 1, g)
  <2>1. g \in [0..(n + 1) -> Seq(S)] /\ g[0] = <<>>
    <3>1. \A i \in 1..(n + 1) : i - 1 \in 0..n
      BY <1>2
    <3>2. \A i \in 0..(n + 1) : (IF i = 0 THEN <<>> ELSE s \o f[i - 1]) \in Seq(S)
      BY <1>2, <3>1
    <3> QED  BY <1>2, <3>2
  <2>2. ASSUME NEW i \in 1..(n + 1) PROVE g[i] = g[i - 1] \o new[i]
    <3>1. CASE i = 1
      <4>0. 1 \in 0..(n + 1) /\ 0 \in 0..(n + 1) /\ 1 - 1 = 0 /\ 1 # 0
        BY <1>2
      <4>1. g[1] = s \o f[0] /\ g[0] = <<>>
        BY <4>0
      <4>2. s \o <<>> = s /\ <<>> \o s = s
        BY ConcatEmptySeq
      <4> HIDE DEF g
      <4>3. g[1] = s /\ g[0] = <<>> /\ new[1] = s
        BY <1>3, <4>1, <4>2
      <4> QED  BY <3>1, <4>2, <4>3
    <3>2. CASE i # 1
      <4>1. i - 1 \in 1..n /\ i - 2 \in 0..n /\ (i - 1) - 1 = i - 2 /\ (i - 1) + 1 = i
        BY <1>2, <3>2
      <4>2. g[i] = s \o f[i - 1] /\ g[i - 1] = s \o f[i - 2]
        <5>1. /\ i \in 0..(n + 1) /\ i # 0
              /\ i - 1 \in 0..(n + 1) /\ i - 1 # 0 /\ (i - 1) - 1 = i - 2
          BY <1>2, <4>1
        <5>2. g[i] = s \o f[i - 1]
          BY <5>1
        <5>3. g[i - 1] = s \o f[(i - 1) - 1]
          BY <5>1
        <5> HIDE DEF g
        <5> QED  BY <5>1, <5>2, <5>3
      <4>3. f[i - 1] = f[i - 2] \o seqs[i - 1] /\ new[i] = seqs[i - 1]
        BY <1>3, <4>1
      <4>4. s \o (f[i - 2] \o seqs[i - 1]) = (s \o f[i - 2]) \o seqs[i - 1]
        <5>1. f[i - 2] \in Seq(S) /\ seqs[i - 1] \in Seq(S)
          BY <1>2, <1>3, <4>1
        <5> HIDE DEF g
        <5> QED  BY <1>0, <5>1
      <4> HIDE DEF g
      <4> QED  BY <4>2, <4>3, <4>4
    <3> QED  BY <3>1, <3>2
  <2> QED  BY <2>1, <2>2 DEF Partials
<1>5. FlattenSeq(new) = g[n + 1] /\ g[n + 1] = s \o f[n]
  <2>1. n + 1 # 0 /\ (n + 1) - 1 = n /\ n + 1 \in 0..(n + 1)
    BY <1>2
  <2>2. g[n + 1] = s \o f[n]
    BY <2>1
  <2> HIDE DEF g
  <2>3. FlattenSeq(new) = g[n + 1]
    BY <1>4, FlattenPartials
  <2> QED  BY <2>2, <2>3
<1>6. FlattenSeq(seqs) = f[n]
  BY <1>1, FlattenPartials
<1> QED  BY <1>5, <1>6


-----------------------------------------------------------------------------
(* The loop of mtc_reader_v_read stops at the same block as that of        *)
(* mtc_fd_link_pop_iov when it is given no more than the vector has room   *)
(* for: Filled, which may look behind the end of the vector, never does.   *)
LEMMA FilledIsConsumed ==
  ASSUME NEW lens \in Seq(Nat \ {0}), NEW n \in Nat, n <= Through(lens)[Len(lens)]
  PROVE  Filled(lens, n) = Consumed(lens, n)
<1> DEFINE t == Through(lens)
           P(k) == /\ FillStops(lens, n, k)
                   /\ \A i \in 0..(k - 1) : ~FillStops(lens, n, i)
           c == Consumed(lens, n)
<1>1. lens \in Seq(Nat) /\ Len(lens) \in Nat
  OBVIOUS
<1>2. /\ \A i \in 0..Len(lens) : t[i] \in Nat
      /\ \A i \in 0..(Len(lens) - 1) :
           t[i + 1] = t[i] + lens[i + 1] /\ lens[i + 1] \in Nat \ {0}
  <2>1. ASSUME NEW i \in 0..(Len(lens) - 1)
        PROVE  t[i + 1] = t[i] + lens[i + 1] /\ lens[i + 1] \in Nat \ {0}
    <3>1. i + 1 \in 1..Len(lens) /\ (i + 1) - 1 = i
      BY <1>1
    <3>2. t[i + 1] = t[(i + 1) - 1] + lens[i + 1]
      BY <1>1, <3>1, ThroughFacts
    <3> HIDE DEF t
    <3> QED  BY <3>1, <3>2
  <2> QED  BY <1>1, <2>1, ThroughFacts
<1>3. /\ c \in 0..Len(lens) /\ t[c] <= n
      /\ c < Len(lens) => n < t[c + 1]
  BY <1>1, ConsumedFacts
<1> HIDE DEF c
<1>4. P(c)
  <2>1. FillStops(lens, n, c)
    <3>1. CASE c = Len(lens)
      <4>1. n - t[c] = 0
        BY <1>1, <1>2, <1>3, <3>1
      <4> QED  BY <4>1 DEF FillStops, Left
    <3>2. CASE c # Len(lens)
      <4>1. c < Len(lens) /\ c \in 0..(Len(lens) - 1) /\ t[c] \in Nat
        BY <1>1, <1>2, <1>3, <3>2
      <4>2. n < t[c + 1] /\ t[c + 1] = t[c] + lens[c + 1] /\ lens[c + 1] \in Nat
        BY <1>2, <1>3, <4>1
      <4> HIDE DEF t
      <4>3. n - t[c] < lens[c + 1]
        BY <4>1, <4>2
      <4> QED  BY <4>3 DEF FillStops, Left, t
    <3> QED  BY <3>1, <3>2
  <2>2. ASSUME NEW i \in 0..(c - 1) PROVE ~FillStops(lens, n, i)
    <3>1. /\ i \in 0..(Len(lens) - 1) /\ i + 1 \in 0..Len(lens) /\ c \in (i + 1)..Len(lens)
      BY <1>1, <1>3
    <3>2. t[i + 1] <= t[c]
      BY <1>1, <3>1, ThroughMonotone
    <3>3. /\ t[i + 1] = t[i] + lens[i + 1] /\ lens[i + 1] \in Nat \ {0}
          /\ t[i] \in Nat /\ t[c] \in Nat
      BY <1>2, <1>3, <3>1
    <3> HIDE DEF t
    <3>4. n - t[i] # 0 /\ ~(n - t[i] < lens[i + 1])
      BY <1>3, <3>2, <3>3, SMTT(30)
    <3> QED  BY <3>4 DEF FillStops, Left, t
  <2> QED  BY <2>1, <2>2
<1> DEFINE f == Filled(lens, n)
<1>5. f = CHOOSE k \in 0..Len(lens) : P(k)
  BY DEF Filled
<1>6. f \in 0..Len(lens) /\ P(f)
  <2> HIDE DEF P
  <2>1. \E k \in 0..Len(lens) : P(k)
    BY <1>3, <1>4
  <2> QED  BY <1>5, <2>1
<1> HIDE DEF f
<1>7. ~(f < c)
  <2>1. f < c => f \in 0..(c - 1)
    BY <1>1, <1>3, <1>6
  <2> QED  BY <1>4, <1>6, <2>1
<1>8. ~(c < f)
  <2>1. c < f => c \in 0..(f - 1)
    BY <1>1, <1>3, <1>6
  <2> QED  BY <1>4, <1>6, <2>1
<1>9. f = c
  BY <1>1, <1>3, <1>6, <1>7, <1>8
<1> QED  BY <1>9 DEF f, c

(* What is left of the room in the blocks once n units were stored in them.*)
LEMMA FillRestFacts ==
  ASSUME NEW lens \in Seq(Nat \ {0}), NEW n \in Nat, n <= Through(lens)[Len(lens)]
  PROVE  LET rest == FillRest(lens, n)
         IN  /\ rest \in Seq(Nat \ {0}) /\ Len(rest) <= Len(lens)
             /\ Through(rest)[Len(rest)] = Through(lens)[Len(lens)] - n
<1> DEFINE rest == FillRest(lens, n)
           k == Consumed(lens, n)
           t == Through(lens)
<1>0. lens \in Seq(Nat) /\ Len(lens) \in Nat
  OBVIOUS
<1>1. rest = ConsumeRest(lens, n)
  BY FilledIsConsumed DEF FillRest, ConsumeRest
<1>2. /\ rest \in Seq(Nat \ {0}) /\ Len(rest) = Len(lens) - k
      /\ \A i \in 1..Len(rest) : Through(rest)[i] = t[k + i] - n
  BY <1>1, ConsumeRestFacts
<1>3. k \in 0..Len(lens) /\ t[k] <= n /\ t[k] \in Nat
  BY <1>0, ConsumedFacts, ThroughFacts
<1>4. n <= t[Len(lens)] /\ t[Len(lens)] \in Nat
  BY <1>0, ThroughFacts
<1>5. Through(rest)[0] = 0
  <2>1. rest \in Seq(Nat)
    BY <1>2
  <2> QED  BY <2>1, ThroughFacts
<1> HIDE DEF rest, k, t
<1>6. CASE k = Len(lens)
  <2>1. Len(rest) = 0 /\ t[Len(lens)] - n = 0
    BY <1>0, <1>2, <1>3, <1>4, <1>6
  <2> QED  BY <1>0, <1>2, <1>5, <2>1 DEF rest, t
<1>7. CASE k # Len(lens)
  <2>1. Len(rest) \in 1..Len(rest) /\ k + Len(rest) = Len(lens) /\ Len(rest) <= Len(lens)
    BY <1>0, <1>2, <1>3, <1>7, SMTT(30)
  <2>2. Through(rest)[Len(rest)] = t[Len(lens)] - n
    BY <1>2, <2>1
  <2> QED  BY <1>2, <2>1, <2>2 DEF rest, t
<1> QED  BY <1>6, <1>7

(* Sequences over S put together are one over S.                           *)
LEMMA FlattenType ==
  ASSUME NEW S, NEW u \in Seq(Seq(S))
  PROVE  FlattenSeq(u) \in Seq(S)
<1> DEFINE lens == [i \in 1..Len(u) |-> Len(u[i])]
<1>1. lens \in Seq(Nat) /\ Len(lens) = Len(u) /\ \A i \in 1..Len(u) : lens[i] = Len(u[i])
  <2>1. \A i \in 1..Len(u) : Len(u[i]) \in Nat
    <3> TAKE i \in 1..Len(u)
    <3>1. u[i] \in Seq(S)
      OBVIOUS
    <3> QED  BY <3>1
  <2> QED  BY <2>1
<1> HIDE DEF lens
<1> QED  BY <1>1, FlattenFacts

(* Two lists of sequences put together list by list.                       *)
LEMMA FlattenConcat ==
  ASSUME NEW S, NEW s \in Seq(Seq(S)), NEW t \in Seq(Seq(S))
  PROVE  FlattenSeq(s \o t) = FlattenSeq(s) \o FlattenSeq(t)
<1> DEFINE P(u) == FlattenSeq(s \o u) = FlattenSeq(s) \o FlattenSeq(u)
           T == {m \in Nat : \A u \in Seq(Seq(S)) : Len(u) = m => P(u)}
<1>0. \A u \in Seq(Seq(S)) : FlattenSeq(u) \in Seq(S)
  BY FlattenType
<1>1. 0 \in T
  <2>1. SUFFICES ASSUME NEW u \in Seq(Seq(S)), Len(u) = 0 PROVE P(u)
    OBVIOUS
  <2>2. u = <<>>
    BY <2>1
  <2>3. FlattenSeq(<<>>) = <<>>
    BY DEF FlattenSeq
  <2>4. s \o <<>> = s /\ FlattenSeq(s) \o <<>> = FlattenSeq(s)
    BY <1>0, ConcatEmptySeq
  <2> QED  BY <2>2, <2>3, <2>4
<1>2. ASSUME NEW m \in Nat, m \in T PROVE m + 1 \in T
  <2>1. SUFFICES ASSUME NEW u \in Seq(Seq(S)), Len(u) = m + 1 PROVE P(u)
    OBVIOUS
  <2> DEFINE front == SubSeq(u, 1, m)
             last  == u[m + 1]
  <2>2. last \in Seq(S) /\ front \in Seq(Seq(S)) /\ Len(front) = m
    <3>1. 1 \in 1..(m + 2) /\ m \in 0..Len(u) /\ m + 1 \in 1..Len(u)
      BY <2>1
    <3>2. \A i \in 1..m : u[i] \in Seq(S)
      BY <2>1
    <3> QED  BY <3>1, <3>2, SubSeqProperties
  <2>3. u = Append(front, last)
    <3>1. \A i \in 1..m : front[i] = u[i]
      BY <2>1, SubSeqProperties
    <3> HIDE DEF front, last
    <3>2. /\ Append(front, last) \in Seq(Seq(S)) /\ Len(Append(front, last)) = m + 1
          /\ \A i \in 1..m : Append(front, last)[i] = front[i]
          /\ Append(front, last)[m + 1] = last
      BY <2>2, AppendProperties
    <3>3. u[m + 1] = last
      BY DEF last
    <3> DEFINE a == Append(front, last)
    <3>4. /\ a \in Seq(Seq(S)) /\ Len(a) = Len(u)
          /\ \A i \in 1..Len(u) : a[i] = u[i]
      BY <2>1, <3>1, <3>2, <3>3
    <3> HIDE DEF a
    <3>5. a = u
      BY <3>4, SeqEqual
    <3> QED  BY <3>5 DEF a
  <2> HIDE DEF front, last
  <2>4. P(front)
    BY <1>2, <2>2
  <2> DEFINE both == s \o front
  <2>5. both \in Seq(Seq(S))
    BY <2>2, ConcatProperties
  <2>6. s \o u = Append(both, last)
    <3>1. /\ Append(both, last) = both \o <<last>> /\ Append(front, last) = front \o <<last>>
          /\ <<last>> \in Seq(Seq(S))
      BY <2>2, <2>5, AppendIsConcat
    <3>2. s \o (front \o <<last>>) = (s \o front) \o <<last>>
      BY <2>2, <3>1, ConcatAssociative, SMTT(30)
    <3> QED  BY <2>3, <3>1, <3>2
  <2> HIDE DEF both
  <2>7. FlattenSeq(s \o u) = FlattenSeq(both) \o last
    BY <2>2, <2>5, <2>6, FlattenAppend
  <2>8. FlattenSeq(u) = FlattenSeq(front) \o last
    BY <2>2, <2>3, FlattenAppend
  <2>9. FlattenSeq(both) = FlattenSeq(s) \o FlattenSeq(front)
    BY <2>4 DEF both
  <2> DEFINE x == FlattenSeq(s)
             y == FlattenSeq(front)
  <2>10. x \in Seq(S)
    BY <1>0
  <2>11. y \in Seq(S)
    BY <1>0, <2>2
  <2> HIDE DEF x, y
  <2>12. \A v \in Seq(S), w \in Seq(S) : x \o (v \o w) = (x \o v) \o w
    BY ONLY <2>10, Reassociate, SMTT(30)
  <2>13. x \o (y \o last) = (x \o y) \o last
    BY <2>2, <2>10, <2>11, <2>12
  <2> QED  BY <2>7, <2>8, <2>9, <2>13 DEF x, y
<1>3. \A m \in Nat : m \in T
  <2> HIDE DEF T
  <2> QED  BY <1>1, <1>2, SetInduction
<1>4. Len(t) \in Nat
  OBVIOUS
<1> QED  BY <1>3, <1>4

-----------------------------------------------------------------------------
(* What the loop leaves is as it was but for the first of it, and that too *)
(* when the loop ends between two blocks.                                  *)
LEMMA ConsumeRestSame ==
  ASSUME NEW lens \in Seq(Nat \ {0}), NEW n \in Nat,
         NEW i \in 1..Len(ConsumeRest(lens, n)),
         i > 1 \/ n <= Through(lens)[Consumed(lens, n)]
  PROVE  ConsumeRest(lens, n)[i] = lens[Consumed(lens, n) + i]
<1> DEFINE k    == Consumed(lens, n)
           rest == ConsumeRest(lens, n)
           t    == Through(lens)
           u    == Through(rest)
<1>1. /\ rest \in Seq(Nat \ {0}) /\ Len(rest) = Len(lens) - k
      /\ \A j \in 1..Len(rest) : u[j] = t[k + j] - n
  BY ConsumeRestFacts
<1>2. lens \in Seq(Nat) /\ rest \in Seq(Nat)
  BY <1>1
<1>3. k \in 0..Len(lens) /\ t[k] <= n
  BY <1>2, ConsumedFacts
<1>4. i \in 1..Len(rest) /\ (i > 1 \/ n <= t[k])
  OBVIOUS
<1> HIDE DEF k, rest
<1>5. k + i \in 1..Len(lens) /\ (k + i) - 1 = k + (i - 1) /\ i - 1 \in 0..Len(rest)
  BY <1>1, <1>3, <1>4
<1>6. /\ t[k + i] = t[(k + i) - 1] + lens[k + i] /\ lens[k + i] \in Nat
      /\ t[k + i] \in Nat /\ t[(k + i) - 1] \in Nat
  <2>1. k + i \in 0..Len(lens) /\ (k + i) - 1 \in 0..Len(lens)
    BY <1>5
  <2> QED  BY <1>2, <1>5, <2>1, ThroughFacts
<1>7. u[i] = u[i - 1] + rest[i] /\ rest[i] \in Nat /\ u[i - 1] \in Nat /\ u[0] = 0
  BY <1>2, <1>4, <1>5, ThroughFacts
<1>8. u[i] = t[k + i] - n
  BY <1>1, <1>4
<1>9. CASE i > 1
  <2>1. i - 1 \in 1..Len(rest)
    BY <1>4, <1>9
  <2>2. u[i - 1] = t[k + (i - 1)] - n
    BY <1>1, <2>1
  <2> HIDE DEF t, u
  <2>3. rest[i] = lens[k + i]
    <3>1. t[k + (i - 1)] = t[(k + i) - 1]
      BY <1>5
    <3>2. /\ t[k + i] - n = (t[(k + i) - 1] - n) + rest[i]
          /\ t[k + i] = t[(k + i) - 1] + lens[k + i]
      BY <1>6, <1>7, <1>8, <2>2, <3>1
    <3>3. /\ n \in Nat /\ lens[k + i] \in Nat /\ rest[i] \in Nat
          /\ t[k + i] \in Nat /\ t[(k + i) - 1] \in Nat
      BY <1>6, <1>7
    <3> QED  BY ONLY <3>2, <3>3, SMTT(30)
  <2> QED  BY <2>3 DEF k, rest
<1>10. CASE ~(i > 1)
  <2>1. i = 1 /\ n = t[k] /\ (k + i) - 1 = k
    <3>1. i = 1 /\ n <= t[k]
      BY <1>4, <1>10
    <3>2. (k + i) - 1 = k /\ t[k] \in Nat
      BY <1>2, <1>3, <3>1, ThroughFacts
    <3> QED  BY <1>3, <3>1, <3>2
  <2>2. u[i - 1] = 0 /\ t[(k + i) - 1] = n
    BY <1>7, <2>1
  <2> HIDE DEF t, u
  <2>3. u[i] = rest[i]
    BY <1>7, <2>2
  <2>4. t[k + i] = n + lens[k + i]
    BY <1>6, <2>2
  <2>5. rest[i] = lens[k + i]
    <3>1. rest[i] = t[k + i] - n /\ t[k + i] = n + lens[k + i]
      BY <1>8, <2>3, <2>4
    <3>2. n \in Nat /\ lens[k + i] \in Nat /\ t[k + i] \in Nat
      BY <1>6
    <3> QED  BY ONLY <3>1, <3>2
  <2> QED  BY <2>5 DEF k, rest
<1> QED  BY <1>9, <1>10

(* The loop stops at one block only.                                       *)
LEMMA ConsumedOnce ==
  ASSUME NEW lens \in Seq(Nat), NEW n \in Nat, NEW k \in 0..Len(lens),
         Through(lens)[k] <= n, k < Len(lens) => n < Through(lens)[k + 1]
  PROVE  k = Consumed(lens, n)
<1> DEFINE c == Consumed(lens, n)
<1>1. lens \in Seq(Nat) /\ Len(lens) \in Nat
  OBVIOUS
<1>2. c \in 0..Len(lens) /\ Through(lens)[c] <= n /\ (c < Len(lens) => n < Through(lens)[c + 1])
  BY <1>1, ConsumedFacts
<1> HIDE DEF c
<1>3. \A i \in 0..Len(lens) : Through(lens)[i] \in Nat
  BY <1>1, ThroughFacts
<1>4. \A i \in 0..Len(lens), j \in 0..Len(lens) :
        i < j => Through(lens)[i + 1] <= Through(lens)[j]
  <2> TAKE i \in 0..Len(lens), j \in 0..Len(lens)
  <2>1. ASSUME i < j PROVE i + 1 \in 0..Len(lens) /\ j \in (i + 1)..Len(lens)
    BY <1>1, <2>1
  <2> QED  BY <1>1, <2>1, ThroughMonotone
<1>5. ASSUME k < c PROVE FALSE
  <2>1. Through(lens)[k + 1] <= Through(lens)[c] /\ k < Len(lens)
    BY <1>1, <1>2, <1>4, <1>5
  <2>2. Through(lens)[k + 1] \in Nat /\ Through(lens)[c] \in Nat
    <3>1. k + 1 \in 0..Len(lens)
      BY <1>1, <2>1
    <3> QED  BY <1>2, <1>3, <3>1
  <2> QED  BY <1>2, <2>1, <2>2
<1>6. ASSUME c < k PROVE FALSE
  <2>1. Through(lens)[c + 1] <= Through(lens)[k] /\ c < Len(lens)
    BY <1>1, <1>2, <1>4, <1>6
  <2>2. Through(lens)[c + 1] \in Nat /\ Through(lens)[k] \in Nat
    <3>1. c + 1 \in 0..Len(lens)
      BY <1>1, <1>2, <2>1
    <3> QED  BY <1>3, <3>1
  <2> QED  BY <1>2, <2>1, <2>2
<1> QED  BY <1>1, <1>2, <1>5, <1>6 DEF c

(* The elements of a sequence behind its first k.                          *)
LEMMA Behindmost ==
  ASSUME NEW S, NEW s \in Seq(S), NEW k \in 0..Len(s)
  PROVE  LET t == SubSeq(s, k + 1, Len(s))
         IN  /\ t \in Seq(S) /\ Len(t) = Len(s) - k
             /\ \A i \in 1..(Len(s) - k) : t[i] = s[k + i]
<1> DEFINE n == Len(s)
           a == k + 1
           t == SubSeq(s, a, n)
<1>1. n \in Nat /\ k \in Nat /\ k <= n
  OBVIOUS
<1>2. /\ a \in Int /\ n \in Int /\ n - a + 1 = n - k
      /\ (~(a <= n) => n - k = 0)
      /\ \A i \in a..n : i \in 1..n
      /\ \A i \in 1..(n - k) : a + i - 1 = k + i
  BY <1>1
<1>3. \A i \in a..n : s[i] \in S
  BY <1>2, ElementOfSeq
<1> HIDE DEF a, n
<1>4. /\ t \in Seq(S) /\ Len(t) = IF a <= n THEN n - a + 1 ELSE 0
      /\ \A i \in 1..(n - a + 1) : t[i] = s[a + i - 1]
  BY <1>2, <1>3, SubSeqProperties
<1> HIDE DEF t
<1>5. Len(t) = n - k /\ \A i \in 1..(n - k) : t[i] = s[k + i]
  BY <1>2, <1>4
<1> QED  BY <1>4, <1>5 DEF n, t, a

(* What is put together of a list without its first k sequences, and of    *)
(* the next one only its end t, is an end of what the list makes.          *)
LEMMA FlattenEnd ==
  ASSUME NEW S, NEW seqs \in Seq(Seq(S)), NEW k \in Nat, k < Len(seqs),
         NEW h \in Seq(S), NEW t \in Seq(S), seqs[k + 1] = h \o t,
         NEW rest \in Seq(Seq(S)), Len(rest) = Len(seqs) - k, rest[1] = t,
         \A i \in 2..Len(rest) : rest[i] = seqs[k + i]
  PROVE  \E front \in Seq(S) : FlattenSeq(seqs) = front \o FlattenSeq(rest)
<1> DEFINE n == Len(seqs)
           a == SubSeq(seqs, 1, k)
           b == SubSeq(seqs, k + 1, n)
           c == SubSeq(seqs, k + 2, n)
<1>1. n \in Nat /\ k + 1 \in 1..n /\ \A i \in 1..n : seqs[i] \in Seq(S)
  BY ElementOfSeq
<1>2. /\ a \in Seq(Seq(S)) /\ Len(a) = k
      /\ \A i \in 1..k : a[i] = seqs[i]
  <2>1. 1 \in Int /\ k \in Int /\ k - 1 + 1 = k /\ (\A i \in 1..k : i \in 1..n /\ 1 + i - 1 = i)
        /\ (~(1 <= k) => k = 0)
    BY <1>1
  <2>2. \A i \in 1..k : seqs[i] \in Seq(S)
    BY <1>1, <2>1
  <2> QED  BY <2>1, <2>2, SubSeqProperties
<1> DEFINE m == n - k
<1>3. /\ b \in Seq(Seq(S)) /\ Len(b) = m
      /\ \A i \in 1..m : b[i] = seqs[k + i]
  <2>1. k \in 0..Len(seqs)
    BY <1>1
  <2> QED  BY <2>1, Behindmost
<1>4. /\ c \in Seq(Seq(S)) /\ Len(c) = m - 1
      /\ \A i \in 1..(m - 1) : c[i] = seqs[k + 1 + i]
  <2>1. k + 1 \in 0..Len(seqs)
    BY <1>1
  <2> DEFINE k1 == k + 1
             d == SubSeq(seqs, k1 + 1, Len(seqs))
  <2>2. k1 \in 0..Len(seqs)
    BY <2>1
  <2> HIDE DEF k1
  <2>3. /\ d \in Seq(Seq(S)) /\ Len(d) = Len(seqs) - k1
        /\ \A i \in 1..(Len(seqs) - k1) : d[i] = seqs[k1 + i]
    BY <2>2, Behindmost
  <2>4. k1 + 1 = k + 2 /\ Len(seqs) - k1 = m - 1
    BY <1>1 DEF k1
  <2>5. c = d
    BY <2>4
  <2> HIDE DEF c, d, m
  <2> QED  BY <2>3, <2>4, <2>5 DEF k1
<1>0. m \in Nat /\ m >= 1 /\ k + m = n /\ Len(rest) = m
  BY <1>1
<1> HIDE DEF a, b, c, m
<1>5. seqs = a \o b
  <2> DEFINE ab == a \o b
  <2>1. /\ ab \in Seq(Seq(S)) /\ Len(ab) = k + m
        /\ \A i \in 1..(k + m) : ab[i] = IF i <= k THEN a[i] ELSE b[i - k]
    BY <1>2, <1>3, ConcatProperties, ZenonT(30)
  <2> HIDE DEF ab
  <2>2. Len(ab) = n /\ \A i \in 1..n : ab[i] = seqs[i]
    <3>1. k + m = n
      BY <1>0
    <3>2. ASSUME NEW i \in 1..n PROVE ab[i] = seqs[i]
      <4>1. CASE i <= k
        BY <1>1, <1>2, <2>1, <3>1, <4>1
      <4>2. CASE ~(i <= k)
        <5>1. i - k \in 1..m /\ k + (i - k) = i
          BY <1>0, <1>1, <4>2
        <5> QED  BY <1>3, <2>1, <3>1, <4>2, <5>1
      <4> QED  BY <4>1, <4>2
    <3> QED  BY <2>1, <3>1, <3>2
  <2> QED  BY <2>1, <2>2, SeqEqual DEF ab
<1> DEFINE A == FlattenSeq(a)
           C == FlattenSeq(c)
<1>6. A \in Seq(S) /\ C \in Seq(S)
  BY <1>2, <1>4, FlattenType
<1>7. FlattenSeq(b) = (h \o t) \o C
  <2>1. h \o t \in Seq(S) /\ Len(b) = Len(c) + 1 /\ b[1] = h \o t
    <3>1. 1 \in 1..m /\ (m - 1) + 1 = m
      BY <1>0
    <3>2. b[1] = seqs[k + 1]
      BY <1>3, <3>1
    <3>3. h \o t \in Seq(S)
      BY ConcatProperties
    <3> QED  BY <1>3, <1>4, <3>1, <3>2, <3>3
  <2>2. \A i \in 1..Len(c) : b[i + 1] = c[i]
    <3> TAKE i \in 1..Len(c)
    <3>1. i + 1 \in 1..m /\ i \in 1..(m - 1) /\ k + (i + 1) = k + 1 + i
      BY <1>0, <1>1, <1>4
    <3>2. b[i + 1] = seqs[k + (i + 1)]
      BY <1>3, <3>1
    <3>3. c[i] = seqs[k + 1 + i]
      BY <1>4, <3>1
    <3> QED  BY <3>1, <3>2, <3>3
  <2> DEFINE ht == h \o t
  <2>3. ht \in Seq(S) /\ b[1] = ht
    BY <2>1
  <2> HIDE DEF ht
  <2>4. FlattenSeq(b) = ht \o FlattenSeq(c)
    BY <1>3, <1>4, <2>1, <2>2, <2>3, FlattenCons
  <2> QED  BY <2>4 DEF ht
<1>8. FlattenSeq(rest) = t \o C
  <2>1. Len(rest) = Len(c) + 1
    <3>1. Len(rest) = m /\ m \in Nat
      BY <1>0
    <3>2. Len(c) = m - 1
      BY <1>4
    <3> QED  BY ONLY <3>1, <3>2
  <2>2. \A i \in 1..Len(c) : rest[i + 1] = c[i]
    <3> TAKE i \in 1..Len(c)
    <3>1. i + 1 \in 2..Len(rest) /\ k + (i + 1) = k + 1 + i
      BY <1>0, <1>1, <1>4
    <3> QED  BY <1>4, <3>1
  <2> QED  BY <1>4, <2>1, <2>2, FlattenCons
<1>9. FlattenSeq(seqs) = A \o FlattenSeq(b)
  BY <1>2, <1>3, <1>5, FlattenConcat
<1> HIDE DEF A, C
<1>10. (A \o h) \in Seq(S) /\ FlattenSeq(seqs) = (A \o h) \o FlattenSeq(rest)
  <2>1. (h \o t) \o C = h \o (t \o C)
    <3>1. h \in Seq(S) /\ t \in Seq(S) /\ C \in Seq(S)
      BY <1>6
    <3> QED  BY ONLY <3>1, Reassociate
  <2> DEFINE X == t \o C
  <2>2. X \in Seq(S) /\ A \o h \in Seq(S)
    BY <1>6, ConcatProperties
  <2> HIDE DEF X
  <2>3. A \o (h \o X) = (A \o h) \o X
    <3>1. A \in Seq(S) /\ h \in Seq(S) /\ X \in Seq(S)
      BY <1>6, <2>2
    <3> QED  BY ONLY <3>1, Reassociate
  <2> QED  BY <1>7, <1>8, <1>9, <2>1, <2>2, <2>3 DEF X
<1> QED  BY <1>10

=============================================================================
