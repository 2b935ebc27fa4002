--------------------------- MODULE FramingProofs ---------------------------
(***************************************************************************)
(* What is proved of the frames, for any requests, any number of them on a  *)
(* connection and any damaged character.  The sum of a frame and the row of *)
(* frames on a stream are recursive functions: what is needed of them is    *)
(* shown by the least index that would break it (NatMin).                   *)
(***************************************************************************)
EXTENDS Framing, SequenceTheorems, WellFoundedInduction, TLAPS

Less == {ss \in Nat \X Nat : ss[1] < ss[2]}

LEMMA NatMin ==
  ASSUME NEW T \in SUBSET Nat, T # {}
  PROVE  \E n \in T : \A m \in T : n <= m
<1>1. IsWellFoundedOn(Less, Nat)
  BY NatLessThanWellFounded DEF OpToRel, Less
<1>2. PICK n \in T : \A m \in T : ~(<<m, n>> \in Less)
  BY <1>1, WFMin
<1>3. \A m \in T : ~(m < n)
  BY <1>2 DEF Less
<1> QED BY <1>3

-----------------------------------------------------------------------------
(* Running sums.                                                            *)

Running(m, s, n) ==
  s = [i \in 0..n |-> IF i = 0 THEN 0 ELSE s[i - 1] + m[i]]

LEMMA RunningExists ==
  ASSUME NEW m \in Seq(Int)
  PROVE  \A n \in 0..Len(m) : \E s \in [0..n -> Int] : Running(m, s, n)
<1> DEFINE T == {n \in 0..Len(m) : ~(\E s \in [0..n -> Int] : Running(m, s, n))}
<1> SUFFICES ASSUME T # {} PROVE FALSE
  OBVIOUS
<1>0. T \in SUBSET Nat
  OBVIOUS
<1>1. PICK n \in T : \A k \in T : n <= k
  <2> HIDE DEF T
  <2> QED BY <1>0, NatMin
<1>2. n # 0
  <2> DEFINE z == [i \in 0..0 |-> 0]
  <2>1. z \in [0..0 -> Int]
    OBVIOUS
  <2>2. \A i \in 0..0 : i = 0
    OBVIOUS
  <2>3. Running(m, z, 0)
    BY <2>2 DEF Running
  <2> QED BY <1>1, <2>1, <2>3
<1>3. PICK s \in [0..(n - 1) -> Int] : Running(m, s, n - 1)
  <2>1. n - 1 \in 0..Len(m) /\ n - 1 \notin T
    BY <1>1, <1>2
  <2> QED BY <2>1
<1> DEFINE t == [i \in 0..n |-> IF i = n THEN s[n - 1] + m[n] ELSE s[i]]
<1>4. t \in [0..n -> Int]
  BY <1>1, <1>2
<1>5. ASSUME NEW i \in 0..n PROVE t[i] = IF i = 0 THEN 0 ELSE t[i - 1] + m[i]
  <2>1. \A j \in 0..(n - 1) : s[j] = IF j = 0 THEN 0 ELSE s[j - 1] + m[j]
    BY <1>3 DEF Running
  <2>2. CASE i = n
    <3>1. n \in Nat /\ n - 1 \in 0..n /\ n - 1 # n
      BY <1>2
    <3>2. t[n - 1] = s[n - 1] /\ t[n] = s[n - 1] + m[n]
      BY <3>1
    <3> QED BY <1>2, <2>2, <3>2
  <2>3. CASE i # n
    <3>1. i \in 0..(n - 1)
      BY <2>3
    <3>2. i # 0 => i - 1 \in 0..n /\ i - 1 # n
      BY <3>1
    <3>3. i # 0 => t[i - 1] = s[i - 1]
      BY <3>2
    <3> QED BY <2>1, <2>3, <3>1, <3>3
  <2> QED BY <2>2, <2>3
<1>6. Running(m, t, n)
  BY <1>5 DEF Running
<1> QED BY <1>4, <1>6

LEMMA SumIsRunning ==
  ASSUME NEW m \in Seq(Int)
  PROVE  \E s \in [0..Len(m) -> Int] :
           /\ s[0] = 0 /\ Sum(m) = s[Len(m)]
           /\ \A i \in 1..Len(m) : s[i] = s[i - 1] + m[i]
<1> DEFINE t == CHOOSE s : Running(m, s, Len(m))
<1>1. \E s : Running(m, s, Len(m))
  BY RunningExists
<1>2. Running(m, t, Len(m))
  BY <1>1
<1>3. Sum(m) = t[Len(m)]
  BY DEF Sum, Running
<1>4. PICK u \in [0..Len(m) -> Int] : Running(m, u, Len(m))
  BY RunningExists
<1> HIDE DEF t
<1>5. \A i \in 0..Len(m) : t[i] = IF i = 0 THEN 0 ELSE t[i - 1] + m[i]
  BY <1>2 DEF Running
<1>6. \A i \in 0..Len(m) : u[i] = IF i = 0 THEN 0 ELSE u[i - 1] + m[i]
  BY <1>4 DEF Running
<1>7. ASSUME NEW i \in 0..Len(m), t[i] # u[i] PROVE FALSE
  <2> DEFINE T == {j \in 0..Len(m) : t[j] # u[j]}
  <2>0. T \in SUBSET Nat /\ T # {}
    BY <1>7
  <2>1. PICK n \in T : \A k \in T : n <= k
    <3> HIDE DEF T
    <3> QED BY <2>0, NatMin
  <2>2. n # 0 => n - 1 \in 0..Len(m) /\ n - 1 \notin T
    BY <2>1
  <2> QED BY <1>5, <1>6, <2>1, <2>2
<1>8. Sum(m) = u[Len(m)]
  BY <1>3, <1>7
<1> QED BY <1>6, <1>8

\* A character changed changes the sum by as much.
LEMMA SumOfChanged ==
  ASSUME NEW m \in Seq(Int), NEW w \in Seq(Int), Len(m) = Len(w),
         NEW p \in 1..Len(m), \A i \in 1..Len(m) : i # p => m[i] = w[i]
  PROVE  Sum(w) - Sum(m) = w[p] - m[p]
<1> DEFINE n == Len(m)
           d == w[p] - m[p]
<1>1. PICK s \in [0..n -> Int] :
        /\ s[0] = 0 /\ Sum(m) = s[n] /\ \A i \in 1..n : s[i] = s[i - 1] + m[i]
  BY SumIsRunning
<1>2. PICK t \in [0..n -> Int] :
        /\ t[0] = 0 /\ Sum(w) = t[n] /\ \A i \in 1..n : t[i] = t[i - 1] + w[i]
  <2>1. \E t \in [0..Len(w) -> Int] :
          /\ t[0] = 0 /\ Sum(w) = t[Len(w)]
          /\ \A i \in 1..Len(w) : t[i] = t[i - 1] + w[i]
    BY SumIsRunning
  <2>2. Len(w) = n
    OBVIOUS
  <2> QED BY <2>1, <2>2
<1>3. \A i \in 1..n : m[i] \in Int /\ w[i] \in Int
  OBVIOUS
<1> DEFINE T == {i \in 0..n : ~(t[i] = s[i] + (IF i < p THEN 0 ELSE d))}
<1>4. T = {}
  <2> SUFFICES ASSUME T # {} PROVE FALSE
    OBVIOUS
  <2>1. T \in SUBSET Nat
    OBVIOUS
  <2>2. PICK k \in T : \A j \in T : k <= j
    <3> HIDE DEF T
    <3> QED BY <2>1, NatMin
  <2>3. k # 0
    BY <1>1, <1>2
  <2>4. k \in 1..n /\ k - 1 \in 0..n /\ k - 1 \notin T
    BY <2>2, <2>3
  <2>5. t[k - 1] = s[k - 1] + (IF k - 1 < p THEN 0 ELSE d)
    BY <2>4
  <2>6. /\ t[k] = t[k - 1] + w[k] /\ s[k] = s[k - 1] + m[k]
        /\ t[k - 1] \in Int /\ s[k - 1] \in Int /\ m[k] \in Int /\ w[k] \in Int
        /\ m[p] \in Int /\ w[p] \in Int
    BY <1>1, <1>2, <1>3, <2>4
  <2>7. t[k] = s[k] + (IF k < p THEN 0 ELSE d)
    <3>1. CASE k < p
      BY <2>4, <2>5, <2>6, <3>1
    <3>2. CASE k = p
      BY <2>4, <2>5, <2>6, <3>2
    <3>3. CASE k > p
      <4>1. m[k] = w[k] /\ ~(k - 1 < p) /\ ~(k < p)
        BY <2>4, <3>3
      <4> HIDE DEF n, T
      <4> QED BY <2>5, <2>6, <4>1
    <3> QED BY <2>4, <3>1, <3>2, <3>3
  <2> QED BY <2>2, <2>7
<1>5. n \in 0..n /\ n \notin T /\ ~(n < p)
  BY <1>4
<1>6. t[n] = s[n] + d
  BY <1>5
<1>7. t[n] \in Int /\ s[n] \in Int /\ d \in Int
  BY <1>1, <1>2, <1>3, <1>5
<1> QED BY <1>1, <1>2, <1>6, <1>7

LEMMA SumType ==
  ASSUME NEW m \in Seq(Int)
  PROVE  Sum(m) \in Int
<1>1. PICK s \in [0..Len(m) -> Int] : Sum(m) = s[Len(m)]
  BY SumIsRunning
<1> QED BY <1>1

-----------------------------------------------------------------------------
(* Frames in a row.                                                         *)

Joining(ss, f, n) == f = [i \in 1..n |-> IF i = 1 THEN ss[i] ELSE f[i - 1] \o ss[i]]

LEMMA JoiningExists ==
  ASSUME NEW ss \in Seq(Seq(Char))
  PROVE  \A n \in 1..Len(ss) : \E f \in [1..n -> Seq(Char)] : Joining(ss, f, n)
<1> DEFINE T == {n \in 1..Len(ss) : ~(\E f \in [1..n -> Seq(Char)] : Joining(ss, f, n))}
<1> SUFFICES ASSUME T # {} PROVE FALSE
  OBVIOUS
<1>0. T \in SUBSET Nat
  OBVIOUS
<1>1. PICK n \in T : \A k \in T : n <= k
  <2> HIDE DEF T
  <2> QED BY <1>0, NatMin
<1>2. n # 1
  <2> SUFFICES ASSUME n = 1 PROVE FALSE
    OBVIOUS
  <2> DEFINE z == [i \in 1..1 |-> ss[1]]
  <2>1. z \in [1..1 -> Seq(Char)]
    BY <1>1
  <2>2. \A i \in 1..1 : i = 1
    OBVIOUS
  <2>3. Joining(ss, z, 1)
    BY <2>2 DEF Joining
  <2> QED BY <1>1, <2>1, <2>3
<1>3. PICK f \in [1..(n - 1) -> Seq(Char)] : Joining(ss, f, n - 1)
  <2>1. n \in 1..Len(ss) /\ Len(ss) \in Nat
    OBVIOUS
  <2>2. n - 1 \in 1..Len(ss)
    BY <1>2, <2>1
  <2>3. n - 1 \notin T
    <3> HIDE DEF T
    <3> QED BY <1>0, <1>1, <2>1
  <2> QED BY <2>2, <2>3
<1> DEFINE g == [i \in 1..n |-> IF i = n THEN f[n - 1] \o ss[n] ELSE f[i]]
<1>4. g \in [1..n -> Seq(Char)]
  <2>1. f[n - 1] \in Seq(Char) /\ ss[n] \in Seq(Char)
    BY <1>2, <1>1
  <2>2. f[n - 1] \o ss[n] \in Seq(Char)
    BY <2>1, ConcatProperties
  <2> QED BY <2>2
<1>5. ASSUME NEW i \in 1..n PROVE g[i] = IF i = 1 THEN ss[i] ELSE g[i - 1] \o ss[i]
  <2>1. \A j \in 1..(n - 1) : f[j] = IF j = 1 THEN ss[j] ELSE f[j - 1] \o ss[j]
    BY <1>3 DEF Joining
  <2>2. CASE i = n
    <3>1. n \in 1..n /\ n - 1 \in 1..n /\ n - 1 # n
      BY <1>1, <1>2
    <3>2. g[n - 1] = f[n - 1] /\ g[n] = f[n - 1] \o ss[n]
      BY <3>1
    <3> QED BY <1>2, <2>2, <3>2
  <2>3. CASE i # n
    <3>1. i \in 1..(n - 1)
      BY <2>3
    <3>2. i # 1 => i - 1 \in 1..n /\ i - 1 # n
      BY <3>1
    <3>3. i # 1 => g[i - 1] = f[i - 1]
      BY <3>2
    <3> QED BY <2>1, <2>3, <3>1, <3>3
  <2> QED BY <2>2, <2>3
<1>6. Joining(ss, g, n)
  BY <1>5 DEF Joining
<1> QED BY <1>4, <1>6

Joins(ss, f) ==
  /\ f \in [1..Len(ss) -> Seq(Char)]
  /\ f[1] = ss[1] /\ FlattenSeq(ss) = f[Len(ss)]
  /\ \A i \in 2..Len(ss) : f[i] = f[i - 1] \o ss[i]

LEMMA FlattenIsJoining ==
  ASSUME NEW ss \in Seq(Seq(Char)), Len(ss) # 0
  PROVE  \E f : Joins(ss, f)
<1> DEFINE t == CHOOSE f : Joining(ss, f, Len(ss))
<1>1. PICK u \in [1..Len(ss) -> Seq(Char)] : Joining(ss, u, Len(ss))
  BY JoiningExists
<1>2. Joining(ss, t, Len(ss))
  BY <1>1
<1>3. FlattenSeq(ss) = t[Len(ss)]
  BY DEF FlattenSeq, Joining
<1> HIDE DEF t
<1>5. \A i \in 1..Len(ss) : t[i] = IF i = 1 THEN ss[i] ELSE t[i - 1] \o ss[i]
  BY <1>2 DEF Joining
<1>6. \A i \in 1..Len(ss) : u[i] = IF i = 1 THEN ss[i] ELSE u[i - 1] \o ss[i]
  BY <1>1 DEF Joining
<1>7. ASSUME NEW i \in 1..Len(ss), t[i] # u[i] PROVE FALSE
  <2> DEFINE T == {j \in 1..Len(ss) : t[j] # u[j]}
  <2>0. T \in SUBSET Nat /\ T # {}
    <3>1. i \in T
      BY <1>7
    <3>2. T \subseteq 1..Len(ss) /\ 1..Len(ss) \subseteq Nat
      OBVIOUS
    <3> HIDE DEF T
    <3> QED BY <3>1, <3>2
  <2>1. PICK n \in T : \A k \in T : n <= k
    <3> HIDE DEF T
    <3> QED BY <2>0, NatMin
  <2>2. n # 1 => n - 1 \in 1..Len(ss) /\ n - 1 \notin T
    BY <2>1
  <2> QED BY <1>5, <1>6, <2>1, <2>2
<1>8. FlattenSeq(ss) = u[Len(ss)]
  BY <1>3, <1>7
<1>9. 1 \in 1..Len(ss) /\ \A i \in 2..Len(ss) : i \in 1..Len(ss) /\ i # 1
  OBVIOUS
<1> QED BY <1>6, <1>8, <1>9 DEF Joins

LEMMA FlattenEmpty ==
  ASSUME NEW ss, Len(ss) = 0
  PROVE  FlattenSeq(ss) = ss
BY DEF FlattenSeq

LEMMA FlattenType ==
  ASSUME NEW ss \in Seq(Seq(Char))
  PROVE  FlattenSeq(ss) \in Seq(Char)
<1>1. CASE Len(ss) = 0
  <2>1. ss = <<>>
    BY <1>1
  <2>2. FlattenSeq(ss) = <<>>
    BY <1>1, <2>1, FlattenEmpty
  <2> QED BY <2>2
<1>2. CASE Len(ss) # 0
  <2>1. PICK f : Joins(ss, f)
    BY <1>2, FlattenIsJoining
  <2>2. Len(ss) \in 1..Len(ss)
    BY <1>2
  <2> QED BY <2>1, <2>2 DEF Joins
<1> QED BY <1>1, <1>2

LEMMA Associates ==
  \A x, y, z \in Seq(Char) : (x \o y) \o z = x \o (y \o z)
BY ConcatAssociative

Steps(ss, f, n) ==
  /\ f \in [1..n -> Seq(Char)]
  /\ \A i \in 2..n : f[i] = f[i - 1] \o ss[i]

InStep(x, n, ss, f, g) ==
  /\ x \in Seq(Char) /\ n \in Nat /\ ss \in [1..n -> Seq(Char)]
  /\ Steps(ss, f, n) /\ Steps(ss, g, n) /\ g[1] = x \o f[1]

\* What is in front of the first frame stays in front.
LEMMA StepsAgree ==
  ASSUME NEW x, NEW n, NEW ss, NEW f, NEW g, InStep(x, n, ss, f, g)
  PROVE  \A i \in 1..n : g[i] = x \o f[i]
<1>0. /\ x \in Seq(Char) /\ n \in Nat /\ ss \in [1..n -> Seq(Char)]
      /\ f \in [1..n -> Seq(Char)] /\ g[1] = x \o f[1]
      /\ \A i \in 2..n : f[i] = f[i - 1] \o ss[i] /\ g[i] = g[i - 1] \o ss[i]
  BY DEF InStep, Steps
<1> DEFINE T == {i \in 1..n : g[i] # x \o f[i]}
<1> SUFFICES ASSUME T # {} PROVE FALSE
  OBVIOUS
<1>1. T \subseteq Nat
  BY <1>0
<1>2. PICK k \in T : \A j \in T : k <= j
  <2> HIDE DEF T
  <2> QED BY <1>1, NatMin
<1>3. k \in 2..n /\ k - 1 \in 1..n /\ k \in 1..n
  <2>1. k \in 1..n /\ k # 1
    BY <1>0, <1>2
  <2> QED BY <1>0, <2>1
<1>4. k - 1 \notin T
  <2> HIDE DEF T
  <2> QED BY <1>2, <1>3
<1>5. g[k - 1] = x \o f[k - 1]
  BY <1>3, <1>4
<1>6. g[k] = (x \o f[k - 1]) \o ss[k]
  BY <1>0, <1>3, <1>5
<1>7. f[k - 1] \in Seq(Char) /\ ss[k] \in Seq(Char)
  BY <1>0, <1>3
<1>8. g[k] = x \o (f[k - 1] \o ss[k])
  <2> HIDE DEF T
  <2> QED BY <1>0, <1>6, <1>7, Associates
<1>9. g[k] = x \o f[k]
  BY <1>0, <1>3, <1>8
<1> QED BY <1>2, <1>9

LEMMA Neighbours ==
  \A n \in Nat : \A i \in 2..n :
     /\ i \in 1..n /\ i - 1 \in 1..n /\ (i - 1) + 1 = i
     /\ i + 1 \in 2..(n + 1) /\ (i + 1) - 1 = i
OBVIOUS

LEMMA FlattenCons ==
  ASSUME NEW ss \in Seq(Seq(Char)), NEW tt \in Seq(Seq(Char)), NEW x \in Seq(Char),
         Len(tt) = Len(ss) + 1, tt[1] = x, \A i \in 1..Len(ss) : tt[i + 1] = ss[i]
  PROVE  FlattenSeq(tt) = x \o FlattenSeq(ss)
<1> DEFINE n == Len(ss)
<1>1. n \in Nat /\ Len(tt) # 0
  OBVIOUS
<1>a. PICK h : Joins(tt, h)
  BY <1>1, FlattenIsJoining
<1>2. /\ h \in [1..Len(tt) -> Seq(Char)]
      /\ h[1] = tt[1] /\ FlattenSeq(tt) = h[Len(tt)]
      /\ \A i \in 2..Len(tt) : h[i] = h[i - 1] \o tt[i]
  BY <1>a DEF Joins
<1>3. CASE n = 0
  <2>1. ss = <<>> /\ FlattenSeq(tt) = x
    BY <1>2, <1>3
  <2>2. FlattenSeq(ss) = <<>>
    BY <1>3, <2>1, FlattenEmpty
  <2> QED BY <2>1, <2>2, ConcatEmptySeq
<1>4. CASE n # 0
  <2>a. PICK f : Joins(ss, f)
    BY <1>4, FlattenIsJoining
  <2>1. /\ f \in [1..n -> Seq(Char)] /\ f[1] = ss[1] /\ FlattenSeq(ss) = f[n]
        /\ \A i \in 2..n : f[i] = f[i - 1] \o ss[i]
    BY <2>a DEF Joins
  <2> DEFINE g == [i \in 1..n |-> h[i + 1]]
  <2>2. g \in [1..n -> Seq(Char)] /\ \A i \in 1..n : g[i] = h[i + 1]
    BY <1>2
  <2>3. g[1] = x \o f[1]
    <3>1. 1 \in 1..n /\ 2 \in 2..Len(tt) /\ 1 + 1 = 2 /\ 2 - 1 = 1
      BY <1>1, <1>4
    <3>2. h[2] = h[1] \o tt[2] /\ tt[2] = ss[1]
      BY <1>2, <3>1
    <3> QED BY <1>2, <2>1, <3>1, <3>2
  <2>4. ASSUME NEW i \in 2..n PROVE g[i] = g[i - 1] \o ss[i]
    <3>0. n \in Nat /\ Len(tt) = n + 1
      BY <1>1
    <3>1. i \in 1..n /\ i - 1 \in 1..n /\ (i - 1) + 1 = i
      BY <3>0, Neighbours
    <3>2. i + 1 \in 2..(n + 1) /\ (i + 1) - 1 = i
      BY <3>0, Neighbours
    <3>3. i + 1 \in 2..Len(tt)
      BY <3>0, <3>2
    <3>4. g[i] = h[i + 1] /\ g[i - 1] = h[i]
      BY <3>1
    <3>5. h[i + 1] = h[i] \o tt[i + 1] /\ tt[i + 1] = ss[i]
      BY <1>2, <3>1, <3>2, <3>3
    <3> QED BY <3>4, <3>5
  <2>5. ss \in [1..n -> Seq(Char)]
    OBVIOUS
  <2>6. \A i \in 1..n : g[i] = x \o f[i]
    <3>1. Steps(ss, f, n) /\ Steps(ss, g, n)
      BY <2>1, <2>2, <2>4 DEF Steps
    <3>2. InStep(x, n, ss, f, g)
      BY <1>1, <2>3, <2>5, <3>1 DEF InStep
    <3> HIDE DEF g, n
    <3> QED BY <3>2, StepsAgree, SMT
  <2>7. n \in 1..n /\ Len(tt) = n + 1
    BY <1>1, <1>4
  <2> QED BY <1>2, <2>1, <2>2, <2>6, <2>7
<1> QED BY <1>3, <1>4

LEMMA FlattenSnoc ==
  ASSUME NEW ss \in Seq(Seq(Char)), NEW tt \in Seq(Seq(Char)), NEW x \in Seq(Char),
         Len(tt) = Len(ss) + 1, tt[Len(tt)] = x, \A i \in 1..Len(ss) : tt[i] = ss[i]
  PROVE  FlattenSeq(tt) = FlattenSeq(ss) \o x
<1> DEFINE n == Len(ss)
<1>1. n \in Nat /\ Len(tt) # 0
  OBVIOUS
<1>a. PICK h : Joins(tt, h)
  BY <1>1, FlattenIsJoining
<1>2. /\ h \in [1..Len(tt) -> Seq(Char)]
      /\ h[1] = tt[1] /\ FlattenSeq(tt) = h[Len(tt)]
      /\ \A i \in 2..Len(tt) : h[i] = h[i - 1] \o tt[i]
  BY <1>a DEF Joins
<1>3. CASE n = 0
  <2>1. ss = <<>> /\ FlattenSeq(tt) = x
    BY <1>2, <1>3
  <2>2. FlattenSeq(ss) = <<>>
    BY <1>3, <2>1, FlattenEmpty
  <2> QED BY <2>1, <2>2, ConcatEmptySeq
<1>4. CASE n # 0
  <2>a. PICK f : Joins(ss, f)
    BY <1>4, FlattenIsJoining
  <2>1. /\ f \in [1..n -> Seq(Char)] /\ f[1] = ss[1] /\ FlattenSeq(ss) = f[n]
        /\ \A i \in 2..n : f[i] = f[i - 1] \o ss[i]
    BY <2>a DEF Joins
  <2> DEFINE g == [i \in 1..n |-> h[i]]
  <2>2. g \in [1..n -> Seq(Char)] /\ \A i \in 1..n : g[i] = h[i]
    BY <1>2
  <2>3. <<>> \in Seq(Char) /\ g[1] = <<>> \o f[1]
    <3>1. 1 \in 1..n
      BY <1>1, <1>4
    <3> QED BY <1>2, <2>1, <2>2, <3>1, ConcatEmptySeq
  <2>4. ASSUME NEW i \in 2..n PROVE g[i] = g[i - 1] \o ss[i]
    <3>1. i \in 1..n /\ i - 1 \in 1..n /\ i \in 2..Len(tt)
      BY <1>1
    <3> QED BY <1>2, <3>1
  <2>5. ss \in [1..n -> Seq(Char)]
    OBVIOUS
  <2>6. \A i \in 1..n : g[i] = <<>> \o f[i]
    <3>1. Steps(ss, f, n) /\ Steps(ss, g, n)
      BY <2>1, <2>2, <2>4 DEF Steps
    <3>2. PICK e : e = <<>>
      OBVIOUS
    <3>3. InStep(e, n, ss, f, g)
      BY <1>1, <2>3, <2>5, <3>1, <3>2 DEF InStep
    <3> HIDE DEF g, n
    <3>4. \A i \in 1..n : g[i] = e \o f[i]
      BY <3>3, StepsAgree, SMT
    <3> QED BY <3>2, <3>4
  <2>7. n \in 1..n /\ Len(tt) = n + 1 /\ n + 1 \in 2..Len(tt) /\ (n + 1) - 1 = n
    BY <1>1, <1>4
  <2>8. h[n] = f[n]
    <3>1. f[n] \in Seq(Char) /\ h[n] = <<>> \o f[n]
      BY <2>1, <2>2, <2>6, <2>7
    <3>2. <<>> \o f[n] = f[n]
      BY <3>1, ConcatEmptySeq
    <3> QED BY <3>1, <3>2
  <2>9. FlattenSeq(tt) = h[n + 1] /\ h[n + 1] = h[n] \o tt[n + 1] /\ tt[n + 1] = x
    <3>1. tt[Len(tt)] = x
      OBVIOUS
    <3> HIDE DEF n
    <3> QED BY <1>2, <2>7, <3>1
  <2> QED BY <2>1, <2>8, <2>9
<1> QED BY <1>3, <1>4

-----------------------------------------------------------------------------
(* Digits and fields.                                                       *)

\* The digits that Digit writes: no lower case, so that Upper leaves them.
HexDigit == 48..57 \cup 65..70

LEMMA Digits ==
  /\ HexDigit \subseteq Char
  /\ \A d \in 0..15 : Digit(d) \in HexDigit /\ DigitOf(Digit(d)) = d
  /\ \A c \in HexDigit : IsDigit(c) /\ c \notin 97..122 /\ c \notin {READ, WRITE, 79, 75}
BY DEF HexDigit, Char, Digit, DigitOf, IsDigit, READ, WRITE

LEMMA DigitValues ==
  \A c \in Char : IsDigit(c) => DigitOf(c) \in 0..15
BY DEF Char, IsDigit, DigitOf

LEMMA WordHalves ==
  ASSUME NEW n \in Word
  PROVE  \E u \in Byte, v \in Byte : n \div 256 = u /\ n % 256 = v /\ n = 256 * u + v
<1>1. n \in Int /\ 0 <= n /\ n <= 65535
  BY DEF Word, MaxWord
<1>2. PICK u \in Int : u = n \div 256
  BY <1>1
<1>3. PICK v \in Int : v = n % 256
  BY <1>1
<1>4. v \in 0..255
  BY <1>1, <1>3
<1>5. n = 256 * u + v
  BY <1>1, <1>2, <1>3
<1>6. u \in 0..255
  BY <1>1, <1>4, <1>5
<1> QED BY <1>2, <1>3, <1>4, <1>5, <1>6 DEF Byte

LEMMA ByteHalves ==
  ASSUME NEW n \in Byte
  PROVE  \E u \in 0..15, v \in 0..15 : n \div 16 = u /\ n % 16 = v /\ n = 16 * u + v
<1>1. n \in Int /\ 0 <= n /\ n <= 255
  BY DEF Byte
<1>2. PICK u \in Int : u = n \div 16
  BY <1>1
<1>3. PICK v \in Int : v = n % 16
  BY <1>1
<1>4. v \in 0..15
  BY <1>1, <1>3
<1>5. n = 16 * u + v
  BY <1>1, <1>2, <1>3
<1>6. u \in 0..15
  BY <1>1, <1>4, <1>5
<1> QED BY <1>2, <1>3, <1>4, <1>5, <1>6

Joined(s, t, f) ==
  /\ f \in Seq(Char) /\ Len(f) = Len(s) + Len(t)
  /\ \A i \in 1..Len(s) : f[i] = s[i]
  /\ \A i \in 1..Len(t) : f[Len(s) + i] = t[i]

LEMMA ConcatJoins ==
  ASSUME NEW s \in Seq(Char), NEW t \in Seq(Char)
  PROVE  Joined(s, t, s \o t)
<1>1. /\ s \o t \in Seq(Char) /\ Len(s \o t) = Len(s) + Len(t)
      /\ Len(s) \in Nat /\ Len(t) \in Nat
  OBVIOUS
<1>2. \A i \in 1..Len(s) : (s \o t)[i] = s[i]
  OBVIOUS
<1>3. \A i \in 1..Len(t) : (s \o t)[Len(s) + i] = t[i]
  OBVIOUS
<1> QED BY <1>1, <1>2, <1>3 DEF Joined

\* What two digits stand for.
Stands(h, n) ==
  /\ h \in Seq(Char) /\ Len(h) = 2
  /\ h[1] \in HexDigit /\ h[2] \in HexDigit
  /\ 16 * DigitOf(h[1]) + DigitOf(h[2]) = n

LEMMA HexPair ==
  ASSUME NEW n \in Byte
  PROVE  Stands(Hex2(n), n)
<1>1. PICK u \in 0..15, v \in 0..15 : n \div 16 = u /\ n % 16 = v /\ n = 16 * u + v
  BY ByteHalves
<1>2. /\ Hex2(n) = <<Digit(u), Digit(v)>>
      /\ Digit(u) \in HexDigit /\ Digit(v) \in HexDigit
      /\ DigitOf(Digit(u)) = u /\ DigitOf(Digit(v)) = v
  BY <1>1, Digits DEF Hex2
<1>3. PICK c, d : c = Digit(u) /\ d = Digit(v)
  OBVIOUS
<1>4. c \in Char /\ d \in Char /\ Hex2(n) = <<c, d>>
  BY <1>2, <1>3, Digits
<1>5. Hex2(n) \in Seq(Char) /\ Len(Hex2(n)) = 2 /\ Hex2(n)[1] = c /\ Hex2(n)[2] = d
  BY <1>4
<1>6. c \in HexDigit /\ d \in HexDigit /\ 16 * DigitOf(c) + DigitOf(d) = n
  BY <1>1, <1>2, <1>3
<1> QED BY <1>5, <1>6 DEF Stands

LEMMA HexPairsDiffer ==
  ASSUME NEW m \in Byte, NEW n \in Byte, m # n
  PROVE  Hex2(m)[1] # Hex2(n)[1] \/ Hex2(m)[2] # Hex2(n)[2]
<1>1. /\ 16 * DigitOf(Hex2(m)[1]) + DigitOf(Hex2(m)[2]) = m
      /\ 16 * DigitOf(Hex2(n)[1]) + DigitOf(Hex2(n)[2]) = n
  BY HexPair DEF Stands
<1> QED BY <1>1

LEMMA HexField ==
  ASSUME NEW n \in Word
  PROVE  /\ Hex4(n) \in Seq(Char) /\ Len(Hex4(n)) = 4
         /\ \A i \in 1..4 : Hex4(n)[i] \in HexDigit
         /\ Number4(Hex4(n)) = n
<1>1. PICK u \in Byte, v \in Byte : n \div 256 = u /\ n % 256 = v /\ n = 256 * u + v
  BY WordHalves
<1>2. PICK h : h = Hex2(u)
  OBVIOUS
<1>3. PICK l : l = Hex2(v)
  OBVIOUS
<1>4. /\ h \in Seq(Char) /\ Len(h) = 2 /\ h[1] \in HexDigit /\ h[2] \in HexDigit
      /\ 16 * DigitOf(h[1]) + DigitOf(h[2]) = u
  BY <1>2, HexPair DEF Stands
<1>5. /\ l \in Seq(Char) /\ Len(l) = 2 /\ l[1] \in HexDigit /\ l[2] \in HexDigit
      /\ 16 * DigitOf(l[1]) + DigitOf(l[2]) = v
  BY <1>3, HexPair DEF Stands
<1>6. PICK f : f = h \o l
  OBVIOUS
<1>7. Hex4(n) = f
  BY <1>1, <1>2, <1>3, <1>6 DEF Hex4
<1>8. /\ f \in Seq(Char) /\ Len(f) = 4
      /\ f[1] = h[1] /\ f[2] = h[2] /\ f[3] = l[1] /\ f[4] = l[2]
  <2>1. Joined(h, l, f)
    BY <1>4, <1>5, <1>6, ConcatJoins
  <2>2. 1 \in 1..2 /\ 2 \in 1..2 /\ 2 + 1 = 3 /\ 2 + 2 = 4
    OBVIOUS
  <2> QED BY <1>4, <1>5, <2>1, <2>2 DEF Joined
<1>9. Number4(f) = n
  <2>1. /\ SubSeq(f, 1, 2)[1] = f[1] /\ SubSeq(f, 1, 2)[2] = f[2]
        /\ SubSeq(f, 3, 4)[1] = f[3] /\ SubSeq(f, 3, 4)[2] = f[4]
    BY <1>8
  <2>2. Number2(SubSeq(f, 1, 2)) = u /\ Number2(SubSeq(f, 3, 4)) = v
    BY <1>4, <1>5, <1>8, <2>1 DEF Number2
  <2> QED BY <1>1, <2>2 DEF Number4
<1>10. \A i \in 1..4 : f[i] \in HexDigit
  BY <1>4, <1>5, <1>8
<1> QED BY <1>7, <1>8, <1>9, <1>10

-----------------------------------------------------------------------------
(* The shape of a frame.                                                    *)

LEMMA SameSeq ==
  ASSUME NEW s \in Seq(Char), NEW t \in Seq(Char),
         Len(s) = Len(t), \A i \in 1..Len(s) : s[i] = t[i]
  PROVE  s = t
OBVIOUS

LEMMA SumMod ==
  ASSUME NEW m \in Seq(Char)
  PROVE  Sum(m) \in Int /\ Sum(m) % 256 \in Byte
<1>1. m \in Seq(Int)
  <2>1. Char \subseteq Int
    BY DEF Char
  <2> QED BY <2>1, SeqMonotonic
<1>2. Sum(m) \in Int
  BY <1>1, SumType
<1>3. ASSUME NEW n \in Int PROVE n % 256 \in 0..255
  OBVIOUS
<1> QED BY <1>2, <1>3 DEF Byte

Part(f, i, s) == \A j \in 1..Len(s) : f[i + j] = s[j]

Shape(f, c, a, l, p) ==
  /\ f \in Seq(Char) /\ p \in Seq(Char) /\ Len(f) = 11 + Len(p) /\ f[1] = c
  /\ Part(f, 1, Hex4(a)) /\ Part(f, 5, Hex4(l)) /\ Part(f, 9, p)
  /\ Part(f, 9 + Len(p), Checksum(SubSeq(f, 1, 9 + Len(p))))

LEMMA JoinedParts ==
  ASSUME NEW s \in Seq(Char), NEW t \in Seq(Char), NEW f, Joined(s, t, f)
  PROVE  Part(f, 0, s) /\ Part(f, Len(s), t)
BY DEF Joined, Part

\* What is at a place of a sequence stays there when more is joined to it.
Within(s, i, u) == i \in Nat /\ i + Len(u) <= Len(s) /\ Part(s, i, u)

LEMMA PartStays ==
  ASSUME NEW s \in Seq(Char), NEW u \in Seq(Char), NEW t, NEW f, NEW i,
         Joined(s, t, f), Within(s, i, u)
  PROVE  Part(f, i, u)
<1> SUFFICES ASSUME NEW j \in 1..Len(u) PROVE f[i + j] = u[j]
  BY DEF Part
<1>1. i + j \in 1..Len(s) /\ s[i + j] = u[j]
  BY DEF Part, Within
<1> QED BY <1>1 DEF Joined

LEMMA EnvelopeShape ==
  ASSUME NEW c \in Char, NEW a \in Word, NEW l \in Word
  PROVE  /\ Envelope(c, a, l) \in Seq(Char) /\ Len(Envelope(c, a, l)) = 9
         /\ Envelope(c, a, l)[1] = c
         /\ Part(Envelope(c, a, l), 1, Hex4(a)) /\ Part(Envelope(c, a, l), 5, Hex4(l))
<1>1. PICK h : h = Hex4(a)
  OBVIOUS
<1>2. PICK k : k = Hex4(l)
  OBVIOUS
<1>3. PICK o : o = <<c>>
  OBVIOUS
<1>4. /\ h \in Seq(Char) /\ Len(h) = 4 /\ k \in Seq(Char) /\ Len(k) = 4
      /\ o \in Seq(Char) /\ Len(o) = 1 /\ o[1] = c
  BY <1>1, <1>2, <1>3, HexField
<1>5. PICK e : e = o \o h
  OBVIOUS
<1>6. PICK f : f = e \o k
  OBVIOUS
<1>7. Joined(o, h, e) /\ e \in Seq(Char) /\ Len(e) = 5
  <2>1. Joined(o, h, e)
    BY <1>4, <1>5, ConcatJoins
  <2> QED BY <2>1, <1>4, <1>5 DEF Joined
<1>8. Joined(e, k, f) /\ f \in Seq(Char) /\ Len(f) = 9
  <2>1. Joined(e, k, f)
    BY <1>4, <1>6, <1>7, ConcatJoins
  <2>2. Len(e) = 5 /\ Len(k) = 4
    BY <1>4, <1>7
  <2> QED BY <2>1, <2>2 DEF Joined
<1>9. Envelope(c, a, l) = f
  BY <1>1, <1>2, <1>3, <1>5, <1>6 DEF Envelope
<1>10. Part(e, 1, h) /\ Part(f, 5, k)
  BY <1>4, <1>7, <1>8, JoinedParts
<1>11. Part(f, 1, h)
  <2>1. Within(e, 1, h)
    BY <1>4, <1>7, <1>10 DEF Within
  <2> QED BY <1>4, <1>7, <1>8, <2>1, PartStays
<1>12. f[1] = c
  BY <1>4, <1>7, <1>8 DEF Joined
<1> QED BY <1>1, <1>2, <1>8, <1>9, <1>10, <1>11, <1>12

LEMMA FrameShape ==
  ASSUME NEW c \in Char, NEW a \in Word, NEW l \in Word, NEW p \in Seq(Char)
  PROVE  Shape(WithSum(Envelope(c, a, l) \o p), c, a, l, p)
<1>1. PICK e : e = Envelope(c, a, l)
  OBVIOUS
<1>2. /\ e \in Seq(Char) /\ Len(e) = 9 /\ e[1] = c
      /\ Part(e, 1, Hex4(a)) /\ Part(e, 5, Hex4(l))
  BY <1>1, EnvelopeShape
<1>3. PICK b : b = e \o p
  OBVIOUS
<1>4. Joined(e, p, b) /\ b \in Seq(Char) /\ Len(b) = 9 + Len(p)
  <2>1. Joined(e, p, b)
    BY <1>2, <1>3, ConcatJoins
  <2> QED BY <2>1, <1>2, <1>3 DEF Joined
<1>5. PICK x : x = Checksum(b)
  OBVIOUS
<1>6. x \in Seq(Char) /\ Len(x) = 2
  BY <1>4, <1>5, SumMod, HexPair DEF Checksum, Stands
<1>7. PICK f : f = b \o x
  OBVIOUS
<1>8. Joined(b, x, f) /\ f \in Seq(Char) /\ Len(f) = 11 + Len(p)
  <2>1. Joined(b, x, f)
    BY <1>4, <1>6, <1>7, ConcatJoins
  <2> QED BY <2>1, <1>4, <1>6, <1>7 DEF Joined
<1>9. WithSum(Envelope(c, a, l) \o p) = f
  BY <1>1, <1>3, <1>5, <1>7 DEF WithSum
<1>10. /\ Hex4(a) \in Seq(Char) /\ Len(Hex4(a)) = 4
       /\ Hex4(l) \in Seq(Char) /\ Len(Hex4(l)) = 4
  BY HexField
<1>11. Part(b, 1, Hex4(a)) /\ Part(b, 5, Hex4(l))
  <2>1. Within(e, 1, Hex4(a)) /\ Within(e, 5, Hex4(l))
    BY <1>2, <1>10 DEF Within
  <2> QED BY <1>2, <1>4, <1>10, <2>1, PartStays
<1>12. Part(f, 1, Hex4(a)) /\ Part(f, 5, Hex4(l))
  <2>1. Within(b, 1, Hex4(a)) /\ Within(b, 5, Hex4(l))
    BY <1>4, <1>10, <1>11 DEF Within
  <2> QED BY <1>4, <1>8, <1>10, <2>1, PartStays
<1>13. Part(f, 9, p)
  <2>1. Part(b, 9, p)
    BY <1>2, <1>4, JoinedParts
  <2>2. Within(b, 9, p)
    BY <1>4, <2>1 DEF Within
  <2> QED BY <1>4, <1>8, <2>2, PartStays
<1>14. f[1] = c
  BY <1>2, <1>4, <1>8 DEF Joined
<1>15. SubSeq(f, 1, 9 + Len(p)) = b
  <2>1. PICK g : g = SubSeq(f, 1, 9 + Len(p))
    OBVIOUS
  <2>2. g \in Seq(Char) /\ Len(g) = Len(b) /\ \A i \in 1..Len(g) : g[i] = f[i]
    BY <1>4, <1>8, <2>1
  <2>3. \A i \in 1..Len(g) : g[i] = b[i]
    BY <1>8, <2>2 DEF Joined
  <2> QED BY <1>4, <2>1, <2>2, <2>3, SameSeq
<1>16. Part(f, 9 + Len(p), x)
  BY <1>4, <1>6, <1>8, JoinedParts
<1> QED BY <1>5, <1>8, <1>9, <1>12, <1>13, <1>14, <1>15, <1>16 DEF Shape

-----------------------------------------------------------------------------
(* What a frame is read as.                                                 *)

\* A field of four digits reads as what was written.
LEMMA FieldReads ==
  ASSUME NEW f \in Seq(Char), NEW i \in Nat, NEW n \in Word,
         i + 4 <= Len(f), Part(f, i, Hex4(n))
  PROVE  /\ Number4(SubSeq(f, i + 1, i + 4)) = n
         /\ \A j \in 1..4 : f[i + j] \in HexDigit
<1>1. PICK h : h = Hex4(n)
  OBVIOUS
<1>2. /\ h \in Seq(Char) /\ Len(h) = 4 /\ Number4(h) = n
      /\ \A j \in 1..4 : h[j] \in HexDigit
  BY <1>1, HexField
<1>3. PICK s : s = SubSeq(f, i + 1, i + 4)
  OBVIOUS
<1>4. s \in Seq(Char) /\ Len(s) = 4 /\ \A j \in 1..4 : s[j] = f[i + j]
  BY <1>3
<1>5. \A j \in 1..4 : f[i + j] = h[j]
  BY <1>1, <1>2 DEF Part
<1>6. s = h
  BY <1>2, <1>4, <1>5, SameSeq
<1> QED BY <1>2, <1>3, <1>5, <1>6

\* The digits of some bytes.
Bytes(p, d) ==
  /\ p \in Seq(Char) /\ Len(p) = 2 * Len(d)
  /\ \A i \in 1..Len(d) :
       p[2 * i - 1] = Hex2(d[i])[1] /\ p[2 * i] = Hex2(d[i])[2]

LEMMA EncodeBytes ==
  ASSUME NEW d \in Seq(Byte)
  PROVE  Bytes(EncodeData(d), d)
<1>1. Len(d) \in Nat /\ \A i \in 1..Len(d) : d[i] \in Byte
  OBVIOUS
<1>2. PICK p : p = EncodeData(d)
  OBVIOUS
<1>3. \A j \in 1..(2 * Len(d)) : p[j] = Hex2(d[(j + 1) \div 2])[2 - (j % 2)]
  BY <1>2 DEF EncodeData
<1>4. ASSUME NEW j \in 1..(2 * Len(d))
      PROVE  (j + 1) \div 2 \in 1..Len(d) /\ 2 - (j % 2) \in {1, 2}
  <2>1. PICK q \in Int : q = (j + 1) \div 2
    OBVIOUS
  <2>2. PICK r \in Int : r = j % 2
    OBVIOUS
  <2>3. r \in {0, 1} /\ 2 * q = j + r
    BY <2>1, <2>2
  <2> QED BY <1>1, <2>1, <2>2, <2>3
<1>5. p \in Seq(Char) /\ Len(p) = 2 * Len(d)
  <2>1. ASSUME NEW j \in 1..(2 * Len(d)) PROVE p[j] \in Char
    <3>1. PICK h : h = Hex2(d[(j + 1) \div 2])
      OBVIOUS
    <3>2. h[1] \in HexDigit /\ h[2] \in HexDigit
      BY <1>1, <1>4, <3>1, HexPair DEF Stands
    <3>3. PICK k : k = 2 - (j % 2)
      OBVIOUS
    <3>4. k = 1 \/ k = 2
      BY <1>4, <3>3
    <3>5. p[j] = h[k]
      <4>1. p[j] = Hex2(d[(j + 1) \div 2])[2 - (j % 2)]
        BY <1>3
      <4> QED BY <4>1, <3>1, <3>3
    <3> QED BY <3>2, <3>4, <3>5, Digits
  <2>2. p = [j \in 1..(2 * Len(d)) |-> p[j]]
    BY <1>2 DEF EncodeData
  <2> QED BY <1>1, <2>1, <2>2
<1>6. ASSUME NEW i \in 1..Len(d)
      PROVE  p[2 * i - 1] = Hex2(d[i])[1] /\ p[2 * i] = Hex2(d[i])[2]
  <2>1. 2 * i - 1 \in 1..(2 * Len(d)) /\ 2 * i \in 1..(2 * Len(d))
    BY <1>1
  <2>2. ((2 * i - 1) + 1) \div 2 = i /\ 2 - ((2 * i - 1) % 2) = 1
    BY <1>1
  <2>3. (2 * i + 1) \div 2 = i /\ 2 - ((2 * i) % 2) = 2
    BY <1>1
  <2> QED BY <1>3, <2>1, <2>2, <2>3
<1> QED BY <1>2, <1>5, <1>6 DEF Bytes

LEMMA BytesAreDigits ==
  ASSUME NEW d \in Seq(Byte), NEW p, Bytes(p, d)
  PROVE  \A j \in 1..Len(p) : p[j] \in HexDigit
<1> SUFFICES ASSUME NEW j \in 1..Len(p) PROVE p[j] \in HexDigit
  OBVIOUS
<1>1. Len(d) \in Nat /\ Len(p) = 2 * Len(d)
  BY DEF Bytes
<1>2. PICK i \in 1..Len(d) : j = 2 * i - 1 \/ j = 2 * i
  <2>1. PICK q \in Int : q = (j + 1) \div 2
    BY <1>1
  <2>2. q \in 1..Len(d) /\ (j = 2 * q - 1 \/ j = 2 * q)
    BY <1>1, <2>1
  <2> QED BY <2>2
<1>3. Hex2(d[i])[1] \in HexDigit /\ Hex2(d[i])[2] \in HexDigit
  BY HexPair DEF Stands
<1> QED BY <1>2, <1>3 DEF Bytes

LEMMA DecodeBytes ==
  ASSUME NEW d \in Seq(Byte), NEW p, Bytes(p, d)
  PROVE  DecodeData(p) = d
<1>1. Len(d) \in Nat /\ p \in Seq(Char) /\ Len(p) = 2 * Len(d)
  BY DEF Bytes
<1>2. Len(p) \div 2 = Len(d)
  BY <1>1
<1>3. ASSUME NEW i \in 1..Len(d)
      PROVE  Number2(SubSeq(p, 2 * i - 1, 2 * i)) = d[i]
  <2>1. d[i] \in Byte /\ 2 * i - 1 \in 1..Len(p) /\ 2 * i \in 1..Len(p)
    BY <1>1
  <2>2. PICK s : s = SubSeq(p, 2 * i - 1, 2 * i)
    OBVIOUS
  <2>3. s[1] = p[2 * i - 1] /\ s[2] = p[2 * i]
    BY <1>1, <2>1, <2>2
  <2>4. 16 * DigitOf(Hex2(d[i])[1]) + DigitOf(Hex2(d[i])[2]) = d[i]
    BY <2>1, HexPair DEF Stands
  <2> QED BY <2>2, <2>3, <2>4 DEF Number2, Bytes
<1>4. DecodeData(p) = [i \in 1..Len(d) |-> d[i]]
  BY <1>2, <1>3 DEF DecodeData
<1> QED BY <1>4


-----------------------------------------------------------------------------
(* The frame of a request, and what is read of a frame.                     *)

Letter == {READ, WRITE}

LEMMA Letters ==
  /\ Letter \subseteq Char /\ 79 \in Char /\ 75 \in Char
  /\ \A c \in Letter : ~IsDigit(c) /\ c # 79 /\ c # 75
  /\ READ # WRITE /\ READ # 0 /\ WRITE # 0
BY DEF Letter, READ, WRITE, Char, IsDigit

\* A frame, character by character.
Spells(f, r) ==
  /\ r \in Frames
  /\ f \in Seq(Char) /\ Len(f) = 11 + 2 * Len(r.data) /\ f[1] = r.command
  /\ \A i \in 2..Len(f) : f[i] \in HexDigit
  /\ Number4(SubSeq(f, 2, 5)) = r.address /\ Number4(SubSeq(f, 6, 9)) = r.length
  /\ \A i \in 1..Len(r.data) :
       16 * DigitOf(f[8 + 2 * i]) + DigitOf(f[9 + 2 * i]) = r.data[i]
  /\ Part(f, Len(f) - 2, Checksum(SubSeq(f, 1, Len(f) - 2)))

\* The frame of a request: its size is the data's.
FrameOf(f, r) ==
  /\ Spells(f, r)
  /\ r.command = READ => r.data = <<>>
  /\ r.command = WRITE => r.length = Len(r.data)

LEMMA WordBound ==
  ASSUME NEW n \in Word
  PROVE  n \in Nat /\ n <= MaxWord
BY DEF Word, MaxWord

LEMMA RequestType ==
  ASSUME NEW r \in Requests
  PROVE  /\ r \in Frames
         /\ r.command = READ => r.data = <<>>
         /\ r.command = WRITE => r.length = Len(r.data)
<1>0. Address \subseteq Word /\ Value \subseteq Byte /\ MaxLength \in Word
  BY FramingAssumption DEF FramingAssumption
<1>1. ASSUME NEW n \in 1..MaxLength PROVE n \in Word /\ n \in Nat
  <2>1. MaxLength \in Int /\ MaxLength <= MaxWord /\ MaxWord \in Nat
    BY <1>0, WordBound DEF MaxWord
  <2> QED BY <2>1 DEF Word
<1>2. CASE \E a \in Address, n \in 1..MaxLength :
             r = [command |-> READ, address |-> a, length |-> n, data |-> <<>>]
  BY <1>0, <1>1, <1>2, Letters DEF Frames
<1>3. CASE \E a \in Address, d \in UNION {[1..n -> Value] : n \in 1..MaxLength} :
             r = [command |-> WRITE, address |-> a, length |-> Len(d), data |-> d]
  <2>0. PICK a \in Address, d \in UNION {[1..n -> Value] : n \in 1..MaxLength} :
          r = [command |-> WRITE, address |-> a, length |-> Len(d), data |-> d]
    BY <1>3
  <2>1. PICK n \in 1..MaxLength : d \in [1..n -> Value]
    OBVIOUS
  <2>2. n \in Nat /\ n \in Word
    BY <1>1
  <2>3. d \in Seq(Byte) /\ Len(d) = n
    <3>1. d \in Seq(Value) /\ Len(d) = n
      BY <2>1, <2>2
    <3>2. Seq(Value) \subseteq Seq(Byte)
      BY <1>0, SeqMonotonic
    <3> QED BY <3>1, <3>2
  <2> QED BY <1>0, <2>0, <2>2, <2>3, Letters DEF Frames
<1> QED BY <1>2, <1>3 DEF Requests

LEMMA SumDigits ==
  ASSUME NEW m \in Seq(Char)
  PROVE  /\ Checksum(m) \in Seq(Char) /\ Len(Checksum(m)) = 2
         /\ Checksum(m)[1] \in HexDigit /\ Checksum(m)[2] \in HexDigit
BY SumMod, HexPair DEF Checksum, Stands

LEMMA ShapeFrame ==
  ASSUME NEW r \in Frames, NEW f,
         Shape(f, r.command, r.address, r.length, EncodeData(r.data))
  PROVE  Spells(f, r)
<1>1. PICK d \in Seq(Byte) : d = r.data
  BY DEF Frames
<1>2. PICK p : p = EncodeData(d)
  OBVIOUS
<1>3. /\ r.address \in Word /\ r.length \in Word /\ r.command \in Letter
      /\ Len(d) \in Nat
  BY <1>1 DEF Frames, Letter
<1>4. Bytes(p, d) /\ \A j \in 1..Len(p) : p[j] \in HexDigit
  BY <1>2, EncodeBytes, BytesAreDigits
<1>5. Len(p) = 2 * Len(d) /\ p \in Seq(Char)
  BY <1>4 DEF Bytes
<1>6. f \in Seq(Char) /\ Len(f) = 11 + 2 * Len(d) /\ f[1] = r.command
  BY <1>1, <1>2, <1>5 DEF Shape
<1>7. /\ Number4(SubSeq(f, 2, 5)) = r.address
      /\ \A j \in 1..4 : f[1 + j] \in HexDigit
  <2>1. Part(f, 1, Hex4(r.address)) /\ 1 + 4 <= Len(f)
    BY <1>3, <1>6 DEF Shape
  <2> QED BY <1>3, <1>6, <2>1, FieldReads
<1>8. /\ Number4(SubSeq(f, 6, 9)) = r.length
      /\ \A j \in 1..4 : f[5 + j] \in HexDigit
  <2>1. Part(f, 5, Hex4(r.length)) /\ 5 + 4 <= Len(f)
    BY <1>3, <1>6 DEF Shape
  <2>2. 5 \in Nat /\ 5 + 1 = 6 /\ 5 + 4 = 9
    OBVIOUS
  <2> QED BY <1>3, <1>6, <2>1, <2>2, FieldReads
<1>9. \A j \in 1..(2 * Len(d)) : f[9 + j] = p[j]
  BY <1>1, <1>2, <1>5 DEF Shape, Part
<1>10. ASSUME NEW i \in 1..Len(d)
       PROVE  16 * DigitOf(f[8 + 2 * i]) + DigitOf(f[9 + 2 * i]) = d[i]
  <2>1. /\ 2 * i - 1 \in 1..(2 * Len(d)) /\ 9 + (2 * i - 1) = 8 + 2 * i
        /\ 2 * i \in 1..(2 * Len(d)) /\ d[i] \in Byte
    BY <1>3
  <2>2. f[8 + 2 * i] = p[2 * i - 1] /\ f[9 + 2 * i] = p[2 * i]
    BY <1>9, <2>1
  <2>3. f[8 + 2 * i] = Hex2(d[i])[1] /\ f[9 + 2 * i] = Hex2(d[i])[2]
    BY <1>4, <2>2 DEF Bytes
  <2>4. 16 * DigitOf(Hex2(d[i])[1]) + DigitOf(Hex2(d[i])[2]) = d[i]
    BY <2>1, HexPair DEF Stands
  <2> QED BY <2>3, <2>4
<1>11. PICK x : x = Checksum(SubSeq(f, 1, 9 + 2 * Len(d)))
  OBVIOUS
<1>12. Len(x) = 2 /\ x[1] \in HexDigit /\ x[2] \in HexDigit
  <2>1. SubSeq(f, 1, 9 + 2 * Len(d)) \in Seq(Char)
    BY <1>3, <1>6
  <2> QED BY <1>11, <2>1, SumDigits
<1>13. Part(f, 9 + 2 * Len(d), x)
  BY <1>1, <1>2, <1>5, <1>11 DEF Shape
<1>14. Len(f) - 2 = 9 + 2 * Len(d)
  BY <1>3, <1>6
<1>15. ASSUME NEW i \in 2..Len(f) PROVE f[i] \in HexDigit
  <2>1. CASE i \in 2..9
    <3>1. (i - 1 \in 1..4 /\ 1 + (i - 1) = i) \/ (i - 5 \in 1..4 /\ 5 + (i - 5) = i)
      BY <2>1
    <3> QED BY <1>7, <1>8, <3>1
  <2>2. CASE i \in 10..(9 + 2 * Len(d))
    <3>1. i - 9 \in 1..(2 * Len(d)) /\ 9 + (i - 9) = i
      BY <1>3, <2>2
    <3> QED BY <1>4, <1>5, <1>9, <3>1
  <2>3. CASE i \in (10 + 2 * Len(d))..(11 + 2 * Len(d))
    <3>1. /\ 1 \in 1..2 /\ 2 \in 1..2
          /\ i = (9 + 2 * Len(d)) + 1 \/ i = (9 + 2 * Len(d)) + 2
      BY <1>3, <2>3
    <3> QED BY <1>12, <1>13, <3>1 DEF Part
  <2> QED BY <1>3, <1>6, <2>1, <2>2, <2>3
<1> QED BY <1>1, <1>6, <1>7, <1>8, <1>10, <1>11, <1>13, <1>14, <1>15 DEF Spells

LEMMA RawFrame ==
  ASSUME NEW r \in Requests
  PROVE  FrameOf(Raw(r), r)
<1>1. /\ r \in Frames /\ r.command \in Letter
      /\ r.command = READ => r.data = <<>>
      /\ r.command = WRITE => r.length = Len(r.data)
  BY RequestType DEF Frames, Letter
<1>2. PICK p : p = EncodeData(r.data)
  OBVIOUS
<1>3. p \in Seq(Char) /\ r.command \in Char /\ r.address \in Word /\ r.length \in Word
  <2>1. r.data \in Seq(Byte)
    BY <1>1 DEF Frames
  <2> QED BY <1>1, <1>2, <2>1, EncodeBytes, Letters DEF Bytes, Frames
<1>4. Raw(r) = WithSum(Envelope(r.command, r.address, r.length) \o p)
  BY <1>1, <1>2, Letters DEF Raw, BuildRead, BuildWrite, BuildFrame, Letter
<1>5. Shape(Raw(r), r.command, r.address, r.length, p)
  BY <1>3, <1>4, FrameShape
<1> QED BY <1>1, <1>2, <1>5, ShapeFrame DEF FrameOf


LEMMA Elements ==
  \A s \in Seq(Char) : \A i \in 1..Len(s) : s[i] \in Char
OBVIOUS

LEMMA Cut ==
  ASSUME NEW s \in Seq(Char), NEW a \in Nat, NEW b \in Nat, a <= b, b <= Len(s)
  PROVE  /\ SubSeq(s, a + 1, b) \in Seq(Char) /\ Len(SubSeq(s, a + 1, b)) = b - a
         /\ \A i \in 1..(b - a) : SubSeq(s, a + 1, b)[i] = s[a + i]
OBVIOUS

\* What it takes to be accepted.
LEMMA Accepted ==
  ASSUME NEW g \in Seq(Char), WellFormed(g)
  PROVE  /\ Len(g) >= 11 /\ g[1] \in Letter
         /\ \A i \in 2..9 : IsDigit(g[i])
         /\ \A i \in 2..Len(g) : g[i] \notin Letter
         /\ \A j \in 1..2 : g[Len(g) - 2 + j] \in HexDigit =>
              Checksum(SubSeq(g, 1, Len(g) - 2))[j] = g[Len(g) - 2 + j]
<1>1. PICK n \in Nat : n = Len(g)
  OBVIOUS
<1>2. n >= 11 /\ g[1] \in Letter
  BY <1>1 DEF WellFormed, Letter
<1>3. ASSUME NEW i \in 2..9 PROVE IsDigit(g[i])
  <2>1. PICK s : s = SubSeq(g, 2, 9)
    OBVIOUS
  <2>2. Len(s) = 8 /\ DOMAIN s = 1..8 /\ i - 1 \in 1..8 /\ s[i - 1] = g[i]
    BY <1>1, <1>2, <2>1
  <2>3. AllDigits(s)
    BY <2>1 DEF WellFormed
  <2> QED BY <2>2, <2>3 DEF AllDigits
<1>4. PICK s : s = SubSeq(g, 1, n - 2)
  OBVIOUS
<1>5. PICK x : x = Checksum(s)
  OBVIOUS
<1>6. Len(x) = 2 /\ x[1] \in HexDigit /\ x[2] \in HexDigit
  <2>1. s \in Seq(Char)
    BY <1>1, <1>2, <1>4
  <2> QED BY <1>5, <2>1, SumDigits
<1>7. \A j \in 1..2 : x[j] = IF g[n - 2 + j] \in 97..122 THEN g[n - 2 + j] - 32 ELSE g[n - 2 + j]
  <2>1. PICK t : t = SubSeq(g, n - 1, n)
    OBVIOUS
  <2>2. Len(t) = 2 /\ DOMAIN t = 1..2 /\ \A j \in 1..2 : t[j] = g[n - 2 + j]
    BY <1>1, <1>2, <2>1
  <2>3. x = Upper(t)
    BY <1>1, <1>4, <1>5, <2>1 DEF WellFormed
  <2> QED BY <2>2, <2>3 DEF Upper
<1>8. \A j \in 1..2 : g[n - 2 + j] \in HexDigit => x[j] = g[n - 2 + j]
  BY <1>7, Digits
<1>9. ASSUME NEW i \in 2..n PROVE g[i] \notin Letter
  <2>1. CASE i \in 2..9
    BY <1>3, <2>1, Letters
  <2>2. CASE i \in 10..(n - 2)
    <3>1. PICK s2 : s2 = Payload(g)
      OBVIOUS
    <3>2. i - 9 \in 1..Len(s2) /\ s2[i - 9] = g[i] /\ DOMAIN s2 = 1..Len(s2)
      BY <1>1, <1>2, <2>2, <3>1 DEF Payload
    <3>3. s2 = ACK \/ AllDigits(s2)
      BY <3>1 DEF WellFormed
    <3>4. CASE s2 = ACK
      <4>1. i - 9 = 1 \/ i - 9 = 2
        BY <3>2, <3>4 DEF ACK
      <4>2. g[i] = 79 \/ g[i] = 75
        BY <3>2, <3>4, <4>1 DEF ACK
      <4> QED BY <4>2, Letters
    <3>5. CASE AllDigits(s2)
      BY <3>2, <3>5, Letters DEF AllDigits
    <3> QED BY <3>3, <3>4, <3>5
  <2>3. CASE i \in (n - 1)..n
    <3>1. PICK j \in 1..2 : i = n - 2 + j
      <4>1. i - (n - 2) \in 1..2 /\ i = n - 2 + (i - (n - 2))
        BY <2>3
      <4> QED BY <4>1
    <3>2. x[j] \in HexDigit
      BY <1>6, <3>1
    <3>3. ASSUME g[i] \in Letter PROVE FALSE
      <4>1. g[i] = 114 \/ g[i] = 119
        BY <3>3 DEF Letter, READ, WRITE
      <4>2. x[j] = IF g[i] \in 97..122 THEN g[i] - 32 ELSE g[i]
        BY <1>7, <3>1
      <4>3. x[j] = 82 \/ x[j] = 87
        BY <4>1, <4>2
      <4> QED BY <3>2, <4>3 DEF HexDigit
    <3> QED BY <3>3
  <2> QED BY <1>2, <2>1, <2>2, <2>3
<1> QED BY <1>1, <1>2, <1>3, <1>4, <1>5, <1>8, <1>9

\* A frame is accepted as it was built.
LEMMA FrameAccepted ==
  ASSUME NEW f, NEW r, Spells(f, r)
  PROVE  WellFormed(f)
<1>1. PICK d \in Seq(Byte) : d = r.data
  BY DEF Spells, Frames
<1>2. PICK k \in Nat : k = Len(d)
  OBVIOUS
<1>3. /\ f \in Seq(Char) /\ Len(f) = 11 + 2 * k /\ f[1] \in Letter
      /\ \A i \in 2..Len(f) : f[i] \in HexDigit /\ IsDigit(f[i]) /\ f[i] \notin 97..122
  BY <1>1, <1>2, Digits DEF Spells, Frames, Letter
<1>4. AllDigits(SubSeq(f, 2, 9))
  <2>1. PICK s : s = SubSeq(f, 2, 9)
    OBVIOUS
  <2>2. DOMAIN s = 1..8 /\ \A i \in 1..8 : s[i] = f[i + 1] /\ i + 1 \in 2..Len(f)
    BY <1>3, <2>1
  <2> QED BY <1>3, <2>1, <2>2 DEF AllDigits
<1>5. Len(Payload(f)) % 2 = 0 /\ AllDigits(Payload(f))
  <2>1. PICK s : s = Payload(f)
    OBVIOUS
  <2>0. s = SubSeq(f, 10, 9 + 2 * k)
    <3>1. Len(f) - 2 = 9 + 2 * k
      BY <1>3
    <3> QED BY <2>1, <3>1 DEF Payload
  <2>5. PICK m \in Nat : m = 9 + 2 * k /\ Len(f) = 2 + m
    BY <1>3
  <2>6. s \in Seq(Char) /\ Len(s) = m - 9 /\ \A i \in 1..(m - 9) : s[i] = f[9 + i]
    <3>1. s = SubSeq(f, 9 + 1, m) /\ f \in Seq(Char) /\ 9 <= m /\ m <= Len(f)
      BY <1>3, <2>0, <2>5
    <3>2. 9 \in Nat
      OBVIOUS
    <3> QED BY <3>1, <3>2, Cut
  <2>7. \A i \in 1..(m - 9) : 9 + i \in 2..Len(f)
    BY <2>5
  <2>2. /\ Len(s) = 2 * k /\ DOMAIN s = 1..(2 * k)
        /\ \A i \in 1..(2 * k) : s[i] = f[9 + i] /\ 9 + i \in 2..Len(f)
    BY <2>5, <2>6, <2>7
  <2>3. AllDigits(s)
    BY <1>3, <2>2 DEF AllDigits
  <2>4. (2 * k) % 2 = 0
    OBVIOUS
  <2> QED BY <2>1, <2>2, <2>3, <2>4
<1>6. PICK n \in Nat : n = Len(f) /\ n = 11 + 2 * k
  BY <1>3
<1>7. PICK x : x = Checksum(SubSeq(f, 1, n - 2))
  OBVIOUS
<1>8. x \in Seq(Char) /\ Len(x) = 2 /\ Part(f, n - 2, x)
  <2>1. SubSeq(f, 1, n - 2) \in Seq(Char)
    BY <1>3, <1>6
  <2> QED BY <1>6, <1>7, <2>1, SumDigits DEF Spells
<1>9. x = Upper(SubSeq(f, n - 1, n))
  <2>1. PICK t : t = SubSeq(f, n - 1, n)
    OBVIOUS
  <2>2. DOMAIN t = 1..2 /\ \A j \in 1..2 : t[j] = f[n - 2 + j] /\ n - 2 + j \in 2..Len(f)
    BY <1>3, <1>6, <2>1
  <2>3. Upper(t) = [j \in 1..2 |-> f[n - 2 + j]]
    BY <1>3, <2>2 DEF Upper
  <2>4. \A j \in 1..2 : x[j] = f[n - 2 + j]
    BY <1>8 DEF Part
  <2>5. x = [j \in 1..2 |-> x[j]]
    BY <1>8
  <2> QED BY <2>1, <2>3, <2>4, <2>5
<1> QED BY <1>3, <1>4, <1>5, <1>6, <1>7, <1>9 DEF WellFormed, Letter

LEMMA DataReads ==
  ASSUME NEW p \in Seq(Char), NEW d \in Seq(Byte), NEW l \in Nat, l <= Len(d),
         Len(p) = 2 * l,
         \A i \in 1..l : 16 * DigitOf(p[2 * i - 1]) + DigitOf(p[2 * i]) = d[i]
  PROVE  DecodeData(p) = SubSeq(d, 1, l)
<1>1. Len(p) \div 2 = l
  OBVIOUS
<1>2. ASSUME NEW i \in 1..l
      PROVE  Number2(SubSeq(p, 2 * i - 1, 2 * i)) = d[i]
  <2>1. 2 * i - 1 \in 1..Len(p) /\ 2 * i \in 1..Len(p)
    OBVIOUS
  <2>2. PICK s : s = SubSeq(p, 2 * i - 1, 2 * i)
    OBVIOUS
  <2>3. s[1] = p[2 * i - 1] /\ s[2] = p[2 * i]
    BY <2>1, <2>2
  <2> QED BY <2>2, <2>3 DEF Number2
<1>3. DecodeData(p) = [i \in 1..l |-> d[i]]
  BY <1>1, <1>2 DEF DecodeData
<1>4. SubSeq(d, 1, l) = [i \in 1..l |-> d[i]]
  <2>1. PICK e : e = SubSeq(d, 1, l)
    OBVIOUS
  <2>2. e = [i \in 1..l |-> e[i]] /\ \A i \in 1..l : e[i] = d[i]
    BY <2>1
  <2> QED BY <2>1, <2>2
<1> QED BY <1>3, <1>4


LEMMA SameCut ==
  ASSUME NEW s \in Seq(Char), NEW t \in Seq(Char), NEW a \in Nat, NEW b \in Nat,
         a <= b, b <= Len(s), b <= Len(t), \A i \in (a + 1)..b : s[i] = t[i]
  PROVE  SubSeq(s, a + 1, b) = SubSeq(t, a + 1, b)
<1>1. PICK u : u = SubSeq(s, a + 1, b)
  OBVIOUS
<1>2. PICK v : v = SubSeq(t, a + 1, b)
  OBVIOUS
<1>3. /\ u \in Seq(Char) /\ Len(u) = b - a /\ v \in Seq(Char) /\ Len(v) = b - a
      /\ \A i \in 1..(b - a) : u[i] = s[a + i] /\ v[i] = t[a + i]
  BY <1>1, <1>2, Cut
<1>4. \A i \in 1..(b - a) : a + i \in (a + 1)..b
  OBVIOUS
<1>5. \A i \in 1..Len(u) : u[i] = v[i]
  BY <1>3, <1>4
<1> QED BY <1>1, <1>2, <1>3, <1>5, SameSeq

LEMMA NumberType ==
  ASSUME NEW s \in Seq(Char), Len(s) = 4, \A i \in 1..4 : IsDigit(s[i])
  PROVE  Number4(s) \in Word
<1>0. \A i \in 1..4 : s[i] \in Char
  BY Elements
<1>1. ASSUME NEW i \in 1..4 PROVE DigitOf(s[i]) \in 0..15
  <2>1. s[i] \in Char /\ IsDigit(s[i])
    BY <1>0
  <2> QED BY <2>1, DigitValues
<1>2. /\ SubSeq(s, 1, 2)[1] = s[1] /\ SubSeq(s, 1, 2)[2] = s[2]
      /\ SubSeq(s, 3, 4)[1] = s[3] /\ SubSeq(s, 3, 4)[2] = s[4]
  OBVIOUS
<1>3. PICK a \in 0..15 : a = DigitOf(s[1])
  BY <1>1
<1>4. PICK b \in 0..15 : b = DigitOf(s[2])
  BY <1>1
<1>5. PICK c \in 0..15 : c = DigitOf(s[3])
  BY <1>1
<1>6. PICK d \in 0..15 : d = DigitOf(s[4])
  BY <1>1
<1>7. PICK x \in Int : x = 16 * a + b
  OBVIOUS
<1>8. PICK y \in Int : y = 16 * c + d
  OBVIOUS
<1>9. 256 * x + y \in Word
  <2>1. 0 <= x /\ x <= 255 /\ 0 <= y /\ y <= 255
    BY <1>7, <1>8
  <2>2. 256 * x + y \in Int /\ 0 <= 256 * x + y /\ 256 * x + y <= MaxWord
    BY <2>1 DEF MaxWord
  <2>3. MaxWord \in Int
    BY DEF MaxWord
  <2> QED BY <2>2, <2>3 DEF Word
<1>10. Number4(s) = 256 * x + y
  <2>1. Number2(SubSeq(s, 1, 2)) = x /\ Number2(SubSeq(s, 3, 4)) = y
    BY <1>2, <1>3, <1>4, <1>5, <1>6, <1>7, <1>8 DEF Number2
  <2> QED BY <2>1 DEF Number4
<1> QED BY <1>9, <1>10

LEMMA Announces ==
  ASSUME NEW s \in Seq(Char), Len(s) >= 9
  PROVE  RestLen(SubSeq(s, 1, 9)) =
           IF s[1] = WRITE /\ \A i \in 6..9 : IsDigit(s[i])
           THEN 2 * Number4(SubSeq(s, 6, 9)) + 2 ELSE 2
<1>1. PICK e : e = SubSeq(s, 1, 9)
  OBVIOUS
<1>2. e \in Seq(Char) /\ Len(e) = 9 /\ \A i \in 1..9 : e[i] = s[i]
  BY <1>1
<1>3. PICK l : l = SubSeq(s, 6, 9)
  OBVIOUS
<1>4. Len(l) = 4 /\ DOMAIN l = 1..4 /\ \A i \in 1..4 : l[i] = s[5 + i]
  BY <1>3
<1>5. SubSeq(e, 6, 9) = l
  <2>1. \A i \in 6..9 : e[i] = s[i]
    BY <1>2
  <2>2. SubSeq(e, 5 + 1, 9) = SubSeq(s, 5 + 1, 9)
    <3>1. 5 \in Nat /\ 9 \in Nat /\ 5 <= 9 /\ 9 <= Len(e) /\ 5 + 1 = 6
      BY <1>2
    <3> QED BY <1>2, <2>1, <3>1, SameCut
  <2> QED BY <1>3, <2>2
<1>6. AllDigits(l) <=> \A i \in 6..9 : IsDigit(s[i])
  <2>1. AllDigits(l) <=>
          IsDigit(l[1]) /\ IsDigit(l[2]) /\ IsDigit(l[3]) /\ IsDigit(l[4])
    BY <1>4 DEF AllDigits
  <2>2. l[1] = s[6] /\ l[2] = s[7] /\ l[3] = s[8] /\ l[4] = s[9]
    BY <1>4
  <2>3. (\A i \in 6..9 : IsDigit(s[i])) <=>
          IsDigit(s[6]) /\ IsDigit(s[7]) /\ IsDigit(s[8]) /\ IsDigit(s[9])
    OBVIOUS
  <2> QED BY <2>1, <2>2, <2>3
<1>7. RestLen(e) = IF e[1] = WRITE /\ AllDigits(l) THEN 2 * Number4(l) + 2 ELSE 2
  BY <1>5 DEF RestLen
<1>8. e[1] = s[1]
  BY <1>2
<1> QED BY <1>1, <1>3, <1>6, <1>7, <1>8, Zenon

\* What is accepted is a frame's content.
LEMMA ParseType ==
  ASSUME NEW g \in Seq(Char), WellFormed(g)
  PROVE  /\ ParseFrame(g) \in Frames /\ ParseFrame(g) # NoFrame
         /\ ParseFrame(g).command = g[1]
         /\ ParseFrame(g).address = Number4(SubSeq(g, 2, 5))
         /\ ParseFrame(g).length = Number4(SubSeq(g, 6, 9))
         /\ Payload(g) # ACK => ParseFrame(g).data = DecodeData(Payload(g))
<1>1. /\ Len(g) >= 11 /\ g[1] \in Letter /\ \A i \in 2..9 : IsDigit(g[i])
  BY Accepted
<1>2. Number4(SubSeq(g, 2, 5)) \in Word
  <2>1. PICK s : s = SubSeq(g, 2, 5)
    OBVIOUS
  <2>2. s \in Seq(Char) /\ Len(s) = 4 /\ \A i \in 1..4 : s[i] = g[1 + i] /\ 1 + i \in 2..9
    BY <1>1, <2>1
  <2> QED BY <1>1, <2>1, <2>2, NumberType
<1>3. Number4(SubSeq(g, 6, 9)) \in Word
  <2>1. PICK s : s = SubSeq(g, 6, 9)
    OBVIOUS
  <2>2. s \in Seq(Char) /\ Len(s) = 4 /\ \A i \in 1..4 : s[i] = g[5 + i] /\ 5 + i \in 2..9
    BY <1>1, <2>1
  <2> QED BY <1>1, <2>1, <2>2, NumberType
<1>4. PICK p : p = Payload(g)
  OBVIOUS
<1>5. ASSUME p # ACK PROVE DecodeData(p) \in Seq(Byte)
  <2>1. p \in Seq(Char) /\ Len(p) \in Nat
    BY <1>1, <1>4 DEF Payload
  <2>2. Len(p) % 2 = 0 /\ AllDigits(p)
    BY <1>4, <1>5 DEF WellFormed
  <2>3. PICK n \in Nat : n = Len(p) \div 2 /\ Len(p) = 2 * n
    <3>1. PICK q \in Int : q = Len(p) \div 2
      BY <2>1
    <3> QED BY <2>1, <2>2, <3>1
  <2>4. ASSUME NEW i \in 1..n PROVE Number2(SubSeq(p, 2 * i - 1, 2 * i)) \in Byte
    <3>1. 2 * i - 1 \in 1..Len(p) /\ 2 * i \in 1..Len(p)
      BY <2>3
    <3>2. PICK s : s = SubSeq(p, 2 * i - 1, 2 * i)
      OBVIOUS
    <3>3. s[1] = p[2 * i - 1] /\ s[2] = p[2 * i]
      BY <2>1, <3>1, <3>2
    <3>4. /\ p[2 * i - 1] \in Char /\ IsDigit(p[2 * i - 1])
          /\ p[2 * i] \in Char /\ IsDigit(p[2 * i])
      BY <2>1, <2>2, <3>1 DEF AllDigits
    <3>5. DigitOf(p[2 * i - 1]) \in 0..15 /\ DigitOf(p[2 * i]) \in 0..15
      BY <3>4, DigitValues
    <3>6. ASSUME NEW a \in 0..15, NEW b \in 0..15 PROVE 16 * a + b \in Byte
      BY DEF Byte
    <3> QED BY <3>2, <3>3, <3>5, <3>6 DEF Number2
  <2> QED BY <2>3, <2>4 DEF DecodeData
<1>6. PICK r : r = ParseFrame(g)
  OBVIOUS
<1>7. r = [command |-> g[1], address |-> Number4(SubSeq(g, 2, 5)),
           length |-> Number4(SubSeq(g, 6, 9)),
           data |-> IF p = ACK THEN <<>> ELSE DecodeData(p)]
  BY <1>4, <1>6 DEF ParseFrame
<1>8. (IF p = ACK THEN <<>> ELSE DecodeData(p)) \in Seq(Byte)
  BY <1>5
<1>9. r \in Frames
  BY <1>1, <1>2, <1>3, <1>7, <1>8 DEF Frames, Letter
<1>10. r # NoFrame
  BY <1>1, <1>7, Letters DEF NoFrame, Letter
<1> QED BY <1>4, <1>6, <1>7, <1>9, <1>10


-----------------------------------------------------------------------------
(* A whole frame is read as its request; a damaged one is dropped, read as  *)
(* its request all the same, or cut short in front of what is no command.   *)

\* s starts with f, but perhaps for the characters in bad.
StartsAs(s, f, bad) ==
  /\ s \in Seq(Char) /\ Len(s) >= Len(f)
  /\ \A i \in 1..Len(f) : i \notin bad => s[i] = f[i]

LEMMA FrameFacts ==
  ASSUME NEW f, NEW r, FrameOf(f, r)
  PROVE  \E d \in Seq(Byte), k \in Nat, n \in Nat :
           /\ d = r.data /\ k = Len(d) /\ n = Len(f) /\ n = 11 + 2 * k
           /\ r \in Frames /\ f \in Seq(Char) /\ f[1] = r.command /\ f[1] \in Letter
           /\ r.address \in Word /\ r.length \in Word
           /\ r.command = WRITE => r.length = k
           /\ r.command = READ => k = 0
           /\ \A i \in 2..n : f[i] \in HexDigit
<1>1. PICK d \in Seq(Byte) : d = r.data
  BY DEF FrameOf, Spells, Frames
<1>2. PICK k \in Nat : k = Len(d)
  OBVIOUS
<1>3. PICK n \in Nat : n = Len(f) /\ n = 11 + 2 * k
  BY <1>1, <1>2 DEF FrameOf, Spells
<1>4. r.command = READ => k = 0
  BY <1>1, <1>2 DEF FrameOf, Spells
<1>5. /\ r \in Frames /\ f \in Seq(Char) /\ f[1] = r.command /\ f[1] \in Letter
      /\ r.address \in Word /\ r.length \in Word
  BY DEF FrameOf, Spells, Frames, Letter
<1>6. /\ r.command = WRITE => r.length = k
      /\ \A i \in 2..n : f[i] \in HexDigit
  BY <1>1, <1>2, <1>3 DEF FrameOf, Spells
<1> QED BY <1>1, <1>2, <1>3, <1>4, <1>5, <1>6

\* A frame announces its size.
LEMMA FrameSize ==
  ASSUME NEW f, NEW r, NEW s, NEW bad, FrameOf(f, r), StartsAs(s, f, bad),
         1 \notin bad, \A i \in 6..9 : i \notin bad
  PROVE  9 + RestLen(SubSeq(s, 1, 9)) = Len(f)
<1>1. PICK d \in Seq(Byte), k \in Nat, n \in Nat :
        /\ d = r.data /\ k = Len(d) /\ n = Len(f) /\ n = 11 + 2 * k
        /\ r \in Frames /\ f \in Seq(Char) /\ f[1] = r.command /\ f[1] \in Letter
        /\ r.address \in Word /\ r.length \in Word
        /\ r.command = WRITE => r.length = k
        /\ r.command = READ => k = 0
        /\ \A i \in 2..n : f[i] \in HexDigit
  BY FrameFacts
<1>2. s \in Seq(Char) /\ Len(s) >= n /\ \A i \in 1..n : i \notin bad => s[i] = f[i]
  BY <1>1 DEF StartsAs
<1>3. s[1] = r.command /\ \A i \in 6..9 : s[i] = f[i] /\ IsDigit(s[i])
  <2>1. 1 \in 1..n /\ \A i \in 6..9 : i \in 1..n /\ i \in 2..n
    BY <1>1
  <2>2. s[1] = r.command
    BY <1>1, <1>2, <2>1
  <2>3. \A i \in 6..9 : s[i] = f[i] /\ f[i] \in HexDigit
    BY <1>1, <1>2, <2>1
  <2> QED BY <2>2, <2>3, Digits
<1>4. Number4(SubSeq(s, 6, 9)) = r.length
  <2>1. /\ 5 \in Nat /\ 9 \in Nat /\ 5 <= 9 /\ 9 <= Len(s) /\ 9 <= Len(f) /\ 5 + 1 = 6
        /\ \A i \in (5 + 1)..9 : s[i] = f[i]
    BY <1>1, <1>2, <1>3
  <2>2. SubSeq(s, 5 + 1, 9) = SubSeq(f, 5 + 1, 9)
    BY <1>1, <1>2, <2>1, SameCut
  <2>3. Number4(SubSeq(f, 6, 9)) = r.length
    BY DEF FrameOf, Spells
  <2> QED BY <2>1, <2>2, <2>3
<1>5. RestLen(SubSeq(s, 1, 9)) = IF s[1] = WRITE THEN 2 * r.length + 2 ELSE 2
  <2>1. Len(s) >= 9
    BY <1>1, <1>2
  <2> QED BY <1>2, <1>3, <1>4, <2>1, Announces
<1>6. CASE r.command = READ
  BY <1>1, <1>3, <1>5, <1>6, Letters
<1>7. CASE r.command = WRITE
  BY <1>1, <1>3, <1>5, <1>7
<1> QED BY <1>1, <1>6, <1>7 DEF Letter

\* The content of a frame is its request's, whatever its sum.
LEMMA FrameContent ==
  ASSUME NEW f, NEW r, NEW g \in Seq(Char), FrameOf(f, r), WellFormed(g),
         Len(g) = Len(f), \A i \in 1..(Len(f) - 2) : g[i] = f[i]
  PROVE  ParseFrame(g) = r
<1>1. PICK d \in Seq(Byte), k \in Nat, n \in Nat :
        /\ d = r.data /\ k = Len(d) /\ n = Len(f) /\ n = 11 + 2 * k
        /\ r \in Frames /\ f \in Seq(Char) /\ f[1] = r.command /\ f[1] \in Letter
        /\ r.address \in Word /\ r.length \in Word
        /\ r.command = WRITE => r.length = k
        /\ r.command = READ => k = 0
        /\ \A i \in 2..n : f[i] \in HexDigit
  BY FrameFacts
<1>2. \A i \in 1..(9 + 2 * k) : g[i] = f[i]
  BY <1>1
<1>3. SubSeq(g, 2, 5) = SubSeq(f, 2, 5)
  <2>1. /\ 1 \in Nat /\ 5 \in Nat /\ 1 <= 5 /\ 5 <= Len(g) /\ 5 <= Len(f) /\ 1 + 1 = 2
        /\ \A i \in (1 + 1)..5 : g[i] = f[i]
    BY <1>1, <1>2
  <2>2. SubSeq(g, 1 + 1, 5) = SubSeq(f, 1 + 1, 5)
    BY <1>1, <2>1, SameCut
  <2> QED BY <2>1, <2>2
<1>4. SubSeq(g, 6, 9) = SubSeq(f, 6, 9)
  <2>1. /\ 5 \in Nat /\ 9 \in Nat /\ 5 <= 9 /\ 9 <= Len(g) /\ 9 <= Len(f) /\ 5 + 1 = 6
        /\ \A i \in (5 + 1)..9 : g[i] = f[i]
    BY <1>1, <1>2
  <2>2. SubSeq(g, 5 + 1, 9) = SubSeq(f, 5 + 1, 9)
    BY <1>1, <2>1, SameCut
  <2> QED BY <2>1, <2>2
<1>5. PICK p : p = Payload(g)
  OBVIOUS
<1>6. p \in Seq(Char) /\ Len(p) = 2 * k /\ \A i \in 1..(2 * k) : p[i] = f[9 + i]
  <2>1. PICK m \in Nat : m = 9 + 2 * k
    OBVIOUS
  <2>2. 9 \in Nat /\ 9 <= m /\ m <= Len(g) /\ m = Len(g) - 2 /\ m - 9 = 2 * k /\ 9 + 1 = 10
    BY <1>1, <2>1
  <2>3. p = SubSeq(g, 9 + 1, m)
    BY <1>5, <2>2 DEF Payload
  <2>4. p \in Seq(Char) /\ Len(p) = m - 9 /\ \A i \in 1..(m - 9) : p[i] = g[9 + i]
    BY <2>2, <2>3, Cut
  <2>5. \A i \in 1..(2 * k) : 9 + i \in 1..(9 + 2 * k)
    OBVIOUS
  <2> QED BY <1>2, <2>2, <2>4, <2>5
<1>7. p # ACK
  <2>1. ASSUME p = ACK PROVE FALSE
    <3>1. Len(p) = 2 /\ p[1] = 79
      BY <2>1 DEF ACK
    <3>2. 1 \in 1..(2 * k) /\ 9 + 1 \in 2..n
      BY <1>1, <1>6, <3>1
    <3>3. p[1] \in HexDigit
      BY <1>1, <1>6, <3>2
    <3> QED BY <3>1, <3>3, Digits
  <2> QED BY <2>1
<1>8. DecodeData(p) = d
  <2>1. ASSUME NEW i \in 1..k PROVE 16 * DigitOf(p[2 * i - 1]) + DigitOf(p[2 * i]) = d[i]
    <3>1. /\ 2 * i - 1 \in 1..(2 * k) /\ 9 + (2 * i - 1) = 8 + 2 * i
          /\ 2 * i \in 1..(2 * k)
      OBVIOUS
    <3>2. p[2 * i - 1] = f[8 + 2 * i] /\ p[2 * i] = f[9 + 2 * i]
      BY <1>6, <3>1
    <3>3. 16 * DigitOf(f[8 + 2 * i]) + DigitOf(f[9 + 2 * i]) = d[i]
      BY <1>1 DEF FrameOf, Spells
    <3> QED BY <3>2, <3>3
  <2>2. k <= Len(d)
    BY <1>1
  <2>3. DecodeData(p) = SubSeq(d, 1, k)
    BY <1>6, <2>1, <2>2, DataReads
  <2>4. SubSeq(d, 1, k) = d
    BY <1>1
  <2> QED BY <2>3, <2>4
<1>9. PICK q : q = ParseFrame(g)
  OBVIOUS
<1>10. /\ q \in Frames /\ q.command = r.command /\ q.address = r.address
       /\ q.length = r.length /\ q.data = r.data
  <2>1. g[1] = f[1]
    BY <1>2
  <2>2. Number4(SubSeq(f, 2, 5)) = r.address /\ Number4(SubSeq(f, 6, 9)) = r.length
    BY DEF FrameOf, Spells
  <2>3. /\ q \in Frames /\ q.command = g[1]
        /\ q.address = Number4(SubSeq(g, 2, 5)) /\ q.length = Number4(SubSeq(g, 6, 9))
        /\ q.data = DecodeData(p)
    BY <1>5, <1>7, <1>9, ParseType
  <2> QED BY <1>1, <1>3, <1>4, <1>8, <2>1, <2>2, <2>3
<1>11. q = [command |-> q.command, address |-> q.address,
            length |-> q.length, data |-> q.data]
  BY <1>10 DEF Frames
<1>12. r = [command |-> r.command, address |-> r.address,
            length |-> r.length, data |-> r.data]
  BY <1>1 DEF Frames
<1> QED BY <1>9, <1>10, <1>11, <1>12


LEMMA AnnouncesSome ==
  ASSUME NEW s \in Seq(Char), Len(s) >= 9
  PROVE  RestLen(SubSeq(s, 1, 9)) \in Nat /\ RestLen(SubSeq(s, 1, 9)) >= 2
<1>1. CASE \A i \in 6..9 : IsDigit(s[i])
  <2>1. PICK l : l = SubSeq(s, 6, 9)
    OBVIOUS
  <2>2. l \in Seq(Char) /\ Len(l) = 4 /\ \A i \in 1..4 : l[i] = s[5 + i] /\ 5 + i \in 6..9
    BY <2>1
  <2>3. Number4(l) \in Nat
    BY <1>1, <2>2, NumberType, WordBound
  <2> QED BY <2>1, <2>3, Announces
<1>2. CASE ~ \A i \in 6..9 : IsDigit(s[i])
  <2>1. RestLen(SubSeq(s, 1, 9)) = 2
    BY <1>2, Announces
  <2> QED BY <2>1
<1> QED BY <1>1, <1>2

LEMMA WholeFrame ==
  ASSUME NEW f, NEW r, NEW s, FrameOf(f, r), StartsAs(s, f, {})
  PROVE  /\ 9 + RestLen(SubSeq(s, 1, 9)) = Len(f)
         /\ SubSeq(s, 1, Len(f)) = f
         /\ ParseFrame(f) = r
<1>1. f \in Seq(Char) /\ s \in Seq(Char) /\ Len(f) <= Len(s) /\ \A i \in 1..Len(f) : s[i] = f[i]
  BY DEF FrameOf, Spells, StartsAs
<1>2. SubSeq(s, 1, Len(f)) = f
  <2>1. PICK g : g = SubSeq(s, 1, Len(f))
    OBVIOUS
  <2>2. g \in Seq(Char) /\ Len(g) = Len(f) /\ \A i \in 1..Len(g) : g[i] = f[i]
    BY <1>1, <2>1
  <2> QED BY <1>1, <2>1, <2>2, SameSeq
<1>3. 9 + RestLen(SubSeq(s, 1, 9)) = Len(f)
  BY FrameSize
<1>4. ParseFrame(f) = r
  BY <1>1, FrameAccepted, FrameContent DEF FrameOf
<1> QED BY <1>2, <1>3, <1>4

\* Two sums as far apart as two characters are different modulo 256.
LEMMA ModDiffer ==
  ASSUME NEW a \in Int, NEW b \in Int, a # b, b - a <= 127, a - b <= 127
  PROVE  a % 256 # b % 256
OBVIOUS

LEMMA CharsApart ==
  \A a, b \in Int : \A x, y \in 0..127 :
     b - a = x - y /\ x # y => a # b /\ b - a <= 127 /\ a - b <= 127
OBVIOUS

LEMMA SumNotices ==
  ASSUME NEW m \in Seq(Char), NEW w \in Seq(Char), Len(m) = Len(w), NEW p \in 1..Len(m),
         \A i \in 1..Len(m) : i # p => m[i] = w[i], m[p] # w[p]
  PROVE  Checksum(m)[1] # Checksum(w)[1] \/ Checksum(m)[2] # Checksum(w)[2]
<1>1. m \in Seq(Int) /\ w \in Seq(Int)
  <2>1. Char \subseteq Int
    BY DEF Char
  <2> QED BY <2>1, SeqMonotonic
<1>2. m[p] \in 0..127 /\ w[p] \in 0..127
  BY Elements DEF Char
<1>3. PICK a \in Int : a = Sum(m)
  BY SumMod
<1>4. PICK b \in Int : b = Sum(w)
  BY SumMod
<1>5. b - a = w[p] - m[p]
  BY <1>1, <1>3, <1>4, SumOfChanged
<1>6. a % 256 # b % 256
  <2>1. a # b /\ b - a <= 127 /\ a - b <= 127
    <3>1. PICK x \in 0..127 : x = w[p]
      BY <1>2
    <3>2. PICK y \in 0..127 : y = m[p]
      BY <1>2
    <3>3. b - a = x - y /\ x # y
      BY <1>5, <3>1, <3>2
    <3>4. a \in Int /\ b \in Int /\ x \in 0..127 /\ y \in 0..127
      BY <1>3, <1>4, <3>1, <3>2
    <3> QED BY <3>3, <3>4, CharsApart, Zenon
  <2> QED BY <1>3, <1>4, <2>1, ModDiffer
<1>7. a % 256 \in Byte /\ b % 256 \in Byte
  BY <1>3, <1>4, SumMod
<1> QED BY <1>3, <1>4, <1>6, <1>7, HexPairsDiffer DEF Checksum


\* A frame with one character damaged, and what comes after it.
Spoils(s, f, p) ==
  /\ p \in 1..Len(f) /\ StartsAs(s, f, {p}) /\ s[p] # f[p]
  /\ Len(s) > Len(f) => s[Len(f) + 1] \in Letter

\* What is read of it: n characters, g, which are accepted.
Takes(s, n, g) ==
  /\ n = 9 + RestLen(SubSeq(s, 1, 9)) /\ n <= Len(s)
  /\ g = SubSeq(s, 1, n) /\ WellFormed(g)

\* Not beyond the frame, since the next one's command would be among its digits.
LEMMA NotBeyond ==
  ASSUME NEW f, NEW r, NEW s, NEW p, NEW n, NEW g,
         FrameOf(f, r), Spoils(s, f, p), Takes(s, n, g)
  PROVE  /\ n \in Nat /\ 11 <= n /\ n <= Len(f)
         /\ g \in Seq(Char) /\ Len(g) = n /\ \A i \in 1..n : g[i] = s[i]
<1>1. /\ s \in Seq(Char) /\ f \in Seq(Char) /\ Len(s) >= Len(f) /\ Len(f) >= 11
  <2>1. Len(f) >= 11
    BY FrameFacts
  <2> QED BY <2>1 DEF Spoils, StartsAs, FrameOf, Spells
<1>2. n \in Nat /\ n >= 11 /\ n <= Len(s)
  BY <1>1, AnnouncesSome DEF Takes
<1>3. g \in Seq(Char) /\ Len(g) = n /\ \A i \in 1..n : g[i] = s[i]
  BY <1>1, <1>2 DEF Takes
<1>4. ASSUME n > Len(f) PROVE FALSE
  <2>1. Len(f) + 1 \in 1..n /\ Len(f) + 1 \in 2..n /\ Len(s) > Len(f)
    BY <1>1, <1>2, <1>4
  <2>2. g[Len(f) + 1] \in Letter
    BY <1>3, <2>1 DEF Spoils
  <2>3. g[Len(f) + 1] \notin Letter
    BY <1>3, <2>1, Accepted DEF Takes
  <2> QED BY <2>2, <2>3
<1> QED BY <1>1, <1>2, <1>3, <1>4

\* Read whole, it is its request's, damaged in its sum only.
LEMMA WholeDespite ==
  ASSUME NEW f, NEW r, NEW s, NEW p, NEW n, NEW g,
         FrameOf(f, r), Spoils(s, f, p), Takes(s, n, g), n = Len(f)
  PROVE  ParseFrame(g) = r
<1>1. /\ s \in Seq(Char) /\ f \in Seq(Char) /\ n \in Nat /\ 11 <= n
      /\ g \in Seq(Char) /\ Len(g) = n /\ \A i \in 1..n : g[i] = s[i]
      /\ p \in 1..n /\ s[p] # f[p] /\ \A i \in 1..n : i # p => s[i] = f[i]
  <2>1. /\ n \in Nat /\ 11 <= n /\ g \in Seq(Char) /\ Len(g) = n
        /\ \A i \in 1..n : g[i] = s[i]
    BY NotBeyond
  <2>2. s \in Seq(Char) /\ f \in Seq(Char) /\ p \in 1..n /\ s[p] # f[p]
    BY DEF Spoils, StartsAs, FrameOf, Spells
  <2>3. ASSUME NEW i \in 1..n, i # p PROVE s[i] = f[i]
    <3>1. i \notin {p}
      BY <2>3
    <3> QED BY <3>1 DEF Spoils, StartsAs
  <2> QED BY <2>1, <2>2, <2>3
<1>2. \A i \in 1..n : i # p => g[i] = f[i]
  BY <1>1
<1>3. ASSUME p <= n - 2 PROVE FALSE
  <2>1. PICK m : m = SubSeq(f, 1, n - 2)
    OBVIOUS
  <2>2. PICK w : w = SubSeq(g, 1, n - 2)
    OBVIOUS
  <2>3. m \in Seq(Char) /\ Len(m) = n - 2 /\ \A i \in 1..(n - 2) : m[i] = f[i]
    BY <1>1, <2>1
  <2>4. w \in Seq(Char) /\ Len(w) = n - 2 /\ \A i \in 1..(n - 2) : w[i] = g[i]
    BY <1>1, <2>2
  <2>5. p \in 1..(n - 2) /\ \A i \in 1..(n - 2) : i \in 1..n
    BY <1>1, <1>3
  <2>6. m[p] # w[p] /\ \A i \in 1..(n - 2) : i # p => m[i] = w[i]
    BY <1>1, <1>2, <2>3, <2>4, <2>5
  <2>7. Checksum(m)[1] # Checksum(w)[1] \/ Checksum(m)[2] # Checksum(w)[2]
    <3>1. n - 2 = Len(m) /\ Len(m) = Len(w)
      BY <2>3, <2>4
    <3>2. p \in 1..Len(m) /\ \A i \in 1..Len(m) : i # p => m[i] = w[i]
      BY <2>5, <2>6, <3>1
    <3> QED BY <2>3, <2>4, <2>6, <3>1, <3>2, SumNotices
  <2>8. ASSUME NEW j \in 1..2 PROVE Checksum(m)[j] = Checksum(w)[j]
    <3>1. PICK i \in 1..n : i = n - 2 + j
      <4>1. n - 2 + j \in 1..n
        BY <1>1
      <4> QED BY <4>1
    <3>2. i # p /\ i \in 2..n
      BY <1>1, <1>3, <3>1
    <3>3. g[i] = f[i] /\ f[i] \in HexDigit
      BY <1>1, <1>2, <3>1, <3>2 DEF FrameOf, Spells
    <3>4. Checksum(w)[j] = g[i]
      <4>1. g[Len(g) - 2 + j] \in HexDigit =>
              Checksum(SubSeq(g, 1, Len(g) - 2))[j] = g[Len(g) - 2 + j]
        BY <1>1, Accepted DEF Takes
      <4> QED BY <1>1, <2>2, <3>1, <3>3, <4>1
    <3>5. Checksum(m)[j] = f[i]
      <4>1. Len(Checksum(m)) = 2
        BY <2>3, SumDigits
      <4>2. Part(f, n - 2, Checksum(m))
        BY <2>1 DEF FrameOf, Spells
      <4> QED BY <3>1, <4>1, <4>2 DEF Part
    <3> QED BY <3>3, <3>4, <3>5
  <2>9. 1 \in 1..2 /\ 2 \in 1..2
    OBVIOUS
  <2> QED BY <2>7, <2>8, <2>9
<1>4. \A i \in 1..(n - 2) : g[i] = f[i]
  <2>1. \A i \in 1..(n - 2) : i \in 1..n /\ i # p
    BY <1>1, <1>3
  <2> QED BY <1>2, <2>1
<1> QED BY <1>1, <1>4, FrameContent DEF Takes


\* Read short, it is a write cut where its own digits follow.
LEMMA CutDespite ==
  ASSUME NEW f, NEW r, NEW s, NEW p, NEW n, NEW g,
         FrameOf(f, r), Spoils(s, f, p), Takes(s, n, g), n # Len(f)
  PROVE  CutShort(ParseFrame(g), r) /\ n + 1 <= Len(f) /\ s[n + 1] \notin Letter
<1>1. PICK d \in Seq(Byte), k \in Nat, m \in Nat :
        /\ d = r.data /\ k = Len(d) /\ m = Len(f) /\ m = 11 + 2 * k
        /\ r \in Frames /\ f \in Seq(Char) /\ f[1] = r.command /\ f[1] \in Letter
        /\ r.address \in Word /\ r.length \in Word
        /\ r.command = WRITE => r.length = k
        /\ r.command = READ => k = 0
        /\ \A i \in 2..m : f[i] \in HexDigit
  BY FrameFacts
<1>2. /\ n \in Nat /\ 11 <= n /\ n <= m
      /\ g \in Seq(Char) /\ Len(g) = n /\ \A i \in 1..n : g[i] = s[i]
  <2>1. /\ n \in Nat /\ 11 <= n /\ n <= Len(f)
        /\ g \in Seq(Char) /\ Len(g) = n /\ \A i \in 1..n : g[i] = s[i]
    BY NotBeyond
  <2> QED BY <1>1, <2>1
<1>3. n < m
  BY <1>1, <1>2
<1>4. p \in 1..m /\ s \in Seq(Char) /\ m <= Len(s) /\ s[p] # f[p]
  BY <1>1 DEF Spoils, StartsAs
<1>5. ASSUME NEW i \in 1..m, i # p PROVE s[i] = f[i]
  <2>1. i \notin {p}
    BY <1>5
  <2> QED BY <1>1, <2>1 DEF Spoils, StartsAs
<1>6. r.command = WRITE /\ r.length = k
  BY <1>1, <1>2, <1>3 DEF Letter
<1>7. p \in {1} \cup 6..9
  <2>1. ASSUME p # 1, p \notin 6..9 PROVE FALSE
    <3>1. 1 \notin {p} /\ \A i \in 6..9 : i \notin {p}
      BY <2>1
    <3>2. StartsAs(s, f, {p})
      BY DEF Spoils
    <3>3. 9 + RestLen(SubSeq(s, 1, 9)) = Len(f)
      BY <3>1, <3>2, FrameSize
    <3> QED BY <1>1, <1>3, <3>3 DEF Takes
  <2> QED BY <2>1
<1>8. s[n + 1] \notin Letter
  <2>1. n + 1 \in 2..m /\ n + 1 \in 1..m /\ n + 1 # p
    BY <1>2, <1>3, <1>7
  <2>2. s[n + 1] \in HexDigit
    BY <1>1, <1>5, <2>1
  <2> QED BY <2>2, Digits, Letters
<1>19. n + 1 <= Len(f)
  BY <1>1, <1>2, <1>3
<1>9. /\ g[1] \in Letter /\ \A i \in 2..9 : IsDigit(g[i]) /\ IsDigit(s[i])
  <2>1. \A i \in 2..9 : i \in 1..n
    BY <1>2
  <2> QED BY <1>2, <2>1, Accepted DEF Takes
<1>10. PICK q : q = ParseFrame(g)
  OBVIOUS
<1>11. PICK y : y = Payload(g)
  OBVIOUS
<1>12. /\ q \in Frames /\ q.command = g[1]
       /\ q.address = Number4(SubSeq(g, 2, 5))
       /\ q.length = Number4(SubSeq(g, 6, 9))
       /\ y # ACK => q.data = DecodeData(y)
  BY <1>2, <1>10, <1>11, ParseType DEF Takes
<1>13. q.address = r.address
  <2>1. \A i \in (1 + 1)..5 : i \in 1..n /\ i \in 1..m /\ i # p
    BY <1>2, <1>3, <1>7
  <2>2. \A i \in (1 + 1)..5 : g[i] = f[i]
    BY <1>2, <1>5, <2>1
  <2>3. 1 \in Nat /\ 5 \in Nat /\ 1 <= 5 /\ 5 <= Len(g) /\ 5 <= Len(f) /\ 1 + 1 = 2
    BY <1>1, <1>2, <1>3
  <2>4. SubSeq(g, 1 + 1, 5) = SubSeq(f, 1 + 1, 5)
    BY <1>1, <1>2, <2>2, <2>3, SameCut
  <2> QED BY <1>12, <2>3, <2>4 DEF FrameOf, Spells
<1>14. SubSeq(g, 6, 9) = SubSeq(s, 6, 9)
  <2>1. \A i \in (5 + 1)..9 : i \in 1..n
    BY <1>2
  <2>2. \A i \in (5 + 1)..9 : g[i] = s[i]
    BY <1>2, <2>1
  <2>3. 5 \in Nat /\ 9 \in Nat /\ 5 <= 9 /\ 9 <= Len(g) /\ 9 <= Len(s) /\ 5 + 1 = 6
    BY <1>2, <1>3, <1>4
  <2>4. SubSeq(g, 5 + 1, 9) = SubSeq(s, 5 + 1, 9)
    BY <1>2, <1>4, <2>2, <2>3, SameCut
  <2> QED BY <2>3, <2>4
<1>15. n = 9 + (IF s[1] = WRITE THEN 2 * q.length + 2 ELSE 2)
  <2>1. Len(s) >= 9 /\ \A i \in 6..9 : i \in 2..9
    BY <1>2, <1>3, <1>4
  <2>2. RestLen(SubSeq(s, 1, 9)) = IF s[1] = WRITE THEN 2 * q.length + 2 ELSE 2
    BY <1>4, <1>9, <1>12, <1>14, <2>1, Announces
  <2> QED BY <2>2 DEF Takes
<1>16. s[1] = g[1]
  BY <1>2
<1>17. CASE p = 1
  <2>1. s[1] # WRITE /\ q.command = READ
    BY <1>1, <1>4, <1>6, <1>9, <1>12, <1>16, <1>17 DEF Letter
  <2>2. n = 11
    BY <1>15, <2>1
  <2>3. q.length = r.length
    <3>1. \A i \in (5 + 1)..9 : i \in 1..m /\ i # p
      BY <1>2, <1>3, <1>17
    <3>2. \A i \in (5 + 1)..9 : s[i] = f[i]
      BY <1>5, <3>1
    <3>3. 5 \in Nat /\ 9 \in Nat /\ 5 <= 9 /\ 9 <= Len(f) /\ 9 <= Len(s) /\ 5 + 1 = 6
      BY <1>1, <1>2, <1>3, <1>4
    <3>4. SubSeq(s, 5 + 1, 9) = SubSeq(f, 5 + 1, 9)
      BY <1>1, <1>4, <3>2, <3>3, SameCut
    <3> QED BY <1>12, <1>14, <3>3, <3>4 DEF FrameOf, Spells
  <2>4. q.data = <<>>
    <3>1. y = SubSeq(g, 9 + 1, 9)
      BY <1>2, <1>11, <2>2 DEF Payload
    <3>2. y \in Seq(Char) /\ Len(y) = 0
      BY <1>2, <3>1
    <3>3. y # ACK
      BY <3>2 DEF ACK
    <3>4. DecodeData(y) = <<>>
      <4>1. DecodeData(y) = [i \in 1..0 |-> Number2(SubSeq(y, 2 * i - 1, 2 * i))]
        BY <3>2 DEF DecodeData
      <4> QED BY <4>1
    <3> QED BY <1>12, <3>3, <3>4
  <2>5. CutShort(q, r)
    BY <1>6, <1>13, <2>1, <2>3, <2>4 DEF CutShort
  <2> QED BY <1>8, <1>10, <1>19, <2>5
<1>18. CASE p \in 6..9
  <2>1. s[1] = WRITE /\ q.command = WRITE
    <3>1. 1 \in 1..m /\ 1 # p
      BY <1>1, <1>18
    <3> QED BY <1>1, <1>5, <1>6, <1>12, <1>16, <3>1
  <2>2. PICK l \in Nat : l = q.length
    <3>1. q.length \in Word
      BY <1>12 DEF Frames
    <3> QED BY <3>1, WordBound
  <2>3. n = 11 + 2 * l /\ l < k
    BY <1>1, <1>3, <1>15, <2>1, <2>2
  <2>4. y \in Seq(Char) /\ Len(y) = 2 * l /\ \A i \in 1..(2 * l) : y[i] = f[9 + i]
    <3>1. PICK b \in Nat : b = 9 + 2 * l
      OBVIOUS
    <3>2. 9 \in Nat /\ 9 <= b /\ b <= Len(g) /\ b = Len(g) - 2 /\ b - 9 = 2 * l /\ 9 + 1 = 10
      BY <1>2, <2>3, <3>1
    <3>3. y = SubSeq(g, 9 + 1, b)
      BY <1>11, <3>2 DEF Payload
    <3>4. y \in Seq(Char) /\ Len(y) = b - 9 /\ \A i \in 1..(b - 9) : y[i] = g[9 + i]
      BY <1>2, <3>2, <3>3, Cut
    <3>5. \A i \in 1..(2 * l) : 9 + i \in 1..n /\ 9 + i \in 1..m /\ 9 + i # p
      BY <1>3, <1>18, <2>3
    <3> QED BY <1>2, <1>5, <3>2, <3>4, <3>5
  <2>5. y # ACK
    <3>1. ASSUME y = ACK PROVE FALSE
      <4>1. Len(y) = 2 /\ y[1] = 79
        BY <3>1 DEF ACK
      <4>2. 1 \in 1..(2 * l) /\ 9 + 1 \in 2..m
        BY <1>1, <2>2, <2>3, <2>4, <4>1
      <4>3. y[1] \in HexDigit
        BY <1>1, <2>4, <4>2
      <4> QED BY <4>1, <4>3, Digits
    <3> QED BY <3>1
  <2>6. DecodeData(y) = SubSeq(d, 1, l)
    <3>1. ASSUME NEW i \in 1..l PROVE 16 * DigitOf(y[2 * i - 1]) + DigitOf(y[2 * i]) = d[i]
      <4>1. /\ 2 * i - 1 \in 1..(2 * l) /\ 9 + (2 * i - 1) = 8 + 2 * i
            /\ 2 * i \in 1..(2 * l)
        OBVIOUS
      <4>2. y[2 * i - 1] = f[8 + 2 * i] /\ y[2 * i] = f[9 + 2 * i]
        BY <2>4, <4>1
      <4>3. i \in 1..Len(d)
        BY <1>1, <2>3
      <4>4. 16 * DigitOf(f[8 + 2 * i]) + DigitOf(f[9 + 2 * i]) = d[i]
        BY <1>1, <4>3 DEF FrameOf, Spells
      <4> QED BY <4>2, <4>4
    <3>2. l <= Len(d)
      BY <1>1, <2>3
    <3> QED BY <2>4, <3>1, <3>2, DataReads
  <2>7. q.data = SubSeq(r.data, 1, q.length) /\ q.length < r.length
    BY <1>1, <1>6, <1>12, <2>2, <2>3, <2>5, <2>6
  <2>8. CutShort(q, r)
    BY <1>6, <1>13, <2>1, <2>7 DEF CutShort
  <2> QED BY <1>8, <1>10, <1>19, <2>8
<1> QED BY <1>7, <1>17, <1>18


-----------------------------------------------------------------------------
(* A request's reply is well-formed, and of the size its client waits for.  *)

LEMMA AckAccepted ==
  ASSUME NEW f, NEW c \in Letter, NEW a \in Word, NEW l \in Word, Shape(f, c, a, l, ACK)
  PROVE  WellFormed(f) /\ Len(f) = 13
<1>1. Len(ACK) = 2 /\ ACK[1] = 79 /\ ACK[2] = 75 /\ ACK \in Seq(Char)
  <2>1. PICK x \in Char, y \in Char : x = 79 /\ y = 75
    BY Letters
  <2>2. ACK = <<x, y>>
    BY <2>1 DEF ACK
  <2> QED BY <2>1, <2>2
<1>2. f \in Seq(Char) /\ Len(f) = 13 /\ f[1] = c
  BY <1>1 DEF Shape
<1>3. \A j \in 1..4 : IsDigit(f[1 + j]) /\ IsDigit(f[5 + j])
  <2>1. Part(f, 1, Hex4(a)) /\ 1 + 4 <= Len(f) /\ Part(f, 5, Hex4(l)) /\ 5 + 4 <= Len(f)
    BY <1>2 DEF Shape
  <2>2. \A j \in 1..4 : f[1 + j] \in HexDigit
    BY <1>2, <2>1, FieldReads
  <2>3. \A j \in 1..4 : f[5 + j] \in HexDigit
    BY <1>2, <2>1, FieldReads
  <2> QED BY <2>2, <2>3, Digits
<1>4. AllDigits(SubSeq(f, 2, 9))
  <2>1. PICK s : s = SubSeq(f, 2, 9)
    OBVIOUS
  <2>2. DOMAIN s = 1..8 /\ \A i \in 1..8 : s[i] = f[i + 1]
    BY <1>2, <2>1
  <2>3. ASSUME NEW i \in 1..8 PROVE IsDigit(s[i])
    <3>1. (i \in 1..4 /\ i + 1 = 1 + i) \/ (i - 4 \in 1..4 /\ i + 1 = 5 + (i - 4))
      OBVIOUS
    <3> QED BY <1>3, <2>2, <3>1
  <2> QED BY <2>1, <2>2, <2>3 DEF AllDigits
<1>5. Payload(f) = ACK
  <2>1. PICK s : s = Payload(f)
    OBVIOUS
  <2>4. /\ s = SubSeq(f, 9 + 1, 11) /\ 9 \in Nat /\ 11 \in Nat /\ 9 <= 11
        /\ 11 <= Len(f) /\ 11 - 9 = 2
    BY <1>2, <2>1 DEF Payload
  <2>2. s \in Seq(Char) /\ Len(s) = 2 /\ \A i \in 1..2 : s[i] = f[9 + i]
    <3>1. /\ s \in Seq(Char) /\ Len(s) = 11 - 9
          /\ \A i \in 1..(11 - 9) : s[i] = f[9 + i]
      BY <1>2, <2>4, Cut
    <3> QED BY <2>4, <3>1
  <2>3. \A i \in 1..2 : f[9 + i] = ACK[i]
    BY <1>1 DEF Shape, Part
  <2> QED BY <1>1, <2>1, <2>2, <2>3, SameSeq
<1>6. Checksum(SubSeq(f, 1, 11)) = Upper(SubSeq(f, 12, 13))
  <2>1. PICK x : x = Checksum(SubSeq(f, 1, 11))
    OBVIOUS
  <2>2. x \in Seq(Char) /\ Len(x) = 2 /\ x[1] \in HexDigit /\ x[2] \in HexDigit
    <3>1. 0 \in Nat /\ 11 \in Nat /\ 0 <= 11 /\ 11 <= Len(f) /\ 0 + 1 = 1
      BY <1>2
    <3>2. SubSeq(f, 0 + 1, 11) \in Seq(Char)
      BY <1>2, <3>1, Cut
    <3> QED BY <2>1, <3>1, <3>2, SumDigits
  <2>3. Part(f, 11, x)
    BY <1>1, <2>1 DEF Shape
  <2>4. f[12] = x[1] /\ f[13] = x[2]
    BY <2>2, <2>3 DEF Part
  <2>5. PICK t : t = SubSeq(f, 12, 13)
    OBVIOUS
  <2>6. DOMAIN t = 1..2 /\ t[1] = x[1] /\ t[2] = x[2]
    BY <1>2, <2>4, <2>5
  <2>7. x[1] \notin 97..122 /\ x[2] \notin 97..122
    BY <2>2, Digits
  <2>8. Upper(t) = [j \in 1..2 |-> x[j]]
    BY <2>6, <2>7 DEF Upper
  <2>9. x = [j \in 1..2 |-> x[j]]
    BY <2>2
  <2> QED BY <2>1, <2>5, <2>8, <2>9
<1>7. Len(f) - 2 = 11 /\ Len(f) - 1 = 12 /\ Len(f) >= 11 /\ c \in {READ, WRITE}
  BY <1>2 DEF Letter
<1> QED BY <1>2, <1>4, <1>5, <1>6, <1>7 DEF WellFormed

LEMMA ReplyAccepted ==
  ASSUME NEW r \in Requests
  PROVE  WellFormed(Reply(r)) /\ Len(Reply(r)) = ExpectedResponseLen(Raw(r))
<1>1. /\ r \in Frames /\ r.command \in Letter /\ r.address \in Word /\ r.length \in Word
      /\ Raw(r)[1] = r.command /\ Number4(SubSeq(Raw(r), 6, 9)) = r.length
  BY RequestType, RawFrame DEF Frames, Letter, FrameOf, Spells
<1>2. CASE r.command = READ
  <2>1. PICK d : d = [i \in 1..r.length |-> 255]
    OBVIOUS
  <2>2. d \in Seq(Byte) /\ Len(d) = r.length
    <3>1. r.length \in Nat /\ 255 \in Byte
      BY <1>1, WordBound DEF Byte
    <3> QED BY <2>1, <3>1
  <2>3. PICK q : q = [command |-> READ, address |-> r.address, length |-> r.length, data |-> d]
    OBVIOUS
  <2>4. q \in Frames
    BY <1>1, <2>2, <2>3 DEF Frames
  <2>5. PICK p : p = EncodeData(d)
    OBVIOUS
  <2>6. p \in Seq(Char)
    BY <2>2, <2>5, EncodeBytes DEF Bytes
  <2>7. Reply(r) = WithSum(Envelope(READ, r.address, r.length) \o p)
    BY <1>2, <2>1, <2>5 DEF Reply, BuildFrame
  <2>8. Shape(Reply(r), READ, r.address, r.length, p)
    BY <1>1, <1>2, <2>6, <2>7, FrameShape, Letters
  <2>9. Spells(Reply(r), q)
    BY <2>3, <2>4, <2>5, <2>8, ShapeFrame
  <2>10. Len(Reply(r)) = 11 + 2 * r.length
    BY <2>2, <2>3, <2>9 DEF Spells
  <2>11. ExpectedResponseLen(Raw(r)) = 9 + 2 * r.length + 2
    BY <1>1, <1>2 DEF ExpectedResponseLen
  <2>12. r.length \in Nat
    BY <1>1, WordBound
  <2> QED BY <2>9, <2>10, <2>11, <2>12, FrameAccepted
<1>3. CASE r.command = WRITE
  <2>1. ACK \in Seq(Char) /\ Len(ACK) = 2
    <3>1. PICK x \in Char, y \in Char : x = 79 /\ y = 75
      BY Letters
    <3>2. ACK = <<x, y>>
      BY <3>1 DEF ACK
    <3> QED BY <3>2
  <2>2. Reply(r) = WithSum(Envelope(WRITE, r.address, r.length) \o ACK)
    BY <1>3, Letters DEF Reply, BuildAck
  <2>3. Shape(Reply(r), WRITE, r.address, r.length, ACK)
    BY <1>1, <1>3, <2>1, <2>2, FrameShape, Letters
  <2>4. WellFormed(Reply(r)) /\ Len(Reply(r)) = 13
    BY <1>1, <1>3, <2>3, AckAccepted
  <2>5. ExpectedResponseLen(Raw(r)) = 13
    BY <1>1, <1>3, <2>1, Letters DEF ExpectedResponseLen
  <2> QED BY <2>4, <2>5
<1> QED BY <1>1, <1>2, <1>3 DEF Letter


-----------------------------------------------------------------------------
(* The row of frames on the stream.                                         *)

\* The frames of the requests of s from the one after the k-th on.
RawFrom(s, k) == [i \in 1..(Len(s) - k) |-> Raw(s[k + i])]
Row(s, k) == FlattenSeq(RawFrom(s, k))

LEMMA RawFromType ==
  ASSUME NEW s \in Seq(Requests), NEW k \in 0..Len(s)
  PROVE  RawFrom(s, k) \in Seq(Seq(Char)) /\ Len(RawFrom(s, k)) = Len(s) - k
<1>1. ASSUME NEW i \in 1..(Len(s) - k) PROVE Raw(s[k + i]) \in Seq(Char)
  <2>1. s[k + i] \in Requests
    <3>1. k + i \in 1..Len(s)
      OBVIOUS
    <3> QED BY <3>1
  <2> QED BY <2>1, RawFrame DEF FrameOf, Spells
<1>2. Len(s) - k \in Nat
  OBVIOUS
<1> QED BY <1>1, <1>2 DEF RawFrom

LEMMA RowType ==
  ASSUME NEW s \in Seq(Requests), NEW k \in 0..Len(s)
  PROVE  Row(s, k) \in Seq(Char)
BY RawFromType, FlattenType DEF Row

LEMMA RowEmpty ==
  ASSUME NEW s \in Seq(Requests)
  PROVE  Row(s, Len(s)) = <<>>
<1>1. PICK t : t = RawFrom(s, Len(s))
  OBVIOUS
<1>2. t \in Seq(Seq(Char)) /\ Len(t) = 0
  <2>1. Len(s) \in 0..Len(s)
    OBVIOUS
  <2> QED BY <1>1, <2>1, RawFromType
<1> QED BY <1>1, <1>2, FlattenEmpty DEF Row

LEMMA RowCons ==
  ASSUME NEW s \in Seq(Requests), NEW k \in 0..(Len(s) - 1)
  PROVE  Row(s, k) = Raw(s[k + 1]) \o Row(s, k + 1)
<1>1. PICK tt : tt = RawFrom(s, k)
  OBVIOUS
<1>2. PICK ss : ss = RawFrom(s, k + 1)
  OBVIOUS
<1>3. k \in 0..Len(s) /\ k + 1 \in 0..Len(s) /\ k + 1 \in 1..Len(s)
  OBVIOUS
<1>4. PICK x : x = Raw(s[k + 1])
  OBVIOUS
<1>5. x \in Seq(Char)
  <2>1. s[k + 1] \in Requests
    BY <1>3
  <2> QED BY <1>4, <2>1, RawFrame DEF FrameOf, Spells
<1>6. tt \in Seq(Seq(Char)) /\ ss \in Seq(Seq(Char))
  BY <1>1, <1>2, <1>3, RawFromType
<1>7. Len(tt) = Len(s) - k /\ Len(ss) = Len(s) - (k + 1)
  BY <1>1, <1>2, <1>3, RawFromType
<1>8. Len(tt) = Len(ss) + 1
  BY <1>3, <1>7
<1>9. tt[1] = x
  <2>1. 1 \in 1..(Len(s) - k)
    OBVIOUS
  <2> QED BY <1>1, <1>4, <2>1 DEF RawFrom
<1>10. ASSUME NEW i \in 1..Len(ss) PROVE tt[i + 1] = ss[i]
  <2>1. i \in 1..(Len(s) - (k + 1)) /\ i + 1 \in 1..(Len(s) - k)
    BY <1>7
  <2>2. k + (i + 1) = (k + 1) + i
    BY <2>1
  <2> QED BY <1>1, <1>2, <2>1, <2>2 DEF RawFrom
<1>11. FlattenSeq(tt) = x \o FlattenSeq(ss)
  <2>1. \A i \in 1..Len(ss) : tt[i + 1] = ss[i]
    BY <1>10
  <2> QED BY <1>5, <1>6, <1>8, <1>9, <2>1, FlattenCons
<1> QED BY <1>1, <1>2, <1>4, <1>11 DEF Row

LEMMA RowSnoc ==
  ASSUME NEW s \in Seq(Requests), NEW r \in Requests, NEW k \in 0..Len(s)
  PROVE  Row(Append(s, r), k) = Row(s, k) \o Raw(r)
<1>1. PICK u : u = Append(s, r)
  OBVIOUS
<1>2. /\ u \in Seq(Requests) /\ Len(u) = Len(s) + 1 /\ u[Len(s) + 1] = r
      /\ \A i \in 1..Len(s) : u[i] = s[i]
  BY <1>1
<1>3. PICK tt : tt = RawFrom(u, k)
  OBVIOUS
<1>4. PICK ss : ss = RawFrom(s, k)
  OBVIOUS
<1>5. k \in 0..Len(u)
  BY <1>2
<1>6. PICK x : x = Raw(r)
  OBVIOUS
<1>7. x \in Seq(Char)
  BY <1>6, RawFrame DEF FrameOf, Spells
<1>8. tt \in Seq(Seq(Char)) /\ ss \in Seq(Seq(Char))
  BY <1>2, <1>3, <1>4, <1>5, RawFromType
<1>9. Len(tt) = Len(u) - k /\ Len(ss) = Len(s) - k
  BY <1>2, <1>3, <1>4, <1>5, RawFromType
<1>10. Len(tt) = Len(ss) + 1
  BY <1>2, <1>9
<1>11. tt[Len(tt)] = x
  <2>1. Len(tt) \in 1..(Len(u) - k) /\ k + Len(tt) = Len(s) + 1
    BY <1>2, <1>9
  <2> QED BY <1>2, <1>3, <1>6, <2>1 DEF RawFrom
<1>12. ASSUME NEW i \in 1..Len(ss) PROVE tt[i] = ss[i]
  <2>1. i \in 1..(Len(s) - k) /\ i \in 1..(Len(u) - k) /\ k + i \in 1..Len(s)
    BY <1>2, <1>9
  <2>2. u[k + i] = s[k + i]
    BY <1>2, <2>1
  <2> QED BY <1>3, <1>4, <2>1, <2>2 DEF RawFrom
<1>13. FlattenSeq(tt) = FlattenSeq(ss) \o x
  <2>1. \A i \in 1..Len(ss) : tt[i] = ss[i]
    BY <1>12
  <2> QED BY <1>7, <1>8, <1>10, <1>11, <2>1, FlattenSnoc
<1> QED BY <1>1, <1>3, <1>4, <1>6, <1>13 DEF Row

LEMMA RowStarts ==
  ASSUME NEW s \in Seq(Requests), NEW k \in 0..Len(s), Len(Row(s, k)) > 0
  PROVE  Row(s, k)[1] \in Letter /\ k < Len(s)
<1>1. k < Len(s)
  <2>1. ASSUME k = Len(s) PROVE FALSE
    <3>1. Row(s, k) = <<>>
      BY <2>1, RowEmpty
    <3>2. Len(Row(s, k)) = 0
      BY <3>1
    <3> QED BY <3>2
  <2> QED BY <2>1
<1>2. k \in 0..(Len(s) - 1) /\ k + 1 \in 0..Len(s) /\ k + 1 \in 1..Len(s)
  BY <1>1
<1>3. PICK f : f = Raw(s[k + 1])
  OBVIOUS
<1>4. FrameOf(f, s[k + 1])
  <2>1. s[k + 1] \in Requests
    BY <1>2
  <2> QED BY <1>3, <2>1, RawFrame
<1>5. f \in Seq(Char) /\ Len(f) >= 11 /\ f[1] \in Letter
  <2>1. Len(f) >= 11 /\ f[1] \in Letter
    BY <1>4, FrameFacts
  <2> QED BY <1>4, <2>1 DEF FrameOf, Spells
<1>6. Joined(f, Row(s, k + 1), Row(s, k))
  <2>1. Row(s, k + 1) \in Seq(Char)
    BY <1>2, RowType
  <2>2. Row(s, k) = f \o Row(s, k + 1)
    BY <1>2, <1>3, RowCons
  <2> QED BY <1>5, <2>1, <2>2, ConcatJoins
<1>7. 1 \in 1..Len(f)
  BY <1>5
<1> QED BY <1>1, <1>5, <1>6, <1>7 DEF Joined


-----------------------------------------------------------------------------
(* Where the front-end is on the stream.                                    *)

\* k requests have been dispatched, and are the ones sent first.
TakenTo(k) == k \in 0..Len(sent) /\ got = SubSeq(sent, 1, k)

\* Two rows of characters are the same but for one character.
OnePlace(s, t) ==
  /\ Len(s) = Len(t)
  /\ \E p \in 1..Len(t) : s[p] # t[p] /\ \A i \in 1..Len(t) : i # p => s[i] = t[i]

Whole(k)   == TakenTo(k) /\ stream = Row(sent, k)
Spoilt(k)  == TakenTo(k) /\ OnePlace(stream, Row(sent, k))

\* What is next is no command: what is left of a write that was cut short.
Lost == Len(stream) > 0 /\ stream[1] \notin Letter

\* The front-end is in front of a frame, or about to drop the client.
Placed ==
  /\ clean => \E k \in 0..Len(sent) : Whole(k)
  /\ open => \/ ~clean /\ Lost
             \/ \E k \in 0..Len(sent) : Whole(k) \/ (~clean /\ Spoilt(k))

FInv == TypeOK /\ OnlySentDispatched /\ Placed

LEMMA Taken ==
  ASSUME NEW s \in Seq(Requests), NEW k \in 0..Len(s)
  PROVE  /\ IsPrefix(SubSeq(s, 1, k), s) /\ Len(SubSeq(s, 1, k)) = k
         /\ SubSeq(s, 1, k) \in Seq(Requests)
         /\ k < Len(s) => Append(SubSeq(s, 1, k), s[k + 1]) = SubSeq(s, 1, k + 1)
<1>1. PICK u : u = SubSeq(s, 1, k)
  OBVIOUS
<1>2. u \in Seq(Requests) /\ Len(u) = k /\ \A i \in 1..k : u[i] = s[i]
  BY <1>1
<1>3. IsPrefix(u, s)
  <2>1. SubSeq(u, 1, k) = u
    BY <1>2
  <2> QED BY <1>1, <1>2, <2>1 DEF IsPrefix
<1>4. ASSUME k < Len(s) PROVE Append(u, s[k + 1]) = SubSeq(s, 1, k + 1)
  <2>1. PICK v : v = SubSeq(s, 1, k + 1)
    OBVIOUS
  <2>2. v \in Seq(Requests) /\ Len(v) = k + 1 /\ \A i \in 1..(k + 1) : v[i] = s[i]
    BY <1>4, <2>1
  <2>3. PICK w : w = Append(u, s[k + 1])
    OBVIOUS
  <2>4. s[k + 1] \in Requests
    BY <1>4
  <2>5. w \in Seq(Requests) /\ Len(w) = k + 1 /\ w[k + 1] = s[k + 1]
        /\ \A i \in 1..k : w[i] = u[i]
    BY <1>2, <2>3, <2>4
  <2>6. \A i \in 1..(k + 1) : w[i] = v[i]
    BY <1>2, <2>2, <2>5
  <2> QED BY <2>1, <2>2, <2>3, <2>5, <2>6
<1> QED BY <1>1, <1>2, <1>3, <1>4

LEMMA TakenStays ==
  ASSUME NEW s \in Seq(Requests), NEW r \in Requests
  PROVE  /\ Append(s, r) \in Seq(Requests) /\ Len(Append(s, r)) = Len(s) + 1
         /\ \A i \in 1..Len(s) : Append(s, r)[i] = s[i]
         /\ \A k \in 0..Len(s) : SubSeq(Append(s, r), 1, k) = SubSeq(s, 1, k)
<1>1. PICK u : u = Append(s, r)
  OBVIOUS
<1>2. /\ u \in Seq(Requests) /\ Len(u) = Len(s) + 1 /\ \A i \in 1..Len(s) : u[i] = s[i]
  BY <1>1
<1>3. ASSUME NEW k \in 0..Len(s) PROVE SubSeq(u, 1, k) = SubSeq(s, 1, k)
  <2>1. PICK v : v = SubSeq(u, 1, k)
    OBVIOUS
  <2>2. PICK w : w = SubSeq(s, 1, k)
    OBVIOUS
  <2>3. v \in Seq(Requests) /\ Len(v) = k /\ \A i \in 1..k : v[i] = u[i]
    BY <1>2, <2>1
  <2>4. w \in Seq(Requests) /\ Len(w) = k /\ \A i \in 1..k : w[i] = s[i]
    BY <2>2
  <2>5. \A i \in 1..k : v[i] = w[i]
    BY <1>2, <2>3, <2>4
  <2> QED BY <2>1, <2>2, <2>3, <2>4, <2>5
<1> QED BY <1>1, <1>2, <1>3

\* The frame in front of a row, and the row behind it.
Ahead(s, k, f, rest) ==
  /\ FrameOf(f, s[k + 1]) /\ f \in Seq(Char) /\ Len(f) >= 11
  /\ rest \in Seq(Char) /\ rest = Row(s, k + 1)
  /\ Joined(f, rest, Row(s, k))
  /\ Len(rest) > 0 => rest[1] \in Letter

LEMMA NextFrame ==
  ASSUME NEW s \in Seq(Requests), NEW k \in 0..(Len(s) - 1)
  PROVE  \E f, rest : Ahead(s, k, f, rest)
<1>1. k + 1 \in 0..Len(s) /\ k + 1 \in 1..Len(s)
  OBVIOUS
<1>2. PICK f : f = Raw(s[k + 1])
  OBVIOUS
<1>3. FrameOf(f, s[k + 1])
  <2>1. s[k + 1] \in Requests
    BY <1>1
  <2> QED BY <1>2, <2>1, RawFrame
<1>4. f \in Seq(Char) /\ Len(f) >= 11
  <2>1. Len(f) >= 11
    BY <1>3, FrameFacts
  <2> QED BY <1>3, <2>1 DEF FrameOf, Spells
<1>5. PICK rest : rest = Row(s, k + 1)
  OBVIOUS
<1>6. rest \in Seq(Char)
  BY <1>1, <1>5, RowType
<1>7. Joined(f, rest, Row(s, k))
  <2>1. Row(s, k) = f \o rest
    BY <1>2, <1>5, RowCons
  <2> QED BY <1>4, <1>6, <2>1, ConcatJoins
<1>8. Len(rest) > 0 => rest[1] \in Letter
  BY <1>1, <1>5, RowStarts
<1> QED BY <1>3, <1>4, <1>5, <1>6, <1>7, <1>8 DEF Ahead

\* What is left of a stream when n characters are read.
Left(t, n, u) ==
  /\ u \in Seq(Char) /\ Len(u) = Len(t) - n
  /\ \A i \in 1..(Len(t) - n) : u[i] = t[n + i]

LEMMA LeftOf ==
  ASSUME NEW t \in Seq(Char), NEW n \in Nat, n <= Len(t)
  PROVE  Left(t, n, SubSeq(t, n + 1, Len(t)))
BY Cut DEF Left


-----------------------------------------------------------------------------
(* Every step keeps the front-end in its place.                             *)

LEMMA InitInv == Init => FInv
<1> SUFFICES ASSUME Init PROVE FInv
  OBVIOUS
<1>1. sent = <<>> /\ stream = <<>> /\ clean = TRUE /\ got = <<>> /\ open = TRUE
  BY DEF Init
<1>2. sent \in Seq(Requests) /\ Len(sent) = 0 /\ 0 \in 0..Len(sent)
  BY <1>1
<1>3. TypeOK
  <2>1. MaxRequests \in Nat
    BY FramingAssumption DEF FramingAssumption
  <2> QED BY <1>1, <1>2, <2>1 DEF TypeOK
<1>4. got = SubSeq(sent, 1, 0)
  BY <1>1
<1>5. stream = Row(sent, 0)
  BY <1>1, <1>2, RowEmpty
<1>6. Whole(0)
  BY <1>2, <1>4, <1>5 DEF Whole, TakenTo
<1>7. IsPrefix(got, sent)
  BY <1>2, <1>4, Taken
<1> QED BY <1>2, <1>3, <1>6, <1>7 DEF FInv, Placed, OnlySentDispatched

LEMMA SendInv ==
  ASSUME FInv, NEW r \in Requests, SendRequest(r)
  PROVE  FInv'
<1>1. /\ open /\ Len(sent) < MaxRequests
      /\ sent' = Append(sent, r) /\ stream' = stream \o Raw(r)
      /\ clean' = clean /\ got' = got /\ open' = open
  BY DEF SendRequest
<1>2. /\ sent \in Seq(Requests) /\ stream \in Seq(Char) /\ got \in Seq(Frames)
      /\ Len(sent) \in Nat /\ MaxRequests \in Nat
  BY FramingAssumption DEF FInv, TypeOK, FramingAssumption
<1>3. /\ sent' \in Seq(Requests) /\ Len(sent') = Len(sent) + 1
      /\ \A i \in 1..Len(sent) : sent'[i] = sent[i]
      /\ \A k \in 0..Len(sent) : SubSeq(sent', 1, k) = SubSeq(sent, 1, k)
  BY <1>1, <1>2, TakenStays
<1>4. PICK x \in Seq(Char) : x = Raw(r)
  BY RawFrame DEF FrameOf, Spells
<1>5. Joined(stream, x, stream') /\ stream' \in Seq(Char)
  <2>1. Joined(stream, x, stream')
    BY <1>1, <1>2, <1>4, ConcatJoins
  <2> QED BY <2>1 DEF Joined
<1>6. TypeOK'
  BY <1>1, <1>2, <1>3, <1>5 DEF FInv, TypeOK
<1>7. ASSUME NEW k \in 0..Len(sent)
      PROVE  k \in 0..Len(sent') /\ Row(sent', k) = Row(sent, k) \o x /\ Row(sent, k) \in Seq(Char)
  <2>1. k \in 0..Len(sent')
    BY <1>2, <1>3
  <2>2. Row(Append(sent, r), k) = Row(sent, k) \o Raw(r) /\ Row(sent, k) \in Seq(Char)
    BY <1>2, RowSnoc, RowType
  <2> QED BY <1>1, <1>4, <2>1, <2>2
<1>8. ASSUME NEW k \in 0..Len(sent), Whole(k) PROVE Whole(k)'
  <2>1. TakenTo(k)'
    BY <1>1, <1>3, <1>7, <1>8 DEF Whole, TakenTo
  <2>2. stream' = Row(sent', k)
    BY <1>1, <1>4, <1>7, <1>8 DEF Whole
  <2> QED BY <2>1, <2>2 DEF Whole
<1>9. ASSUME NEW k \in 0..Len(sent), Spoilt(k) PROVE Spoilt(k)'
  <2>1. TakenTo(k)'
    BY <1>1, <1>3, <1>7, <1>9 DEF Spoilt, TakenTo
  <2>2. PICK t : t = Row(sent, k)
    OBVIOUS
  <2>3. PICK u : u = Row(sent', k)
    OBVIOUS
  <2>4. t \in Seq(Char) /\ Joined(t, x, u)
    BY <1>4, <1>7, <2>2, <2>3, ConcatJoins
  <2>5. PICK p \in 1..Len(t) :
          /\ Len(stream) = Len(t) /\ stream[p] # t[p]
          /\ \A i \in 1..Len(t) : i # p => stream[i] = t[i]
    BY <1>9, <2>2 DEF Spoilt, OnePlace
  <2>6. Len(stream') = Len(u) /\ p \in 1..Len(u) /\ stream'[p] # u[p]
    BY <1>5, <2>4, <2>5 DEF Joined
  <2>7. ASSUME NEW i \in 1..Len(u), i # p PROVE stream'[i] = u[i]
    <3>1. CASE i \in 1..Len(t)
      BY <1>5, <2>4, <2>5, <2>7, <3>1 DEF Joined
    <3>2. CASE i \notin 1..Len(t)
      <4>1. i - Len(t) \in 1..Len(x) /\ Len(t) + (i - Len(t)) = i
        BY <2>4, <3>2 DEF Joined
      <4> QED BY <1>5, <2>4, <2>5, <4>1 DEF Joined
    <3> QED BY <3>1, <3>2
  <2>8. OnePlace(stream', u)
    BY <2>6, <2>7 DEF OnePlace
  <2> QED BY <2>1, <2>3, <2>8 DEF Spoilt
<1>10. ASSUME Lost PROVE Lost'
  <2>1. 1 \in 1..Len(stream) /\ Len(stream') > 0
    BY <1>2, <1>4, <1>5, <1>10 DEF Lost, Joined
  <2> QED BY <1>5, <1>10, <2>1 DEF Lost, Joined
<1>11. Placed'
  <2>1. ASSUME clean PROVE \E k \in 0..Len(sent') : Whole(k)'
    BY <1>7, <1>8, <2>1 DEF FInv, Placed
  <2>2. (~clean /\ Lost') \/ \E k \in 0..Len(sent') : Whole(k)' \/ (~clean /\ Spoilt(k)')
    BY <1>1, <1>7, <1>8, <1>9, <1>10 DEF FInv, Placed
  <2> QED BY <1>1, <2>1, <2>2 DEF Placed
<1>12. OnlySentDispatched'
  <2>1. CASE IsPrefix(got, sent)
    <3>1. PICK k \in 0..Len(sent) : k = Len(got)
      BY <1>2, <2>1 DEF IsPrefix
    <3>2. SubSeq(sent', 1, k) = SubSeq(sent, 1, k)
      BY <1>3
    <3>3. IsPrefix(got, sent')
      BY <1>2, <1>3, <2>1, <3>1, <3>2 DEF IsPrefix
    <3> QED BY <1>1, <3>3 DEF OnlySentDispatched
  <2>2. CASE /\ ~clean /\ Len(got) \in 1..Len(sent)
             /\ IsPrefix(Front(got), sent) /\ CutShort(Last(got), sent[Len(got)])
    <3>1. PICK h : h = Front(got)
      OBVIOUS
    <3>2. h \in Seq(Frames) /\ Len(h) = Len(got) - 1
      <4>0. Len(got) - 1 \in Nat /\ Len(got) - 1 <= Len(got)
        <5>1. PICK m : m = Len(got)
          OBVIOUS
        <5>2. m \in 1..Len(sent)
          BY <2>2, <5>1
        <5> QED BY <1>2, <5>1, <5>2
      <4>1. PICK n \in Nat : n = Len(got) - 1 /\ n <= Len(got)
        BY <4>0
      <4>2. h = SubSeq(got, 1, n)
        BY <3>1, <4>1 DEF Front
      <4> QED BY <1>2, <4>1, <4>2
    <3>3. PICK k \in 0..Len(sent) : k = Len(h)
      BY <2>2, <3>2
    <3>4. SubSeq(sent', 1, k) = SubSeq(sent, 1, k)
      BY <1>3
    <3>5. IsPrefix(h, sent')
      BY <1>2, <1>3, <2>2, <3>1, <3>3, <3>4 DEF IsPrefix
    <3>6. Len(got) \in 1..Len(sent') /\ sent'[Len(got)] = sent[Len(got)]
      BY <1>2, <1>3, <2>2
    <3> QED BY <1>1, <2>2, <3>1, <3>5, <3>6 DEF OnlySentDispatched
  <2> QED BY <2>1, <2>2 DEF FInv, OnlySentDispatched
<1> QED BY <1>6, <1>11, <1>12 DEF FInv


LEMMA DamageInv ==
  ASSUME FInv, NEW i, NEW c \in Garble, Damage(i, c)
  PROVE  FInv'
<1>1. /\ open /\ clean /\ i \in DOMAIN stream /\ stream[i] # c
      /\ stream' = [stream EXCEPT ![i] = c] /\ clean' = FALSE
      /\ sent' = sent /\ got' = got /\ open' = open
  BY DEF Damage
<1>2. sent \in Seq(Requests) /\ stream \in Seq(Char) /\ c \in Char
  BY FramingAssumption DEF FInv, TypeOK, FramingAssumption
<1>3. PICK k \in 0..Len(sent) : Whole(k)
  BY <1>1 DEF FInv, Placed
<1>4. /\ i \in 1..Len(stream) /\ stream' \in Seq(Char) /\ Len(stream') = Len(stream)
      /\ stream'[i] = c /\ \A j \in 1..Len(stream) : j # i => stream'[j] = stream[j]
  BY <1>1, <1>2
<1>5. TypeOK'
  BY <1>1, <1>4 DEF FInv, TypeOK
<1>6. OnePlace(stream', stream)
  BY <1>1, <1>4 DEF OnePlace
<1>7. Spoilt(k)'
  BY <1>1, <1>3, <1>6 DEF Whole, Spoilt, TakenTo
<1>8. IsPrefix(got, sent)
  BY <1>2, <1>3, Taken DEF Whole, TakenTo
<1> QED BY <1>1, <1>5, <1>7, <1>8 DEF FInv, Placed, OnlySentDispatched

LEMMA HandleInv ==
  ASSUME FInv, HandleRequest
  PROVE  FInv'
<1>1. PICK n : n = 9 + RestLen(SubSeq(stream, 1, 9))
  OBVIOUS
<1>2. PICK g : g = SubSeq(stream, 1, n)
  OBVIOUS
<1>3. PICK q : q = ParseFrame(g)
  OBVIOUS
<1>4. /\ open /\ Len(stream) >= 9 /\ n <= Len(stream)
      /\ stream' = SubSeq(stream, n + 1, Len(stream))
      /\ open' = (q # NoFrame)
      /\ got' = IF q # NoFrame THEN Append(got, q) ELSE got
      /\ sent' = sent /\ clean' = clean
  BY <1>1, <1>2, <1>3 DEF HandleRequest, HasRequest
<1>5. /\ sent \in Seq(Requests) /\ stream \in Seq(Char) /\ got \in Seq(Frames)
      /\ Len(sent) \in Nat
  BY DEF FInv, TypeOK
<1>6. n \in Nat /\ n >= 11
  BY <1>1, <1>4, <1>5, AnnouncesSome
<1>7. Left(stream, n, stream')
  BY <1>4, <1>5, <1>6, LeftOf
<1>8. g \in Seq(Char) /\ Len(g) = n /\ g[1] = stream[1]
  BY <1>2, <1>4, <1>5, <1>6
<1>9. WellFormed(g) <=> q # NoFrame
  BY <1>3, <1>8, ParseType DEF ParseFrame
<1>10. TypeOK'
  <2>1. stream' \in Seq(Char)
    BY <1>7 DEF Left
  <2>2. got' \in Seq(Frames)
    <3>1. CASE q # NoFrame
      <4>1. q \in Frames
        BY <1>3, <1>8, <1>9, <3>1, ParseType
      <4> QED BY <1>4, <1>5, <3>1, <4>1
    <3>2. CASE q = NoFrame
      BY <1>4, <1>5, <3>2
    <3> QED BY <3>1, <3>2
  <2>3. open' \in BOOLEAN
    BY <1>4
  <2> QED BY <1>4, <2>1, <2>2, <2>3 DEF FInv, TypeOK
\* Nothing is dispatched: the client is dropped.
<1>11. ASSUME q = NoFrame, ~clean PROVE FInv'
  <2>1. got' = got /\ open' = FALSE
    BY <1>4, <1>11
  <2> QED BY <1>4, <1>10, <1>11, <2>1 DEF FInv, Placed, OnlySentDispatched
\* The next request of the row is read whole.
<1>12. ASSUME NEW k \in 0..(Len(sent) - 1), NEW f, NEW rest, Ahead(sent, k, f, rest),
              TakenTo(k), n = Len(f), q = sent[k + 1]
       PROVE  TakenTo(k + 1)' /\ IsPrefix(got', sent') /\ k + 1 \in 0..Len(sent')
  <2>1. sent[k + 1] \in Frames /\ sent[k + 1] # NoFrame
    <3>1. sent[k + 1] \in Requests
      BY <1>5
    <3>2. sent[k + 1].command # 0
      BY <3>1, RequestType, Letters DEF Frames
    <3> QED BY <3>1, <3>2, RequestType DEF NoFrame
  <2>2. k \in 0..Len(sent) /\ k < Len(sent) /\ k + 1 \in 0..Len(sent)
    BY <1>5
  <2>3. got = SubSeq(sent, 1, k)
    BY <1>12 DEF TakenTo
  <2>4. got' = SubSeq(sent, 1, k + 1)
    BY <1>4, <1>5, <1>12, <2>1, <2>2, <2>3, Taken
  <2>5. IsPrefix(got', sent)
    BY <1>5, <2>2, <2>4, Taken
  <2> QED BY <1>4, <2>2, <2>4, <2>5 DEF TakenTo
\* The frame in front is undamaged.
<1>13. ASSUME NEW k \in 0..(Len(sent) - 1), NEW f, NEW rest, Ahead(sent, k, f, rest),
              StartsAs(stream, f, {})
       PROVE  n = Len(f) /\ q = sent[k + 1]
  <2>1. FrameOf(f, sent[k + 1])
    BY <1>13 DEF Ahead
  <2>2. /\ 9 + RestLen(SubSeq(stream, 1, 9)) = Len(f)
        /\ SubSeq(stream, 1, Len(f)) = f /\ ParseFrame(f) = sent[k + 1]
    BY <1>13, <2>1, WholeFrame
  <2> QED BY <1>1, <1>2, <1>3, <2>2
<1>14. ASSUME NEW k \in 0..Len(sent), Whole(k)
       PROVE  Whole(k + 1)' /\ IsPrefix(got', sent') /\ k + 1 \in 0..Len(sent')
  <2>1. k \in 0..(Len(sent) - 1)
    <3>1. Len(Row(sent, k)) > 0
      BY <1>4, <1>6, <1>14 DEF Whole
    <3>2. k < Len(sent)
      BY <1>5, <3>1, RowStarts
    <3> QED BY <1>5, <3>2
  <2>2. PICK f, rest : Ahead(sent, k, f, rest)
    BY <1>5, <2>1, NextFrame
  <2>3. Joined(f, rest, stream)
    BY <1>14, <2>2 DEF Ahead, Whole
  <2>4. StartsAs(stream, f, {})
    <3>1. Len(f) \in Nat /\ Len(rest) \in Nat
      BY <2>2 DEF Ahead
    <3> QED BY <1>5, <2>3, <3>1 DEF StartsAs, Joined
  <2>5. n = Len(f) /\ q = sent[k + 1]
    BY <2>1, <2>2, <2>4, <1>13
  <2>6. TakenTo(k)
    BY <1>14 DEF Whole
  <2>7. TakenTo(k + 1)' /\ IsPrefix(got', sent') /\ k + 1 \in 0..Len(sent')
    BY <2>1, <2>2, <2>5, <2>6, <1>12
  <2>8. stream' = rest
    <3>1. rest \in Seq(Char) /\ f \in Seq(Char)
      BY <2>2 DEF Ahead
    <3>2. Len(stream') = Len(rest) /\ \A i \in 1..Len(rest) : stream'[i] = rest[i]
      BY <1>7, <2>3, <2>5, <3>1 DEF Left, Joined
    <3> QED BY <1>7, <3>1, <3>2, SameSeq DEF Left
  <2>9. rest = Row(sent, k + 1)
    BY <2>2 DEF Ahead
  <2> QED BY <1>4, <2>7, <2>8, <2>9 DEF Whole
\* A whole frame in front of a damaged one, or a damaged one.
<1>15. ASSUME NEW k \in 0..Len(sent), Spoilt(k), ~clean
       PROVE  FInv'
  <2>1. PICK t : t = Row(sent, k)
    OBVIOUS
  <2>2. t \in Seq(Char)
    BY <1>5, <2>1, RowType
  <2>3. PICK p \in 1..Len(t) :
          /\ Len(stream) = Len(t) /\ stream[p] # t[p]
          /\ \A i \in 1..Len(t) : i # p => stream[i] = t[i]
    BY <1>15, <2>1 DEF Spoilt, OnePlace
  <2>4. k \in 0..(Len(sent) - 1)
    <3>1. Len(Row(sent, k)) > 0
      BY <2>1, <2>2, <2>3
    <3>2. k < Len(sent)
      BY <1>5, <3>1, RowStarts
    <3> QED BY <1>5, <3>2
  <2>5. PICK f, rest : Ahead(sent, k, f, rest)
    BY <1>5, <2>4, NextFrame
  <2>6. /\ rest \in Seq(Char) /\ f \in Seq(Char) /\ rest = Row(sent, k + 1)
        /\ Len(f) \in Nat /\ Len(rest) \in Nat
        /\ Joined(f, rest, t) /\ Len(t) = Len(f) + Len(rest)
    BY <2>1, <2>5 DEF Ahead, Joined
  <2>7. TakenTo(k)
    BY <1>15 DEF Spoilt
  <2>8. CASE p > Len(f)
    <3>1. ASSUME NEW i \in 1..Len(f) PROVE stream[i] = f[i]
      <4>1. i \in 1..Len(t) /\ i # p
        BY <2>6, <2>8
      <4> QED BY <2>3, <2>6, <4>1 DEF Joined
    <3>2. StartsAs(stream, f, {})
      BY <1>5, <2>3, <2>6, <3>1 DEF StartsAs
    <3>3. n = Len(f) /\ q = sent[k + 1]
      BY <2>4, <2>5, <3>2, <1>13
    <3>4. TakenTo(k + 1)' /\ IsPrefix(got', sent') /\ k + 1 \in 0..Len(sent')
      BY <2>4, <2>5, <2>7, <3>3, <1>12
    <3>5. PICK m \in 1..Len(rest) : p = Len(f) + m
      <4>1. p - Len(f) \in 1..Len(rest) /\ p = Len(f) + (p - Len(f))
        BY <2>3, <2>6, <2>8
      <4> QED BY <4>1
    <3>6. Len(stream') = Len(rest) /\ \A i \in 1..Len(rest) : stream'[i] = stream[Len(f) + i]
      <4>1. Len(stream) - n = Len(rest)
        BY <2>3, <2>6, <3>3
      <4> QED BY <1>7, <3>3, <4>1 DEF Left
    <3>7. \A i \in 1..Len(rest) : t[Len(f) + i] = rest[i] /\ Len(f) + i \in 1..Len(t)
      BY <2>6 DEF Joined
    <3>8. stream'[m] # rest[m]
      BY <2>3, <3>5, <3>6, <3>7
    <3>9. ASSUME NEW i \in 1..Len(rest), i # m PROVE stream'[i] = rest[i]
      <4>1. Len(f) + i # p
        BY <2>6, <3>5, <3>9
      <4> QED BY <2>3, <3>6, <3>7, <4>1
    <3>10. OnePlace(stream', rest)
      BY <3>5, <3>6, <3>8, <3>9 DEF OnePlace
    <3>11. Spoilt(k + 1)'
      BY <1>4, <2>6, <3>4, <3>10 DEF Spoilt
    <3> QED BY <1>4, <1>10, <1>15, <3>4, <3>11 DEF FInv, Placed, OnlySentDispatched
  <2>9. CASE p <= Len(f) /\ q # NoFrame
    <3>1. FrameOf(f, sent[k + 1])
      BY <2>5 DEF Ahead
    <3>2. Spoils(stream, f, p)
      <4>1. p \in 1..Len(f)
        BY <2>3, <2>9
      <4>2. t[p] = f[p]
        BY <2>6, <4>1 DEF Joined
      <4>3. ASSUME NEW i \in 1..Len(f), i \notin {p} PROVE stream[i] = f[i]
        <5>1. i \in 1..Len(t) /\ i # p
          BY <2>6, <4>3
        <5> QED BY <2>3, <2>6, <5>1 DEF Joined
      <4>4. StartsAs(stream, f, {p})
        BY <1>5, <2>3, <2>6, <4>3 DEF StartsAs
      <4>5. ASSUME Len(stream) > Len(f) PROVE stream[Len(f) + 1] \in Letter
        <5>1. Len(rest) > 0 /\ 1 \in 1..Len(rest) /\ Len(f) + 1 \in 1..Len(t) /\ Len(f) + 1 # p
          BY <2>3, <2>6, <2>9, <4>5
        <5>2. t[Len(f) + 1] = rest[1]
          BY <2>6, <5>1 DEF Joined
        <5>3. rest[1] \in Letter
          BY <2>5, <5>1 DEF Ahead
        <5> QED BY <2>3, <5>1, <5>2, <5>3
      <4> QED BY <2>3, <4>1, <4>2, <4>4, <4>5 DEF Spoils
    <3>3. Takes(stream, n, g)
      BY <1>1, <1>2, <1>4, <1>9, <2>9 DEF Takes
    <3>4. CASE n = Len(f)
      <4>1. q = sent[k + 1]
        BY <1>3, <3>1, <3>2, <3>3, <3>4, WholeDespite
      <4>2. TakenTo(k + 1)' /\ IsPrefix(got', sent') /\ k + 1 \in 0..Len(sent')
        BY <2>4, <2>5, <2>7, <3>4, <4>1, <1>12
      <4>3. stream' = rest
        <5>1. Len(stream') = Len(rest) /\ \A i \in 1..Len(rest) : stream'[i] = stream[Len(f) + i]
          BY <1>7, <2>3, <2>6, <3>4 DEF Left
        <5>2. ASSUME NEW i \in 1..Len(rest) PROVE stream'[i] = rest[i]
          <6>1. Len(f) + i \in 1..Len(t) /\ Len(f) + i # p
            BY <2>6, <2>9
          <6>2. t[Len(f) + i] = rest[i]
            BY <2>6 DEF Joined
          <6> QED BY <2>3, <5>1, <6>1, <6>2
        <5> QED BY <1>7, <2>6, <5>1, <5>2, SameSeq DEF Left
      <4>4. Whole(k + 1)'
        BY <1>4, <2>6, <4>2, <4>3 DEF Whole
      <4> QED BY <1>4, <1>10, <1>15, <4>2, <4>4 DEF FInv, Placed, OnlySentDispatched
    <3>5. CASE n # Len(f)
      <4>1. CutShort(q, sent[k + 1]) /\ n + 1 <= Len(f) /\ stream[n + 1] \notin Letter
        BY <1>3, <3>1, <3>2, <3>3, <3>5, CutDespite
      <4>2. Lost'
        <5>1. 1 \in 1..(Len(stream) - n) /\ Len(stream) - n > 0
          BY <1>6, <2>3, <2>6, <4>1
        <5>2. Len(stream') > 0 /\ stream'[1] = stream[n + 1]
          BY <1>7, <5>1 DEF Left
        <5> QED BY <4>1, <5>2 DEF Lost
      <4>3. got' = Append(got, q) /\ got = SubSeq(sent, 1, k) /\ Len(got) = k
        BY <1>4, <1>5, <2>4, <2>7, <2>9, Taken DEF TakenTo
      <4>4. Len(got') = k + 1 /\ Last(got') = q /\ Front(got') = got
        <5>1. q \in Frames
          BY <1>3, <1>8, <1>9, <2>9, ParseType
        <5>2. got' \in Seq(Frames) /\ Len(got') = k + 1 /\ got'[k + 1] = q
              /\ \A i \in 1..k : got'[i] = got[i]
          BY <1>5, <4>3, <5>1
        <5>3. Front(got') = SubSeq(got', 1, k)
          BY <2>4, <5>2 DEF Front
        <5>4. SubSeq(got', 1, k) = got
          BY <1>5, <2>4, <4>3, <5>2
        <5> QED BY <5>2, <5>3, <5>4 DEF Last
      <4>5. IsPrefix(got, sent)
        BY <1>5, <2>7, Taken DEF TakenTo
      <4>6. k + 1 \in 1..Len(sent)
        BY <1>5, <2>4
      <4>7. OnlySentDispatched'
        BY <1>4, <1>15, <4>1, <4>4, <4>5, <4>6 DEF OnlySentDispatched
      <4> QED BY <1>4, <1>10, <1>15, <4>2, <4>7 DEF FInv, Placed
    <3> QED BY <3>4, <3>5
  <2>10. CASE p <= Len(f) /\ q = NoFrame
    BY <1>11, <1>15, <2>10
  <2> QED BY <2>3, <2>6, <2>8, <2>9, <2>10
\* What is no command is never accepted.
<1>16. ASSUME Lost, ~clean PROVE FInv'
  <2>1. ~WellFormed(g)
    BY <1>8, <1>16, Accepted DEF Lost
  <2> QED BY <1>9, <1>11, <1>16, <2>1
<1>17. ASSUME NEW k \in 0..Len(sent), Whole(k) PROVE FInv'
  BY <1>4, <1>10, <1>14, <1>17 DEF FInv, Placed, OnlySentDispatched
<1> QED BY <1>4, <1>15, <1>16, <1>17 DEF FInv, Placed

LEMMA EndsInv ==
  ASSUME FInv, ConnectionEnds
  PROVE  FInv'
<1>1. /\ open' = FALSE /\ sent' = sent /\ stream' = stream
      /\ clean' = clean /\ got' = got
  BY DEF ConnectionEnds
<1>2. TypeOK'
  BY <1>1 DEF FInv, TypeOK
<1>3. OnlySentDispatched'
  BY <1>1 DEF FInv, OnlySentDispatched
<1>4. ASSUME NEW k, Whole(k) PROVE Whole(k)'
  BY <1>1, <1>4 DEF Whole, TakenTo
<1> QED BY <1>1, <1>2, <1>3, <1>4 DEF FInv, Placed


-----------------------------------------------------------------------------
(* The theorems.                                                            *)

(* A request is understood as it was meant: its frame announces its own     *)
(* size and is parsed as the request (protocol.py, build_frame, parse_frame). *)
THEOREM FramesAreUnderstood ==
  \A r \in Requests :
    9 + RestLen(SubSeq(Raw(r), 1, 9)) = Len(Raw(r)) /\ ParseFrame(Raw(r)) = r
<1> SUFFICES ASSUME NEW r \in Requests
    PROVE  9 + RestLen(SubSeq(Raw(r), 1, 9)) = Len(Raw(r)) /\ ParseFrame(Raw(r)) = r
  OBVIOUS
<1>1. PICK f : f = Raw(r)
  OBVIOUS
<1>2. FrameOf(f, r)
  BY <1>1, RawFrame
<1>3. StartsAs(f, f, {})
  BY <1>2 DEF FrameOf, Spells, StartsAs
<1> QED BY <1>1, <1>2, <1>3, WholeFrame

LEMMA NextInv == FInv /\ [Next]_vars => FInv'
<1> SUFFICES ASSUME FInv, [Next]_vars PROVE FInv'
  OBVIOUS
<1>1. CASE HandleRequest
  BY <1>1, HandleInv
<1>2. CASE ConnectionEnds
  BY <1>2, EndsInv
<1>3. ASSUME NEW r \in Requests, SendRequest(r) PROVE FInv'
  BY <1>3, SendInv
<1>4. ASSUME NEW i \in 1..Len(stream), NEW c \in Garble, Damage(i, c) PROVE FInv'
  BY <1>4, DamageInv
<1>5. CASE UNCHANGED vars
  <2>1. /\ open' = open /\ sent' = sent /\ stream' = stream
        /\ clean' = clean /\ got' = got
    BY <1>5 DEF vars
  <2>2. TypeOK' /\ OnlySentDispatched'
    BY <2>1 DEF FInv, TypeOK, OnlySentDispatched
  <2>3. Placed'
    <3>1. Placed
      BY DEF FInv
    <3> QED BY <2>1, <3>1 DEF Placed, Whole, Spoilt, Lost, TakenTo, OnePlace
  <2> QED BY <2>2, <2>3 DEF FInv
<1> QED BY <1>1, <1>2, <1>3, <1>4, <1>5 DEF Next

(* What is unread of the stream starts where the frame of the next request  *)
(* does, or the client is about to be dropped; one character may be damaged *)
(* in what is unread (tcp_frontend.py, _read_request).                      *)
THEOREM FramingInvariant == Spec => []FInv
<1> QED BY InitInv, NextInv, PTL DEF Spec

(* The state of a connection is of its type, whatever is sent and damaged:  *)
(* what parse_frame accepts has an address, a length and bytes.             *)
THEOREM FramingTypeCorrect == Spec => []TypeOK
<1>1. FInv => TypeOK
  BY DEF FInv
<1> QED BY <1>1, FramingInvariant, PTL

(* Only what was sent is dispatched, in order and once, whichever character *)
(* is damaged; or a write cut short, after which the client is dropped.     *)
THEOREM OnlySentIsDispatched == Spec => []OnlySentDispatched
<1>1. FInv => OnlySentDispatched
  BY DEF FInv
<1> QED BY <1>1, FramingInvariant, PTL

(* Without damage the front-end stands in front of a frame whenever it      *)
(* reads, and the replies it forwards are those their clients wait for.     *)
THEOREM CleanConnectionAligned == Spec => []CleanStaysAligned
<1>1. ASSUME FInv, clean PROVE CleanStaysAligned
  <2>1. PICK k \in 0..Len(sent) : Whole(k)
    BY <1>1 DEF FInv, Placed
  <2>2. got = SubSeq(sent, 1, k)
    BY <2>1 DEF Whole, TakenTo
  <2>3. stream = FlattenSeq([i \in 1..(Len(sent) - k) |-> Raw(sent[k + i])])
    BY <2>1 DEF Whole, Row, RawFrom
  <2>4. ASSUME NEW i \in 1..k
        PROVE  /\ WellFormed(Reply(got[i]))
               /\ Len(Reply(got[i])) = ExpectedResponseLen(Raw(got[i]))
    <3>1. sent \in Seq(Requests)
      BY <1>1 DEF FInv, TypeOK
    <3>2. got \in Seq(Requests) /\ Len(got) = k
      BY <2>2, <3>1, Taken
    <3>3. got[i] \in Requests
      BY <3>2
    <3> QED BY <3>3, ReplyAccepted
  <2> QED BY <2>2, <2>3, <2>4 DEF CleanStaysAligned
<1>2. FInv => CleanStaysAligned
  BY <1>1 DEF CleanStaysAligned
<1> QED BY <1>2, FramingInvariant, PTL

=============================================================================
