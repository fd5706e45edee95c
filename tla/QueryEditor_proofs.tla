------------------------- MODULE QueryEditor_proofs -------------------------
(***************************************************************************)
(* Proofs about the editor and its texts, for any alphabet, any texts and  *)
(* any length of the history: first trimming, positions and the state of   *)
(* the editor, then the scanner, the question and what is quoted.          *)
(*                                                                         *)
(* A recursive function is defined by CHOOSE.  Iteration and DownIteration *)
(* say that a function with the equation exists, so that the chosen one    *)
(* has it; what it computes then follows over a set of numbers, by UpFrom  *)
(* and DownFrom.                                                           *)
(***************************************************************************)
EXTENDS QueryEditor, FiniteSetTheorems, SequenceTheorems, WellFoundedInduction, TLAPS

-----------------------------------------------------------------------------
(***************************************************************************)
(* Numbers.  Induction is over a set, so that every use of it names the    *)
(* numbers that it is about.                                               *)
(***************************************************************************)
LEMMA SomeIsLeast ==
  ASSUME NEW T \in SUBSET Nat, T # {}
  PROVE  \E m \in T : \A n \in T : m <= n
<1> DEFINE R == OpToRel(<, Nat)
<1>1. IsWellFoundedOn(R, Nat)
  BY NatLessThanWellFounded
<1>2. \E m \in T : \A n \in T : <<n, m>> \notin R
  <2> HIDE DEF R
  <2> QED BY <1>1, WFMin
<1>3. \A m, n \in T : <<n, m>> \notin R => m <= n
  BY DEF OpToRel
<1> QED BY <1>2, <1>3

LEMMA Induction ==
  ASSUME NEW S, 0 \in S, \A n \in Nat : n \in S => n + 1 \in S
  PROVE  Nat \subseteq S
<1> SUFFICES ASSUME Nat \ S # {} PROVE FALSE
  OBVIOUS
<1>1. PICK m \in Nat \ S : \A n \in Nat \ S : m <= n
  <2>1. Nat \ S \in SUBSET Nat
    OBVIOUS
  <2> QED BY <2>1, SomeIsLeast
<1>2. m # 0 /\ m - 1 \in Nat
  BY <1>1
<1>3. m - 1 \in S
  BY <1>1, <1>2
<1>4. (m - 1) + 1 \in S
  BY <1>2, <1>3
<1> QED BY <1>1, <1>4

LEMMA MinIsLeast ==
  ASSUME NEW T \in SUBSET Nat, T # {}
  PROVE  Min(T) \in T /\ \A n \in T : Min(T) <= n
<1>1. \E m \in T : \A n \in T : m <= n
  BY SomeIsLeast
<1> QED BY <1>1 DEF Min

LEMMA MaxIsGreatest ==
  ASSUME NEW bound \in Nat, NEW T \in SUBSET (0..bound), T # {}
  PROVE  Max(T) \in T /\ \A n \in T : n <= Max(T)
<1> DEFINE U == {bound - n : n \in T}
<1>1. PICK m \in U : \A n \in U : m <= n
  <2>1. U \in SUBSET Nat /\ U # {}
    OBVIOUS
  <2> HIDE DEF U
  <2> QED BY <2>1, SomeIsLeast
<1>2. \E x \in T : \A y \in T : x >= y
  <2>1. PICK x \in T : m = bound - x
    BY <1>1
  <2>2. \A y \in T : bound - x <= bound - y
    BY <1>1, <2>1
  <2>3. \A y \in T : x >= y
    BY <2>2
  <2> QED BY <2>3
<1>3. Max(T) \in T /\ \A y \in T : Max(T) >= y
  BY <1>2 DEF Max
<1> QED BY <1>3

\* From one end of an interval to the other.
LEMMA UpFrom ==
  ASSUME NEW lo \in Nat, NEW hi \in Nat, NEW S, lo \in S, \A i \in lo..(hi - 1) : i \in S => i + 1 \in S
  PROVE  lo..hi \subseteq S
<1> DEFINE T == {n \in Nat : lo + n <= hi => lo + n \in S}
<1>1. 0 \in T
  OBVIOUS
<1>2. ASSUME NEW n \in Nat, n \in T PROVE n + 1 \in T
  <2> SUFFICES ASSUME lo + (n + 1) <= hi PROVE lo + (n + 1) \in S
    OBVIOUS
  <2>1. lo + n \in S /\ lo + n \in lo..(hi - 1)
    BY <1>2
  <2>2. (lo + n) + 1 \in S
    BY <2>1
  <2> QED BY <2>2
<1> HIDE DEF T
<1>3. Nat \subseteq T
  BY <1>1, <1>2, Induction
<1>4. ASSUME NEW i \in lo..hi PROVE i \in S
  <2>1. i - lo \in T /\ lo + (i - lo) = i /\ i <= hi
    BY <1>3
  <2> QED BY <2>1 DEF T
<1> QED BY <1>4

LEMMA DownFrom ==
  ASSUME NEW lo \in Nat, NEW hi \in Nat, NEW S,
         \A i \in lo..hi : (i + 1)..hi \subseteq S => i \in S
  PROVE  lo..hi \subseteq S
<1> DEFINE T == {n \in Nat : \A i \in lo..hi : hi - i < n => i \in S}
<1>1. 0 \in T
  OBVIOUS
<1>2. ASSUME NEW n \in Nat, n \in T PROVE n + 1 \in T
  <2> SUFFICES ASSUME NEW i \in lo..hi, hi - i < n + 1 PROVE i \in S
    OBVIOUS
  <2>1. ASSUME NEW j \in (i + 1)..hi PROVE j \in S
    <3>1. j \in lo..hi /\ hi - j < n
      OBVIOUS
    <3> QED BY <1>2, <3>1
  <2> QED BY <2>1
<1> HIDE DEF T
<1>3. Nat \subseteq T
  BY <1>1, <1>2, Induction
<1>4. ASSUME NEW i \in lo..hi PROVE i \in S
  <2>1. (hi - i) + 1 \in T /\ hi - i < (hi - i) + 1
    BY <1>3
  <2> QED BY <2>1 DEF T
<1> QED BY <1>4

(***************************************************************************)
(* A function that is defined along the numbers exists: upwards, each      *)
(* value from the one before ...                                           *)
(***************************************************************************)
Iterates(f, n, x, H) == f[0] = x /\ \A i \in 1..n : f[i] = H[<<i, f[i - 1]>>]

LEMMA Iteration ==
  ASSUME NEW n \in Nat, NEW X, NEW x \in X, NEW H \in [(1..n) \X X -> X]
  PROVE  \E f \in [0..n -> X] : Iterates(f, n, x, H)
<1> DEFINE Steps(f, m) == f[0] = x /\ \A i \in 1..m : f[i] = H[<<i, f[i - 1]>>]
           T == {m \in 0..n : \E f \in [0..m -> X] : Steps(f, m)}
<1>1. 0 \in T
  <2> DEFINE f == [i \in 0..0 |-> x]
  <2>1. f \in [0..0 -> X] /\ Steps(f, 0)
    OBVIOUS
  <2> HIDE DEF f, Steps
  <2> QED BY <2>1
<1>2. ASSUME NEW m \in 0..(n - 1), m \in T PROVE m + 1 \in T
  <2>1. PICK f \in [0..m -> X] : Steps(f, m)
    BY <1>2
  <2> DEFINE g == [i \in 0..(m + 1) |-> IF i <= m THEN f[i] ELSE H[<<m + 1, f[m]>>]]
  <2>2. \A i \in 0..m : g[i] = f[i]
    OBVIOUS
  <2>3. g[m + 1] = H[<<m + 1, f[m]>>] /\ H[<<m + 1, f[m]>>] \in X
    OBVIOUS
  <2>4. g \in [0..(m + 1) -> X]
    BY <2>3
  <2> HIDE DEF g
  <2>5. Steps(g, m + 1)
    <3>1. g[0] = x
      BY <2>1, <2>2
    <3>2. ASSUME NEW i \in 1..(m + 1) PROVE g[i] = H[<<i, g[i - 1]>>]
      <4>1. i - 1 \in 0..m
        OBVIOUS
      <4>2. CASE i = m + 1
        BY <2>2, <2>3, <4>1, <4>2
      <4>3. CASE i # m + 1
        <5>1. i \in 1..m
          BY <4>3
        <5> QED BY <2>1, <2>2, <4>1, <5>1
      <4> QED BY <4>2, <4>3
    <3> QED BY <3>1, <3>2
  <2>6. m + 1 \in 0..n
    OBVIOUS
  <2> QED BY <2>4, <2>5, <2>6
<1> HIDE DEF T
<1>3. 0..n \subseteq T
  BY <1>1, <1>2, UpFrom
<1>4. n \in T
  BY <1>3
<1>5. PICK f \in [0..n -> X] : Steps(f, n)
  BY <1>4 DEF T
<1>6. Iterates(f, n, x, H)
  BY <1>5 DEF Iterates
<1> QED BY <1>6

\* It keeps within the set that its steps keep to.
LEMMA IterationStays ==
  ASSUME NEW n \in Nat, NEW X, NEW H \in [(1..n) \X X -> X],
         NEW f, f[0] \in X, \A i \in 1..n : f[i - 1] \in X => f[i] = H[<<i, f[i - 1]>>]
  PROVE  \A i \in 0..n : f[i] \in X
<1> DEFINE T == {i \in 0..n : f[i] \in X}
<1>1. 0 \in T
  OBVIOUS
<1>2. ASSUME NEW i \in 0..(n - 1), i \in T PROVE i + 1 \in T
  <2>1. i + 1 \in 1..n /\ (i + 1) - 1 = i /\ f[i] \in X
    BY <1>2
  <2>2. f[i + 1] = H[<<i + 1, f[i]>>]
    BY <2>1
  <2>3. H[<<i + 1, f[i]>>] \in X
    BY <2>1
  <2> QED BY <2>1, <2>2, <2>3
<1> HIDE DEF T
<1>3. 0..n \subseteq T
  BY <1>1, <1>2, UpFrom
<1> QED BY <1>3 DEF T

(***************************************************************************)
(* ... and downwards, each value from one further up.                      *)
(***************************************************************************)
DownIterates(f, lo, hi, Stop, base, next, H) ==
  \A i \in lo..hi : f[i] = IF i \in Stop THEN base[i] ELSE H[<<i, f[next[i]]>>]

LEMMA DownIteration ==
  ASSUME NEW lo \in Nat, NEW hi \in Nat, NEW X, NEW Stop,
         NEW base \in [lo..hi -> X], NEW next \in [lo..hi -> Nat], NEW H \in [(lo..hi) \X X -> X],
         \A i \in (lo..hi) \ Stop : next[i] \in (i + 1)..hi
  PROVE  \E f \in [lo..hi -> X] : DownIterates(f, lo, hi, Stop, base, next, H)
<1> DEFINE Holds(f, i) == f[i] = IF i \in Stop THEN base[i] ELSE H[<<i, f[next[i]]>>]
           Solves(f, m) == \A i \in lo..hi : hi - i < m => Holds(f, i)
           T == {m \in Nat : \E f \in [lo..hi -> X] : Solves(f, m)}
<1>1. 0 \in T
  <2>1. base \in [lo..hi -> X] /\ Solves(base, 0)
    OBVIOUS
  <2> HIDE DEF Solves
  <2> QED BY <2>1
<1>2. ASSUME NEW m \in Nat, m \in T PROVE m + 1 \in T
  <2>1. PICK f \in [lo..hi -> X] : Solves(f, m)
    <3> HIDE DEF Solves
    <3> QED BY <1>2
  <2> DEFINE k == hi - m
             v == IF k \in Stop THEN base[k] ELSE H[<<k, f[next[k]]>>]
             g == [f EXCEPT ![k] = v]
  <2>2. CASE k \notin lo..hi
    <3>1. ASSUME NEW i \in lo..hi, hi - i < m + 1 PROVE hi - i < m
      BY <2>2, <3>1
    <3>2. Solves(f, m + 1)
      BY <2>1, <3>1
    <3> HIDE DEF Solves
    <3> QED BY <3>2
  <2>3. CASE k \in lo..hi
    <3>1. v \in X
      <4>1. CASE k \in Stop
        BY <2>3, <4>1
      <4>2. CASE k \notin Stop
        <5>1. next[k] \in (k + 1)..hi
          BY <2>3, <4>2
        <5>2. next[k] \in lo..hi
          BY <2>3, <5>1
        <5>3. f[next[k]] \in X
          BY <5>2
        <5> HIDE DEF k
        <5> QED BY <2>3, <4>2, <5>3
      <4> QED BY <4>1, <4>2
    <3> HIDE DEF v
    <3>2. g \in [lo..hi -> X]
      BY <3>1
    <3>3. g[k] = v /\ \A j \in lo..hi : j # k => g[j] = f[j]
      BY <2>3
    <3> HIDE DEF g
    <3>4. ASSUME NEW i \in lo..hi, hi - i < m + 1, i \notin Stop
          PROVE  g[next[i]] = f[next[i]]
      <4>1. next[i] \in (i + 1)..hi
        BY <3>4
      <4>2. next[i] \in lo..hi /\ next[i] # k
        BY <3>4, <4>1
      <4> QED BY <3>3, <4>2
    <3>5. ASSUME NEW i \in lo..hi, hi - i < m + 1
          PROVE  Holds(g, i)
      <4>1. CASE i = k
        BY <3>3, <3>4, <3>5, <4>1 DEF v
      <4>2. CASE i # k
        <5>1. hi - i < m
          BY <3>5, <4>2
        <5>2. Holds(f, i) /\ g[i] = f[i]
          BY <2>1, <3>3, <4>2, <5>1
        <5> QED BY <3>4, <3>5, <5>2
      <4> QED BY <4>1, <4>2
    <3>6. Solves(g, m + 1)
      BY <3>5
    <3> HIDE DEF Solves
    <3> QED BY <3>2, <3>6
  <2> QED BY <2>2, <2>3
<1> HIDE DEF T
<1>3. hi + 1 \in T
  <2>1. Nat \subseteq T
    BY <1>1, <1>2, Induction
  <2> QED BY <2>1
<1>4. PICK f \in [lo..hi -> X] : Solves(f, hi + 1)
  BY <1>3 DEF T
<1>5. \A i \in lo..hi : hi - i < hi + 1
  OBVIOUS
<1>6. DownIterates(f, lo, hi, Stop, base, next, H)
  BY <1>4, <1>5 DEF DownIterates
<1> QED BY <1>6

-----------------------------------------------------------------------------
(***************************************************************************)
(* trim_sql: what it keeps begins and ends with no blank, all that is in   *)
(* front of it and behind it is blank, and to trim again changes nothing.  *)
(***************************************************************************)
Solid(sql) == {i \in DOMAIN sql : sql[i] \notin Blanks}

LEMMA TrimShape ==
  ASSUME NEW S, NEW sql \in Seq(S)
  PROVE  \/ Solid(sql) = {} /\ trim_sql(sql) = <<>>
         \/ \E first, last \in Solid(sql) :
              /\ first <= last
              /\ \A i \in Solid(sql) : first <= i /\ i <= last
              /\ trim_sql(sql) = SubSeq(sql, first, last)
              /\ Len(trim_sql(sql)) = last - first + 1
              /\ \A i \in 1..(last - first + 1) : trim_sql(sql)[i] = sql[first + i - 1]
<1>1. trim_sql(sql) = IF Solid(sql) = {} THEN <<>> ELSE SubSeq(sql, Min(Solid(sql)), Max(Solid(sql)))
  BY DEF trim_sql, Solid
<1>2. Solid(sql) \subseteq 1..Len(sql) /\ Len(sql) \in Nat
  BY DEF Solid
<1>3. CASE Solid(sql) # {}
  <2> DEFINE first == Min(Solid(sql))
             last == Max(Solid(sql))
  <2>1. first \in Solid(sql) /\ \A i \in Solid(sql) : first <= i
    BY <1>2, <1>3, MinIsLeast
  <2>2. last \in Solid(sql) /\ \A i \in Solid(sql) : i <= last
    <3>1. Solid(sql) \in SUBSET (0..Len(sql))
      BY <1>2
    <3> QED BY <1>2, <1>3, <3>1, MaxIsGreatest
  <2>3. trim_sql(sql) = SubSeq(sql, first, last)
    BY <1>1, <1>3
  <2> HIDE DEF first, last
  <2>4. first <= last /\ first \in 1..Len(sql) /\ last \in 1..Len(sql)
    BY <1>2, <2>1, <2>2
  <2>5. \A i \in first..last : sql[i] \in S
    BY <1>2, <2>4, ElementOfSeq
  <2>6. /\ Len(SubSeq(sql, first, last)) = last - first + 1
        /\ \A i \in 1..(last - first + 1) : SubSeq(sql, first, last)[i] = sql[first + i - 1]
    BY <2>4, <2>5, SubSeqProperties
  <2> QED BY <2>1, <2>2, <2>3, <2>4, <2>6
<1> QED BY <1>1, <1>3

LEMMA TrimIsPart ==
  ASSUME NEW S, NEW sql \in Seq(S)
  PROVE  trim_sql(sql) \in Seq(S) /\ Len(trim_sql(sql)) <= Len(sql)
<1>1. CASE trim_sql(sql) = <<>>
  BY <1>1
<1>2. ASSUME NEW first \in Solid(sql), NEW last \in Solid(sql), first <= last,
             trim_sql(sql) = SubSeq(sql, first, last), Len(trim_sql(sql)) = last - first + 1
      PROVE  trim_sql(sql) \in Seq(S) /\ Len(trim_sql(sql)) <= Len(sql)
  <2>1. first \in 1..Len(sql) /\ last \in 1..Len(sql) /\ Len(sql) \in Nat
    BY DEF Solid
  <2>2. \A i \in first..last : sql[i] \in S
    BY <2>1, ElementOfSeq
  <2>3. SubSeq(sql, first, last) \in Seq(S)
    BY <2>1, <2>2, SubSeqProperties
  <2> QED BY <1>2, <2>1, <2>3
<1> QED BY <1>1, <1>2, TrimShape

LEMMA SolidEndsStay ==
  ASSUME NEW S, NEW sql \in Seq(S), sql # <<>>, sql[1] \notin Blanks, sql[Len(sql)] \notin Blanks
  PROVE  trim_sql(sql) = sql
<1>1. Len(sql) \in Nat \ {0}
  BY EmptySeq
<1>2. 1 \in Solid(sql) /\ Len(sql) \in Solid(sql) /\ Solid(sql) \subseteq 1..Len(sql)
  BY <1>1 DEF Solid
<1>3. PICK first \in Solid(sql), last \in Solid(sql) :
        /\ \A i \in Solid(sql) : first <= i /\ i <= last
        /\ trim_sql(sql) = SubSeq(sql, first, last)
  BY <1>2, TrimShape
<1>4. first = 1 /\ last = Len(sql)
  BY <1>1, <1>2, <1>3
<1> QED BY <1>3, <1>4, SubSeqFull

LEMMA TrimEnds ==
  ASSUME NEW S, NEW sql \in Seq(S), trim_sql(sql) # <<>>
  PROVE  LET trimmed == trim_sql(sql) IN
         trimmed[1] \notin Blanks /\ trimmed[Len(trimmed)] \notin Blanks
<1>1. PICK first \in Solid(sql), last \in Solid(sql) :
        /\ first <= last
        /\ Len(trim_sql(sql)) = last - first + 1
        /\ \A i \in 1..(last - first + 1) : trim_sql(sql)[i] = sql[first + i - 1]
  BY TrimShape
<1>2. first \in Nat /\ last \in Nat /\ sql[first] \notin Blanks /\ sql[last] \notin Blanks
  BY DEF Solid
<1>3. 1 \in 1..(last - first + 1) /\ last - first + 1 \in 1..(last - first + 1)
  BY <1>1, <1>2
<1>4. first + 1 - 1 = first /\ first + (last - first + 1) - 1 = last
  BY <1>2
<1> QED BY <1>1, <1>2, <1>3, <1>4

LEMMA TrimTwice ==
  ASSUME NEW S, NEW sql \in Seq(S)
  PROVE  trim_sql(trim_sql(sql)) = trim_sql(sql)
<1>1. trim_sql(sql) \in Seq(S)
  BY TrimIsPart
<1>2. CASE trim_sql(sql) = <<>>
  <2>1. DOMAIN trim_sql(sql) = {}
    BY <1>2
  <2> QED BY <1>2, <2>1 DEF trim_sql
<1>3. CASE trim_sql(sql) # <<>>
  BY <1>1, <1>3, TrimEnds, SolidEndsStay
<1> QED BY <1>2, <1>3

\* A part of a text that begins offset atoms behind its beginning.
LiesIn(sql, text, offset) ==
  /\ sql \in Seq(Alphabet) /\ text \in Seq(Alphabet) /\ offset \in Nat
  /\ offset + Len(sql) <= Len(text)
  /\ \A i \in 1..Len(sql) : sql[i] = text[offset + i]

LEMMA TrimOfBlank ==
  ASSUME NEW S, NEW sql \in Seq(S)
  PROVE  trim_sql(sql) = <<>> <=> Solid(sql) = {}
<1>1. ASSUME NEW first \in Solid(sql), NEW last \in Solid(sql), first <= last,
             Len(trim_sql(sql)) = last - first + 1
      PROVE  trim_sql(sql) # <<>>
  <2>1. first \in Nat /\ last \in Nat
    BY DEF Solid
  <2>2. Len(trim_sql(sql)) # 0
    BY <1>1, <2>1
  <2> QED BY <2>2
<1> QED BY <1>1, TrimShape

\* What is run begins behind the blanks in front: Leading counts them.
LEMMA TrimLiesBehindLeading ==
  ASSUME NEW sql, NEW text, NEW offset, LiesIn(sql, text, offset), trim_sql(sql) # <<>>
  PROVE  LiesIn(trim_sql(sql), text, offset + Leading(sql))
<1>1. /\ sql \in Seq(Alphabet) /\ text \in Seq(Alphabet) /\ offset \in Nat
      /\ offset + Len(sql) <= Len(text)
      /\ \A i \in 1..Len(sql) : sql[i] = text[offset + i]
      /\ Len(sql) \in Nat /\ Len(text) \in Nat
  BY DEF LiesIn
<1>2. PICK first \in Solid(sql), last \in Solid(sql) :
        /\ first <= last
        /\ \A i \in Solid(sql) : first <= i /\ i <= last
        /\ Len(trim_sql(sql)) = last - first + 1
        /\ \A i \in 1..(last - first + 1) : trim_sql(sql)[i] = sql[first + i - 1]
  BY <1>1, TrimShape
<1>3. first \in 1..Len(sql) /\ last \in 1..Len(sql)
  BY <1>1 DEF Solid
<1>4. ASSUME NEW i \in 1..Len(sql)
      PROVE  trim_sql(SubSeq(sql, 1, i)) = <<>> <=> i < first
  <2> DEFINE front == SubSeq(sql, 1, i)
  <2>1. front \in Seq(Alphabet) /\ Len(front) = i /\ \A k \in 1..i : front[k] = sql[k]
    <3>1. \A k \in 1..i : sql[k] \in Alphabet
      BY <1>1, ElementOfSeq
    <3> QED BY <3>1, SubSeqProperties
  <2> HIDE DEF front
  <2>2. DOMAIN front = 1..i
    BY <2>1
  <2>3. Solid(front) = {k \in Solid(sql) : k <= i}
    BY <1>1, <2>1, <2>2 DEF Solid
  <2>4. Solid(front) = {} <=> i < first
    <3>1. Solid(sql) \subseteq Nat
      BY <1>1 DEF Solid
    <3> QED BY <1>2, <1>3, <2>3, <3>1
  <2>5. trim_sql(front) = <<>> <=> Solid(front) = {}
    BY <2>1, TrimOfBlank
  <2> QED BY <2>4, <2>5 DEF front
<1>5. Leading(sql) = first - 1
  <2>1. {i \in DOMAIN sql : trim_sql(SubSeq(sql, 1, i)) = <<>>} = 1..(first - 1)
    BY <1>1, <1>3, <1>4
  <2>2. Cardinality(1..(first - 1)) = first - 1
    <3>1. 1 \in Int /\ first - 1 \in Int
      BY <1>3
    <3>2. Cardinality(1..(first - 1)) = IF 1 > first - 1 THEN 0 ELSE (first - 1) - 1 + 1
      BY <3>1, FS_Interval
    <3> QED BY <1>3, <3>2
  <2> QED BY <2>1, <2>2 DEF Leading
<1>6. trim_sql(sql) \in Seq(Alphabet)
  BY <1>1, TrimIsPart
<1>7. ASSUME NEW i \in 1..Len(trim_sql(sql))
      PROVE  trim_sql(sql)[i] = text[offset + Leading(sql) + i]
  <2> DEFINE k == first + i - 1
  <2>1. i \in 1..(last - first + 1) /\ k \in 1..Len(sql)
        /\ offset + Leading(sql) + i = offset + k
    BY <1>1, <1>2, <1>3, <1>5
  <2>2. trim_sql(sql)[i] = sql[k]
    BY <1>2, <2>1
  <2> HIDE DEF k
  <2> QED BY <1>1, <2>1, <2>2
<1>8. offset + Leading(sql) \in Nat /\ offset + Leading(sql) + Len(trim_sql(sql)) <= Len(text)
  BY <1>1, <1>2, <1>3, <1>5
<1> QED BY <1>1, <1>6, <1>7, <1>8 DEF LiesIn

LEMMA PartLiesInBuffer ==
  ASSUME buffer \in Seq(Alphabet), NEW first \in 0..Len(buffer), NEW last \in first..Len(buffer)
  PROVE  /\ LiesIn(Part(first, last).sql, buffer, first)
         /\ Part(first, last).text = buffer /\ Part(first, last).offset = first
<1> DEFINE sql == SubSeq(buffer, first + 1, last)
<1>1. Part(first, last).sql = sql /\ Part(first, last).text = buffer /\ Part(first, last).offset = first
  BY DEF Part
<1>2. first \in Nat /\ last \in Nat /\ Len(buffer) \in Nat /\ first <= last /\ last <= Len(buffer)
  OBVIOUS
<1>3. \A i \in (first + 1)..last : buffer[i] \in Alphabet
  BY <1>2, ElementOfSeq
<1>4. /\ sql \in Seq(Alphabet)
      /\ Len(sql) = IF first + 1 <= last THEN last - (first + 1) + 1 ELSE 0
      /\ \A i \in 1..(last - (first + 1) + 1) : sql[i] = buffer[(first + 1) + i - 1]
  BY <1>2, <1>3, SubSeqProperties
<1> HIDE DEF sql
<1>5. Len(sql) = last - first
  BY <1>2, <1>4
<1>6. ASSUME NEW i \in 1..Len(sql)
      PROVE  sql[i] = buffer[first + i]
  <2>1. i \in 1..(last - (first + 1) + 1) /\ (first + 1) + i - 1 = first + i
    BY <1>2, <1>5
  <2> QED BY <1>4, <2>1
<1> QED BY <1>1, <1>2, <1>4, <1>5, <1>6 DEF LiesIn

\* What PostgreSQL is given is the front of what was run.
LEMMA NormalizedIsFront ==
  ASSUME NEW sql, NEW text, NEW offset, LiesIn(sql, text, offset)
  PROVE  LiesIn(normalize_statement_text(sql), text, offset)
<1> DEFINE cut == Blanks \cup {";"}
           kept == {i \in DOMAIN sql : sql[i] \notin cut}
           last == Max(kept)
           front == normalize_statement_text(sql)
<1>1. /\ sql \in Seq(Alphabet) /\ text \in Seq(Alphabet) /\ offset \in Nat
      /\ offset + Len(sql) <= Len(text)
      /\ \A i \in 1..Len(sql) : sql[i] = text[offset + i]
      /\ Len(sql) \in Nat /\ Len(text) \in Nat
  BY DEF LiesIn
<1>2. front = IF kept = {} THEN <<>> ELSE SubSeq(sql, 1, last)
  BY DEF normalize_statement_text
<1> HIDE DEF cut
<1>3. kept \in SUBSET (0..Len(sql)) /\ kept \in SUBSET (1..Len(sql))
  <2>1. kept \subseteq 1..Len(sql)
    BY <1>1
  <2> HIDE DEF kept
  <2>2. 1..Len(sql) \subseteq 0..Len(sql)
    BY <1>1
  <2> QED BY <2>1, <2>2
<1> HIDE DEF kept, front
<1>4. CASE kept = {}
  <2>1. front = <<>>
    BY <1>2, <1>4
  <2>2. front \in Seq(Alphabet) /\ Len(front) = 0
    BY <2>1
  <2>3. LiesIn(front, text, offset)
    BY <1>1, <2>2 DEF LiesIn
  <2> QED BY <2>3 DEF front
<1>5. CASE kept # {}
  <2>1. last \in kept
    BY <1>1, <1>3, <1>5, MaxIsGreatest
  <2>2. last \in 1..Len(sql)
    BY <1>3, <2>1
  <2>3. front = SubSeq(sql, 1, last)
    BY <1>2, <1>5
  <2> HIDE DEF last
  <2>4. \A i \in 1..last : sql[i] \in Alphabet
    BY <1>1, <2>2, ElementOfSeq
  <2>5. front \in Seq(Alphabet) /\ Len(front) = last /\ \A i \in 1..last : front[i] = sql[i]
    BY <1>1, <2>2, <2>3, <2>4, SubSeqProperties
  <2>6. offset + Len(front) <= Len(text)
    BY <1>1, <2>2, <2>5
  <2>7. \A i \in 1..Len(front) : i \in 1..Len(sql) /\ front[i] = sql[i]
    BY <1>1, <2>2, <2>5
  <2>8. LiesIn(front, text, offset)
    BY <1>1, <2>5, <2>6, <2>7 DEF LiesIn
  <2> QED BY <2>8 DEF front
<1> QED BY <1>4, <1>5

\* In front of an offset, each byte is the first of a letter or behind it.
FirstBytes(sql, at) == {i \in 1..at : sql[i] # "trail"}
OtherBytes(sql, at) == {i \in 1..at : sql[i] = "trail"}

LEMMA LettersAndBytes ==
  ASSUME NEW sql, NEW at \in Nat
  PROVE  /\ Cardinality(FirstBytes(sql, at)) \in Nat
         /\ Cardinality(OtherBytes(sql, at)) \in Nat
         /\ Cardinality(FirstBytes(sql, at)) = at - Cardinality(OtherBytes(sql, at))
<1> DEFINE F == FirstBytes(sql, at)
           O == OtherBytes(sql, at)
<1>1. F \cup O = 1..at /\ F \cap O = {} /\ F \in SUBSET (1..at) /\ O \in SUBSET (1..at)
  BY DEF FirstBytes, OtherBytes
<1>2. IsFiniteSet(1..at) /\ Cardinality(1..at) = at
  <2>1. 1 \in Int /\ at \in Int
    OBVIOUS
  <2>2. IsFiniteSet(1..at) /\ Cardinality(1..at) = IF 1 > at THEN 0 ELSE at - 1 + 1
    BY <2>1, FS_Interval
  <2> QED BY <2>2
<1> HIDE DEF F, O
<1>3. IsFiniteSet(F) /\ IsFiniteSet(O)
  BY <1>1, <1>2, FS_Subset
<1>4. Cardinality(F) \in Nat /\ Cardinality(O) \in Nat
  BY <1>3, FS_CardinalityType
<1>5. Cardinality(F \cup O) = Cardinality(F) + Cardinality(O) - Cardinality(F \cap O)
  BY <1>3, FS_Union
<1>6. Cardinality(F \cap O) = 0
  BY <1>1, FS_EmptySet
<1>7. at = Cardinality(F) + Cardinality(O) - 0
  BY <1>1, <1>2, <1>5, <1>6, Zenon
<1>8. \A n, f, o \in Nat : n = f + o - 0 => f = n - o
  OBVIOUS
<1>9. Cardinality(F) = at - Cardinality(O)
  BY <1>4, <1>7, <1>8, Zenon
<1> QED BY <1>4, <1>9 DEF F, O

-----------------------------------------------------------------------------
(***************************************************************************)
(* location_from_offset counts one line for each newline in front, and the *)
(* columns behind the last one.                                            *)
(***************************************************************************)
Newlines(text, offset) == {i \in 1..offset : text[i] = "\n"}
LastNewline(text, offset) == Max({0} \cup Newlines(text, offset))

LEMMA NewlinesAreFinite ==
  ASSUME NEW text, NEW offset \in Nat
  PROVE  /\ IsFiniteSet(Newlines(text, offset)) /\ Cardinality(Newlines(text, offset)) \in Nat
         /\ LastNewline(text, offset) \in {0} \cup Newlines(text, offset)
         /\ LastNewline(text, offset) \in 0..offset
         /\ \A i \in Newlines(text, offset) : i <= LastNewline(text, offset)
<1>1. IsFiniteSet(1..offset)
  BY FS_Interval
<1>2. Newlines(text, offset) \subseteq 1..offset
  BY DEF Newlines
<1>3. IsFiniteSet(Newlines(text, offset)) /\ Cardinality(Newlines(text, offset)) \in Nat
  BY <1>1, <1>2, FS_Subset, FS_CardinalityType
<1> DEFINE T == {0} \cup Newlines(text, offset)
<1>4. T \in SUBSET (0..offset) /\ T # {}
  BY <1>2
<1> HIDE DEF T
<1>5. Max(T) \in T /\ \A i \in T : i <= Max(T)
  BY <1>4, MaxIsGreatest
<1>6. LastNewline(text, offset) = Max(T)
  BY DEF LastNewline, T
<1>7. Max(T) \in 0..offset
  BY <1>4, <1>5
<1> QED BY <1>3, <1>5, <1>6, <1>7 DEF T

LEMMA LineAndColumn ==
  ASSUME NEW text, NEW offset \in Nat
  PROVE  /\ Line(text, offset) = 1 + Cardinality(Newlines(text, offset))
         /\ Column(text, offset) = 1 + offset - LastNewline(text, offset)
         /\ Line(text, offset) \in Nat /\ Column(text, offset) \in Nat
<1>1. /\ Line(text, offset) = 1 + Cardinality(Newlines(text, offset))
      /\ Column(text, offset) = 1 + offset - LastNewline(text, offset)
  BY DEF Line, Column, Newlines, LastNewline
<1> QED BY <1>1, NewlinesAreFinite

LEMMA FirstLine ==
  ASSUME NEW text
  PROVE  Line(text, 0) = 1 /\ Column(text, 0) = 1
<1>1. Newlines(text, 0) = {}
  BY DEF Newlines
<1>2. Cardinality(Newlines(text, 0)) = 0 /\ LastNewline(text, 0) = 0
  BY <1>1, FS_EmptySet, NewlinesAreFinite
<1> QED BY <1>2, LineAndColumn

LEMMA NextLine ==
  ASSUME NEW text, NEW i \in Nat, text[i + 1] = "\n"
  PROVE  Line(text, i + 1) = Line(text, i) + 1 /\ Column(text, i + 1) = 1
<1>1. Newlines(text, i + 1) = Newlines(text, i) \cup {i + 1} /\ i + 1 \notin Newlines(text, i)
  BY DEF Newlines
<1>2. Cardinality(Newlines(text, i + 1)) = Cardinality(Newlines(text, i)) + 1
  BY <1>1, NewlinesAreFinite, FS_AddElement
<1>3. LastNewline(text, i + 1) = i + 1
  <2>1. i + 1 \in Newlines(text, i + 1) /\ i + 1 \in Nat
    BY <1>1
  <2>2. LastNewline(text, i + 1) \in 0..(i + 1) /\ i + 1 <= LastNewline(text, i + 1)
    BY <2>1, NewlinesAreFinite
  <2> QED BY <2>2
<1>4. Cardinality(Newlines(text, i)) \in Nat /\ i + 1 \in Nat
  BY NewlinesAreFinite
<1> QED BY <1>2, <1>3, <1>4, LineAndColumn

LEMMA NextColumn ==
  ASSUME NEW text, NEW i \in Nat, text[i + 1] # "\n"
  PROVE  Line(text, i + 1) = Line(text, i) /\ Column(text, i + 1) = Column(text, i) + 1
<1>1. Newlines(text, i + 1) = Newlines(text, i)
  BY DEF Newlines
<1>2. LastNewline(text, i + 1) = LastNewline(text, i)
  BY <1>1 DEF LastNewline
<1>3. LastNewline(text, i) \in Nat /\ i + 1 \in Nat
  BY NewlinesAreFinite
<1> QED BY <1>1, <1>2, <1>3, LineAndColumn

LEMMA LocationIsLineAndColumn ==
  ASSUME NEW S, NEW sql \in Seq(S), NEW offset \in Nat
  PROVE  LET at == IF offset <= Len(sql) THEN offset ELSE Len(sql)
         IN location_from_offset(sql, offset) = Location(Line(sql, at), Column(sql, at))
<1> DEFINE n == Len(sql)
           step(g) == [i \in 0..n |->
                         CASE i = 0 -> Location(1, 1)
                           [] i > 0 /\ sql[i] = "\n" -> AfterNewline(g[i - 1])
                           [] OTHER -> Location(g[i - 1].line, g[i - 1].column + 1)]
           known == [i \in 0..n |-> Location(Line(sql, i), Column(sql, i))]
           at == CHOOSE g : g = step(g)
<1>1. n \in Nat
  OBVIOUS
<1>2. ASSUME NEW g, NEW i \in 0..n
      PROVE  /\ i = 0 => step(g)[i] = Location(1, 1)
             /\ i > 0 /\ sql[i] = "\n" => step(g)[i] = AfterNewline(g[i - 1])
             /\ i > 0 /\ sql[i] # "\n" => step(g)[i] = Location(g[i - 1].line, g[i - 1].column + 1)
  OBVIOUS
<1>3. ASSUME NEW g, NEW i \in 0..n, i > 0 => g[i - 1] = known[i - 1]
      PROVE  step(g)[i] = known[i]
  <2>1. CASE i = 0
    BY <1>1, <1>2, <2>1, FirstLine
  <2>2. CASE i > 0
    <3> DEFINE k == i - 1
    <3>1. k \in 0..n /\ k \in Nat /\ k + 1 = i
      BY <1>1, <2>2
    <3>2. g[k].line = Line(sql, k) /\ g[k].column = Column(sql, k)
      BY <1>3, <2>2, <3>1 DEF Location
    <3> HIDE DEF k
    <3>3. CASE sql[i] = "\n"
      BY <1>2, <2>2, <3>1, <3>2, <3>3, NextLine DEF AfterNewline, k
    <3>4. CASE sql[i] # "\n"
      BY <1>2, <2>2, <3>1, <3>2, <3>4, NextColumn DEF k
    <3> QED BY <3>3, <3>4
  <2> QED BY <1>1, <2>1, <2>2
<1>4. known = step(known)
  <2>1. \A i \in 0..n : step(known)[i] = known[i]
    BY <1>3
  <2> QED BY <2>1
<1>5. at = step(at)
  <2>1. \E g : g = step(g)
    BY <1>4
  <2> HIDE DEF step
  <2> QED BY <2>1
<1> HIDE DEF at, known
<1>6. \A i \in Nat : i <= n => at[i] = known[i]
  <2> DEFINE Good == {i \in Nat : i <= n => at[i] = known[i]}
  <2>1. 0 \in Good
    <3>1. 0 \in 0..n /\ ~(0 > 0)
      BY <1>1
    <3>2. step(at)[0] = known[0]
      <4> HIDE DEF step
      <4>1. \A i \in 0..n : ~(i > 0) => step(at)[i] = known[i]
        BY <1>3
      <4> QED BY <3>1, <4>1
    <3> QED BY <1>5, <3>2
  <2>2. ASSUME NEW i \in Nat, i \in Good
        PROVE  i + 1 \in Good
    <3> SUFFICES ASSUME i + 1 <= n PROVE at[i + 1] = known[i + 1]
      OBVIOUS
    <3>1. at[i] = known[i] /\ i + 1 \in 0..n /\ (i + 1) - 1 = i
      BY <1>1, <2>2
    <3>2. step(at)[i + 1] = known[i + 1]
      <4> DEFINE j == i + 1
      <4>1. j \in 0..n /\ at[j - 1] = known[j - 1]
        BY <3>1
      <4> HIDE DEF j
      <4>2. step(at)[j] = known[j]
        BY <1>3, <4>1
      <4> QED BY <4>2 DEF j
    <3> QED BY <1>5, <3>2
  <2> HIDE DEF Good
  <2>3. Nat \subseteq Good
    BY <2>1, <2>2, Induction
  <2> QED BY <2>3 DEF Good
<1> DEFINE m == IF offset <= n THEN offset ELSE n
<1>7. Min({offset, n}) = m
  <2>1. {offset, n} \in SUBSET Nat /\ {offset, n} # {}
    BY <1>1
  <2> HIDE DEF n
  <2>2. Min({offset, n}) \in {offset, n} /\ Min({offset, n}) <= offset /\ Min({offset, n}) <= n
    BY <2>1, MinIsLeast
  <2> QED BY <1>1, <2>2
<1>8. location_from_offset(sql, offset) = at[Min({offset, n})]
  BY DEF location_from_offset, at
<1>9. m \in 0..n /\ known[m] = Location(Line(sql, m), Column(sql, m))
  BY <1>1 DEF known
<1> QED BY <1>1, <1>6, <1>7, <1>8, <1>9

\* The location in a part, from the lines and columns of the whole.
LEMMA LocationInPart ==
  ASSUME NEW sql, NEW text, NEW from, LiesIn(sql, text, from), NEW at \in 0..Len(sql)
  PROVE  LET line == Line(text, from + at) - Line(text, from)
             column == Column(text, from + at)
                         - IF line = 0 THEN Column(text, from) - 1 ELSE 0
         IN location_from_offset(sql, at) = Location(line + 1, column)
<1>1. /\ sql \in Seq(Alphabet) /\ from \in Nat /\ at \in Nat /\ at <= Len(sql)
      /\ \A i \in 1..Len(sql) : sql[i] = text[from + i]
      /\ Len(sql) \in Nat
  BY DEF LiesIn
<1>2. location_from_offset(sql, at) = Location(Line(sql, at), Column(sql, at))
  BY <1>1, LocationIsLineAndColumn
<1> DEFINE Agree(i) ==
             /\ Line(sql, i) \in Nat \ {0} /\ Column(sql, i) \in Nat
             /\ Line(text, from + i) = Line(text, from) + Line(sql, i) - 1
             /\ Column(text, from + i) = Column(sql, i)
                  + IF Line(sql, i) = 1 THEN Column(text, from) - 1 ELSE 0
           Good == {i \in Nat : i <= Len(sql) => Agree(i)}
<1>3. Line(text, from) \in Nat /\ Column(text, from) \in Nat
  BY <1>1, LineAndColumn
<1>4. 0 \in Good
  BY <1>1, <1>3, FirstLine
<1>5. ASSUME NEW i \in Nat, i \in Good
      PROVE  i + 1 \in Good
  <2> SUFFICES ASSUME i + 1 <= Len(sql) PROVE Agree(i + 1)
    OBVIOUS
  <2>1. Agree(i) /\ from + (i + 1) = (from + i) + 1 /\ from + i \in Nat
    BY <1>1, <1>5
  <2>2. i + 1 \in 1..Len(sql)
    BY <1>1
  <2>3. sql[i + 1] = text[(from + i) + 1]
    BY <1>1, <2>1, <2>2
  <2>4. CASE sql[i + 1] = "\n"
    <3>1. Line(sql, i + 1) = Line(sql, i) + 1 /\ Column(sql, i + 1) = 1
      BY <2>4, NextLine
    <3>2. Line(text, (from + i) + 1) = Line(text, from + i) + 1 /\ Column(text, (from + i) + 1) = 1
      BY <2>1, <2>3, <2>4, NextLine
    <3>3. Line(sql, i + 1) \in Nat \ {0} /\ Line(sql, i + 1) # 1 /\ Column(sql, i + 1) \in Nat
      BY <2>1, <3>1
    <3>4. Line(text, from + (i + 1)) = Line(text, from) + Line(sql, i + 1) - 1
      BY <1>3, <2>1, <3>1, <3>2
    <3>5. Column(text, from + (i + 1)) = 1
      BY <2>1, <3>2
    <3> QED BY <3>1, <3>3, <3>4, <3>5
  <2>5. CASE sql[i + 1] # "\n"
    <3>1. Line(sql, i + 1) = Line(sql, i) /\ Column(sql, i + 1) = Column(sql, i) + 1
      BY <2>5, NextColumn
    <3>2. /\ Line(text, (from + i) + 1) = Line(text, from + i)
          /\ Column(text, (from + i) + 1) = Column(text, from + i) + 1
      BY <2>1, <2>3, <2>5, NextColumn
    <3> QED BY <1>3, <2>1, <3>1, <3>2
  <2> QED BY <2>4, <2>5
<1>6. Agree(at)
  <2> HIDE DEF Agree
  <2>1. Nat \subseteq Good
    <3> HIDE DEF Good
    <3> QED BY <1>4, <1>5, Induction
  <2> QED BY <1>1, <2>1
<1> DEFINE line == Line(text, from + at) - Line(text, from)
           column == Column(text, from + at) - IF line = 0 THEN Column(text, from) - 1 ELSE 0
<1>7. line + 1 = Line(sql, at) /\ column = Column(sql, at)
  <2>1. CASE Line(sql, at) = 1
    BY <1>3, <1>6, <2>1
  <2>2. CASE Line(sql, at) # 1
    BY <1>3, <1>6, <2>2
  <2> QED BY <2>1, <2>2
<1> QED BY <1>2, <1>7

-----------------------------------------------------------------------------
(***************************************************************************)
(* The editor.  What waits for the answer to a question, what runs, and    *)
(* what an error is about, is each a part of a text that was in the editor *)
(* when it was run, at the offset that goes with it.                       *)
(***************************************************************************)
BufferInv == /\ buffer \in Seq(Alphabet)
             /\ selection \in (0..Len(buffer)) \X (0..Len(buffer))
             /\ connected \in BOOLEAN

PendingInv == Asking => LiesIn(pending.sql, pending.text, pending.offset)

RequestInv == Running => /\ LiesIn(request.sql, request.text, request.offset)
                         /\ request.explain \in BOOLEAN

HistoryInv == history \in Seq(Seq(Alphabet)) /\ HistoryIsWhatRan

\* The offset that is looked up for a place.
OffsetShown(engine, explain, sql, at) ==
  IF engine = "postgres"
  THEN Cardinality(FirstBytes(sql, at)) + IF explain THEN ExplainPrefix ELSE 0
  ELSE at

LEMMA OffsetIsNat ==
  ASSUME NEW engine, NEW explain, NEW sql, NEW at \in Nat
  PROVE  OffsetShown(engine, explain, sql, at) \in Nat
<1>1. Cardinality(FirstBytes(sql, at)) \in Nat
  BY LettersAndBytes
<1> QED BY <1>1 DEF OffsetShown, ExplainPrefix

ErrorInv ==
  error # None /\ error.shown # None =>
    \E sql \in Seq(Alphabet) : \E at \in 0..Len(sql) :
      /\ LiesIn(sql, error.text, error.from)
      /\ error.explain \in BOOLEAN
      /\ error.at = error.from + at
      /\ error.shown = location_from_offset(sql, OffsetShown(error.engine, error.explain, sql, at))

EditorInv == BufferInv /\ PendingInv /\ RequestInv /\ HistoryInv /\ ErrorInv

LEMMA TextsAreSequences ==
  ASSUME NEW text \in Texts
  PROVE  text \in Seq(Alphabet)
BY EditorAssumption DEF SeqOf

LEMMA InitKeepsEditor == Init => EditorInv
<1> SUFFICES ASSUME Init PROVE EditorInv
  OBVIOUS
<1>1. BufferInv
  <2>0. <<>> \in Seq(Alphabet) /\ Len(<<>>) = 0
    OBVIOUS
  <2>1. buffer \in Seq(Alphabet) /\ Len(buffer) = 0 /\ connected \in BOOLEAN
    BY <2>0, Zenon DEF Init
  <2>2. selection \in (0..Len(buffer)) \X (0..Len(buffer))
    BY <2>1 DEF Init
  <2> QED BY <2>1, <2>2 DEF BufferInv
<1>2. HistoryInv
  <2>1. history \in Seq(Seq(Alphabet)) /\ Len(history) = 0 /\ DOMAIN history = {}
    BY DEF Init
  <2> QED BY <2>1, EditorAssumption DEF Init, HistoryInv, HistoryIsWhatRan, Running
<1> QED BY <1>1, <1>2 DEF Init, EditorInv, PendingInv, RequestInv, ErrorInv, Asking, Running

(***************************************************************************)
(* Remember: a new text comes first, and no more than HistoryCap stay.     *)
(***************************************************************************)
LEMMA RememberShape ==
  ASSUME HistoryInv, NEW sql \in Seq(Alphabet), ~(history # <<>> /\ Head(history) = sql)
  PROVE  /\ Remember(sql) \in Seq(Seq(Alphabet))
         /\ Len(Remember(sql)) \in 1..HistoryCap
         /\ Len(Remember(sql)) <= Len(history) + 1
         /\ Remember(sql)[1] = sql
         /\ \A i \in 2..Len(Remember(sql)) : Remember(sql)[i] = history[i - 1]
<1> DEFINE all == <<sql>> \o history
           m == Min({Len(history) + 1, HistoryCap})
<1>1. history \in Seq(Seq(Alphabet)) /\ Len(history) \in Nat /\ HistoryCap \in Nat \ {0}
  BY EditorAssumption DEF HistoryInv
<1>2. /\ all \in Seq(Seq(Alphabet)) /\ Len(all) = Len(history) + 1
      /\ all[1] = sql /\ \A i \in 2..Len(all) : all[i] = history[i - 1]
  BY <1>1
<1>3. m \in 1..HistoryCap /\ m <= Len(history) + 1
  <2>1. {Len(history) + 1, HistoryCap} \in SUBSET Nat
    BY <1>1
  <2>2. m \in {Len(history) + 1, HistoryCap} /\ m <= Len(history) + 1 /\ m <= HistoryCap
    BY <2>1, MinIsLeast
  <2> HIDE DEF m
  <2> QED BY <1>1, <2>2
<1>4. Remember(sql) = SubSeq(all, 1, m)
  BY DEF Remember
<1> HIDE DEF all, m
<1>5. \A i \in 1..m : all[i] \in Seq(Alphabet)
  BY <1>1, <1>2, <1>3, ElementOfSeq
<1>6. /\ SubSeq(all, 1, m) \in Seq(Seq(Alphabet))
      /\ Len(SubSeq(all, 1, m)) = m
      /\ \A i \in 1..m : SubSeq(all, 1, m)[i] = all[i]
  BY <1>3, <1>5, SubSeqProperties
<1> QED BY <1>1, <1>2, <1>3, <1>4, <1>6

LEMMA EnqueueKeepsEditor ==
  ASSUME EditorInv, NEW part, LiesIn(part.sql, part.text, part.offset),
         NEW explain \in BOOLEAN, NEW asked, enqueue_query(part, explain, asked)
  PROVE  HistoryInv' /\ RequestInv' /\ ErrorInv'
<1>1. CASE Refuse
  <2>1. error' = [shown |-> None] /\ history' = history /\ request' = request
    BY <1>1 DEF Refuse, Plain
  <2>2. ErrorInv'
    BY <2>1 DEF ErrorInv
  <2>3. HistoryInv'
    BY <2>1 DEF EditorInv, HistoryInv, HistoryIsWhatRan, Running
  <2>4. RequestInv'
    BY <2>1 DEF EditorInv, RequestInv, Running
  <2> QED BY <2>2, <2>3, <2>4
<1> DEFINE sql == trim_sql(part.sql)
<1>2. ASSUME sql # <<>>,
             history' = Remember(sql), error' = None,
             request' = [sql |-> sql, explain |-> explain, asked |-> asked,
                         text |-> part.text, offset |-> part.offset + Leading(part.sql)]
      PROVE  HistoryInv' /\ RequestInv' /\ ErrorInv'
  <2>1. LiesIn(sql, part.text, part.offset + Leading(part.sql))
    BY <1>2, TrimLiesBehindLeading
  <2>2. trim_sql(sql) = sql
    BY TrimTwice DEF LiesIn
  <2> HIDE DEF sql
  <2>3. RequestInv'
    BY <1>2, <2>1 DEF RequestInv
  <2>4. ErrorInv'
    BY <1>2 DEF ErrorInv
  <2>5. HistoryInv /\ sql \in Seq(Alphabet) /\ request'.sql = sql
    BY <1>2, <2>1 DEF EditorInv, LiesIn
  <2>6. CASE history # <<>> /\ Head(history) = sql
    <3>1. history' = history
      BY <1>2, <2>6 DEF Remember
    <3> QED BY <2>3, <2>4, <2>5, <2>6, <3>1 DEF HistoryInv, HistoryIsWhatRan
  <2>7. CASE ~(history # <<>> /\ Head(history) = sql)
    <3>1. /\ history' \in Seq(Seq(Alphabet))
          /\ Len(history') \in 1..HistoryCap
          /\ Len(history') <= Len(history) + 1
          /\ history'[1] = sql
          /\ \A i \in 2..Len(history') : history'[i] = history[i - 1]
      BY <1>2, <2>5, <2>7, RememberShape
    <3>2. /\ history \in Seq(Seq(Alphabet)) /\ Len(history) \in Nat /\ DOMAIN history = 1..Len(history)
          /\ HistoryCap \in Nat /\ DOMAIN history' = 1..Len(history')
      BY <2>5, <3>1, EditorAssumption DEF HistoryInv
    <3>3. history' # <<>> /\ Head(history') = sql
      BY <3>1, <3>2
    <3>4. ASSUME NEW i \in 1..Len(history')
          PROVE  /\ history'[i] # <<>> /\ trim_sql(history'[i]) = history'[i]
                 /\ i > 1 => history'[i] # history'[i - 1]
      <4>1. CASE i = 1
        BY <1>2, <2>2, <3>1, <4>1
      <4>2. CASE i # 1
        <5> DEFINE k == i - 1
        <5>1. i \in 2..Len(history') /\ k \in 1..Len(history)
          BY <3>1, <3>2, <4>2
        <5>2. history'[i] = history[k]
          BY <3>1, <5>1
        <5>3. history[k] # <<>> /\ trim_sql(history[k]) = history[k] /\ (k > 1 => history[k] # history[k - 1])
          BY <2>5, <3>2, <5>1 DEF HistoryInv, HistoryIsWhatRan
        <5>4. history'[k] # history[k]
          <6>1. CASE k = 1
            <7>1. history # <<>> /\ Head(history) = history[1]
              BY <3>2, <5>1
            <7> QED BY <2>7, <3>1, <6>1, <7>1
          <6>2. CASE k # 1
            <7>1. k \in 2..Len(history')
              BY <3>1, <3>2, <5>1, <6>2
            <7>2. history'[k] = history[k - 1] /\ k > 1
              BY <3>1, <7>1
            <7> QED BY <5>3, <7>2
          <6> QED BY <6>1, <6>2
        <5> QED BY <5>2, <5>3, <5>4
      <4> QED BY <4>1, <4>2
    <3>5. HistoryIsWhatRan'
      BY <2>5, <3>1, <3>2, <3>3, <3>4 DEF HistoryIsWhatRan
    <3> QED BY <2>3, <2>4, <3>1, <3>5 DEF HistoryInv
  <2> QED BY <2>6, <2>7
<1>3. Refuse \/ /\ sql # <<>>
                /\ history' = Remember(sql)
                /\ error' = None
                /\ request' = [sql |-> sql, explain |-> explain, asked |-> asked,
                               text |-> part.text, offset |-> part.offset + Leading(part.sql)]
  BY DEF enqueue_query
<1> QED BY <1>1, <1>2, <1>3

LEMMA SelectionLiesInBuffer ==
  ASSUME BufferInv
  PROVE  LiesIn(selected_text.sql, selected_text.text, selected_text.offset)
<1>1. /\ selection[1] \in 0..Len(buffer) /\ selection[2] \in 0..Len(buffer)
      /\ buffer \in Seq(Alphabet) /\ Len(buffer) \in Nat
      /\ DOMAIN selection = {1, 2}
  BY DEF BufferInv
<1> DEFINE T == Range(selection)
<1>2. T = {selection[1], selection[2]}
  BY <1>1 DEF Range
<1>3. T \in SUBSET (0..Len(buffer)) /\ T # {} /\ T \in SUBSET Nat
  BY <1>1, <1>2
<1> HIDE DEF T
<1>4. Min(T) \in T /\ \A i \in T : Min(T) <= i
  BY <1>3, MinIsLeast
<1>5. Max(T) \in T
  BY <1>1, <1>3, MaxIsGreatest
<1>6. Min(T) \in 0..Len(buffer) /\ Max(T) \in Min(T)..Len(buffer)
  <2>1. Min(T) \in 0..Len(buffer) /\ Max(T) \in 0..Len(buffer)
    BY <1>3, <1>4, <1>5, Zenon
  <2>2. Min(T) <= Max(T)
    BY <1>4, <1>5
  <2> QED BY <1>1, <2>1, <2>2
<1>7. selected_text = Part(Min(T), Max(T))
  BY DEF selected_text, T
<1> QED BY <1>1, <1>6, <1>7, PartLiesInBuffer

LEMMA WholeLiesInBuffer ==
  ASSUME BufferInv
  PROVE  LiesIn(Whole.sql, Whole.text, Whole.offset)
<1>1. buffer \in Seq(Alphabet) /\ 0 \in 0..Len(buffer) /\ Len(buffer) \in 0..Len(buffer)
  BY DEF BufferInv
<1> QED BY <1>1, PartLiesInBuffer DEF Whole

LEMMA SubmitKeepsEditor ==
  ASSUME EditorInv, NEW part, LiesIn(part.sql, part.text, part.offset),
         NEW explain \in BOOLEAN, submit_query(part, explain)
  PROVE  HistoryInv' /\ RequestInv' /\ ErrorInv' /\ PendingInv'
<1>1. CASE Asks(part, explain)
  <2>1. pending' = part /\ UNCHANGED <<history, request, error>>
    BY <1>1 DEF submit_query
  <2>2. PendingInv'
    BY <2>1 DEF PendingInv
  <2>3. HistoryInv'
    BY <2>1 DEF EditorInv, HistoryInv, HistoryIsWhatRan, Running
  <2>4. RequestInv' /\ ErrorInv'
    BY <2>1 DEF EditorInv, RequestInv, ErrorInv, Running
  <2> QED BY <2>2, <2>3, <2>4
<1>2. CASE ~Asks(part, explain)
  <2>1. enqueue_query(part, explain, None) /\ pending' = pending
    BY <1>2 DEF submit_query
  <2>2. PendingInv'
    BY <2>1 DEF EditorInv, PendingInv, Asking
  <2> QED BY <2>1, <2>2, EnqueueKeepsEditor
<1> QED BY <1>1, <1>2

\* The editor's own steps.
LEMMA TypingKeepsEditor ==
  ASSUME EditorInv, buffer' \in Seq(Alphabet),
         selection' \in (0..Len(buffer')) \X (0..Len(buffer')),
         UNCHANGED <<history, connected, pending, request, error>>
  PROVE  EditorInv'
<1>1. BufferInv'
  BY DEF EditorInv, BufferInv
<1>2. HistoryInv'
  BY DEF EditorInv, HistoryInv, HistoryIsWhatRan, Running
<1>3. PendingInv' /\ RequestInv' /\ ErrorInv'
  BY DEF EditorInv, PendingInv, RequestInv, ErrorInv, Running, Asking
<1> QED BY <1>1, <1>2, <1>3 DEF EditorInv

LEMMA EndsKeepEditor ==
  ASSUME EditorInv, request' \in {request, None}, pending' \in {pending, None}, connected' \in BOOLEAN,
         ErrorInv', UNCHANGED <<buffer, selection, history>>
  PROVE  EditorInv'
<1>1. BufferInv'
  BY DEF EditorInv, BufferInv
<1>2. HistoryInv'
  BY DEF EditorInv, HistoryInv, HistoryIsWhatRan, Running
<1>3. PendingInv' /\ RequestInv'
  BY DEF EditorInv, PendingInv, RequestInv, Running, Asking
<1> QED BY <1>1, <1>2, <1>3 DEF EditorInv

LEMMA PollErrorKeepsEditor ==
  ASSUME EditorInv, PollError
  PROVE  EditorInv'
<1>1. /\ Running /\ request' = None
      /\ UNCHANGED <<buffer, selection, history, connected, pending>>
  BY DEF PollError
<1>0. error' = Plain \/ FailsInSqlite \/ FailsInPostgres
  BY DEF PollError
<1>2. ErrorInv'
  <2>1. CASE error' = Plain
    BY <2>1 DEF ErrorInv, Plain
  <2>2. LiesIn(request.sql, request.text, request.offset) /\ request.explain \in BOOLEAN
    BY <1>1 DEF EditorInv, RequestInv
  <2>3. ASSUME NEW sql, NEW at \in 0..Len(sql), NEW engine,
               LiesIn(sql, request.text, request.offset),
               error' = Located(engine, sql, at, OffsetShown(engine, request.explain, sql, at))
        PROVE  ErrorInv'
    <3>1. /\ error'.engine = engine /\ error'.explain = request.explain
          /\ error'.text = request.text /\ error'.from = request.offset
          /\ error'.at = request.offset + at
          /\ error'.shown = location_from_offset(sql, OffsetShown(engine, request.explain, sql, at))
      BY <2>3 DEF Located
    <3>2. sql \in Seq(Alphabet)
      BY <2>3 DEF LiesIn
    <3>3. /\ LiesIn(sql, error'.text, error'.from)
          /\ error'.explain \in BOOLEAN
          /\ error'.at = error'.from + at
          /\ error'.shown = location_from_offset(sql, OffsetShown(error'.engine, error'.explain, sql, at))
      BY <2>2, <2>3, <3>1
    <3> QED BY <2>3, <3>2, <3>3 DEF ErrorInv
  <2>4. CASE FailsInSqlite
    <3>1. PICK at \in StatementStarts(request.sql) :
            error' = Located("sqlite", request.sql, at, at)
      BY <2>4 DEF FailsInSqlite
    <3>2. at \in 0..Len(request.sql)
      <4>1. StatementStarts(request.sql) \subseteq 0..(Len(request.sql) - 1)
        BY Zenon DEF StatementStarts
      <4>2. Len(request.sql) \in Nat
        BY <2>2 DEF LiesIn
      <4>3. \A n \in Nat : 0..(n - 1) \subseteq 0..n
        OBVIOUS
      <4> QED BY <3>1, <4>1, <4>2, <4>3, Zenon
    <3>3. OffsetShown("sqlite", request.explain, request.sql, at) = at
      BY DEF OffsetShown
    <3> QED BY <2>2, <2>3, <3>1, <3>2, <3>3
  <2>5. CASE FailsInPostgres
    <3> DEFINE sql == normalize_statement_text(request.sql)
    <3>1. PICK at \in Boundaries(sql) :
            error' = Located("postgres", sql, at, CountedOffset(sql, at))
      BY <2>5 DEF FailsInPostgres
    <3>2. LiesIn(sql, request.text, request.offset)
      BY <2>2, NormalizedIsFront
    <3> HIDE DEF sql
    <3>3. at \in 0..Len(sql)
      BY <3>1 DEF Boundaries
    <3>4. OffsetShown("postgres", request.explain, sql, at) = CountedOffset(sql, at)
      BY DEF OffsetShown, CountedOffset, FirstBytes
    <3> QED BY <2>3, <3>1, <3>2, <3>3, <3>4
  <2> QED BY <1>0, <2>1, <2>4, <2>5
<1>3. connected' \in BOOLEAN
  BY <1>1 DEF EditorInv, BufferInv
<1> QED BY <1>1, <1>2, <1>3, EndsKeepEditor

LEMMA NextKeepsEditor == EditorInv /\ [Next]_vars => EditorInv'
<1> SUFFICES ASSUME EditorInv, [Next]_vars PROVE EditorInv'
    OBVIOUS
<1>0. BufferInv /\ buffer \in Seq(Alphabet) /\ connected \in BOOLEAN /\ history \in Seq(Seq(Alphabet))
  BY DEF EditorInv, BufferInv, HistoryInv
<1>1. CASE Type
  <2>1. buffer' \in Seq(Alphabet)
    <3>1. CASE \E atom \in Alphabet : buffer' = Append(buffer, atom)
      BY <1>0, <3>1
    <3>2. CASE \E text \in Texts : buffer' = text
      BY <3>2, TextsAreSequences
    <3> QED BY <1>1, <3>1, <3>2 DEF Type
  <2>2. Len(buffer') \in 0..Len(buffer')
    BY <2>1
  <2>3. selection' = <<Len(buffer'), Len(buffer')>> /\ UNCHANGED <<history, connected, pending, request, error>>
    BY <1>1 DEF Type
  <2>4. selection' \in (0..Len(buffer')) \X (0..Len(buffer'))
    BY <2>2, <2>3
  <2> QED BY <2>1, <2>3, <2>4, TypingKeepsEditor
<1>2. CASE Select
  <2>1. buffer' = buffer /\ UNCHANGED <<history, connected, pending, request, error>>
    BY <1>2 DEF Select
  <2>2. selection' \in (0..Len(buffer')) \X (0..Len(buffer'))
    BY <1>2, <2>1 DEF Select, Boundaries
  <2> QED BY <1>0, <2>1, <2>2, TypingKeepsEditor
<1>3. CASE LoadFromHistory
  <2>1. buffer' \in Seq(Alphabet)
    BY <1>0, <1>3, ElementOfSeq DEF LoadFromHistory
  <2>2. Len(buffer') \in Nat
    BY <2>1
  <2>3. selection' = <<0, 0>> /\ UNCHANGED <<history, connected, pending, request, error>>
    BY <1>3 DEF LoadFromHistory, SelectionReset
  <2>4. selection' \in (0..Len(buffer')) \X (0..Len(buffer'))
    BY <2>2, <2>3
  <2> QED BY <2>1, <2>3, <2>4, TypingKeepsEditor
<1>4. CASE Run
  <2>1. UNCHANGED <<buffer, selection, connected>>
    BY <1>4 DEF Run
  <2>2. PICK explain \in BOOLEAN : submit_query(Whole, explain) \/ submit_query(selected_text, explain)
    BY <1>4 DEF Run
  <2>3. HistoryInv' /\ RequestInv' /\ ErrorInv' /\ PendingInv'
    BY <1>0, <2>2, WholeLiesInBuffer, SelectionLiesInBuffer, SubmitKeepsEditor
  <2>4. BufferInv'
    BY <1>0, <2>1 DEF BufferInv
  <2> QED BY <2>3, <2>4 DEF EditorInv
<1>5. CASE Execute
  <2>1. UNCHANGED <<buffer, selection, connected>> /\ pending' = None /\ Asking
        /\ enqueue_query(pending, FALSE, pending.sql)
    BY <1>5 DEF Execute, Executed
  <2>2. LiesIn(pending.sql, pending.text, pending.offset)
    BY <2>1 DEF EditorInv, PendingInv
  <2>3. HistoryInv' /\ RequestInv' /\ ErrorInv'
    BY <2>1, <2>2, EnqueueKeepsEditor
  <2>4. BufferInv' /\ PendingInv'
    BY <1>0, <2>1 DEF BufferInv, PendingInv, Asking
  <2> QED BY <2>3, <2>4 DEF EditorInv
<1>6. CASE Cancel
  <2>1. ErrorInv'
    BY <1>6 DEF Cancel, EditorInv, ErrorInv
  <2> QED BY <1>0, <1>6, <2>1, EndsKeepEditor DEF Cancel
<1>7. CASE Connect
  <2>1. error' = None \/ error' = [shown |-> None]
    BY <1>7 DEF Connect, Plain
  <2>2. ErrorInv'
    BY <2>1 DEF ErrorInv
  <2>3. /\ request' \in {request, None} /\ connected' \in BOOLEAN
        /\ UNCHANGED <<buffer, selection, history, pending>>
    BY <1>0, <1>7 DEF Connect
  <2> QED BY <2>2, <2>3, EndsKeepEditor
<1>8. CASE PollError
  BY <1>8, PollErrorKeepsEditor
<1>9. CASE PollResult
  <2>1. ErrorInv'
    BY <1>9 DEF PollResult, ErrorInv
  <2> QED BY <1>0, <1>9, <2>1, EndsKeepEditor DEF PollResult
<1>10. CASE UNCHANGED vars
  <2>1. ErrorInv'
    BY <1>10 DEF vars, EditorInv, ErrorInv
  <2> QED BY <1>0, <1>10, <2>1, EndsKeepEditor DEF vars
<1> QED BY <1>1, <1>2, <1>3, <1>4, <1>5, <1>6, <1>7, <1>8, <1>9, <1>10 DEF Next

LEMMA EditorInvariant == Spec => []EditorInv
BY InitKeepsEditor, NextKeepsEditor, PTL DEF Spec

(***************************************************************************)
(* TypeOK: a location shown is a line and a column, whatever text is run.  *)
(***************************************************************************)
THEOREM EditorTyped == Spec => []TypeOK
<1>1. EditorInv => TypeOK
  <2> SUFFICES ASSUME EditorInv PROVE TypeOK
    OBVIOUS
  <2>1. pending = None \/ pending.sql \in Seq(Alphabet)
    BY DEF EditorInv, PendingInv, Asking, LiesIn
  <2>2. request = None \/ (request.sql \in Seq(Alphabet) /\ request.explain \in BOOLEAN)
    BY DEF EditorInv, RequestInv, Running, LiesIn
  <2>3. error = None \/ error.shown = None \/ error.shown \in [line : Nat, column : Nat]
    <3> SUFFICES ASSUME error # None, error.shown # None
                 PROVE  error.shown \in [line : Nat, column : Nat]
      OBVIOUS
    <3>0. PICK sql \in Seq(Alphabet) : \E at \in 0..Len(sql) :
            error.shown = location_from_offset(sql, OffsetShown(error.engine, error.explain, sql, at))
      BY DEF EditorInv, ErrorInv
    <3>1. PICK at \in 0..Len(sql) :
            error.shown = location_from_offset(sql, OffsetShown(error.engine, error.explain, sql, at))
      BY <3>0
    <3> DEFINE offset == OffsetShown(error.engine, error.explain, sql, at)
    <3>2. offset \in Nat
      BY OffsetIsNat
    <3> HIDE DEF offset
    <3>3. PICK k \in Nat : location_from_offset(sql, offset) = Location(Line(sql, k), Column(sql, k))
      <4>1. Len(sql) \in Nat
        OBVIOUS
      <4> QED BY <3>2, <4>1, LocationIsLineAndColumn
    <3>4. Line(sql, k) \in Nat /\ Column(sql, k) \in Nat
      BY LineAndColumn
    <3> QED BY <3>1, <3>3, <3>4 DEF Location, offset
  <2> QED BY <2>1, <2>2, <2>3 DEF EditorInv, BufferInv, HistoryInv, TypeOK
<1> QED BY <1>1, EditorInvariant, PTL

(***************************************************************************)
(* HistoryIsWhatRan: for any sequence of texts, trimmed as they are run,   *)
(* and any limit.                                                          *)
(***************************************************************************)
THEOREM HistoryOfRuns == Spec => []HistoryIsWhatRan
<1>1. EditorInv => HistoryIsWhatRan
  BY DEF EditorInv, HistoryInv
<1> QED BY <1>1, EditorInvariant, PTL

(***************************************************************************)
(* ErrorCountsFromRun: for every text and every part of it that is run,    *)
(* wherever SQLite begins a statement in it, and for every place at which  *)
(* PostgreSQL finds an error.                                              *)
(***************************************************************************)
THEOREM ErrorsCountFromRun == Spec => []ErrorCountsFromRun
<1>1. EditorInv => ErrorCountsFromRun
  <2> SUFFICES ASSUME EditorInv, error # None, error.shown # None, ~error.explain
               PROVE  ErrorCountsFromRun
    BY DEF ErrorCountsFromRun
  <2>0. PICK sql \in Seq(Alphabet) : \E at \in 0..Len(sql) :
          /\ LiesIn(sql, error.text, error.from)
          /\ error.at = error.from + at
          /\ error.shown = location_from_offset(sql, OffsetShown(error.engine, error.explain, sql, at))
    BY DEF EditorInv, ErrorInv
  <2>1. PICK at \in 0..Len(sql) :
          /\ LiesIn(sql, error.text, error.from)
          /\ error.at = error.from + at
          /\ error.shown = location_from_offset(sql, OffsetShown(error.engine, error.explain, sql, at))
    BY <2>0
  <2>2. /\ error.from \in Nat /\ Len(sql) \in Nat /\ at \in Nat /\ at <= Len(sql)
        /\ \A i \in 1..Len(sql) : sql[i] = error.text[error.from + i]
    BY <2>1 DEF LiesIn
  <2> DEFINE others == Cardinality(OtherBytes(sql, at))
             early == IF error.engine = "postgres" THEN BytesBehindFirst ELSE 0
             place == error.at - early
  <2>3. BytesBehindFirst = others
    <3>1. error.at - error.from = at
      BY <2>1, <2>2
    <3>2. \A i \in 1..at : sql[i] = error.text[error.from + i]
      BY <2>2
    <3>3. {i \in 1..(error.at - error.from) : error.text[error.from + i] = "trail"} = OtherBytes(sql, at)
      BY <3>1, <3>2 DEF OtherBytes
    <3> QED BY <3>3 DEF BytesBehindFirst
  <2>4. /\ others \in Nat /\ Cardinality(FirstBytes(sql, at)) \in Nat
        /\ Cardinality(FirstBytes(sql, at)) = at - others
    BY <2>2, LettersAndBytes
  <2>5. OffsetShown(error.engine, error.explain, sql, at) = at - early
    BY <2>2, <2>3, <2>4 DEF OffsetShown
  <2>6. early \in Nat /\ at - early \in 0..Len(sql)
    BY <2>2, <2>3, <2>4
  <2> DEFINE shift == at - early
  <2>7. place = error.from + shift
    BY <2>1, <2>2, <2>6
  <2>8. error.shown = location_from_offset(sql, shift) /\ shift \in 0..Len(sql)
    BY <2>1, <2>5, <2>6
  <2> HIDE DEF shift, others
  <2>9. LET line == Line(error.text, error.from + shift) - Line(error.text, error.from)
            column == Column(error.text, error.from + shift)
                        - IF line = 0 THEN Column(error.text, error.from) - 1 ELSE 0
        IN location_from_offset(sql, shift) = Location(line + 1, column)
    BY <2>1, <2>8, LocationInPart
  <2> QED BY <2>7, <2>8, <2>9 DEF ErrorCountsFromRun
<1> QED BY <1>1, EditorInvariant, PTL

-----------------------------------------------------------------------------
(***************************************************************************)
(* The scanner.  Its states, and that quotes, marks and blanks are         *)
(* different atoms.                                                        *)
(***************************************************************************)
Modes == {"code", "line", "block"} \cup Quotes
ScanStates(S) == [mode : Modes, skip : BOOLEAN, out : Seq(S \cup {" "})]

LEMMA ModesDiffer ==
  /\ "code" \notin Quotes /\ "line" \notin Quotes /\ "block" \notin Quotes
  /\ "code" # "line" /\ "code" # "block" /\ "line" # "block"
BY DEF Quotes

LEMMA QuotesDiffer ==
  \A q \in Quotes : q \notin Blanks /\ q \notin Marks /\ q # "end"
BY DEF Quotes, Blanks, Marks

LEMMA MarksDiffer ==
  /\ \A a \in Marks \cup {"end"} : a \notin Blanks
  /\ "end" \notin Quotes \cup Blanks \cup Marks \cup Fragments
  /\ "-" \in Marks /\ "/" \in Marks /\ "*" \in Marks
  /\ "-" # "/" /\ "*" # "/" /\ "-" # "*" /\ "\n" \in Blanks /\ " " \in Blanks
BY DEF Marks, Blanks, Quotes, Fragments, Writes

LEMMA AtIs ==
  ASSUME NEW S, NEW sql \in Seq(S), NEW i \in Nat
  PROVE  /\ i \in 1..Len(sql) => At(sql, i) = sql[i]
         /\ i \notin 1..Len(sql) => At(sql, i) = "end"
BY DEF At

(***************************************************************************)
(* Consume, mode by mode.                                                  *)
(***************************************************************************)
LEMMA ConsumeSkips ==
  ASSUME NEW st, NEW S, st \in ScanStates(S), NEW sql, NEW i, st.skip
  PROVE  Consume(st, sql, i) = [mode |-> st.mode, skip |-> FALSE, out |-> st.out]
BY DEF Consume, ScanStates

LEMMA ConsumeLineEnd ==
  ASSUME NEW st, NEW S, st \in ScanStates(S), NEW sql, NEW i, ~st.skip, st.mode = "line", sql[i] = "\n",
         NEW out, out = Append(st.out, " ")
  PROVE  Consume(st, sql, i) = [mode |-> "code", skip |-> FALSE, out |-> out]
BY DEF Consume, ScanStates, Blank

LEMMA ConsumeLine ==
  ASSUME NEW st, NEW S, st \in ScanStates(S), NEW sql, NEW i, ~st.skip, st.mode = "line", sql[i] # "\n"
  PROVE  Consume(st, sql, i) = st
BY DEF Consume, ScanStates

LEMMA ConsumeBlock ==
  ASSUME NEW st, NEW S, st \in ScanStates(S), NEW sql, NEW i, ~st.skip, st.mode = "block"
  PROVE  /\ Pair(sql, i) = <<"*", "/">> => Consume(st, sql, i) = [mode |-> "code", skip |-> TRUE, out |-> st.out]
         /\ Pair(sql, i) # <<"*", "/">> => Consume(st, sql, i) = st
BY ModesDiffer DEF Consume, ScanStates

LEMMA ConsumeQuoted ==
  ASSUME NEW st, NEW S, st \in ScanStates(S), NEW sql, NEW i, ~st.skip, st.mode \in Quotes
  PROVE  Consume(st, sql, i) = [mode |-> IF sql[i] = st.mode THEN "code" ELSE st.mode,
                                skip |-> FALSE, out |-> Append(st.out, " ")]
<1>1. st.mode # "code" /\ st.mode # "line" /\ st.mode # "block"
  BY ModesDiffer
<1>2. CASE sql[i] = st.mode
  BY <1>1, <1>2 DEF Consume, ScanStates, Blank, OpensComment
<1>3. CASE sql[i] # st.mode
  BY <1>1, <1>3 DEF Consume, ScanStates, Blank, OpensComment
<1> QED BY <1>2, <1>3

LEMMA ConsumeCode ==
  ASSUME NEW st, NEW S, st \in ScanStates(S), NEW sql \in Seq(S), NEW i \in 1..Len(sql),
         ~st.skip, st.mode = "code"
  PROVE  LET next == Consume(st, sql, i) IN
         /\ Pair(sql, i) = <<"-", "-">> => next = [mode |-> "line", skip |-> TRUE, out |-> st.out]
         /\ Pair(sql, i) = <<"/", "*">> => next = [mode |-> "block", skip |-> TRUE, out |-> st.out]
         /\ sql[i] \in Quotes => next = [mode |-> sql[i], skip |-> FALSE, out |-> Append(st.out, " ")]
<1>0. st.mode # "line" /\ st.mode # "block"
  BY ModesDiffer
<1>1. /\ Pair(sql, i) = <<"-", "-">> => sql[i] = "-"
      /\ Pair(sql, i) = <<"/", "*">> => sql[i] = "/"
  <2>1. At(sql, i) = sql[i]
    BY AtIs
  <2> QED BY <2>1 DEF Pair
<1>2. CASE Pair(sql, i) = <<"-", "-">>
  BY <1>0, <1>1, <1>2, QuotesDiffer, MarksDiffer DEF Consume, ScanStates, OpensComment
<1>3. CASE Pair(sql, i) = <<"/", "*">>
  BY <1>0, <1>1, <1>3, QuotesDiffer, MarksDiffer DEF Consume, ScanStates, OpensComment
<1>4. CASE Pair(sql, i) # <<"-", "-">> /\ Pair(sql, i) # <<"/", "*">> /\ sql[i] \in Quotes
  BY <1>0, <1>4 DEF Consume, ScanStates, OpensComment, Blank
<1>5. sql[i] \in Quotes => Pair(sql, i) # <<"-", "-">> /\ Pair(sql, i) # <<"/", "*">>
  BY <1>1, QuotesDiffer, MarksDiffer
<1> QED BY <1>2, <1>3, <1>4, <1>5

LEMMA ConsumeAtom ==
  ASSUME NEW st, NEW S, st \in ScanStates(S), NEW sql, NEW i, ~st.skip, st.mode = "code",
         Pair(sql, i) # <<"-", "-">>, Pair(sql, i) # <<"/", "*">>, sql[i] \notin Quotes,
         NEW out, out = Append(st.out, sql[i])
  PROVE  Consume(st, sql, i) = [mode |-> "code", skip |-> FALSE, out |-> out]
<1>1. st.mode # "line" /\ st.mode # "block"
  BY ModesDiffer
<1> QED BY <1>1 DEF Consume, ScanStates, OpensComment, Blank

\* Every step leads to a state again.
LEMMA StateTyped ==
  ASSUME NEW S, NEW mode \in Modes, NEW skip \in BOOLEAN, NEW out \in Seq(S \cup {" "})
  PROVE  [mode |-> mode, skip |-> skip, out |-> out] \in ScanStates(S)
BY DEF ScanStates

LEMMA ConsumeTyped ==
  ASSUME NEW S, NEW st \in ScanStates(S), NEW sql \in Seq(S), NEW i \in 1..Len(sql)
  PROVE  Consume(st, sql, i) \in ScanStates(S)
<1>1. /\ st.mode \in Modes /\ st.skip \in BOOLEAN /\ st.out \in Seq(S \cup {" "})
      /\ sql[i] \in S /\ {"code", "line", "block"} \subseteq Modes /\ Quotes \subseteq Modes
  BY ElementOfSeq DEF ScanStates, Modes
<1>2. Append(st.out, " ") \in Seq(S \cup {" "}) /\ Append(st.out, sql[i]) \in Seq(S \cup {" "})
  <2>1. " " \in S \cup {" "} /\ sql[i] \in S \cup {" "}
    BY <1>1
  <2> QED BY <1>1, <2>1, AppendProperties
<1>3. CASE st.skip
  <2>1. [mode |-> st.mode, skip |-> FALSE, out |-> st.out] \in ScanStates(S)
    BY <1>1, StateTyped
  <2> QED BY <1>3, <2>1, ConsumeSkips
<1>4. CASE ~st.skip /\ st.mode = "line"
  <2> DEFINE out == Append(st.out, " ")
  <2>1. out = Append(st.out, " ") /\ out \in Seq(S \cup {" "})
    BY <1>2
  <2> HIDE DEF out
  <2>2. [mode |-> "code", skip |-> FALSE, out |-> out] \in ScanStates(S)
    BY <1>1, <2>1, StateTyped
  <2>3. Consume(st, sql, i) \in {st, [mode |-> "code", skip |-> FALSE, out |-> out]}
    <3>1. CASE sql[i] = "\n"
      BY <1>4, <2>1, <3>1, ConsumeLineEnd
    <3>2. CASE sql[i] # "\n"
      BY <1>4, <3>2, ConsumeLine
    <3> QED BY <3>1, <3>2
  <2> QED BY <2>2, <2>3
<1>5. CASE ~st.skip /\ st.mode = "block"
  BY <1>1, <1>2, <1>5, ConsumeBlock, StateTyped
<1>6. CASE ~st.skip /\ st.mode \in Quotes
  <2>1. (IF sql[i] = st.mode THEN "code" ELSE st.mode) \in Modes
    BY <1>1
  <2>2. [mode |-> IF sql[i] = st.mode THEN "code" ELSE st.mode,
         skip |-> FALSE, out |-> Append(st.out, " ")] \in ScanStates(S)
    BY <1>1, <1>2, <2>1, StateTyped
  <2> QED BY <1>6, <2>2, ConsumeQuoted
<1>7. CASE ~st.skip /\ st.mode = "code"
  <2>1. CASE Pair(sql, i) = <<"-", "-">>
    <3>1. [mode |-> "line", skip |-> TRUE, out |-> st.out] \in ScanStates(S)
      BY <1>1, StateTyped
    <3> QED BY <1>7, <2>1, <3>1, ConsumeCode
  <2>2. CASE Pair(sql, i) = <<"/", "*">>
    <3>1. [mode |-> "block", skip |-> TRUE, out |-> st.out] \in ScanStates(S)
      BY <1>1, StateTyped
    <3> QED BY <1>7, <2>2, <3>1, ConsumeCode
  <2>3. CASE sql[i] \in Quotes
    <3> DEFINE out == Append(st.out, " ")
    <3>1. out \in Seq(S \cup {" "})
      BY <1>2
    <3>2. Consume(st, sql, i) = [mode |-> sql[i], skip |-> FALSE, out |-> out]
      BY <1>7, <2>3, ConsumeCode
    <3> HIDE DEF out
    <3>3. [mode |-> sql[i], skip |-> FALSE, out |-> out] \in ScanStates(S)
      BY <1>1, <2>3, <3>1, StateTyped
    <3> QED BY <3>2, <3>3
  <2>4. CASE Pair(sql, i) # <<"-", "-">> /\ Pair(sql, i) # <<"/", "*">> /\ sql[i] \notin Quotes
    <3> DEFINE out == Append(st.out, sql[i])
    <3>1. out \in Seq(S \cup {" "})
      BY <1>2
    <3>2. out = Append(st.out, sql[i])
      OBVIOUS
    <3> HIDE DEF out
    <3>3. Consume(st, sql, i) = [mode |-> "code", skip |-> FALSE, out |-> out]
      BY <1>7, <2>4, <3>2, ConsumeAtom
    <3>4. [mode |-> "code", skip |-> FALSE, out |-> out] \in ScanStates(S)
      BY <1>1, <3>1, StateTyped
    <3> QED BY <3>3, <3>4
  <2> QED BY <2>1, <2>2, <2>3, <2>4
<1> QED BY <1>1, <1>3, <1>4, <1>5, <1>6, <1>7 DEF Modes

\* The states of the scanner, one for each atom consumed.
IsScan(scan, sql) ==
  /\ scan[0] = ScanStart
  /\ \A i \in 1..Len(sql) : scan[i] = Consume(scan[i - 1], sql, i)

LEMMA ScanExists ==
  ASSUME NEW S, NEW sql \in Seq(S)
  PROVE  \E scan : /\ IsScan(scan, sql)
                   /\ \A i \in 0..Len(sql) : scan[i] \in ScanStates(S)
                   /\ normalize_sql_for_analysis(sql) = scan[Len(sql)].out
<1> DEFINE n == Len(sql)
           X == ScanStates(S)
           H == [p \in (1..n) \X X |-> Consume(p[2], sql, p[1])]
           step(g) == [i \in 0..n |-> IF i = 0 THEN ScanStart ELSE Consume(g[i - 1], sql, i)]
           scan == CHOOSE g : g = step(g)
<1>1. n \in Nat
  OBVIOUS
<1>2. ScanStart \in X
  BY DEF ScanStart, ScanStates, Modes
<1>3. H \in [(1..n) \X X -> X]
  BY ConsumeTyped
<1>4. \A i \in 1..n, st \in X : H[<<i, st>>] = Consume(st, sql, i)
  OBVIOUS
<1>5. \E g : g = step(g)
  <2> HIDE DEF n, X, H
  <2>0. PICK f \in [0..n -> X] : Iterates(f, n, ScanStart, H)
    BY <1>1, <1>2, <1>3, Iteration
  <2>1. f[0] = ScanStart /\ \A i \in 1..n : f[i] = H[<<i, f[i - 1]>>]
    BY <2>0 DEF Iterates
  <2>2. ASSUME NEW i \in 0..n PROVE f[i] = step(f)[i]
    <3>1. CASE i = 0
      BY <2>1, <3>1
    <3>2. CASE i # 0
      <4>1. i \in 1..n /\ i - 1 \in 0..n
        BY <1>1, <3>2
      <4>2. f[i - 1] \in X
        BY <4>1
      <4> QED BY <1>4, <2>1, <3>2, <4>1, <4>2
    <3> QED BY <3>1, <3>2
  <2>3. f = step(f)
    BY <2>2
  <2> QED BY <2>3
<1>6. scan = step(scan)
  <2> HIDE DEF step
  <2> QED BY <1>5
<1>7. normalize_sql_for_analysis(sql) = scan[n].out
  BY DEF normalize_sql_for_analysis
<1> HIDE DEF scan
<1>8. scan[0] = ScanStart /\ \A i \in 1..n : scan[i] = Consume(scan[i - 1], sql, i)
  <2>1. ASSUME NEW i \in 0..n PROVE scan[i] = IF i = 0 THEN ScanStart ELSE Consume(scan[i - 1], sql, i)
    BY <1>6
  <2> QED BY <1>1, <2>1
<1>9. \A i \in 0..n : scan[i] \in X
  <2>1. \A i \in 1..n : scan[i - 1] \in X => scan[i] = H[<<i, scan[i - 1]>>]
    BY <1>4, <1>8
  <2>2. scan[0] \in X
    BY <1>2, <1>8
  <2> HIDE DEF n, X, H
  <2> QED BY <1>1, <1>3, <2>1, <2>2, IterationStays
<1> QED BY <1>7, <1>8, <1>9 DEF IsScan

(***************************************************************************)
(* ClosingQuote: where it looks next, and that it stays in the text.       *)
(***************************************************************************)
Closes(close, sql, i) ==
  \A j \in (i + 1)..(Len(sql) + 2) :
    /\ j > Len(sql) => close[j] = Len(sql)
    /\ (j <= Len(sql) /\ sql[j] = sql[i] /\ At(sql, j + 1) = sql[i]) => j + 1 <= Len(sql) /\ close[j] = close[j + 2]
    /\ (j <= Len(sql) /\ sql[j] = sql[i] /\ At(sql, j + 1) # sql[i]) => close[j] = j
    /\ (j <= Len(sql) /\ sql[j] # sql[i]) => close[j] = close[j + 1]

LEMMA ClosingExists ==
  ASSUME NEW S, NEW sql \in Seq(S), NEW i \in 1..Len(sql), sql[i] \in Quotes
  PROVE  \E close : Closes(close, sql, i) /\ ClosingQuote(sql, i) = close[i + 1]
<1> DEFINE n == Len(sql)
           step(g) == [j \in (i + 1)..(n + 2) |->
                         CASE j > n -> n
                           [] Pair(sql, j) = <<sql[i], sql[i]>> -> g[j + 2]
                           [] At(sql, j) = sql[i] /\ At(sql, j + 1) # sql[i] -> j
                           [] OTHER -> g[j + 1]]
           close == CHOOSE g : g = step(g)
           Doubles(j) == At(sql, j) = sql[i] /\ At(sql, j + 1) = sql[i]
           Stop == {j \in (i + 1)..(n + 2) : j > n \/ (At(sql, j) = sql[i] /\ At(sql, j + 1) # sql[i])}
           base == [j \in (i + 1)..(n + 2) |-> IF j > n THEN n ELSE j]
           next == [j \in (i + 1)..(n + 2) |-> IF Doubles(j) THEN j + 2 ELSE j + 1]
           H == [p \in ((i + 1)..(n + 2)) \X Nat |-> p[2]]
<1>1. n \in Nat /\ i \in Nat /\ i + 1 \in Nat /\ n + 2 \in Nat
  OBVIOUS
<1>2. ASSUME NEW j \in (i + 1)..(n + 2)
      PROVE  /\ j <= n => At(sql, j) = sql[j]
             /\ j > n => At(sql, j) = "end" /\ At(sql, j) # sql[i]
             /\ j >= n => At(sql, j + 1) # sql[i]
  BY AtIs, QuotesDiffer
<1>3. ASSUME NEW g, NEW j \in (i + 1)..(n + 2)
      PROVE  step(g)[j] = IF j \in Stop THEN base[j] ELSE g[next[j]]
  <2>1. Pair(sql, j) = <<sql[i], sql[i]>> <=> Doubles(j)
    BY DEF Pair
  <2>2. CASE j > n
    BY <1>2, <2>1, <2>2
  <2>3. CASE ~(j > n) /\ Doubles(j)
    BY <2>1, <2>3
  <2>4. CASE ~(j > n) /\ At(sql, j) = sql[i] /\ At(sql, j + 1) # sql[i]
    BY <2>1, <2>4
  <2>5. CASE ~(j > n) /\ At(sql, j) # sql[i]
    BY <2>1, <2>5
  <2> QED BY <2>2, <2>3, <2>4, <2>5
<1>4. \E g : g = step(g)
  <2>1. base \in [(i + 1)..(n + 2) -> Nat] /\ next \in [(i + 1)..(n + 2) -> Nat]
        /\ H \in [((i + 1)..(n + 2)) \X Nat -> Nat]
    BY <1>1
  <2>2. \A j \in ((i + 1)..(n + 2)) \ Stop : next[j] \in (j + 1)..(n + 2)
    BY <1>1, <1>2
  <2>3. \A j \in (i + 1)..(n + 2), v \in Nat : H[<<j, v>>] = v
    OBVIOUS
  <2> HIDE DEF base, next, H, Stop, n
  <2>4. PICK f \in [(i + 1)..(n + 2) -> Nat] : DownIterates(f, i + 1, n + 2, Stop, base, next, H)
    BY <1>1, <2>1, <2>2, DownIteration
  <2>5. ASSUME NEW j \in (i + 1)..(n + 2) PROVE f[j] = step(f)[j]
    <3>1. step(f)[j] = IF j \in Stop THEN base[j] ELSE f[next[j]]
      BY <1>3
    <3>2. f[j] = IF j \in Stop THEN base[j] ELSE H[<<j, f[next[j]]>>]
      BY <2>4 DEF DownIterates
    <3>3. j \notin Stop => H[<<j, f[next[j]]>>] = f[next[j]]
      <4> SUFFICES ASSUME j \notin Stop PROVE H[<<j, f[next[j]]>>] = f[next[j]]
        OBVIOUS
      <4>1. next[j] \in (i + 1)..(n + 2)
        BY <1>1, <2>2
      <4>2. f[next[j]] \in Nat
        BY <4>1
      <4> QED BY <2>3, <4>2
    <3> HIDE DEF step
    <3> QED BY <3>1, <3>2, <3>3
  <2>6. f = step(f)
    BY <2>5
  <2> QED BY <2>6
<1>5. close = step(close)
  <2> HIDE DEF step
  <2> QED BY <1>4
<1>6. ClosingQuote(sql, i) = close[i + 1]
  BY DEF ClosingQuote
<1> HIDE DEF close
<1>7. ASSUME NEW j \in (i + 1)..(n + 2)
      PROVE  close[j] = IF j \in Stop THEN base[j] ELSE close[next[j]]
  <2>1. step(close)[j] = IF j \in Stop THEN base[j] ELSE close[next[j]]
    BY <1>3
  <2> HIDE DEF step
  <2> QED BY <1>5, <2>1
<1>8. Closes(close, sql, i)
  <2> SUFFICES ASSUME NEW j \in (i + 1)..(Len(sql) + 2)
               PROVE  /\ j > n => close[j] = n
                      /\ (j <= n /\ sql[j] = sql[i] /\ At(sql, j + 1) = sql[i]) => j + 1 <= n /\ close[j] = close[j + 2]
                      /\ (j <= n /\ sql[j] = sql[i] /\ At(sql, j + 1) # sql[i]) => close[j] = j
                      /\ (j <= n /\ sql[j] # sql[i]) => close[j] = close[j + 1]
    BY DEF Closes
  <2> QED BY <1>1, <1>2, <1>7
<1> QED BY <1>6, <1>8

LEMMA ClosingInText ==
  ASSUME NEW S, NEW sql \in Seq(S), NEW i \in 1..Len(sql), NEW close, Closes(close, sql, i)
  PROVE  \A j \in (i + 1)..Len(sql) : close[j] \in j..Len(sql)
<1> DEFINE n == Len(sql)
           G == {j \in (i + 1)..n : close[j] \in j..n}
<1>1. n \in Nat /\ i + 1 \in Nat
  OBVIOUS
<1>2. ASSUME NEW j \in (i + 1)..n, (j + 1)..n \subseteq G PROVE close[j] \in j..n
  <2>0. j \in (i + 1)..(n + 2)
    OBVIOUS
  <2>1. close[j] \in {j, close[j + 1]} \/ (j + 1 <= n /\ close[j] = close[j + 2])
    BY <2>0 DEF Closes
  <2>2. ASSUME NEW k \in {j + 1, j + 2} PROVE close[k] \in j..n
    <3>1. CASE k > n
      <4>1. k \in (i + 1)..(n + 2)
        OBVIOUS
      <4> QED BY <3>1, <4>1 DEF Closes
    <3>2. CASE k <= n
      <4>1. k \in G
        BY <1>2, <3>2
      <4> QED BY <4>1
    <3> QED BY <3>1, <3>2
  <2> QED BY <2>1, <2>2
<1>3. (i + 1)..n \subseteq G
  <2>1. \A j \in (i + 1)..n : (j + 1)..n \subseteq G => j \in G
    BY <1>2
  <2> HIDE DEF G, n
  <2> QED BY <1>1, <2>1, DownFrom
<1> QED BY <1>3

LEMMA TokenInText ==
  ASSUME NEW S, NEW sql \in Seq(S), NEW i \in 1..Len(sql)
  PROVE  TokenEnd(sql, i) \in i..Len(sql)
<1> DEFINE n == Len(sql)
<1>0. n \in Nat /\ i \in 1..n /\ n \in i..n
  OBVIOUS
<1>1. CASE sql[i] \in Quotes
  <2>1. PICK close : Closes(close, sql, i) /\ ClosingQuote(sql, i) = close[i + 1]
    BY <1>1, ClosingExists
  <2>2. close[i + 1] \in i..n
    <3>1. CASE i = n
      <4>1. i + 1 \in (i + 1)..(n + 2) /\ i + 1 > n
        BY <3>1
      <4> QED BY <1>0, <2>1, <4>1 DEF Closes
    <3>2. CASE i # n
      <4>1. i + 1 \in (i + 1)..n
        BY <3>2
      <4>2. close[i + 1] \in (i + 1)..n
        BY <2>1, <4>1, ClosingInText
      <4> QED BY <4>2
    <3> QED BY <3>1, <3>2
  <2>3. At(sql, i) = sql[i]
    BY AtIs
  <2>4. Pair(sql, i) # <<"-", "-">> /\ Pair(sql, i) # <<"/", "*">>
    BY <1>1, <2>3, QuotesDiffer, MarksDiffer DEF Pair
  <2>5. TokenEnd(sql, i) = ClosingQuote(sql, i)
    BY <1>1, <2>4 DEF TokenEnd
  <2> QED BY <2>1, <2>2, <2>5
<1>2. CASE sql[i] \notin Quotes /\ Pair(sql, i) = <<"-", "-">>
  <2> DEFINE T == {n} \cup {j \in i..n : sql[j] = "\n"}
  <2>1. T \in SUBSET Nat /\ T # {} /\ T \subseteq i..n
    BY <1>0
  <2>2. TokenEnd(sql, i) = Min(T)
    BY <1>2 DEF TokenEnd
  <2> HIDE DEF T
  <2>3. Min(T) \in T
    BY <2>1, MinIsLeast
  <2> QED BY <2>1, <2>2, <2>3
<1>3. CASE sql[i] \notin Quotes /\ Pair(sql, i) # <<"-", "-">> /\ Pair(sql, i) = <<"/", "*">>
  <2> DEFINE T == {n} \cup {j \in (i + 3)..n : Pair(sql, j - 1) = <<"*", "/">>}
  <2>1. T \in SUBSET Nat /\ T # {} /\ T \subseteq i..n
    BY <1>0
  <2>2. TokenEnd(sql, i) = Min(T)
    BY <1>3 DEF TokenEnd
  <2> HIDE DEF T
  <2>3. Min(T) \in T
    BY <2>1, MinIsLeast
  <2> QED BY <2>1, <2>2, <2>3
<1>4. CASE sql[i] \notin Quotes /\ Pair(sql, i) # <<"-", "-">> /\ Pair(sql, i) # <<"/", "*">>
  <2>1. TokenEnd(sql, i) = i
    BY <1>4 DEF TokenEnd
  <2> QED BY <1>0, <2>1
<1> QED BY <1>1, <1>2, <1>3, <1>4

(***************************************************************************)
(* The tokens divide a text: each begins behind the one before.            *)
(***************************************************************************)
Divide(sql, starts, from) ==
  /\ starts \subseteq from..Len(sql)
  /\ from <= Len(sql) => from \in starts
  /\ \A t \in starts : TokenEnd(sql, t) < Len(sql) => TokenEnd(sql, t) + 1 \in starts
  /\ \A i \in from..Len(sql) : \E t \in starts : t <= i /\ i <= TokenEnd(sql, t)
  /\ \A t, u \in starts : t < u => TokenEnd(sql, t) < u
  /\ \A u \in starts : u = from \/ \E t \in starts : u = TokenEnd(sql, t) + 1

LEMMA NoTokensAtEnd ==
  ASSUME NEW S, NEW sql \in Seq(S)
  PROVE  Divide(sql, {}, Len(sql) + 1)
BY DEF Divide

LEMMA OneTokenMore ==
  ASSUME NEW S, NEW sql \in Seq(S), NEW i \in 1..Len(sql), NEW rest,
         Divide(sql, rest, TokenEnd(sql, i) + 1)
  PROVE  Divide(sql, {i} \cup rest, i)
<1> DEFINE n == Len(sql)
           e == TokenEnd(sql, i)
           all == {i} \cup rest
<1>1. n \in Nat /\ e \in i..n
  BY TokenInText
<1> HIDE DEF e
<1>2. /\ rest \subseteq (e + 1)..n
      /\ e + 1 <= n => e + 1 \in rest
      /\ \A t \in rest : TokenEnd(sql, t) < n => TokenEnd(sql, t) + 1 \in rest
      /\ \A k \in (e + 1)..n : \E t \in rest : t <= k /\ k <= TokenEnd(sql, t)
      /\ \A t, u \in rest : t < u => TokenEnd(sql, t) < u
      /\ \A u \in rest : u = e + 1 \/ \E t \in rest : u = TokenEnd(sql, t) + 1
  BY DEF Divide, e
<1>3. all \subseteq i..n /\ i \in all
  BY <1>1, <1>2
<1>4. ASSUME NEW t \in all, TokenEnd(sql, t) < n PROVE TokenEnd(sql, t) + 1 \in all
  BY <1>1, <1>2, <1>4 DEF e
<1>5. ASSUME NEW k \in i..n PROVE \E t \in all : t <= k /\ k <= TokenEnd(sql, t)
  <2>1. CASE k <= e
    BY <1>1, <2>1 DEF e
  <2>2. CASE k > e
    <3>1. k \in (e + 1)..n
      BY <1>1, <2>2
    <3> QED BY <1>2, <3>1
  <2> QED BY <1>1, <2>1, <2>2
<1>6. ASSUME NEW t \in all, NEW u \in all, t < u PROVE TokenEnd(sql, t) < u
  <2>1. CASE t = i
    <3>1. u \in rest /\ u \in (e + 1)..n
      BY <1>2, <1>6, <2>1
    <3> QED BY <1>1, <2>1, <3>1 DEF e
  <2>2. CASE t \in rest
    <3>1. u # i
      BY <1>1, <1>2, <1>6, <2>2
    <3> QED BY <1>2, <1>6, <2>2, <3>1
  <2> QED BY <2>1, <2>2
<1>7. ASSUME NEW u \in all PROVE u = i \/ \E t \in all : u = TokenEnd(sql, t) + 1
  BY <1>2 DEF e
<1> QED BY <1>3, <1>4, <1>5, <1>6, <1>7 DEF Divide

LEMMA Tokens ==
  ASSUME NEW S, NEW sql \in Seq(S)
  PROVE  Divide(sql, TokenStarts(sql), 1)
<1> DEFINE n == Len(sql)
           step(g) == [i \in 1..(n + 1) |-> IF i > n THEN {} ELSE {i} \cup g[TokenEnd(sql, i) + 1]]
           starts == CHOOSE g : g = step(g)
           X == SUBSET (1..n)
           base == [i \in 1..(n + 1) |-> {}]
           next == [i \in 1..(n + 1) |-> IF i > n THEN 0 ELSE TokenEnd(sql, i) + 1]
           H == [p \in (1..(n + 1)) \X X |-> IF p[1] > n THEN {} ELSE {p[1]} \cup p[2]]
<1>1. n \in Nat /\ n + 1 \in Nat
  OBVIOUS
<1>2. \A i \in 1..n : TokenEnd(sql, i) + 1 \in (i + 1)..(n + 1)
  <2>1. \A i \in 1..n : TokenEnd(sql, i) \in i..n
    BY TokenInText
  <2> QED BY <1>1, <2>1
<1>3. \E g : g = step(g)
  <2>1. base \in [1..(n + 1) -> X]
    OBVIOUS
  <2>2. next \in [1..(n + 1) -> Nat]
    BY <1>1, <1>2
  <2>3. H \in [(1..(n + 1)) \X X -> X]
    BY <1>1
  <2>4. \A i \in (1..(n + 1)) \ {n + 1} : next[i] \in (i + 1)..(n + 1)
    BY <1>1, <1>2
  <2>5. ASSUME NEW i \in 1..n, NEW v \in X PROVE H[<<i, v>>] = {i} \cup v
    <3>1. i \in 1..(n + 1) /\ ~(i > n)
      BY <1>1
    <3> QED BY <3>1
  <2>6. \A i \in 1..n : next[i] = TokenEnd(sql, i) + 1
    OBVIOUS
  <2>7. base[n + 1] = {}
    OBVIOUS
  <2> HIDE DEF base, next, H, X, n
  <2>8. PICK f \in [1..(n + 1) -> X] : DownIterates(f, 1, n + 1, {n + 1}, base, next, H)
    <3>1. 1 \in Nat
      OBVIOUS
    <3> QED BY <1>1, <2>1, <2>2, <2>3, <2>4, <3>1, DownIteration
  <2>9. ASSUME NEW i \in 1..(n + 1) PROVE f[i] = step(f)[i]
    <3>1. f[i] = IF i \in {n + 1} THEN base[i] ELSE H[<<i, f[next[i]]>>]
      BY <2>8 DEF DownIterates
    <3>2. CASE i = n + 1
      <4>1. f[i] = {}
        BY <2>7, <3>1, <3>2
      <4>2. i > n
        BY <1>1, <3>2
      <4>3. step(f)[i] = {}
        BY <4>2
      <4> HIDE DEF step
      <4> QED BY <4>1, <4>3
    <3>3. CASE i # n + 1
      <4>1. i \in 1..n /\ next[i] \in 1..(n + 1) /\ ~(i > n)
        BY <1>1, <2>4, <3>3
      <4>2. f[next[i]] \in X
        BY <4>1
      <4>3. f[i] = {i} \cup f[TokenEnd(sql, i) + 1]
        BY <2>5, <2>6, <3>1, <3>3, <4>1, <4>2
      <4> QED BY <4>1, <4>3
    <3> QED BY <3>2, <3>3
  <2>10. f = step(f)
    BY <2>9
  <2> QED BY <2>10
<1>4. starts = step(starts)
  <2> HIDE DEF step
  <2> QED BY <1>3
<1>5. TokenStarts(sql) = starts[1]
  BY DEF TokenStarts
<1> HIDE DEF starts
<1>6. starts[n + 1] = {} /\ \A i \in 1..n : starts[i] = {i} \cup starts[TokenEnd(sql, i) + 1]
  <2>1. \A i \in 1..(n + 1) : starts[i] = step(starts)[i]
    BY <1>4
  <2>2. step(starts)[n + 1] = {}
    BY <1>1
  <2>3. \A i \in 1..n : step(starts)[i] = {i} \cup starts[TokenEnd(sql, i) + 1]
    BY <1>1
  <2>4. n + 1 \in 1..(n + 1) /\ 1..n \subseteq 1..(n + 1)
    BY <1>1
  <2> HIDE DEF step
  <2> QED BY <2>1, <2>2, <2>3, <2>4
<1> DEFINE G == {i \in 1..(n + 1) : Divide(sql, starts[i], i)}
<1>7. ASSUME NEW i \in 1..(n + 1), (i + 1)..(n + 1) \subseteq G
      PROVE  Divide(sql, starts[i], i)
  <2>1. CASE i = n + 1
    BY <1>6, <2>1, NoTokensAtEnd
  <2>2. CASE i # n + 1
    <3>1. i \in 1..n
      BY <2>2
    <3>2. TokenEnd(sql, i) + 1 \in G
      BY <1>2, <1>7, <3>1
    <3> QED BY <1>6, <3>1, <3>2, OneTokenMore
  <2> QED BY <2>1, <2>2
<1>8. 1..(n + 1) \subseteq G
  <2>1. \A i \in 1..(n + 1) : (i + 1)..(n + 1) \subseteq G => i \in G
    BY <1>7
  <2>2. 1 \in Nat
    OBVIOUS
  <2> HIDE DEF G, n
  <2> QED BY <1>1, <2>1, <2>2, DownFrom
<1>9. 1 \in G
  BY <1>1, <1>8
<1> QED BY <1>5, <1>9

-----------------------------------------------------------------------------
(***************************************************************************)
(* Scanner and tokens.  Where a token begins the scanner is in code, and   *)
(* what it writes for a token is nothing and blanks, or for a token of one *)
(* atom that is no quote, the atom.                                        *)
(***************************************************************************)
Scans(scan, sql, S) ==
  /\ sql \in Seq(S)
  /\ IsScan(scan, sql)
  /\ \A i \in 0..Len(sql) : scan[i] \in ScanStates(S)

InMode(scan, i, mode) == scan[i].mode = mode /\ ~scan[i].skip
Quiet(scan, i) == scan[i].out = scan[i - 1].out \/ scan[i].out = Append(scan[i - 1].out, " ")

ScansToken(scan, sql, t) ==
  LET end == TokenEnd(sql, t)
  IN /\ end < Len(sql) => InMode(scan, end, "code")
     /\ IF sql[t] \notin Quotes /\ end = t
        THEN scan[t].out = Append(scan[t - 1].out, sql[t])
        ELSE Quiet(scan, t)
     /\ \A i \in (t + 1)..end : Quiet(scan, i)

LEMMA ScanStep ==
  ASSUME NEW S, NEW sql, NEW scan, Scans(scan, sql, S), NEW i \in 1..Len(sql)
  PROVE  /\ sql \in Seq(S) /\ scan[i - 1] \in ScanStates(S) /\ scan[i - 1].mode \in Modes
         /\ scan[i] = Consume(scan[i - 1], sql, i)
<1>1. Len(sql) \in Nat
  BY DEF Scans
<1>2. i - 1 \in 0..Len(sql)
  BY <1>1
<1>3. scan[i - 1] \in ScanStates(S)
  BY <1>2 DEF Scans
<1> QED BY <1>3 DEF Scans, IsScan, ScanStates

\* Neither a comment nor a quote begins like the other.
LEMMA PairStarts ==
  ASSUME NEW S, NEW sql \in Seq(S), NEW i \in 1..Len(sql)
  PROVE  /\ Pair(sql, i) = <<"-", "-">> => sql[i] \notin Quotes /\ Pair(sql, i) # <<"/", "*">>
         /\ Pair(sql, i) = <<"/", "*">> => sql[i] \notin Quotes
<1>1. At(sql, i) = sql[i]
  BY AtIs
<1> QED BY <1>1, QuotesDiffer, MarksDiffer DEF Pair

\* The states between two atoms, from the step of one.
LEMMA StepInQuotes ==
  ASSUME NEW S, NEW sql, NEW scan, Scans(scan, sql, S), NEW i \in 1..Len(sql),
         NEW q \in Quotes, InMode(scan, i - 1, q)
  PROVE  /\ Quiet(scan, i)
         /\ sql[i] = q => InMode(scan, i, "code")
         /\ sql[i] # q => InMode(scan, i, q)
<1> DEFINE st == scan[i - 1]
           longer == Append(st.out, " ")
<1>1. st \in ScanStates(S) /\ scan[i] = Consume(st, sql, i) /\ sql \in Seq(S)
  BY ScanStep
<1>2. st.mode \in Quotes /\ ~st.skip /\ st.mode = q
  BY DEF InMode
<1> HIDE DEF st
<1>3. scan[i] = [mode |-> IF sql[i] = st.mode THEN "code" ELSE st.mode,
                 skip |-> FALSE, out |-> longer]
  BY <1>1, <1>2, ConsumeQuoted
<1>4. /\ scan[i].mode = IF sql[i] = q THEN "code" ELSE q
      /\ ~scan[i].skip /\ scan[i].out = longer
  <2> HIDE DEF longer
  <2> QED BY <1>2, <1>3
<1> QED BY <1>4 DEF InMode, Quiet, st

LEMMA StepInCode ==
  ASSUME NEW S, NEW sql, NEW scan, Scans(scan, sql, S), NEW i \in 1..Len(sql), InMode(scan, i - 1, "code")
  PROVE  /\ sql[i] \in Quotes => Quiet(scan, i) /\ InMode(scan, i, sql[i])
         /\ Pair(sql, i) = <<"-", "-">> => Quiet(scan, i) /\ scan[i].mode = "line" /\ scan[i].skip
         /\ Pair(sql, i) = <<"/", "*">> => Quiet(scan, i) /\ scan[i].mode = "block" /\ scan[i].skip
         /\ (Pair(sql, i) # <<"-", "-">> /\ Pair(sql, i) # <<"/", "*">> /\ sql[i] \notin Quotes)
              => InMode(scan, i, "code") /\ scan[i].out = Append(scan[i - 1].out, sql[i])
<1> DEFINE st == scan[i - 1]
           longer == Append(st.out, " ")
           kept == Append(st.out, sql[i])
<1>1. st \in ScanStates(S) /\ scan[i] = Consume(st, sql, i) /\ sql \in Seq(S)
  BY ScanStep
<1>2. st.mode = "code" /\ ~st.skip
  BY DEF InMode
<1> HIDE DEF st
<1>3. CASE Pair(sql, i) = <<"-", "-">>
  <2>1. scan[i] = [mode |-> "line", skip |-> TRUE, out |-> st.out]
    BY <1>1, <1>2, <1>3, ConsumeCode
  <2>2. sql[i] \notin Quotes /\ Pair(sql, i) # <<"/", "*">>
    BY <1>1, <1>3, PairStarts
  <2>3. scan[i].mode = "line" /\ scan[i].skip /\ scan[i].out = st.out
    <3> HIDE DEF longer, kept
    <3> QED BY <2>1
  <2> QED BY <1>3, <2>2, <2>3 DEF Quiet, st
<1>4. CASE Pair(sql, i) = <<"/", "*">>
  <2>1. scan[i] = [mode |-> "block", skip |-> TRUE, out |-> st.out]
    BY <1>1, <1>2, <1>4, ConsumeCode
  <2>2. sql[i] \notin Quotes /\ Pair(sql, i) # <<"-", "-">>
    BY <1>1, <1>4, PairStarts
  <2>3. scan[i].mode = "block" /\ scan[i].skip /\ scan[i].out = st.out
    <3> HIDE DEF longer, kept
    <3> QED BY <2>1
  <2> QED BY <1>4, <2>2, <2>3 DEF Quiet, st
<1>5. CASE sql[i] \in Quotes
  <2>1. scan[i] = [mode |-> sql[i], skip |-> FALSE, out |-> longer]
    BY <1>1, <1>2, <1>5, ConsumeCode
  <2>2. Pair(sql, i) # <<"/", "*">> /\ Pair(sql, i) # <<"-", "-">>
    BY <1>1, <1>5, PairStarts
  <2>3. scan[i].mode = sql[i] /\ ~scan[i].skip /\ scan[i].out = longer
    <3> HIDE DEF longer, kept
    <3> QED BY <2>1
  <2> QED BY <1>5, <2>2, <2>3 DEF Quiet, InMode, st
<1>6. CASE Pair(sql, i) # <<"-", "-">> /\ Pair(sql, i) # <<"/", "*">> /\ sql[i] \notin Quotes
  <2>1. scan[i] = [mode |-> "code", skip |-> FALSE, out |-> kept]
    <3>1. kept = Append(st.out, sql[i])
      OBVIOUS
    <3> HIDE DEF kept
    <3> QED BY <1>1, <1>2, <1>6, <3>1, ConsumeAtom
  <2>2. scan[i].mode = "code" /\ ~scan[i].skip /\ scan[i].out = kept
    <3> HIDE DEF longer, kept
    <3> QED BY <2>1
  <2> QED BY <1>6, <2>2 DEF InMode, st
<1> QED BY <1>3, <1>4, <1>5, <1>6

LEMMA StepSkips ==
  ASSUME NEW S, NEW sql, NEW scan, Scans(scan, sql, S), NEW i \in 1..Len(sql), scan[i - 1].skip
  PROVE  Quiet(scan, i) /\ InMode(scan, i, scan[i - 1].mode)
<1> DEFINE st == scan[i - 1]
<1>1. st \in ScanStates(S) /\ scan[i] = Consume(st, sql, i) /\ sql \in Seq(S)
  BY ScanStep
<1>2. st.skip
  BY DEF InMode
<1> HIDE DEF st
<1>3. scan[i] = [mode |-> st.mode, skip |-> FALSE, out |-> st.out]
  BY <1>1, <1>2, ConsumeSkips
<1> QED BY <1>1, <1>2, <1>3 DEF InMode, Quiet, st

LEMMA StepInLine ==
  ASSUME NEW S, NEW sql, NEW scan, Scans(scan, sql, S), NEW i \in 1..Len(sql), InMode(scan, i - 1, "line")
  PROVE  /\ Quiet(scan, i)
         /\ sql[i] = "\n" => InMode(scan, i, "code")
         /\ sql[i] # "\n" => InMode(scan, i, "line")
<1> DEFINE st == scan[i - 1]
           longer == Append(st.out, " ")
<1>1. st \in ScanStates(S) /\ scan[i] = Consume(st, sql, i) /\ sql \in Seq(S)
  BY ScanStep
<1>2. st.mode = "line" /\ ~st.skip
  BY DEF InMode
<1> HIDE DEF st
<1>3. CASE sql[i] = "\n"
  <2>1. scan[i] = [mode |-> "code", skip |-> FALSE, out |-> longer]
    <3>1. longer = Append(st.out, " ")
      OBVIOUS
    <3> HIDE DEF longer
    <3>2. Consume(st, sql, i) = [mode |-> "code", skip |-> FALSE, out |-> longer]
      <4>1. st \in ScanStates(S)
        BY <1>1
      <4> QED BY <1>2, <1>3, <3>1, <4>1, ConsumeLineEnd
    <3> QED BY <1>1, <3>2
  <2>2. scan[i].mode = "code" /\ ~scan[i].skip /\ scan[i].out = longer
    <3> HIDE DEF longer
    <3> QED BY <2>1
  <2> QED BY <1>3, <2>2 DEF InMode, Quiet, st
<1>4. CASE sql[i] # "\n"
  <2>1. scan[i] = st
    BY <1>1, <1>2, <1>4, ConsumeLine
  <2> QED BY <1>2, <1>4, <2>1 DEF InMode, Quiet, st
<1> QED BY <1>3, <1>4

LEMMA StepInBlock ==
  ASSUME NEW S, NEW sql, NEW scan, Scans(scan, sql, S), NEW i \in 1..Len(sql), InMode(scan, i - 1, "block")
  PROVE  /\ Quiet(scan, i)
         /\ Pair(sql, i) = <<"*", "/">> => scan[i].mode = "code" /\ scan[i].skip
         /\ Pair(sql, i) # <<"*", "/">> => InMode(scan, i, "block")
<1> DEFINE st == scan[i - 1]
<1>1. st \in ScanStates(S) /\ scan[i] = Consume(st, sql, i) /\ sql \in Seq(S)
  BY ScanStep
<1>2. st.mode = "block" /\ ~st.skip
  BY DEF InMode
<1> HIDE DEF st
<1>3. CASE Pair(sql, i) = <<"*", "/">>
  <2>1. scan[i] = [mode |-> "code", skip |-> TRUE, out |-> st.out]
    BY <1>1, <1>2, <1>3, ConsumeBlock
  <2>2. scan[i].mode = "code" /\ scan[i].skip /\ scan[i].out = st.out
    BY <2>1
  <2> QED BY <1>3, <2>2 DEF InMode, Quiet, st
<1>4. CASE Pair(sql, i) # <<"*", "/">>
  <2>1. scan[i] = st
    BY <1>1, <1>2, <1>4, ConsumeBlock
  <2> QED BY <1>2, <1>4, <2>1 DEF InMode, Quiet, st
<1> QED BY <1>3, <1>4

LEMMA QuotedIsScanned ==
  ASSUME NEW S, NEW sql, NEW scan, Scans(scan, sql, S), NEW t \in 1..Len(sql),
         InMode(scan, t - 1, "code"), sql[t] \in Quotes
  PROVE  ScansToken(scan, sql, t)
<1> DEFINE n == Len(sql)
           q == sql[t]
           Rest(close, j) == /\ \A i \in j..close[j] : Quiet(scan, i)
                             /\ close[j] < n => InMode(scan, close[j], "code")
<1>1. n \in Nat /\ sql \in Seq(S) /\ t + 1 \in Nat
  BY DEF Scans
<1>2. PICK close : Closes(close, sql, t) /\ ClosingQuote(sql, t) = close[t + 1]
  BY <1>1, ClosingExists
<1>3. TokenEnd(sql, t) = close[t + 1]
  <2>1. At(sql, t) = sql[t]
    BY <1>1, AtIs
  <2>2. Pair(sql, t) # <<"-", "-">> /\ Pair(sql, t) # <<"/", "*">>
    BY <2>1, QuotesDiffer, MarksDiffer DEF Pair
  <2> QED BY <1>2, <2>2 DEF TokenEnd
<1>4. \A j \in (t + 1)..n : close[j] \in j..n
  BY <1>1, <1>2, ClosingInText
<1>5. ASSUME NEW j \in (t + 1)..(n + 2), j > n PROVE close[j] = n /\ Rest(close, j)
  <2>1. close[j] = n
    BY <1>2, <1>5 DEF Closes
  <2> QED BY <1>5, <2>1
<1> DEFINE G == {j \in (t + 1)..(n + 2) : (j <= n => InMode(scan, j - 1, q)) => Rest(close, j)}
<1>6. ASSUME NEW j \in (t + 1)..(n + 2), (j + 1)..(n + 2) \subseteq G, j <= n => InMode(scan, j - 1, q)
      PROVE  Rest(close, j)
  <2>1. CASE j > n
    BY <1>5, <2>1
  <2>2. CASE j <= n
    <3>0. j \in 1..n /\ InMode(scan, j - 1, q) /\ (j + 1) - 1 = j /\ (j + 2) - 1 = j + 1
      BY <1>6, <2>2
    <3>1. Quiet(scan, j) /\ (sql[j] = q => InMode(scan, j, "code")) /\ (sql[j] # q => InMode(scan, j, q))
      BY <3>0, StepInQuotes
    <3>2. CASE sql[j] = q /\ At(sql, j + 1) = q
      <4>1. j + 1 \in 1..n /\ close[j] = close[j + 2]
        BY <1>1, <1>2, <2>2, <3>2 DEF Closes
      <4>2. sql[j + 1] = q
        BY <1>1, <3>2, <4>1, AtIs
      <4>3. Quiet(scan, j + 1) /\ InMode(scan, j + 1, q)
        BY <3>0, <3>1, <3>2, <4>1, <4>2, StepInCode
      <4>4. Rest(close, j + 2)
        <5>1. j + 2 \in G
          BY <1>6, <2>2, <4>1
        <5> QED BY <3>0, <4>3, <5>1
      <4>5. ASSUME NEW i \in j..close[j] PROVE Quiet(scan, i)
        <5>1. i = j \/ i = j + 1 \/ i \in (j + 2)..close[j + 2]
          BY <4>1
        <5> QED BY <3>1, <4>3, <4>4, <5>1
      <4> QED BY <4>1, <4>4, <4>5
    <3>3. CASE sql[j] = q /\ At(sql, j + 1) # q
      <4>1. close[j] = j
        BY <1>2, <2>2, <3>3 DEF Closes
      <4> QED BY <3>1, <3>3, <4>1
    <3>4. CASE sql[j] # q
      <4>1. close[j] = close[j + 1]
        BY <1>2, <2>2, <3>4 DEF Closes
      <4>2. Rest(close, j + 1)
        <5>1. j + 1 \in G
          BY <1>6, <2>2
        <5> QED BY <3>0, <3>1, <3>4, <5>1
      <4>3. ASSUME NEW i \in j..close[j] PROVE Quiet(scan, i)
        <5>1. i = j \/ i \in (j + 1)..close[j + 1]
          BY <4>1
        <5> QED BY <3>1, <4>2, <5>1
      <4> QED BY <4>1, <4>2, <4>3
    <3> QED BY <3>2, <3>3, <3>4
  <2> QED BY <1>1, <2>1, <2>2
<1>7. t + 1 \in G
  <2>1. \A j \in (t + 1)..(n + 2) : (j + 1)..(n + 2) \subseteq G => j \in G
    BY <1>6
  <2>2. n + 2 \in Nat /\ t + 1 \in (t + 1)..(n + 2)
    BY <1>1
  <2> HIDE DEF G, n
  <2>3. (t + 1)..(n + 2) \subseteq G
    BY <1>1, <2>1, <2>2, DownFrom
  <2> QED BY <2>2, <2>3
<1>8. Quiet(scan, t) /\ InMode(scan, t, q) /\ (t + 1) - 1 = t
  BY StepInCode
<1>9. Rest(close, t + 1)
  BY <1>7, <1>8
<1> QED BY <1>3, <1>8, <1>9 DEF ScansToken

\* The comments: to the newline, and to the end of the mark that closes them.
LEMMA AtInText ==
  ASSUME NEW S, NEW sql \in Seq(S), NEW i \in Nat, At(sql, i) # "end"
  PROVE  i \in 1..Len(sql) /\ sql[i] = At(sql, i)
BY AtIs

LEMMA LineIsScanned ==
  ASSUME NEW S, NEW sql, NEW scan, Scans(scan, sql, S), NEW t \in 1..Len(sql),
         InMode(scan, t - 1, "code"), Pair(sql, t) = <<"-", "-">>
  PROVE  ScansToken(scan, sql, t)
<1> DEFINE n == Len(sql)
           T == {n} \cup {j \in t..n : sql[j] = "\n"}
           end == Min(T)
<1>1. n \in Nat /\ sql \in Seq(S)
  BY DEF Scans
<1>2. sql[t] = "-" /\ t + 1 \in 1..n /\ sql[t + 1] = "-" /\ sql[t] \notin Quotes
  <2>1. At(sql, t) = "-" /\ At(sql, t + 1) = "-"
    BY DEF Pair
  <2>2. t + 1 \in 1..n /\ sql[t + 1] = "-"
    <3>1. t + 1 \in Nat /\ At(sql, t + 1) # "end"
      BY <2>1
    <3> QED BY <1>1, <2>1, <3>1, AtInText
  <2>3. sql[t] = "-"
    BY <1>1, <2>1, AtIs
  <2> QED BY <1>1, <2>2, <2>3, PairStarts
<1>3. TokenEnd(sql, t) = end
  BY <1>2 DEF TokenEnd
<1>4. end \in T /\ \A j \in T : end <= j
  <2>1. T \in SUBSET Nat /\ T # {}
    BY <1>1
  <2> HIDE DEF T
  <2> QED BY <2>1, MinIsLeast
<1>5. \A j \in {t, t + 1} : sql[j] # "\n"
  BY <1>2, MarksDiffer
<1>6. end \in (t + 1)..n /\ \A j \in t..(end - 1) : sql[j] # "\n"
  <2>1. end \in t..n /\ (end = n \/ sql[end] = "\n")
    BY <1>1, <1>4
  <2>2. end # t
    BY <1>1, <1>2, <1>5, <2>1
  <2>3. ASSUME NEW j \in t..(end - 1), sql[j] = "\n" PROVE FALSE
    <3>1. j \in T /\ ~(end <= j)
      BY <1>1, <2>1, <2>3
    <3> HIDE DEF T, end
    <3> QED BY <1>4, <3>1
  <2> HIDE DEF T, end
  <2> QED BY <1>1, <2>1, <2>2, <2>3
<1> HIDE DEF end, T
<1>7. Quiet(scan, t) /\ scan[t].mode = "line" /\ scan[t].skip
  BY StepInCode
<1>8. Quiet(scan, t + 1) /\ InMode(scan, t + 1, "line")
  <2>1. t + 1 \in 1..n /\ (t + 1) - 1 = t
    BY <1>2
  <2> QED BY <1>7, <2>1, StepSkips
<1> DEFINE G == {i \in (t + 1)..end : Quiet(scan, i) /\ (i < end => InMode(scan, i, "line"))
                                      /\ (i = end /\ i # t + 1 /\ sql[i] = "\n" => InMode(scan, i, "code"))}
<1>9. t + 1 \in G
  BY <1>6, <1>8
<1>10. ASSUME NEW i \in (t + 1)..(end - 1), i \in G PROVE i + 1 \in G
  <2>1. i + 1 \in 1..n /\ (i + 1) - 1 = i /\ i < end /\ InMode(scan, i, "line")
    BY <1>1, <1>6, <1>10
  <2>2. /\ Quiet(scan, i + 1)
        /\ sql[i + 1] = "\n" => InMode(scan, i + 1, "code")
        /\ sql[i + 1] # "\n" => InMode(scan, i + 1, "line")
    BY <2>1, StepInLine
  <2>3. i + 1 < end => sql[i + 1] # "\n"
    BY <1>6
  <2>4. i + 1 \in (t + 1)..end
    BY <1>6
  <2> QED BY <2>2, <2>3, <2>4
<1>11. (t + 1)..end \subseteq G
  <2>1. t + 1 \in Nat /\ end \in Nat
    BY <1>1, <1>6
  <2> HIDE DEF G, n
  <2> QED BY <1>9, <1>10, <2>1, UpFrom
<1>12. end < n => InMode(scan, end, "code")
  <2>1. end < n => end \in G /\ sql[end] = "\n" /\ end # t + 1
    BY <1>1, <1>4, <1>5, <1>6, <1>11 DEF T
  <2> QED BY <2>1
<1> QED BY <1>1, <1>3, <1>6, <1>7, <1>11, <1>12 DEF ScansToken

LEMMA BlockIsScanned ==
  ASSUME NEW S, NEW sql, NEW scan, Scans(scan, sql, S), NEW t \in 1..Len(sql),
         InMode(scan, t - 1, "code"), Pair(sql, t) = <<"/", "*">>
  PROVE  ScansToken(scan, sql, t)
<1> DEFINE n == Len(sql)
           Ends(j) == Pair(sql, j - 1) = <<"*", "/">>
           T == {n} \cup {j \in (t + 3)..n : Ends(j)}
           end == Min(T)
<1>1. n \in Nat /\ sql \in Seq(S)
  BY DEF Scans
<1>2. t + 1 \in 1..n /\ sql[t] \notin Quotes /\ Pair(sql, t) # <<"-", "-">>
  <2>1. At(sql, t) = "/" /\ At(sql, t + 1) = "*"
    BY DEF Pair
  <2>2. t + 1 \in 1..n
    <3>1. t + 1 \in Nat /\ At(sql, t + 1) # "end"
      BY <2>1
    <3> QED BY <1>1, <2>1, <3>1, AtInText
  <2>3. Pair(sql, t) # <<"-", "-">>
    BY <2>1, MarksDiffer DEF Pair
  <2> QED BY <1>1, <2>2, <2>3, PairStarts
<1>3. TokenEnd(sql, t) = end
  BY <1>2 DEF TokenEnd
<1>4. end \in T /\ \A j \in T : end <= j
  <2>1. T \in SUBSET Nat /\ T # {}
    BY <1>1
  <2> HIDE DEF T
  <2> QED BY <2>1, MinIsLeast
<1>6. /\ end \in (t + 1)..n
      /\ \A j \in (t + 3)..(end - 1) : ~Ends(j)
      /\ end < n => end >= t + 3 /\ Ends(end)
  <2> HIDE DEF Ends
  <2>1. end = n \/ (end \in (t + 3)..n /\ Ends(end))
    BY <1>4
  <2>2. ASSUME NEW j \in (t + 3)..(end - 1), Ends(j) PROVE FALSE
    <3>1. j \in T /\ ~(end <= j)
      BY <1>1, <2>1, <2>2
    <3> HIDE DEF T, end
    <3> QED BY <1>4, <3>1
  <2> HIDE DEF T, end
  <2> QED BY <1>1, <1>2, <2>1, <2>2
<1> HIDE DEF end, T, Ends
<1>7. Quiet(scan, t) /\ scan[t].mode = "block" /\ scan[t].skip
  BY StepInCode
<1>8. Quiet(scan, t + 1) /\ InMode(scan, t + 1, "block")
  <2>1. t + 1 \in 1..n /\ (t + 1) - 1 = t
    BY <1>2
  <2> QED BY <1>7, <2>1, StepSkips
<1> DEFINE Inside(i) == i + 1 < end \/ ~(end >= t + 3 /\ Ends(end))
           G == {i \in (t + 1)..end :
                   /\ Quiet(scan, i)
                   /\ Inside(i) => InMode(scan, i, "block")
                   /\ ~Inside(i) /\ i < end => scan[i].mode = "code" /\ scan[i].skip
                   /\ ~Inside(i) /\ i = end => InMode(scan, i, "code")}
<1>9. t + 1 \in G
  BY <1>6, <1>8
<1>10. ASSUME NEW i \in (t + 1)..(end - 1), i \in G PROVE i + 1 \in G
  <2>1. i + 1 \in 1..n /\ (i + 1) - 1 = i /\ i < end /\ i + 1 \in (t + 1)..end /\ i \in Nat /\ end \in Nat
    BY <1>1, <1>6
  <2>2. CASE Inside(i)
    <3>1. InMode(scan, i, "block")
      BY <1>10, <2>2
    <3>2. /\ Quiet(scan, i + 1)
          /\ Ends(i + 2) => scan[i + 1].mode = "code" /\ scan[i + 1].skip
          /\ ~Ends(i + 2) => InMode(scan, i + 1, "block")
      <4>1. (i + 2) - 1 = i + 1
        BY <2>1
      <4> QED BY <2>1, <3>1, <4>1, StepInBlock DEF Ends
    <3>3. CASE Inside(i + 1)
      <4>1. ~Ends(i + 2)
        <5>1. CASE i + 2 < end
          BY <1>6, <2>1, <5>1
        <5>2. CASE ~(i + 2 < end) /\ i + 2 = end
          BY <1>1, <2>1, <3>3, <5>2
        <5>3. CASE ~(i + 2 < end) /\ i + 2 # end
          <6>1. i + 1 = end
            BY <2>1, <5>3
          <6>2. end = n
            BY <1>1, <1>6, <2>1, <2>2, <6>1
          <6>3. At(sql, i + 2) = "end"
            BY <1>1, <2>1, <6>1, <6>2, AtIs
          <6>4. (i + 2) - 1 = i + 1 /\ (i + 1) + 1 = i + 2
            BY <2>1
          <6> QED BY <6>3, <6>4, MarksDiffer DEF Ends, Pair
        <5> QED BY <5>1, <5>2, <5>3
      <4> QED BY <2>1, <3>2, <3>3, <4>1
    <3>4. CASE ~Inside(i + 1)
      <4>1. i + 2 = end /\ Ends(end)
        BY <2>1, <2>2, <3>4
      <4>2. scan[i + 1].mode = "code" /\ scan[i + 1].skip
        BY <3>2, <4>1
      <4> QED BY <2>1, <3>2, <3>4, <4>1, <4>2
    <3> QED BY <3>3, <3>4
  <2>3. CASE ~Inside(i)
    <3>1. scan[i].mode = "code" /\ scan[i].skip
      BY <1>10, <2>1, <2>3
    <3>2. Quiet(scan, i + 1) /\ InMode(scan, i + 1, "code")
      BY <2>1, <3>1, StepSkips
    <3>3. i + 1 = end /\ ~Inside(i + 1)
      BY <2>1, <2>3
    <3> QED BY <2>1, <3>2, <3>3
  <2> QED BY <2>2, <2>3
<1>11. (t + 1)..end \subseteq G
  <2>1. t + 1 \in Nat /\ end \in Nat
    BY <1>1, <1>6
  <2> HIDE DEF G, n
  <2> QED BY <1>9, <1>10, <2>1, UpFrom
<1>12. end < n => InMode(scan, end, "code")
  <2>1. end < n => end \in G /\ ~Inside(end)
    BY <1>1, <1>6, <1>11
  <2> QED BY <2>1
<1>13. \A i \in (t + 1)..end : Quiet(scan, i)
  BY <1>11
<1> HIDE DEF G
<1> QED BY <1>1, <1>3, <1>6, <1>7, <1>12, <1>13 DEF ScansToken

LEMMA TokenIsScanned ==
  ASSUME NEW S, NEW sql, NEW scan, Scans(scan, sql, S), NEW t \in 1..Len(sql), InMode(scan, t - 1, "code")
  PROVE  ScansToken(scan, sql, t)
<1>1. CASE sql[t] \notin Quotes /\ Pair(sql, t) # <<"-", "-">> /\ Pair(sql, t) # <<"/", "*">>
  <2>1. TokenEnd(sql, t) = t
    BY <1>1 DEF TokenEnd
  <2>2. InMode(scan, t, "code") /\ scan[t].out = Append(scan[t - 1].out, sql[t])
    BY <1>1, StepInCode
  <2>3. (t + 1)..t = {}
    OBVIOUS
  <2> QED BY <1>1, <2>1, <2>2, <2>3 DEF ScansToken
<1> QED BY <1>1, QuotedIsScanned, LineIsScanned, BlockIsScanned

(***************************************************************************)
(* For every atom, then: the scanner writes it if it is a token of its own *)
(* and no quote, and otherwise a blank or nothing.                         *)
(***************************************************************************)
IsToken(sql, i) == i \in TokenStarts(sql) /\ TokenEnd(sql, i) = i /\ sql[i] \notin Quotes

LEMMA AtomsAreScanned ==
  ASSUME NEW S, NEW sql, NEW scan, Scans(scan, sql, S), NEW i \in 1..Len(sql)
  PROVE  IF IsToken(sql, i) THEN scan[i].out = Append(scan[i - 1].out, sql[i]) ELSE Quiet(scan, i)
<1> DEFINE n == Len(sql)
           starts == TokenStarts(sql)
<1>1. n \in Nat /\ sql \in Seq(S)
  BY DEF Scans
<1>2. Divide(sql, starts, 1)
  BY <1>1, Tokens
<1>3. starts \subseteq 1..n
  BY <1>2 DEF Divide
<1> DEFINE G == {t \in 1..n : t \in starts => InMode(scan, t - 1, "code")}
<1>4. \A t \in 1..n : t \in G
  <2> DEFINE U == {k \in Nat : \A t \in 1..n : t <= k => t \in G}
  <2>1. 0 \in U
    OBVIOUS
  <2>2. ASSUME NEW k \in Nat, k \in U PROVE k + 1 \in U
    <3> SUFFICES ASSUME k + 1 \in 1..n, k + 1 \in starts PROVE InMode(scan, k, "code")
      <4>1. (k + 1) - 1 = k
        OBVIOUS
      <4>2. \A t \in 1..n : t <= k + 1 => t <= k \/ t = k + 1
        OBVIOUS
      <4> QED BY <2>2, <4>1, <4>2
    <3>1. CASE k = 0
      <4>1. scan[0] = ScanStart
        BY DEF Scans, IsScan
      <4> QED BY <3>1, <4>1 DEF InMode, ScanStart
    <3>2. CASE k # 0
      <4>1. PICK s \in starts : k + 1 = TokenEnd(sql, s) + 1
        BY <1>2, <3>2 DEF Divide
      <4>2. s \in 1..n /\ TokenEnd(sql, s) \in s..n
        BY <1>1, <1>3, <4>1, TokenInText
      <4>3. TokenEnd(sql, s) = k /\ s <= k /\ k < n
        BY <1>1, <4>1, <4>2
      <4>4. InMode(scan, s - 1, "code")
        BY <2>2, <4>1, <4>2, <4>3
      <4>5. ScansToken(scan, sql, s)
        BY <4>2, <4>4, TokenIsScanned
      <4> QED BY <4>3, <4>5 DEF ScansToken
    <3> QED BY <3>1, <3>2
  <2> HIDE DEF U
  <2>3. n \in U
    BY <1>1, <2>1, <2>2, Induction
  <2> QED BY <1>1, <2>3 DEF U
<1>5. PICK t \in starts : t <= i /\ i <= TokenEnd(sql, t)
  BY <1>2 DEF Divide
<1>6. t \in 1..n /\ TokenEnd(sql, t) \in t..n
  BY <1>1, <1>3, <1>5, TokenInText
<1>7. ScansToken(scan, sql, t)
  <2>1. InMode(scan, t - 1, "code")
    BY <1>4, <1>5, <1>6
  <2> QED BY <1>6, <2>1, TokenIsScanned
<1>8. CASE i = t
  BY <1>5, <1>7, <1>8 DEF ScansToken, IsToken
<1>9. CASE i # t
  <2>1. i \notin starts
    <3>1. t < i /\ ~(TokenEnd(sql, t) < i)
      BY <1>5, <1>6, <1>9
    <3> QED BY <1>2, <1>5, <3>1 DEF Divide
  <2>2. i \in (t + 1)..TokenEnd(sql, t)
    BY <1>5, <1>6, <1>9
  <2> QED BY <1>7, <2>1, <2>2 DEF ScansToken, IsToken
<1> QED BY <1>8, <1>9

-----------------------------------------------------------------------------
(***************************************************************************)
(* Without: atom by atom, what it keeps, and what comes first.             *)
(***************************************************************************)
Rests(rest, text, atoms) ==
  /\ rest[0] = <<>>
  /\ \A i \in 1..Len(text) :
       rest[i] = IF text[i] \in atoms THEN rest[i - 1] ELSE Append(rest[i - 1], text[i])

LEMMA WithoutExists ==
  ASSUME NEW S, NEW text \in Seq(S), NEW atoms
  PROVE  \E rest : /\ Rests(rest, text, atoms)
                   /\ \A i \in 0..Len(text) : rest[i] \in Seq(S)
                   /\ Without(text, atoms) = rest[Len(text)]
<1> DEFINE n == Len(text)
           X == Seq(S)
           H == [p \in (1..n) \X X |-> IF text[p[1]] \in atoms THEN p[2] ELSE Append(p[2], text[p[1]])]
           step(g) == [i \in 0..n |->
                         CASE i = 0 -> <<>>
                           [] i > 0 /\ text[i] \in atoms -> g[i - 1]
                           [] OTHER -> Append(g[i - 1], text[i])]
           rest == CHOOSE g : g = step(g)
<1>1. n \in Nat /\ <<>> \in X
  OBVIOUS
<1>2. ASSUME NEW i \in 1..n, NEW s \in X
      PROVE  H[<<i, s>>] = IF text[i] \in atoms THEN s ELSE Append(s, text[i])
  OBVIOUS
<1>3. H \in [(1..n) \X X -> X]
  <2>1. ASSUME NEW i \in 1..n, NEW s \in X PROVE Append(s, text[i]) \in X
    BY ElementOfSeq, AppendProperties
  <2>2. \A p \in (1..n) \X X : p[1] \in 1..n /\ p[2] \in X
    OBVIOUS
  <2> QED BY <2>1, <2>2
<1>4. ASSUME NEW g, NEW i \in 0..n
      PROVE  step(g)[i] = IF i = 0 THEN <<>> ELSE IF text[i] \in atoms THEN g[i - 1] ELSE Append(g[i - 1], text[i])
  <2>1. CASE i = 0
    BY <2>1
  <2>2. CASE i > 0 /\ text[i] \in atoms
    BY <2>2
  <2>3. CASE i > 0 /\ text[i] \notin atoms
    BY <2>3
  <2> QED BY <1>1, <2>1, <2>2, <2>3
<1>5. \E g : g = step(g)
  <2> HIDE DEF n, X, H
  <2>1. PICK f \in [0..n -> X] : Iterates(f, n, <<>>, H)
    BY <1>1, <1>3, Iteration
  <2>2. ASSUME NEW i \in 0..n PROVE f[i] = step(f)[i]
    <3>1. CASE i = 0
      BY <1>4, <2>1, <3>1 DEF Iterates
    <3>2. CASE i # 0
      <4>1. i \in 1..n /\ i - 1 \in 0..n
        BY <1>1, <3>2
      <4>2. f[i - 1] \in X
        BY <4>1
      <4>3. f[i] = H[<<i, f[i - 1]>>]
        BY <2>1, <4>1 DEF Iterates
      <4> HIDE DEF step
      <4> QED BY <1>2, <1>4, <3>2, <4>1, <4>2, <4>3
    <3> QED BY <3>1, <3>2
  <2>3. f = step(f)
    BY <2>2
  <2> QED BY <2>3
<1>6. rest = step(rest)
  <2> HIDE DEF step
  <2> QED BY <1>5
<1>7. Without(text, atoms) = rest[n]
  BY DEF Without
<1> HIDE DEF rest
<1>8. rest[0] = <<>> /\ \A i \in 1..n :
        rest[i] = IF text[i] \in atoms THEN rest[i - 1] ELSE Append(rest[i - 1], text[i])
  <2>1. \A i \in 0..n : rest[i] = step(rest)[i]
    BY <1>6
  <2> HIDE DEF step
  <2>2. \A i \in 1..n : i \in 0..n /\ i # 0
    BY <1>1
  <2>3. 0 \in 0..n
    BY <1>1
  <2> QED BY <1>4, <2>1, <2>2, <2>3
<1>9. \A i \in 0..n : rest[i] \in X
  <2>1. \A i \in 1..n : rest[i - 1] \in X => rest[i] = H[<<i, rest[i - 1]>>]
    <3> HIDE DEF H
    <3> QED BY <1>2, <1>8
  <2>2. rest[0] \in X
    BY <1>8
  <2> HIDE DEF n, X, H
  <2> QED BY <1>1, <1>3, <2>1, <2>2, IterationStays
<1> QED BY <1>7, <1>8, <1>9 DEF Rests

LEMMA WithoutNothing ==
  ASSUME NEW atoms
  PROVE  Without(<<>>, atoms) = <<>>
<1>1. <<>> \in Seq({}) /\ Len(<<>>) = 0
  OBVIOUS
<1>2. PICK rest : Rests(rest, <<>>, atoms) /\ Without(<<>>, atoms) = rest[Len(<<>>)]
  BY <1>1, WithoutExists
<1> QED BY <1>1, <1>2 DEF Rests

LEMMA WithoutAppend ==
  ASSUME NEW S, NEW text \in Seq(S), NEW atoms, NEW a \in S
  PROVE  Without(Append(text, a), atoms)
           = IF a \in atoms THEN Without(text, atoms) ELSE Append(Without(text, atoms), a)
<1> DEFINE n == Len(text)
           longer == Append(text, a)
<1>1. /\ n \in Nat /\ longer \in Seq(S) /\ Len(longer) = n + 1
      /\ longer[n + 1] = a /\ \A i \in 1..n : longer[i] = text[i]
  BY AppendProperties
<1>2. PICK rest : Rests(rest, text, atoms) /\ Without(text, atoms) = rest[n]
  BY WithoutExists
<1> HIDE DEF longer
<1>3. PICK long : Rests(long, longer, atoms) /\ Without(longer, atoms) = long[n + 1]
  BY <1>1, WithoutExists
<1> DEFINE G == {i \in 0..n : long[i] = rest[i]}
<1>4. 0 \in G
  BY <1>1, <1>2, <1>3 DEF Rests
<1>5. ASSUME NEW i \in 0..(n - 1), i \in G PROVE i + 1 \in G
  <2>1. i + 1 \in 1..n /\ i + 1 \in 1..(n + 1) /\ (i + 1) - 1 = i /\ long[i] = rest[i]
    BY <1>1, <1>5
  <2>2. rest[i + 1] = IF text[i + 1] \in atoms THEN rest[i] ELSE Append(rest[i], text[i + 1])
    BY <1>2, <2>1 DEF Rests
  <2>3. long[i + 1] = IF longer[i + 1] \in atoms THEN long[i] ELSE Append(long[i], longer[i + 1])
    BY <1>1, <1>3, <2>1 DEF Rests
  <2>4. longer[i + 1] = text[i + 1]
    BY <1>1, <2>1
  <2>5. long[i + 1] = rest[i + 1]
    BY <2>1, <2>2, <2>3, <2>4
  <2> QED BY <2>1, <2>5
<1>6. n \in G
  <2> HIDE DEF G
  <2>1. 0..n \subseteq G
    BY <1>1, <1>4, <1>5, UpFrom
  <2> QED BY <1>1, <2>1
<1>7. long[n + 1] = IF longer[n + 1] \in atoms THEN long[n] ELSE Append(long[n], longer[n + 1])
  <2>1. n + 1 \in 1..(n + 1) /\ (n + 1) - 1 = n
    BY <1>1
  <2> QED BY <1>1, <1>3, <2>1 DEF Rests
<1> QED BY <1>1, <1>2, <1>3, <1>6, <1>7 DEF longer

LEMMA WithoutKeeps ==
  ASSUME NEW S, NEW text \in Seq(S), NEW atoms
  PROVE  /\ Without(text, atoms) \in Seq(S)
         /\ \A a : a \in Range(Without(text, atoms)) <=> a \notin atoms /\ \E k \in 1..Len(text) : text[k] = a
         /\ \A k \in 1..Len(text) : (text[k] \notin atoms /\ \A j \in 1..(k - 1) : text[j] \in atoms)
              => Without(text, atoms) # <<>> /\ Without(text, atoms)[1] = text[k]
<1> DEFINE n == Len(text)
<1>1. n \in Nat
  OBVIOUS
<1>2. PICK rest : /\ Rests(rest, text, atoms) /\ Without(text, atoms) = rest[n]
                  /\ \A i \in 0..n : rest[i] \in Seq(S)
  BY WithoutExists
<1> DEFINE First(k) == text[k] \notin atoms /\ \A j \in 1..(k - 1) : text[j] \in atoms
           Kept(i, a) == a \notin atoms /\ \E k \in 1..i : text[k] = a
           Has(i) == \A a : (\E p \in 1..Len(rest[i]) : rest[i][p] = a) <=> Kept(i, a)
           Begins(i) == \A k \in 1..i : First(k) => Len(rest[i]) > 0 /\ rest[i][1] = text[k]
           G == {i \in 0..n : Has(i) /\ Begins(i)}
<1>3. 0 \in G
  <2>1. rest[0] = <<>> /\ Len(rest[0]) = 0
    BY <1>2 DEF Rests
  <2> QED BY <1>1, <2>1
<1>4. ASSUME NEW i \in 0..(n - 1), i \in G PROVE i + 1 \in G
  <2> DEFINE b == text[i + 1]
  <2>0. i + 1 \in 1..n /\ i + 1 \in 0..n /\ (i + 1) - 1 = i /\ rest[i] \in Seq(S) /\ b \in S
        /\ Has(i) /\ Begins(i) /\ i \in Nat
    <3>1. i + 1 \in 1..n /\ i \in 0..n
      BY <1>1
    <3> HIDE DEF Has, Begins
    <3> QED BY <1>1, <1>2, <1>4, <3>1, ElementOfSeq
  <2>1. rest[i + 1] = IF b \in atoms THEN rest[i] ELSE Append(rest[i], b)
    BY <1>2, <2>0 DEF Rests
  <2>2. CASE b \in atoms
    <3>1. rest[i + 1] = rest[i]
      BY <2>1, <2>2
    <3>2. \A a : Kept(i + 1, a) <=> Kept(i, a)
      BY <2>0, <2>2
    <3>3. \A k \in 1..(i + 1) : First(k) => k \in 1..i
      BY <2>0, <2>2
    <3>4. Has(i + 1)
      <4> HIDE DEF Kept
      <4> QED BY <2>0, <3>1, <3>2
    <3>5. Begins(i + 1)
      <4> HIDE DEF First
      <4> QED BY <2>0, <3>1, <3>3
    <3> HIDE DEF Has, Begins
    <3> QED BY <2>0, <3>4, <3>5
  <2>3. CASE b \notin atoms
    <3> DEFINE r == rest[i]
               m == Len(r)
    <3>1. /\ Len(rest[i + 1]) = m + 1 /\ m \in Nat
          /\ rest[i + 1][m + 1] = b /\ \A p \in 1..m : rest[i + 1][p] = r[p]
      BY <2>0, <2>1, <2>3, AppendProperties
    <3>2. \A a : Kept(i + 1, a) <=> Kept(i, a) \/ a = b
      BY <2>0, <2>3
    <3>3. Has(i + 1)
      <4> SUFFICES ASSUME NEW a PROVE (\E p \in 1..Len(rest[i + 1]) : rest[i + 1][p] = a) <=> Kept(i + 1, a)
        OBVIOUS
      <4>1. (\E p \in 1..Len(rest[i + 1]) : rest[i + 1][p] = a) <=> (\E p \in 1..m : r[p] = a) \/ a = b
        <5> HIDE DEF r, m, b
        <5> QED BY <3>1
      <4> HIDE DEF Kept
      <4> QED BY <2>0, <3>2, <4>1
    <3>4. ASSUME NEW k \in 1..(i + 1), First(k) PROVE Len(rest[i + 1]) > 0 /\ rest[i + 1][1] = text[k]
      <4>1. CASE k \in 1..i
        <5>1. m > 0 /\ r[1] = text[k]
          BY <2>0, <3>4, <4>1
        <5> HIDE DEF m, r
        <5> QED BY <3>1, <5>1
      <4>2. CASE k = i + 1
        <5>1. m = 0
          <6>1. ASSUME m # 0 PROVE FALSE
            <7>1. 1 \in 1..m
              BY <3>1, <6>1
            <7>2. Kept(i, r[1])
              <8> HIDE DEF Kept
              <8> QED BY <2>0, <7>1
            <7>3. PICK j \in 1..i : text[j] = r[1] /\ r[1] \notin atoms
              BY <7>2
            <7> QED BY <2>0, <3>4, <4>2, <7>3
          <6> QED BY <6>1
        <5> HIDE DEF m, r
        <5> QED BY <3>1, <4>2, <5>1
      <4> QED BY <2>0, <4>1, <4>2
    <3>5. Begins(i + 1)
      BY <3>4
    <3> HIDE DEF Has, Begins
    <3> QED BY <2>0, <3>3, <3>5
  <2> QED BY <2>2, <2>3
<1>5. n \in G
  <2> HIDE DEF G
  <2>1. 0..n \subseteq G
    BY <1>1, <1>3, <1>4, UpFrom
  <2> QED BY <1>1, <2>1
<1> DEFINE w == Without(text, atoms)
<1>6. w \in Seq(S) /\ w = rest[n]
  BY <1>1, <1>2
<1> HIDE DEF w
<1>7. \A a : a \in Range(w) <=> \E p \in 1..Len(rest[n]) : rest[n][p] = a
  <2>1. DOMAIN w = 1..Len(rest[n])
    BY <1>6
  <2> QED BY <1>6, <2>1 DEF Range
<1>8. \A a : a \in Range(w) <=> Kept(n, a)
  <2> HIDE DEF Kept
  <2> QED BY <1>5, <1>7
<1>9. \A k \in 1..n : First(k) => w # <<>> /\ w[1] = text[k]
  <2>1. w # <<>> <=> Len(w) > 0
    BY <1>6, EmptySeq
  <2> HIDE DEF First
  <2> QED BY <1>5, <1>6, <2>1
<1> QED BY <1>6, <1>8, <1>9 DEF w

LEMMA WithoutSkips ==
  ASSUME NEW S, NEW text \in Seq(S), NEW a \in S, NEW atoms, a \in atoms
  PROVE  Without(Append(text, a), atoms) = Without(text, atoms)
BY WithoutAppend

LEMMA WithoutTakes ==
  ASSUME NEW S, NEW text \in Seq(S), NEW a \in S, NEW atoms, a \notin atoms
  PROVE  Without(Append(text, a), atoms) = Append(Without(text, atoms), a)
BY WithoutAppend

\* The code, atom by atom.
LEMMA CodeIs ==
  ASSUME NEW S, NEW sql \in Seq(S)
  PROVE  /\ CodeOf(sql) \in Seq(S \cup {" "})
         /\ Len(CodeOf(sql)) = Len(sql)
         /\ \A i \in 1..Len(sql) : IsToken(sql, i) => CodeOf(sql)[i] = sql[i]
         /\ \A i \in 1..Len(sql) : ~IsToken(sql, i) => CodeOf(sql)[i] \in Quotes \cup {" "}
<1> DEFINE n == Len(sql)
           Kept(i) == i \in TokenStarts(sql) /\ (sql[i] \in Quotes \/ TokenEnd(sql, i) = i)
           code == [i \in 1..n |-> IF Kept(i) THEN sql[i] ELSE " "]
<1>1. n \in Nat /\ DOMAIN sql = 1..n
  OBVIOUS
<1>2. CodeOf(sql) = code
  BY <1>1 DEF CodeOf
<1>3. \A i \in 1..n : IsToken(sql, i) => Kept(i)
  BY DEF IsToken
<1>4. \A i \in 1..n : Kept(i) /\ ~IsToken(sql, i) => sql[i] \in Quotes
  BY DEF IsToken
<1> HIDE DEF Kept
<1>5. code \in [1..n -> S \cup {" "}]
  <2>1. \A i \in 1..n : sql[i] \in S
    BY ElementOfSeq
  <2> QED BY <2>1
<1>6. code \in Seq(S \cup {" "}) /\ Len(code) = n
  <2> DEFINE X == S \cup {" "}
  <2> HIDE DEF code, n, X
  <2>1. code \in Seq(X)
    <3>1. code \in [1..n -> X]
      BY <1>5 DEF X
    <3>2. code \in UNION {[1..m -> X] : m \in Nat}
      BY <1>1, <3>1
    <3> QED BY <3>2, SeqDef
  <2>2. DOMAIN code = 1..n
    BY <1>5
  <2>3. Len(code) = n
    BY <1>1, <2>1, <2>2
  <2> QED BY <2>1, <2>3 DEF X
<1>7. \A i \in 1..n : code[i] = IF Kept(i) THEN sql[i] ELSE " "
  OBVIOUS
<1> HIDE DEF code
<1> QED BY <1>2, <1>3, <1>4, <1>6, <1>7

\* What the scanner keeps is the code.
LEMMA ScannerAgrees ==
  ASSUME NEW S, NEW sql \in Seq(S)
  PROVE  Without(normalize_sql_for_analysis(sql), Blanks) = Without(CodeOf(sql), Blanks \cup Quotes)
<1> DEFINE n == Len(sql)
           code == CodeOf(sql)
           noise == Blanks \cup Quotes
           X == S \cup {" "}
<1>0. n \in Nat
  OBVIOUS
<1>1. PICK scan : /\ IsScan(scan, sql)
                  /\ \A i \in 0..n : scan[i] \in ScanStates(S)
                  /\ normalize_sql_for_analysis(sql) = scan[n].out
  BY ScanExists
<1>2. Scans(scan, sql, S)
  BY <1>1 DEF Scans
<1>3. code \in Seq(S \cup {" "}) /\ Len(code) = n
  BY CodeIs
<1>4. PICK rest : Rests(rest, code, noise) /\ Without(code, noise) = rest[n]
  <2> HIDE DEF code, noise, X, n
  <2>1. code \in Seq(X)
    BY <1>3 DEF X
  <2>2. \E rest : /\ Rests(rest, code, noise)
                  /\ \A i \in 0..Len(code) : rest[i] \in Seq(X)
                  /\ Without(code, noise) = rest[Len(code)]
    BY <2>1, WithoutExists
  <2> QED BY <1>3, <2>2
<1> DEFINE G == {i \in 0..n : Without(scan[i].out, Blanks) = rest[i]}
<1>5. 0 \in G
  <2>1. scan[0].out = <<>>
    BY <1>1 DEF IsScan, ScanStart
  <2>2. rest[0] = <<>>
    BY <1>4 DEF Rests
  <2> QED BY <1>0, <2>1, <2>2, WithoutNothing
<1>6. ASSUME NEW k \in 0..(n - 1), k \in G PROVE k + 1 \in G
  <2> DEFINE i == k + 1
             before == scan[k].out
  <2>1. i \in 1..n /\ i - 1 = k /\ k \in 0..n /\ i \in 0..n /\ Without(before, Blanks) = rest[k]
    BY <1>0, <1>6
  <2>2. before \in Seq(S \cup {" "}) /\ sql[i] \in S \cup {" "}
    <3>1. scan[k] \in ScanStates(S) /\ sql[i] \in S
      BY <1>1, <2>1, ElementOfSeq
    <3> QED BY <3>1 DEF ScanStates
  <2>3. rest[i] = IF code[i] \in noise THEN rest[k] ELSE Append(rest[k], code[i])
    BY <1>3, <1>4, <2>1 DEF Rests
  <2>4. IF IsToken(sql, i) THEN scan[i].out = Append(before, sql[i]) ELSE Quiet(scan, i)
    BY <1>2, <2>1, AtomsAreScanned
  <2>5. CASE IsToken(sql, i)
    <3>1. code[i] = sql[i] /\ sql[i] \notin Quotes
      BY <2>1, <2>5, CodeIs DEF IsToken
    <3>2. Without(scan[i].out, Blanks)
            = IF sql[i] \in Blanks THEN Without(before, Blanks) ELSE Append(Without(before, Blanks), sql[i])
      <4>1. scan[i].out = Append(before, sql[i])
        BY <2>4, <2>5
      <4> HIDE DEF before, X
      <4>2. before \in Seq(X) /\ sql[i] \in X
        BY <2>2 DEF X
      <4>3. sql[i] \in Blanks => Without(Append(before, sql[i]), Blanks) = Without(before, Blanks)
        BY <4>2, WithoutSkips
      <4>4. sql[i] \notin Blanks => Without(Append(before, sql[i]), Blanks) = Append(Without(before, Blanks), sql[i])
        BY <4>2, WithoutTakes
      <4> QED BY <4>1, <4>3, <4>4
    <3> HIDE DEF i, before, code
    <3>3. Without(scan[i].out, Blanks) = rest[i]
      BY <2>1, <2>3, <3>1, <3>2
    <3> QED BY <2>1, <3>3 DEF i
  <2>6. CASE ~IsToken(sql, i)
    <3>1. rest[i] = rest[k]
      <4>1. code[i] \in Quotes \cup {" "}
        BY <2>1, <2>6, CodeIs
      <4> HIDE DEF i, code
      <4> QED BY <2>3, <4>1, MarksDiffer
    <3>2. Without(scan[i].out, Blanks) = Without(before, Blanks)
      <4>1. scan[i].out = before \/ scan[i].out = Append(before, " ")
        BY <2>1, <2>4, <2>6 DEF Quiet
      <4>2. Without(Append(before, " "), Blanks) = Without(before, Blanks)
        <5>1. before \in Seq(X) /\ " " \in X
          BY <2>2
        <5>2. " " \in Blanks
          BY MarksDiffer
        <5> HIDE DEF before, X
        <5> QED BY <5>1, <5>2, WithoutSkips
      <4> HIDE DEF before, i
      <4> QED BY <4>1, <4>2
    <3> HIDE DEF i, before, code
    <3>3. Without(scan[i].out, Blanks) = rest[i]
      BY <2>1, <3>1, <3>2
    <3> QED BY <2>1, <3>3 DEF i
  <2> QED BY <2>5, <2>6
<1>7. n \in G
  <2> HIDE DEF G
  <2>1. 0..n \subseteq G
    BY <1>0, <1>5, <1>6, UpFrom
  <2> QED BY <1>0, <2>1
<1> QED BY <1>1, <1>4, <1>7

(***************************************************************************)
(* ScannerKeepsCode: for any text, whatever quotes and comments contain of *)
(* each other.                                                             *)
(***************************************************************************)
THEOREM ScannerKeepsTheCode == Spec => []ScannerKeepsCode
<1>1. EditorInv => ScannerKeepsCode
  <2> SUFFICES ASSUME EditorInv PROVE ScannerKeepsCode
    OBVIOUS
  <2>1. buffer \in Seq(Alphabet)
    BY DEF EditorInv, BufferInv
  <2> QED BY <2>1, ScannerAgrees DEF ScannerKeepsCode
<1> QED BY <1>1, EditorInvariant, PTL

-----------------------------------------------------------------------------
(***************************************************************************)
(* The question.  It depends on the code alone: on its first atom, and on  *)
(* whether where is one of its atoms.                                      *)
(***************************************************************************)
LEMMA FragmentsAreCode ==
  \A a \in Fragments : a \notin Blanks /\ a \notin Quotes /\ a # "end"
BY DEF Fragments, Writes, Blanks, Quotes

LEMMA NormalizeTyped ==
  ASSUME NEW S, NEW sql \in Seq(S)
  PROVE  normalize_sql_for_analysis(sql) \in Seq(S \cup {" "})
<1>1. PICK scan : /\ \A i \in 0..Len(sql) : scan[i] \in ScanStates(S)
                  /\ normalize_sql_for_analysis(sql) = scan[Len(sql)].out
  BY ScanExists
<1>2. scan[Len(sql)] \in ScanStates(S)
  BY <1>1
<1> QED BY <1>1, <1>2 DEF ScanStates

LEMMA AtomsKept ==
  ASSUME NEW S, NEW sql \in Seq(S), NEW a, a \notin Blanks \cup Quotes
  PROVE  (\E k \in 1..Len(normalize_sql_for_analysis(sql)) : normalize_sql_for_analysis(sql)[k] = a)
           <=> (\E k \in 1..Len(CodeOf(sql)) : CodeOf(sql)[k] = a)
<1> DEFINE X == S \cup {" "}
           out == normalize_sql_for_analysis(sql)
           code == CodeOf(sql)
           noise == Blanks \cup Quotes
<1>1. code \in Seq(X)
  BY CodeIs
<1>2. out \in Seq(X)
  BY NormalizeTyped
<1>3. Without(out, Blanks) = Without(code, noise)
  BY ScannerAgrees
<1>4. a \notin Blanks /\ a \notin noise
  OBVIOUS
<1> HIDE DEF X, out, code, noise
<1>5. a \in Range(Without(out, Blanks)) <=> \E k \in 1..Len(out) : out[k] = a
  BY <1>2, <1>4, WithoutKeeps
<1>6. a \in Range(Without(code, noise)) <=> \E k \in 1..Len(code) : code[k] = a
  BY <1>1, <1>4, WithoutKeeps
<1> QED BY <1>3, <1>5, <1>6 DEF out, code

LEMMA TrimKeeps ==
  ASSUME NEW S, NEW sql \in Seq(S), NEW a, a \notin Blanks
  PROVE  a \in Range(trim_sql(sql)) <=> \E k \in 1..Len(sql) : sql[k] = a
<1>0. trim_sql(sql) \in Seq(S) /\ Len(sql) \in Nat /\ DOMAIN sql = 1..Len(sql)
  BY TrimIsPart
<1>1. DOMAIN trim_sql(sql) = 1..Len(trim_sql(sql))
  BY <1>0
<1>2. CASE Solid(sql) = {} /\ trim_sql(sql) = <<>>
  <2>1. ~\E k \in 1..Len(sql) : sql[k] = a
    BY <1>0, <1>2 DEF Solid
  <2>2. Range(trim_sql(sql)) = {}
    BY <1>2 DEF Range
  <2> QED BY <2>1, <2>2
<1>3. ASSUME NEW first \in Solid(sql), NEW last \in Solid(sql), first <= last,
             \A i \in Solid(sql) : first <= i /\ i <= last,
             Len(trim_sql(sql)) = last - first + 1,
             \A i \in 1..(last - first + 1) : trim_sql(sql)[i] = sql[first + i - 1]
      PROVE  a \in Range(trim_sql(sql)) <=> \E k \in 1..Len(sql) : sql[k] = a
  <2> DEFINE t == trim_sql(sql)
  <2>1. first \in 1..Len(sql) /\ last \in 1..Len(sql)
    BY <1>0 DEF Solid
  <2>2. DOMAIN t = 1..(last - first + 1) /\ \A i \in 1..(last - first + 1) : t[i] = sql[first + i - 1]
    BY <1>1, <1>3
  <2> HIDE DEF t
  <2>3. ASSUME a \in Range(t) PROVE \E k \in 1..Len(sql) : sql[k] = a
    <3>1. PICK i \in 1..(last - first + 1) : t[i] = a
      BY <2>2, <2>3 DEF Range
    <3>2. first + i - 1 \in 1..Len(sql)
      BY <1>0, <2>1
    <3> QED BY <2>2, <3>1, <3>2
  <2>4. ASSUME NEW k \in 1..Len(sql), sql[k] = a PROVE a \in Range(t)
    <3>1. k \in Solid(sql)
      BY <1>0, <2>4 DEF Solid
    <3> DEFINE i == k - first + 1
    <3>2. i \in 1..(last - first + 1) /\ first + i - 1 = k
      BY <1>3, <2>1, <3>1
    <3> HIDE DEF i
    <3>3. t[i] = a
      BY <2>2, <2>4, <3>2
    <3> QED BY <2>2, <3>2, <3>3 DEF Range
  <2> QED BY <2>3, <2>4 DEF t
<1> QED BY <1>2, <1>3, TrimShape

\* What is trimmed begins with what is kept first.
LEMMA TrimFirst ==
  ASSUME NEW S, NEW sql \in Seq(S), Without(sql, Blanks) # <<>>
  PROVE  At(trim_sql(sql), 1) = Without(sql, Blanks)[1]
<1> DEFINE w == Without(sql, Blanks)
           t == trim_sql(sql)
<1>0. /\ w \in Seq(S) /\ t \in Seq(S) /\ Len(sql) \in Nat /\ DOMAIN sql = 1..Len(sql) /\ w # <<>>
  BY TrimIsPart, WithoutKeeps
<1>1. CASE Solid(sql) = {} /\ trim_sql(sql) = <<>>
  <2>1. 1 \in 1..Len(w)
    <3> HIDE DEF w
    <3> QED BY <1>0, EmptySeq
  <2>2. w[1] \in Range(w)
    <3> HIDE DEF w
    <3>1. DOMAIN w = 1..Len(w)
      BY <1>0
    <3> QED BY <2>1, <3>1 DEF Range
  <2>3. PICK k \in 1..Len(sql) : w[1] \notin Blanks /\ sql[k] = w[1]
    BY <2>2, WithoutKeeps
  <2>4. k \in Solid(sql)
    BY <1>0, <2>3 DEF Solid
  <2> QED BY <1>1, <2>4
<1>2. ASSUME NEW first \in Solid(sql), NEW last \in Solid(sql), first <= last,
             \A i \in Solid(sql) : first <= i /\ i <= last,
             Len(trim_sql(sql)) = last - first + 1,
             \A i \in 1..(last - first + 1) : trim_sql(sql)[i] = sql[first + i - 1]
      PROVE  At(t, 1) = w[1]
  <2>1. first \in 1..Len(sql) /\ last \in 1..Len(sql) /\ sql[first] \notin Blanks
    BY <1>0 DEF Solid
  <2>2. \A j \in 1..(first - 1) : sql[j] \in Blanks
    <3>1. ASSUME NEW j \in 1..(first - 1), sql[j] \notin Blanks PROVE FALSE
      <4>1. j \in Solid(sql)
        BY <1>0, <2>1, <3>1 DEF Solid
      <4> QED BY <1>0, <1>2, <2>1, <4>1
    <3> QED BY <3>1
  <2>3. w[1] = sql[first]
    BY <2>1, <2>2, WithoutKeeps
  <2>4. 1 \in 1..(last - first + 1) /\ first + 1 - 1 = first
    BY <1>0, <1>2, <2>1
  <2>5. t[1] = sql[first] /\ 1 \in 1..Len(t)
    BY <1>2, <2>4
  <2>6. At(t, 1) = t[1]
    <3> HIDE DEF t
    <3> QED BY <1>0, <2>5, AtIs
  <2> QED BY <2>3, <2>5, <2>6
<1> QED BY <1>1, <1>2, TrimShape

\* The question in terms of the code.
LEMMA QuestionIsAboutCode ==
  ASSUME NEW S, NEW sql \in Seq(S)
  PROVE  LET code == CodeOf(sql) IN
         /\ is_dangerous_write_without_where(sql) => \A k \in 1..Len(code) : code[k] # "where"
         /\ (BeginsWith(code, Writes) /\ \A k \in 1..Len(code) : code[k] # "where")
              => is_dangerous_write_without_where(sql)
<1> DEFINE X == S \cup {" "}
           out == normalize_sql_for_analysis(sql)
           code == CodeOf(sql)
           noise == Blanks \cup Quotes
           t == trim_sql(out)
<1>1. code \in Seq(X) /\ DOMAIN code = 1..Len(code)
  <2>1. code \in Seq(X)
    BY CodeIs
  <2> HIDE DEF code, X
  <2> QED BY <2>1
<1>2. out \in Seq(X)
  BY NormalizeTyped
<1>3. "where" \in Fragments /\ Writes \subseteq Fragments
  BY DEF Fragments
<1>4. "where" \notin Blanks /\ "where" \notin noise
  BY <1>3, FragmentsAreCode
<1>5. "where" \in Range(t) <=> \E k \in 1..Len(code) : code[k] = "where"
  <2>1. "where" \in Range(t) <=> \E k \in 1..Len(out) : out[k] = "where"
    <3> HIDE DEF out, X
    <3> QED BY <1>2, <1>4, TrimKeeps
  <2>2. (\E k \in 1..Len(out) : out[k] = "where") <=> \E k \in 1..Len(code) : code[k] = "where"
    BY <1>4, AtomsKept
  <2> QED BY <2>1, <2>2
<1>6. is_dangerous_write_without_where(sql) <=> At(t, 1) \in Writes /\ "where" \notin Range(t)
  BY DEF is_dangerous_write_without_where, StartsWithWrite, Mentions
<1>7. ASSUME BeginsWith(code, Writes) PROVE At(t, 1) \in Writes
  <2>1. PICK k \in 1..Len(code) : code[k] \in Writes /\ \A j \in 1..(k - 1) : code[j] \in Blanks
    <3> HIDE DEF code
    <3> QED BY <1>1, <1>7 DEF BeginsWith, IsBlank
  <2>2. code[k] \notin noise /\ \A j \in 1..(k - 1) : code[j] \in noise
    BY <1>3, <2>1, FragmentsAreCode
  <2>3. Without(code, noise) # <<>> /\ Without(code, noise)[1] = code[k]
    <3> HIDE DEF code, noise, X
    <3> QED BY <1>1, <2>2, WithoutKeeps
  <2>4. Without(out, Blanks) = Without(code, noise)
    BY ScannerAgrees
  <2>5. At(t, 1) = Without(out, Blanks)[1]
    <3> HIDE DEF out, code, noise, X
    <3> QED BY <1>2, <2>3, <2>4, TrimFirst
  <2> HIDE DEF out, code, noise, t
  <2> QED BY <2>1, <2>3, <2>4, <2>5
<1> HIDE DEF t, code
<1> QED BY <1>5, <1>6, <1>7 DEF code

\* The words of a code, and how they lie in it.
WordStarts(code) == {i \in DOMAIN code : code[i] \in Fragments /\ (i > 1 => code[i - 1] \notin Fragments)}
WordEnd(code, i) == Min({j \in i..Len(code) : code[j] \notin Fragments} \cup {Len(code) + 1})

LEMMA WordsAre ==
  ASSUME NEW code
  PROVE  Words(code) = {SubSeq(code, i, WordEnd(code, i) - 1) : i \in WordStarts(code)}
BY DEF Words, Pieces, WordStarts, WordEnd, FirstFrom

LEMMA WordLies ==
  ASSUME NEW S, NEW code \in Seq(S), NEW i \in WordStarts(code)
  PROVE  LET end == WordEnd(code, i)
             word == SubSeq(code, i, end - 1) IN
         /\ i \in 1..Len(code) /\ end \in (i + 1)..(Len(code) + 1)
         /\ \A j \in i..(end - 1) : code[j] \in Fragments
         /\ end <= Len(code) => code[end] \notin Fragments
         /\ Len(word) = end - i /\ word[1] = code[i]
         /\ \A j \in 1..(end - i) : word[j] = code[i + j - 1]
<1> DEFINE n == Len(code)
           T == {j \in i..n : code[j] \notin Fragments} \cup {n + 1}
           end == Min(T)
           word == SubSeq(code, i, end - 1)
<1>1. n \in Nat /\ i \in 1..n /\ code[i] \in Fragments
  BY DEF WordStarts
<1>2. T \in SUBSET Nat /\ T # {}
  BY <1>1
<1>3. end \in T /\ \A j \in T : end <= j
  <2> HIDE DEF T
  <2> QED BY <1>2, MinIsLeast
<1>4. WordEnd(code, i) = end
  BY DEF WordEnd
<1> HIDE DEF end
<1>5. end \in i..(n + 1) /\ end # i
  BY <1>1, <1>3
<1>6. end \in (i + 1)..(n + 1)
  BY <1>1, <1>5
<1>7. \A j \in i..(end - 1) : code[j] \in Fragments
  <2>1. ASSUME NEW j \in i..(end - 1), code[j] \notin Fragments PROVE FALSE
    <3>1. j \in T /\ j < end
      BY <1>1, <1>6, <2>1
    <3> QED BY <1>1, <1>3, <1>6, <3>1
  <2> QED BY <2>1
<1>8. end <= n => code[end] \notin Fragments
  BY <1>1, <1>3
<1>9. /\ Len(word) = end - i /\ word[1] = code[i]
      /\ \A j \in 1..(end - i) : word[j] = code[i + j - 1]
  <2>1. \A j \in i..(end - 1) : code[j] \in S
    <3>1. \A j \in i..(end - 1) : j \in 1..n
      BY <1>1, <1>6
    <3> QED BY <3>1, ElementOfSeq
  <2>2. i \in Int /\ end - 1 \in Int /\ i <= end - 1 /\ (end - 1) - i + 1 = end - i
        /\ 1 \in 1..(end - 1 - i + 1) /\ i + 1 - 1 = i
    BY <1>1, <1>6
  <2>3. /\ Len(word) = (end - 1) - i + 1
        /\ \A j \in 1..(end - 1 - i + 1) : word[j] = code[i + j - 1]
    BY <2>1, <2>2, SubSeqProperties
  <2> HIDE DEF word
  <2> QED BY <2>2, <2>3
<1> QED BY <1>1, <1>4, <1>6, <1>7, <1>8, <1>9

\* Every fragment is part of a word.
LEMMA FragmentInWord ==
  ASSUME NEW S, NEW code \in Seq(S), NEW k \in 1..Len(code), code[k] \in Fragments
  PROVE  \E i \in WordStarts(code) : i <= k /\ k < WordEnd(code, i)
<1> DEFINE T == {p \in 1..k : \A j \in p..k : code[j] \in Fragments}
<1>1. k \in T /\ T \in SUBSET Nat
  OBVIOUS
<1>2. PICK p \in T : \A q \in T : p <= q
  <2> HIDE DEF T
  <2> QED BY <1>1, SomeIsLeast
<1>3. p \in 1..k /\ code[p] \in Fragments /\ p \in 1..Len(code)
  OBVIOUS
<1>4. p > 1 => code[p - 1] \notin Fragments
  <2> SUFFICES ASSUME p > 1, code[p - 1] \in Fragments PROVE FALSE
    OBVIOUS
  <2>1. p - 1 \in 1..k
    BY <1>3
  <2>2. \A j \in (p - 1)..k : j = p - 1 \/ j \in p..k
    BY <1>3
  <2>3. p - 1 \in T
    BY <2>1, <2>2
  <2> QED BY <1>2, <1>3, <2>3
<1>5. p \in WordStarts(code)
  BY <1>3, <1>4 DEF WordStarts
<1>6. k < WordEnd(code, p)
  <2> SUFFICES ASSUME WordEnd(code, p) <= k PROVE FALSE
    <3>1. WordEnd(code, p) \in Nat /\ k \in Nat
      BY <1>5, WordLies
    <3> QED BY <3>1
  <2>1. WordEnd(code, p) \in (p + 1)..(Len(code) + 1) /\ (WordEnd(code, p) <= Len(code) => code[WordEnd(code, p)] \notin Fragments)
    BY <1>5, WordLies
  <2>2. WordEnd(code, p) \in p..k /\ WordEnd(code, p) <= Len(code)
    BY <1>3, <2>1
  <2> QED BY <2>1, <2>2
<1> QED BY <1>3, <1>5, <1>6

\* Where is one of the atoms when it is one of the words, and the other way
\* round when no longer word has it among its atoms.
LEMMA WordAndAtom ==
  ASSUME NEW S, NEW code \in Seq(S), NEW a \in Fragments
  PROVE  /\ <<a>> \in Words(code) => \E k \in 1..Len(code) : code[k] = a
         /\ ((\E k \in 1..Len(code) : code[k] = a) /\ \A word \in Words(code) : Len(word) = 1 \/ a \notin Range(word))
              => <<a>> \in Words(code)
<1>1. ASSUME <<a>> \in Words(code) PROVE \E k \in 1..Len(code) : code[k] = a
  <2>1. PICK i \in WordStarts(code) : SubSeq(code, i, WordEnd(code, i) - 1) = <<a>>
    BY <1>1, WordsAre
  <2> DEFINE word == SubSeq(code, i, WordEnd(code, i) - 1)
  <2>2. i \in 1..Len(code) /\ word[1] = code[i]
    BY WordLies
  <2>3. word = <<a>>
    BY <2>1
  <2> HIDE DEF word
  <2> QED BY <2>2, <2>3
<1>2. ASSUME NEW k \in 1..Len(code), code[k] = a,
             \A word \in Words(code) : Len(word) = 1 \/ a \notin Range(word)
      PROVE  <<a>> \in Words(code)
  <2>1. PICK i \in WordStarts(code) : i <= k /\ k < WordEnd(code, i)
    BY <1>2, FragmentInWord
  <2> DEFINE end == WordEnd(code, i)
             word == SubSeq(code, i, end - 1)
  <2>2. word \in Words(code)
    BY WordsAre
  <2>3. /\ i \in 1..Len(code) /\ end \in (i + 1)..(Len(code) + 1)
        /\ Len(word) = end - i /\ word[1] = code[i]
        /\ \A j \in 1..(end - i) : word[j] = code[i + j - 1]
    BY WordLies
  <2>4. Len(word) = 1
    <3>0. i <= k /\ k < end /\ i \in Nat /\ k \in Nat /\ end \in Nat
      BY <1>2, <2>1, <2>3
    <3>3. DOMAIN word = 1..Len(word)
      <4>1. \A j \in i..(end - 1) : code[j] \in S
        <5>1. \A j \in i..(end - 1) : j \in 1..Len(code)
          BY <2>3
        <5> QED BY <5>1, ElementOfSeq
      <4>2. i \in Int /\ end - 1 \in Int
        BY <3>0
      <4>3. word \in Seq(S)
        BY <4>1, <4>2, SubSeqProperties
      <4> QED BY <4>3, LenProperties
    <3> HIDE DEF word, end
    <3>1. k - i + 1 \in 1..(end - i) /\ i + (k - i + 1) - 1 = k
      BY <3>0
    <3>2. word[k - i + 1] = a
      BY <1>2, <2>3, <3>1
    <3>4. a \in Range(word)
      BY <2>3, <3>1, <3>2, <3>3 DEF Range
    <3> QED BY <1>2, <2>2, <3>4
  <2>5. end = i + 1 /\ i = k
    BY <2>1, <2>3, <2>4
  <2>6. word \in Seq(S)
    <3>1. end - 1 = i /\ i \in Int
      BY <2>3, <2>5
    <3>2. \A j \in i..i : code[j] \in S
      BY <2>3, ElementOfSeq
    <3>3. SubSeq(code, i, i) \in Seq(S)
      BY <3>1, <3>2, SubSeqProperties
    <3> QED BY <3>1, <3>3
  <2>7. word[1] = a
    BY <1>2, <2>3, <2>5
  <2> HIDE DEF word, end
  <2>8. word = <<a>>
    BY <2>4, <2>6, <2>7
  <2> QED BY <2>2, <2>8
<1> QED BY <1>1, <1>2

LEMMA PlainWriteIsAsked ==
  ASSUME NEW S, NEW sql \in Seq(S)
  PROVE  /\ PlainWrite(sql) => is_dangerous_write_without_where(sql)
         /\ is_dangerous_write_without_where(sql) => <<"where">> \notin Words(CodeOf(sql))
<1> DEFINE X == S \cup {" "}
           code == CodeOf(sql)
<1>1. code \in Seq(X) /\ "where" \in Fragments
  BY CodeIs DEF Fragments
<1>2. /\ <<"where">> \in Words(code) => \E k \in 1..Len(code) : code[k] = "where"
      /\ ((\E k \in 1..Len(code) : code[k] = "where") /\ \A word \in Words(code) : Len(word) = 1 \/ "where" \notin Range(word))
              => <<"where">> \in Words(code)
  <2> HIDE DEF code, X
  <2> QED BY <1>1, WordAndAtom
<1>3. PlainWrite(sql) => /\ BeginsWith(code, Writes) /\ <<"where">> \notin Words(code)
                         /\ \A word \in Words(code) : Len(word) = 1 \/ "where" \notin Range(word)
  BY DEF PlainWrite, WritesEveryRow
<1> HIDE DEF code
<1>4. /\ is_dangerous_write_without_where(sql) => \A k \in 1..Len(code) : code[k] # "where"
      /\ (BeginsWith(code, Writes) /\ \A k \in 1..Len(code) : code[k] # "where")
              => is_dangerous_write_without_where(sql)
  BY QuestionIsAboutCode DEF code
<1> QED BY <1>2, <1>3, <1>4 DEF code

(***************************************************************************)
(* AsksBeforePlainWrite: for any text, of which only the code is asked     *)
(* about.                                                                  *)
(***************************************************************************)
THEOREM PlainWritesAreAsked == Spec => []AsksBeforePlainWrite
<1>1. EditorInv => AsksBeforePlainWrite
  <2> SUFFICES ASSUME EditorInv PROVE AsksBeforePlainWrite
    OBVIOUS
  <2>1. buffer \in Seq(Alphabet)
    BY DEF EditorInv, BufferInv
  <2> QED BY <2>1, PlainWriteIsAsked DEF AsksBeforePlainWrite
<1> QED BY <1>1, EditorInvariant, PTL

-----------------------------------------------------------------------------
(***************************************************************************)
(* The question is the same for a text and for what is left of it when it  *)
(* is trimmed: the scanner passes the blanks in front in code, goes        *)
(* through the rest in the same modes, and keeps nothing of those behind.  *)
(***************************************************************************)
OpeningOrClosing == {<<"-", "-">>, <<"/", "*">>, <<"*", "/">>}
LookAlike(sql, i, other, k) ==
  /\ sql[i] = other[k]
  /\ \A p \in OpeningOrClosing : Pair(sql, i) = p <=> Pair(other, k) = p

SameMode(st, other) == st.mode = other.mode /\ st.skip = other.skip
BothWrite(before, after, before2, after2, a) ==
  \/ after = before /\ after2 = before2
  \/ after = Append(before, " ") /\ after2 = Append(before2, " ")
  \/ after = Append(before, a) /\ after2 = Append(before2, a)

LEMMA ConsumeAgrees ==
  ASSUME NEW S, NEW st \in ScanStates(S), NEW st2 \in ScanStates(S), SameMode(st, st2),
         NEW sql \in Seq(S), NEW i \in 1..Len(sql),
         NEW sql2 \in Seq(S), NEW k \in 1..Len(sql2), LookAlike(sql, i, sql2, k)
  PROVE  LET next == Consume(st, sql, i)
             next2 == Consume(st2, sql2, k) IN
         SameMode(next, next2) /\ BothWrite(st.out, next.out, st2.out, next2.out, sql[i])
<1> DEFINE next == Consume(st, sql, i)
           next2 == Consume(st2, sql2, k)
           Agree(a, b) == SameMode(a, b) /\ BothWrite(st.out, a.out, st2.out, b.out, sql[i])
<1> SUFFICES Agree(next, next2)
  OBVIOUS
<1> HIDE DEF Agree
<1>0. /\ sql[i] = sql2[k]
      /\ Pair(sql, i) = <<"-", "-">> <=> Pair(sql2, k) = <<"-", "-">>
      /\ Pair(sql, i) = <<"/", "*">> <=> Pair(sql2, k) = <<"/", "*">>
      /\ Pair(sql, i) = <<"*", "/">> <=> Pair(sql2, k) = <<"*", "/">>
      /\ st.mode = st2.mode /\ st.skip = st2.skip /\ st.mode \in Modes /\ st.skip \in BOOLEAN
  BY DEF LookAlike, OpeningOrClosing, SameMode, ScanStates
<1>1. CASE st.skip
  <2>1. next = [mode |-> st.mode, skip |-> FALSE, out |-> st.out]
    BY <1>1, ConsumeSkips
  <2>2. next2 = [mode |-> st2.mode, skip |-> FALSE, out |-> st2.out]
    BY <1>0, <1>1, ConsumeSkips
  <2> HIDE DEF next, next2
  <2> QED BY <1>0, <2>1, <2>2 DEF Agree, SameMode, BothWrite
<1>2. CASE ~st.skip /\ st.mode = "line"
  <2>1. CASE sql[i] = "\n"
    <3> DEFINE out == Append(st.out, " ")
               out2 == Append(st2.out, " ")
    <3>1. out = Append(st.out, " ") /\ out2 = Append(st2.out, " ")
      OBVIOUS
    <3> HIDE DEF out, out2
    <3>2. next = [mode |-> "code", skip |-> FALSE, out |-> out]
      BY <1>2, <2>1, <3>1, ConsumeLineEnd
    <3>3. next2 = [mode |-> "code", skip |-> FALSE, out |-> out2]
      BY <1>0, <1>2, <2>1, <3>1, ConsumeLineEnd
    <3> HIDE DEF next, next2
    <3>4. SameMode(next, next2) /\ next.out = out /\ next2.out = out2
      BY <3>2, <3>3 DEF SameMode
    <3> QED BY <3>1, <3>4 DEF Agree, BothWrite
  <2>2. CASE sql[i] # "\n"
    <3>1. next = st /\ next2 = st2
      BY <1>0, <1>2, <2>2, ConsumeLine
    <3> HIDE DEF next, next2
    <3> QED BY <1>0, <3>1 DEF Agree, SameMode, BothWrite
  <2> QED BY <2>1, <2>2
<1>3. CASE ~st.skip /\ st.mode = "block"
  <2>1. CASE Pair(sql, i) = <<"*", "/">>
    <3>1. next = [mode |-> "code", skip |-> TRUE, out |-> st.out]
      BY <1>3, <2>1, ConsumeBlock
    <3>2. next2 = [mode |-> "code", skip |-> TRUE, out |-> st2.out]
      BY <1>0, <1>3, <2>1, ConsumeBlock
    <3> HIDE DEF next, next2
    <3> QED BY <3>1, <3>2 DEF Agree, SameMode, BothWrite
  <2>2. CASE Pair(sql, i) # <<"*", "/">>
    <3>1. next = st /\ next2 = st2
      BY <1>0, <1>3, <2>2, ConsumeBlock
    <3> HIDE DEF next, next2
    <3> QED BY <1>0, <3>1 DEF Agree, SameMode, BothWrite
  <2> QED BY <2>1, <2>2
<1>4. CASE ~st.skip /\ st.mode \in Quotes
  <2> DEFINE mode == IF sql[i] = st.mode THEN "code" ELSE st.mode
             mode2 == IF sql2[k] = st2.mode THEN "code" ELSE st2.mode
             out == Append(st.out, " ")
             out2 == Append(st2.out, " ")
  <2>0. mode = mode2 /\ st2.mode \in Quotes /\ ~st2.skip
    BY <1>0, <1>4
  <2>1. next = [mode |-> mode, skip |-> FALSE, out |-> out]
    BY <1>4, ConsumeQuoted
  <2>2. next2 = [mode |-> mode2, skip |-> FALSE, out |-> out2]
    BY <2>0, ConsumeQuoted
  <2>3. out = Append(st.out, " ") /\ out2 = Append(st2.out, " ")
    OBVIOUS
  <2> HIDE DEF next, next2, mode, mode2, out, out2
  <2>4. SameMode(next, next2) /\ next.out = out /\ next2.out = out2
    BY <2>0, <2>1, <2>2 DEF SameMode
  <2> QED BY <2>3, <2>4 DEF Agree, BothWrite
<1>5. CASE ~st.skip /\ st.mode = "code"
  <2>1. CASE Pair(sql, i) = <<"-", "-">>
    <3>1. next = [mode |-> "line", skip |-> TRUE, out |-> st.out]
      BY <1>5, <2>1, ConsumeCode
    <3>2. next2 = [mode |-> "line", skip |-> TRUE, out |-> st2.out]
      BY <1>0, <1>5, <2>1, ConsumeCode
    <3> HIDE DEF next, next2
    <3> QED BY <3>1, <3>2 DEF Agree, SameMode, BothWrite
  <2>2. CASE Pair(sql, i) = <<"/", "*">>
    <3>1. next = [mode |-> "block", skip |-> TRUE, out |-> st.out]
      BY <1>5, <2>2, ConsumeCode
    <3>2. next2 = [mode |-> "block", skip |-> TRUE, out |-> st2.out]
      BY <1>0, <1>5, <2>2, ConsumeCode
    <3> HIDE DEF next, next2
    <3> QED BY <3>1, <3>2 DEF Agree, SameMode, BothWrite
  <2>3. CASE sql[i] \in Quotes
    <3> DEFINE out == Append(st.out, " ")
               out2 == Append(st2.out, " ")
    <3>1. next = [mode |-> sql[i], skip |-> FALSE, out |-> out]
      BY <1>5, <2>3, ConsumeCode
    <3>5. st2.mode = "code" /\ ~st2.skip /\ sql2[k] \in Quotes /\ sql[i] = sql2[k]
      BY <1>0, <1>5, <2>3
    <3>2. next2 = [mode |-> sql2[k], skip |-> FALSE, out |-> out2]
      BY <3>5, ConsumeCode
    <3>3. out = Append(st.out, " ") /\ out2 = Append(st2.out, " ")
      OBVIOUS
    <3> HIDE DEF next, next2, out, out2
    <3>4. SameMode(next, next2) /\ next.out = out /\ next2.out = out2
      BY <3>1, <3>2, <3>5 DEF SameMode
    <3> QED BY <3>3, <3>4 DEF Agree, BothWrite
  <2>4. CASE Pair(sql, i) # <<"-", "-">> /\ Pair(sql, i) # <<"/", "*">> /\ sql[i] \notin Quotes
    <3> DEFINE out == Append(st.out, sql[i])
               out2 == Append(st2.out, sql[i])
    <3>1. out = Append(st.out, sql[i]) /\ out2 = Append(st2.out, sql[i])
      OBVIOUS
    <3>5. /\ st2.mode = "code" /\ ~st2.skip /\ sql2[k] \notin Quotes
          /\ Pair(sql2, k) # <<"-", "-">> /\ Pair(sql2, k) # <<"/", "*">>
      BY <1>0, <1>5, <2>4
    <3>6. out2 = Append(st2.out, sql2[k])
      BY <1>0
    <3>7. out = Append(st.out, sql[i])
      OBVIOUS
    <3> HIDE DEF out, out2
    <3>8. /\ st.mode = "code" /\ ~st.skip /\ sql[i] \notin Quotes
          /\ Pair(sql, i) # <<"-", "-">> /\ Pair(sql, i) # <<"/", "*">>
      BY <1>5, <2>4
    <3>2. next = [mode |-> "code", skip |-> FALSE, out |-> out]
      BY <3>7, <3>8, ConsumeAtom, SMTT(90)
    <3>3. next2 = [mode |-> "code", skip |-> FALSE, out |-> out2]
      BY <3>5, <3>6, ConsumeAtom
    <3> HIDE DEF next, next2
    <3>4. SameMode(next, next2) /\ next.out = out /\ next2.out = out2
      BY <3>2, <3>3 DEF SameMode
    <3> QED BY <3>1, <3>4 DEF Agree, BothWrite
  <2> QED BY <2>1, <2>2, <2>3, <2>4
<1> HIDE DEF next, next2
<1> QED BY <1>0, <1>1, <1>2, <1>3, <1>4, <1>5 DEF Modes

LEMMA BothKept ==
  ASSUME NEW S, NEW before \in Seq(S), NEW before2 \in Seq(S), NEW a \in S,
         NEW atoms, Without(before, atoms) = Without(before2, atoms)
  PROVE  Without(Append(before, a), atoms) = Without(Append(before2, a), atoms)
<1>1. CASE a \in atoms
  BY <1>1, WithoutSkips
<1>2. CASE a \notin atoms
  <2>1. Without(Append(before, a), atoms) = Append(Without(before, atoms), a)
    BY <1>2, WithoutTakes
  <2>2. Without(Append(before2, a), atoms) = Append(Without(before2, atoms), a)
    BY <1>2, WithoutTakes
  <2> QED BY <2>1, <2>2
<1> QED BY <1>1, <1>2

\* A blank leaves the scanner in code, and whatever it is in, nothing but a blank is written.
LEMMA BlankIsConsumed ==
  ASSUME NEW S, NEW st \in ScanStates(S), NEW sql \in Seq(S), NEW i \in 1..Len(sql), sql[i] \in Blanks
  PROVE  LET next == Consume(st, sql, i) IN
         /\ (st.mode = "code" /\ ~st.skip) => next.mode = "code" /\ ~next.skip
         /\ next.out = st.out \/ next.out = Append(st.out, " ") \/ next.out = Append(st.out, sql[i])
<1> DEFINE next == Consume(st, sql, i)
           Stays(a) == (st.mode = "code" /\ ~st.skip) => a.mode = "code" /\ ~a.skip
           Wrote(a) == a.out = st.out \/ a.out = Append(st.out, " ") \/ a.out = Append(st.out, sql[i])
<1> SUFFICES Stays(next) /\ Wrote(next)
  OBVIOUS
<1> HIDE DEF Stays, Wrote
<1>1. CASE st.mode = "code" /\ ~st.skip
  <2> DEFINE out == Append(st.out, sql[i])
  <2>1. At(sql, i) \in Blanks /\ sql[i] \notin Quotes
    BY AtIs, QuotesDiffer
  <2>2. Pair(sql, i) # <<"-", "-">> /\ Pair(sql, i) # <<"/", "*">>
    BY <2>1, MarksDiffer DEF Pair
  <2>3. out = Append(st.out, sql[i])
    OBVIOUS
  <2> HIDE DEF out
  <2>4. next = [mode |-> "code", skip |-> FALSE, out |-> out]
    BY <1>1, <2>1, <2>2, <2>3, ConsumeAtom
  <2> HIDE DEF next
  <2>5. next.mode = "code" /\ ~next.skip /\ next.out = out
    BY <2>4
  <2> QED BY <2>3, <2>5 DEF Stays, Wrote
<1>2. SameMode(st, st) /\ LookAlike(sql, i, sql, i)
  BY DEF SameMode, LookAlike
<1>3. BothWrite(st.out, next.out, st.out, next.out, sql[i])
  BY <1>2, ConsumeAgrees
<1>4. Wrote(next)
  <2> HIDE DEF next
  <2> QED BY <1>3 DEF BothWrite, Wrote
<1> HIDE DEF next
<1>5. (st.mode = "code" /\ ~st.skip) \/ Stays(next)
  BY DEF Stays
<1> QED BY <1>1, <1>4, <1>5

\* What is kept of the first i atoms consumed.
KeptBy(scan, i) == Without(scan[i].out, Blanks)

LEMMA BlankIsNotKept ==
  ASSUME NEW S, NEW sql, NEW scan, Scans(scan, sql, S), NEW i \in 1..Len(sql), sql[i] \in Blanks
  PROVE  /\ KeptBy(scan, i) = KeptBy(scan, i - 1)
         /\ InMode(scan, i - 1, "code") => InMode(scan, i, "code")
<1> DEFINE X == S \cup {" "}
           st == scan[i - 1]
           out == st.out
           after == scan[i].out
<1>0. sql \in Seq(S) /\ st \in ScanStates(S) /\ scan[i] = Consume(st, sql, i) /\ sql[i] \in S
  BY ScanStep, ElementOfSeq
<1>1. out \in Seq(X) /\ sql[i] \in X /\ " " \in X
  <2> HIDE DEF st
  <2>1. st.out \in Seq(X)
    BY <1>0 DEF ScanStates
  <2> QED BY <1>0, <2>1
<1>2. /\ (st.mode = "code" /\ ~st.skip) => scan[i].mode = "code" /\ ~scan[i].skip
      /\ after = out \/ after = Append(out, " ") \/ after = Append(out, sql[i])
  <2> HIDE DEF st
  <2>1. LET next == Consume(st, sql, i) IN
         /\ (st.mode = "code" /\ ~st.skip) => next.mode = "code" /\ ~next.skip
         /\ next.out = st.out \/ next.out = Append(st.out, " ") \/ next.out = Append(st.out, sql[i])
    BY <1>0, BlankIsConsumed
  <2> QED BY <1>0, <2>1
<1> HIDE DEF X, out
<1>3. /\ Without(Append(out, " "), Blanks) = Without(out, Blanks)
      /\ Without(Append(out, sql[i]), Blanks) = Without(out, Blanks)
  <2>1. " " \in Blanks
    BY MarksDiffer
  <2> QED BY <1>1, <2>1, WithoutSkips
<1>4. Without(after, Blanks) = Without(out, Blanks)
  <2> HIDE DEF after, st
  <2> QED BY <1>2, <1>3
<1> QED BY <1>2, <1>4 DEF KeptBy, InMode, out

\* A part of a text: all atoms in front of it and behind it are blank.
IsCutFrom(sql, text, first) ==
  /\ first \in 1..Len(text) /\ (first - 1) + Len(sql) <= Len(text)
  /\ \A i \in 1..Len(sql) : sql[i] = text[(first - 1) + i]
  /\ \A i \in 1..(first - 1) : text[i] \in Blanks
  /\ \A i \in (first + Len(sql))..Len(text) : text[i] \in Blanks

LEMMA CutLooksAlike ==
  ASSUME NEW S, NEW sql \in Seq(S), NEW text \in Seq(S), NEW first, IsCutFrom(sql, text, first),
         NEW k \in 1..Len(sql)
  PROVE  LookAlike(text, (first - 1) + k, sql, k)
<1> DEFINE f == first - 1
           i == f + k
<1>1. /\ f \in Nat /\ f + Len(sql) <= Len(text) /\ Len(sql) \in Nat /\ Len(text) \in Nat
      /\ i \in 1..Len(text) /\ i \in Nat /\ k \in Nat /\ sql[k] = text[i]
  BY DEF IsCutFrom
<1>2. At(sql, k) = sql[k] /\ At(text, i) = text[i]
  <2> HIDE DEF i
  <2> QED BY <1>1, AtIs
<1>3. CASE k < Len(sql)
  <2>1. k + 1 \in 1..Len(sql) /\ i + 1 \in 1..Len(text) /\ i + 1 = f + (k + 1) /\ k + 1 \in Nat /\ i + 1 \in Nat
    BY <1>1, <1>3
  <2>2. sql[k + 1] = text[i + 1]
    BY <2>1 DEF IsCutFrom
  <2>3. At(sql, k + 1) = At(text, i + 1)
    <3> HIDE DEF i
    <3> QED BY <2>1, <2>2, AtIs
  <2>4. Pair(sql, k) = Pair(text, i)
    <3> HIDE DEF i
    <3> QED BY <1>1, <1>2, <2>3 DEF Pair
  <2> QED BY <1>1, <2>4 DEF LookAlike
<1>4. CASE k = Len(sql)
  <2>1. k + 1 \notin 1..Len(sql) /\ k + 1 \in Nat /\ i + 1 \in Nat
    BY <1>1, <1>4
  <2>2. At(sql, k + 1) = "end"
    BY <2>1, AtIs
  <2>3. At(text, i + 1) = "end" \/ At(text, i + 1) \in Blanks
    <3>1. CASE i + 1 \in 1..Len(text)
      <4>1. i + 1 \in (first + Len(sql))..Len(text)
        BY <1>1, <1>4, <3>1 DEF IsCutFrom
      <4>2. text[i + 1] \in Blanks
        BY <4>1 DEF IsCutFrom
      <4> HIDE DEF i
      <4> QED BY <2>1, <3>1, <4>2, AtIs
    <3>2. CASE i + 1 \notin 1..Len(text)
      <4> HIDE DEF i
      <4> QED BY <2>1, <3>2, AtIs
    <3> QED BY <3>1, <3>2
  <2>4. ASSUME NEW p \in OpeningOrClosing PROVE Pair(sql, k) # p /\ Pair(text, i) # p
    <3>1. /\ At(sql, k + 1) \notin {"-", "*", "/"}
          /\ At(text, i + 1) \notin {"-", "*", "/"}
      <4> HIDE DEF i
      <4> QED BY <2>2, <2>3, MarksDiffer
    <3> HIDE DEF i
    <3> QED BY <3>1 DEF OpeningOrClosing, Pair
  <2> QED BY <1>1, <2>4 DEF LookAlike
<1> QED BY <1>1, <1>3, <1>4

LEMMA CutKeepsTheSame ==
  ASSUME NEW S, NEW sql \in Seq(S), NEW text \in Seq(S), NEW first, IsCutFrom(sql, text, first)
  PROVE  Without(normalize_sql_for_analysis(sql), Blanks) = Without(normalize_sql_for_analysis(text), Blanks)
<1> DEFINE n == Len(text)
           m == Len(sql)
           f == first - 1
<1>0. /\ n \in Nat /\ m \in Nat /\ f \in Nat /\ f + m <= n /\ f + 1 = first
      /\ \A i \in 1..f : text[i] \in Blanks
      /\ \A i \in (first + m)..n : text[i] \in Blanks
  BY DEF IsCutFrom
<1>1. PICK long : /\ Scans(long, text, S)
                  /\ normalize_sql_for_analysis(text) = long[n].out
  BY ScanExists DEF Scans
<1>2. PICK short : /\ Scans(short, sql, S)
                   /\ normalize_sql_for_analysis(sql) = short[m].out
  BY ScanExists DEF Scans
<1>3. /\ InMode(long, 0, "code") /\ KeptBy(long, 0) = <<>>
      /\ InMode(short, 0, "code") /\ KeptBy(short, 0) = <<>>
  BY <1>1, <1>2, WithoutNothing DEF Scans, IsScan, ScanStart, InMode, KeptBy
<1>4. InMode(long, f, "code") /\ KeptBy(long, f) = <<>>
  <2> DEFINE G == {i \in 0..f : InMode(long, i, "code") /\ KeptBy(long, i) = <<>>}
  <2>1. 0 \in G
    BY <1>0, <1>3
  <2>2. ASSUME NEW i \in 0..(f - 1), i \in G PROVE i + 1 \in G
    <3>1. i + 1 \in 1..n /\ i + 1 \in 0..f /\ text[i + 1] \in Blanks /\ (i + 1) - 1 = i
      BY <1>0
    <3>2. KeptBy(long, i + 1) = KeptBy(long, i) /\ (InMode(long, i, "code") => InMode(long, i + 1, "code"))
      BY <1>1, <3>1, BlankIsNotKept
    <3> QED BY <2>2, <3>1, <3>2
  <2> HIDE DEF G, f
  <2>3. 0..f \subseteq G
    BY <1>0, <2>1, <2>2, UpFrom
  <2> QED BY <1>0, <2>3 DEF G
<1>5. KeptBy(long, f + m) = KeptBy(short, m)
  <2> DEFINE G == {k \in 0..m : SameMode(long[f + k], short[k]) /\ KeptBy(long, f + k) = KeptBy(short, k)}
  <2>1. 0 \in G
    <3>1. f + 0 = f
      BY <1>0
    <3>2. SameMode(long[f], short[0])
      <4>1. long[f].skip \in BOOLEAN /\ short[0].skip \in BOOLEAN
        <5>1. f \in 0..n /\ 0 \in 0..m
          BY <1>0
        <5> QED BY <1>1, <1>2, <5>1 DEF Scans, ScanStates
      <4> QED BY <1>3, <1>4, <4>1 DEF InMode, SameMode
    <3> HIDE DEF f
    <3> QED BY <1>0, <1>3, <1>4, <3>1, <3>2
  <2>2. ASSUME NEW j \in 0..(m - 1), j \in G PROVE j + 1 \in G
    <3> DEFINE k == j + 1
               i == f + k
               X == S \cup {" "}
    <3>1. /\ k \in 1..m /\ k \in 0..m /\ i \in 1..n /\ k - 1 = j /\ i - 1 = f + j
          /\ SameMode(long[i - 1], short[k - 1]) /\ KeptBy(long, i - 1) = KeptBy(short, k - 1)
      <4>1. k \in 1..m /\ k \in 0..m /\ i \in 1..n /\ k - 1 = j /\ i - 1 = f + j
        <5> HIDE DEF f, m, n
        <5> QED BY <1>0
      <4> HIDE DEF k, i, f
      <4> QED BY <2>2, <4>1
    <3>2. LookAlike(text, i, sql, k)
      BY <3>1, CutLooksAlike
    <3> HIDE DEF k, i
    <3>3. long[i - 1] \in ScanStates(S) /\ long[i] = Consume(long[i - 1], text, i) /\ text[i] \in S
      BY <1>1, <3>1, ScanStep, ElementOfSeq
    <3>4. short[k - 1] \in ScanStates(S) /\ short[k] = Consume(short[k - 1], sql, k)
      BY <1>2, <3>1, ScanStep
    <3>5. /\ SameMode(long[i], short[k])
          /\ BothWrite(long[i - 1].out, long[i].out, short[k - 1].out, short[k].out, text[i])
      <4> DEFINE st == long[i - 1]
                 st2 == short[k - 1]
      <4>1. st \in ScanStates(S) /\ st2 \in ScanStates(S) /\ SameMode(st, st2)
        BY <3>1, <3>3, <3>4
      <4> HIDE DEF st, st2
      <4>2. LET next == Consume(st, text, i)
                next2 == Consume(st2, sql, k) IN
            SameMode(next, next2) /\ BothWrite(st.out, next.out, st2.out, next2.out, text[i])
        BY <3>1, <3>2, <4>1, ConsumeAgrees
      <4>3. long[i] = Consume(st, text, i) /\ short[k] = Consume(st2, sql, k)
        BY <3>3, <3>4 DEF st, st2
      <4> QED BY <4>2, <4>3 DEF st, st2
    <3>6. KeptBy(long, i) = KeptBy(short, k)
      <4> DEFINE blank == " "
      <4>1. text[i] \in X
        BY <3>3
      <4>7. blank \in X
        OBVIOUS
      <4>3. long[i - 1].out \in Seq(X) /\ short[k - 1].out \in Seq(X)
        BY <3>3, <3>4 DEF ScanStates
      <4>2. Without(long[i - 1].out, Blanks) = Without(short[k - 1].out, Blanks)
        BY <3>1 DEF KeptBy
      <4> DEFINE out == long[i - 1].out
                 out2 == short[k - 1].out
                 after == long[i].out
                 after2 == short[k].out
      <4>4. BothWrite(out, after, out2, after2, text[i])
        BY <3>5
      <4>6. out \in Seq(X) /\ out2 \in Seq(X) /\ Without(out, Blanks) = Without(out2, Blanks)
        BY <4>2, <4>3
      <4> HIDE DEF X, out, out2, after, after2
      <4>5. Without(after, Blanks) = Without(after2, Blanks)
        <5>1. Without(Append(out, blank), Blanks) = Without(Append(out2, blank), Blanks)
          <6> HIDE DEF blank
          <6> QED BY <4>6, <4>7, BothKept
        <5>2. Without(Append(out, text[i]), Blanks) = Without(Append(out2, text[i]), Blanks)
          BY <4>1, <4>6, BothKept
        <5> QED BY <4>4, <4>6, <5>1, <5>2 DEF BothWrite
      <4> QED BY <4>5 DEF KeptBy, after, after2
    <3> QED BY <3>1, <3>5, <3>6 DEF k, i
  <2> HIDE DEF G, m
  <2>3. 0..m \subseteq G
    BY <1>0, <2>1, <2>2, UpFrom
  <2> QED BY <1>0, <2>3 DEF G
<1>6. KeptBy(long, n) = KeptBy(long, f + m)
  <2> DEFINE e == f + m
             G == {i \in e..n : KeptBy(long, i) = KeptBy(long, e)}
  <2>1. e \in G /\ e \in Nat
    BY <1>0
  <2>2. ASSUME NEW i \in e..(n - 1), i \in G PROVE i + 1 \in G
    <3>1. i + 1 \in 1..n /\ i + 1 \in e..n /\ i + 1 \in (first + m)..n /\ (i + 1) - 1 = i
      BY <1>0
    <3>2. text[i + 1] \in Blanks
      BY <1>0, <3>1
    <3>3. KeptBy(long, i + 1) = KeptBy(long, i)
      BY <1>1, <3>1, <3>2, BlankIsNotKept
    <3> QED BY <2>2, <3>1, <3>3
  <2> HIDE DEF G, e, n
  <2>3. e..n \subseteq G
    BY <1>0, <2>1, <2>2, UpFrom
  <2>4. n \in e..n
    BY <1>0 DEF e
  <2> QED BY <2>3, <2>4 DEF G, e
<1> QED BY <1>1, <1>2, <1>5, <1>6 DEF KeptBy

\* The question looks at what the scanner keeps, and at nothing else.
LEMMA DangerIsKept ==
  ASSUME NEW S, NEW sql \in Seq(S)
  PROVE  LET kept == Without(normalize_sql_for_analysis(sql), Blanks) IN
         is_dangerous_write_without_where(sql)
           <=> kept # <<>> /\ kept[1] \in Writes /\ "where" \notin Range(kept)
<1> DEFINE X == S \cup {" "}
           out == normalize_sql_for_analysis(sql)
           kept == Without(out, Blanks)
           t == trim_sql(out)
<1>1. out \in Seq(X)
  BY NormalizeTyped
<1>2. is_dangerous_write_without_where(sql) <=> At(t, 1) \in Writes /\ "where" \notin Range(t)
  BY DEF is_dangerous_write_without_where, StartsWithWrite, Mentions
<1>3. "where" \notin Blanks
  BY FragmentsAreCode DEF Fragments
<1> HIDE DEF out
<1>4. "where" \in Range(t) <=> "where" \in Range(kept)
  <2> HIDE DEF X
  <2>1. "where" \in Range(t) <=> \E k \in 1..Len(out) : out[k] = "where"
    BY <1>1, <1>3, TrimKeeps
  <2>2. "where" \in Range(kept) <=> \E k \in 1..Len(out) : out[k] = "where"
    BY <1>1, <1>3, WithoutKeeps
  <2> QED BY <2>1, <2>2
<1>5. kept # <<>> => At(t, 1) = kept[1]
  <2> HIDE DEF X
  <2> QED BY <1>1, TrimFirst
<1>6. kept = <<>> => At(t, 1) \notin Writes
  <2> SUFFICES ASSUME kept = <<>>, At(t, 1) \in Writes PROVE FALSE
    OBVIOUS
  <2> DEFINE a == At(t, 1)
  <2> HIDE DEF X
  <2>0. t \in Seq(X)
    BY <1>1, TrimIsPart
  <2>1. a # "end" /\ a \notin Blanks
    BY FragmentsAreCode DEF Fragments
  <2>2. 1 \in DOMAIN t /\ a = t[1]
    BY <2>1 DEF At
  <2> HIDE DEF a, t, kept
  <2>3. a \in Range(t)
    BY <2>2 DEF Range
  <2>4. \E k \in 1..Len(out) : out[k] = a
    BY <1>1, <2>1, <2>3, TrimKeeps DEF t
  <2>5. a \in Range(kept)
    BY <1>1, <2>1, <2>4, WithoutKeeps DEF kept
  <2> QED BY <2>5 DEF Range
<1> HIDE DEF kept, t
<1>7. is_dangerous_write_without_where(sql) <=> kept # <<>> /\ kept[1] \in Writes /\ "where" \notin Range(kept)
  BY <1>2, <1>4, <1>5, <1>6
<1> QED BY <1>7 DEF kept, out

LEMMA TrimIsCut ==
  ASSUME NEW S, NEW sql \in Seq(S), trim_sql(sql) # <<>>
  PROVE  \E first : IsCutFrom(trim_sql(sql), sql, first)
<1>1. PICK first \in Solid(sql), last \in Solid(sql) :
        /\ first <= last
        /\ \A i \in Solid(sql) : first <= i /\ i <= last
        /\ Len(trim_sql(sql)) = last - first + 1
        /\ \A i \in 1..(last - first + 1) : trim_sql(sql)[i] = sql[first + i - 1]
  BY TrimShape
<1>2. Len(sql) \in Nat /\ Solid(sql) = {i \in 1..Len(sql) : sql[i] \notin Blanks}
  BY DEF Solid
<1>3. first \in 1..Len(sql) /\ last \in 1..Len(sql)
  BY <1>2
<1> DEFINE t == trim_sql(sql)
           m == last - first + 1
<1>4. Len(t) = m /\ m \in Nat /\ (first - 1) + m = last /\ first + m = last + 1
  BY <1>1, <1>2, <1>3
<1>5. \A i \in 1..m : t[i] = sql[(first - 1) + i]
  <2>1. \A i \in 1..m : first + i - 1 = (first - 1) + i
    BY <1>2, <1>3
  <2> QED BY <1>1, <2>1
<1> HIDE DEF m, t
<1>6. /\ \A i \in 1..(first - 1) : sql[i] \in Blanks
      /\ \A i \in (last + 1)..Len(sql) : sql[i] \in Blanks
  <2>1. ASSUME NEW i \in 1..Len(sql), i < first \/ last < i PROVE sql[i] \in Blanks
    BY <1>1, <1>2, <1>3, <2>1
  <2> QED BY <1>2, <1>3, <2>1
<1>7. IsCutFrom(t, sql, first)
  BY <1>2, <1>3, <1>4, <1>5, <1>6 DEF IsCutFrom
<1> QED BY <1>7 DEF t

LEMMA TrimmedAsDangerous ==
  ASSUME NEW S, NEW sql \in Seq(S), trim_sql(sql) # <<>>
  PROVE  is_dangerous_write_without_where(trim_sql(sql)) <=> is_dangerous_write_without_where(sql)
<1> DEFINE t == trim_sql(sql)
           kept == Without(normalize_sql_for_analysis(sql), Blanks)
           keptT == Without(normalize_sql_for_analysis(t), Blanks)
<1>1. t \in Seq(S)
  BY TrimIsPart
<1>2. PICK first : IsCutFrom(t, sql, first)
  BY TrimIsCut
<1> HIDE DEF t
<1>3. keptT = kept
  BY <1>1, <1>2, CutKeepsTheSame
<1>4. is_dangerous_write_without_where(sql) <=> kept # <<>> /\ kept[1] \in Writes /\ "where" \notin Range(kept)
  BY DangerIsKept
<1>5. is_dangerous_write_without_where(t) <=> keptT # <<>> /\ keptT[1] \in Writes /\ "where" \notin Range(keptT)
  BY <1>1, DangerIsKept
<1> HIDE DEF kept, keptT
<1>6. is_dangerous_write_without_where(t) <=> is_dangerous_write_without_where(sql)
  BY <1>3, <1>4, <1>5
<1> QED BY <1>6 DEF t

-----------------------------------------------------------------------------
(***************************************************************************)
(* What runs without having been asked about is not dangerous, and what    *)
(* was asked about is what runs.                                           *)
(***************************************************************************)
AskedInv ==
  Running => /\ request.asked = None /\ ~request.explain => ~is_dangerous_write_without_where(request.sql)
             /\ request.asked # None => trim_sql(request.asked) = request.sql

LEMMA EnqueueKeepsAsked ==
  ASSUME AskedInv, NEW part, part.sql \in Seq(Alphabet), NEW explain \in BOOLEAN,
         NEW asked, enqueue_query(part, explain, asked),
         \/ asked = None /\ (explain \/ ~is_dangerous_write_without_where(part.sql))
         \/ asked = part.sql
  PROVE  AskedInv'
<1>1. CASE Refuse
  BY <1>1 DEF Refuse, AskedInv, Running
<1>2. CASE /\ trim_sql(part.sql) # <<>>
           /\ request' = [sql |-> trim_sql(part.sql), explain |-> explain, asked |-> asked,
                          text |-> part.text, offset |-> part.offset + Leading(part.sql)]
  <2>1. request'.sql = trim_sql(part.sql) /\ request'.explain = explain /\ request'.asked = asked
    BY <1>2
  <2>2. part.sql # None
    BY EditorAssumption
  <2>3. is_dangerous_write_without_where(request'.sql) <=> is_dangerous_write_without_where(part.sql)
    BY <1>2, <2>1, TrimmedAsDangerous
  <2>4. CASE asked = None /\ (explain \/ ~is_dangerous_write_without_where(part.sql))
    BY <2>1, <2>3, <2>4 DEF AskedInv, Running
  <2>5. CASE asked = part.sql
    BY <2>1, <2>2, <2>5 DEF AskedInv, Running
  <2> QED BY <2>4, <2>5
<1> QED BY <1>1, <1>2 DEF enqueue_query

LEMMA SubmitKeepsAsked ==
  ASSUME AskedInv, NEW part, part.sql \in Seq(Alphabet), NEW explain \in BOOLEAN, submit_query(part, explain)
  PROVE  AskedInv'
<1>1. CASE Asks(part, explain)
  BY <1>1 DEF submit_query, AskedInv, Running
<1>2. CASE ~Asks(part, explain)
  <2>1. enqueue_query(part, explain, None) /\ (explain \/ ~is_dangerous_write_without_where(part.sql))
    BY <1>2 DEF submit_query, Asks
  <2> QED BY <2>1, EnqueueKeepsAsked
<1> QED BY <1>1, <1>2

LEMMA NextKeepsAsked == EditorInv /\ AskedInv /\ [Next]_vars => AskedInv'
<1> SUFFICES ASSUME EditorInv, AskedInv, [Next]_vars PROVE AskedInv'
  OBVIOUS
<1>1. CASE request' \in {request, None}
  BY <1>1 DEF AskedInv, Running
<1>2. CASE Run
  <2>1. PICK explain \in BOOLEAN : submit_query(Whole, explain) \/ submit_query(selected_text, explain)
    BY <1>2 DEF Run
  <2>2. Whole.sql \in Seq(Alphabet) /\ selected_text.sql \in Seq(Alphabet)
    BY WholeLiesInBuffer, SelectionLiesInBuffer DEF EditorInv, LiesIn
  <2> QED BY <2>1, <2>2, SubmitKeepsAsked
<1>3. CASE Execute
  <2>1. Asking /\ enqueue_query(pending, FALSE, pending.sql)
    BY <1>3 DEF Execute, Executed
  <2>2. pending.sql \in Seq(Alphabet)
    BY <2>1 DEF EditorInv, PendingInv, LiesIn
  <2> QED BY <2>1, <2>2, EnqueueKeepsAsked
<1>4. (Type \/ Select \/ LoadFromHistory \/ Cancel \/ Connect \/ PollError \/ PollResult \/ UNCHANGED vars)
        => request' \in {request, None}
  BY DEF Type, Select, LoadFromHistory, Cancel, Connect, PollError, PollResult, vars
<1> QED BY <1>1, <1>2, <1>3, <1>4 DEF Next

(***************************************************************************)
(* WhatRunsWasAsked: for any alphabet, and any texts typed, selected and   *)
(* loaded meanwhile.                                                       *)
(***************************************************************************)
THEOREM RunsAsAsked == Spec => []WhatRunsWasAsked
<1>1. Init => AskedInv
  BY DEF Init, AskedInv, Running
<1>2. EditorInv /\ AskedInv => WhatRunsWasAsked
  <2> SUFFICES ASSUME EditorInv, AskedInv, Running, ~request.explain
               PROVE  /\ PlainWrite(request.sql) => request.asked # None
                      /\ request.asked # None => trim_sql(request.asked) = request.sql
    BY DEF WhatRunsWasAsked
  <2>1. request.sql \in Seq(Alphabet)
    BY DEF EditorInv, RequestInv, LiesIn
  <2>2. PlainWrite(request.sql) => is_dangerous_write_without_where(request.sql)
    BY <2>1, PlainWriteIsAsked
  <2> QED BY <2>2 DEF AskedInv
<1>3. EditorInv /\ AskedInv /\ [Next]_vars => AskedInv'
  BY NextKeepsAsked
<1> QED BY <1>1, <1>2, <1>3, EditorInvariant, PTL DEF Spec

-----------------------------------------------------------------------------
(***************************************************************************)
(* FlattenSeq, part by part.                                               *)
(***************************************************************************)
Flattens(flat, seqs, S) ==
  /\ flat[0] = <<>>
  /\ \A i \in 0..Len(seqs) : flat[i] \in Seq(S)
  /\ \A i \in 1..Len(seqs) : flat[i] = flat[i - 1] \o seqs[i]

LEMMA FlattenExists ==
  ASSUME NEW S, NEW seqs \in Seq(Seq(S))
  PROVE  \E flat : Flattens(flat, seqs, S) /\ FlattenSeq(seqs) = flat[Len(seqs)]
<1> DEFINE n == Len(seqs)
           X == Seq(S)
           H == [p \in (1..n) \X X |-> p[2] \o seqs[p[1]]]
           step(g) == [i \in 1..n |-> IF i = 1 THEN seqs[i] ELSE g[i - 1] \o seqs[i]]
           flatten == CHOOSE g : g = step(g)
<1>1. n \in Nat /\ <<>> \in X /\ \A i \in 1..n : seqs[i] \in X
  BY ElementOfSeq
<1>2. \A i \in 1..n, s \in X : H[<<i, s>>] = s \o seqs[i] /\ s \o seqs[i] \in X
  BY <1>1, ConcatProperties
<1>3. H \in [(1..n) \X X -> X]
  BY <1>1, ConcatProperties
<1> HIDE DEF n, X, H
<1>4. PICK f \in [0..n -> X] : Iterates(f, n, <<>>, H)
  BY <1>1, <1>3, Iteration
<1>5. f[0] = <<>> /\ \A i \in 1..n : f[i] = f[i - 1] \o seqs[i]
  <2>1. ASSUME NEW i \in 1..n PROVE f[i] = f[i - 1] \o seqs[i]
    <3>1. i - 1 \in 0..n
      BY <1>1
    <3>2. f[i - 1] \in X
      BY <3>1
    <3>3. f[i] = H[<<i, f[i - 1]>>]
      BY <1>4 DEF Iterates
    <3> QED BY <1>2, <3>2, <3>3
  <2>2. f[0] = <<>>
    BY <1>4 DEF Iterates
  <2> QED BY <2>1, <2>2
<1>6. Flattens(f, seqs, S)
  BY <1>5 DEF Flattens, n, X
<1>7. CASE n = 0
  <2>1. FlattenSeq(seqs) = seqs /\ seqs = <<>>
    <3>1. Len(seqs) = 0
      BY <1>7 DEF n
    <3>2. seqs = <<>>
      BY <3>1
    <3>3. FlattenSeq(seqs) = seqs
      BY <3>1 DEF FlattenSeq
    <3> QED BY <3>2, <3>3
  <2>2. f[Len(seqs)] = <<>>
    BY <1>5, <1>7 DEF n
  <2> QED BY <1>6, <2>1, <2>2
<1>8. CASE n # 0
  <2> DEFINE r == [i \in 1..n |-> f[i]]
  <2>0. 1 \in 1..n /\ n \in 1..n
    BY <1>1, <1>8
  <2>1. f[1] = seqs[1]
    <3>1. f[1] = <<>> \o seqs[1]
      <4>1. 1 - 1 = 0
        OBVIOUS
      <4> QED BY <1>5, <2>0, <4>1
    <3> QED BY <1>1, <2>0, <3>1, ConcatEmptySeq DEF X
  <2>2. r = step(r)
    <3>1. ASSUME NEW i \in 1..n PROVE r[i] = step(r)[i]
      <4>1. CASE i = 1
        BY <2>1, <4>1
      <4>2. CASE i # 1
        <5>1. i - 1 \in 1..n
          BY <1>1, <4>2
        <5> QED BY <1>5, <4>2, <5>1
      <4> QED BY <4>1, <4>2
    <3> QED BY <3>1
  <2>3. flatten = step(flatten)
    <3> HIDE DEF step, r
    <3> QED BY <2>2
  <2>4. FlattenSeq(seqs) = flatten[n]
    BY <1>8 DEF FlattenSeq, n
  <2> HIDE DEF flatten
  <2>5. \A i \in 1..n : flatten[i] = IF i = 1 THEN seqs[i] ELSE flatten[i - 1] \o seqs[i]
    BY <2>3
  <2>6. flatten[n] = f[n]
    <3> DEFINE G == {i \in 1..n : flatten[i] = f[i]}
    <3>1. 1 \in G
      BY <2>0, <2>1, <2>5
    <3>2. ASSUME NEW i \in 1..(n - 1), i \in G PROVE i + 1 \in G
      <4>1. i + 1 \in 1..n /\ i + 1 # 1 /\ (i + 1) - 1 = i /\ flatten[i] = f[i]
        BY <1>1, <3>2
      <4>2. flatten[i + 1] = flatten[i] \o seqs[i + 1]
        BY <2>5, <4>1
      <4>3. f[i + 1] = f[i] \o seqs[i + 1]
        BY <1>5, <4>1
      <4> QED BY <4>1, <4>2, <4>3
    <3> HIDE DEF G
    <3>3. 1..n \subseteq G
      BY <1>1, <3>1, <3>2, UpFrom
    <3> QED BY <2>0, <3>3 DEF G
  <2> QED BY <1>6, <2>4, <2>6 DEF n
<1> QED BY <1>7, <1>8

\* Where the parts lie in the whole.
PartLies(flat, seqs, i) ==
  /\ Len(flat[i]) = Len(flat[i - 1]) + Len(seqs[i])
  /\ Len(flat[i]) <= Len(flat[Len(seqs)])
  /\ \A p \in 1..Len(seqs[i]) : flat[Len(seqs)][Len(flat[i - 1]) + p] = seqs[i][p]

LEMMA PartsLie ==
  ASSUME NEW S, NEW seqs \in Seq(Seq(S)), NEW flat, Flattens(flat, seqs, S),
         NEW i \in 1..Len(seqs)
  PROVE  PartLies(flat, seqs, i)
<1> DEFINE n == Len(seqs)
           G == {k \in i..n : /\ Len(flat[i]) <= Len(flat[k])
                              /\ \A p \in 1..Len(flat[i]) : flat[k][p] = flat[i][p]}
<1>1. n \in Nat /\ i \in Nat /\ i <= n /\ i - 1 \in 0..n /\ i \in 0..n
  OBVIOUS
<1>2. \A k \in 1..n : /\ Len(flat[k]) = Len(flat[k - 1]) + Len(seqs[k])
                      /\ \A p \in 1..Len(flat[k - 1]) : flat[k][p] = flat[k - 1][p]
                      /\ \A p \in 1..Len(seqs[k]) : flat[k][Len(flat[k - 1]) + p] = seqs[k][p]
                      /\ Len(flat[k - 1]) \in Nat /\ Len(seqs[k]) \in Nat
  <2> SUFFICES ASSUME NEW k \in 1..n
               PROVE  /\ Len(flat[k]) = Len(flat[k - 1]) + Len(seqs[k])
                      /\ \A p \in 1..Len(flat[k - 1]) : flat[k][p] = flat[k - 1][p]
                      /\ \A p \in 1..Len(seqs[k]) : flat[k][Len(flat[k - 1]) + p] = seqs[k][p]
                      /\ Len(flat[k - 1]) \in Nat /\ Len(seqs[k]) \in Nat
    OBVIOUS
  <2>1. k - 1 \in 0..n
    BY <1>1
  <2> DEFINE a == flat[k - 1]
             b == seqs[k]
  <2>2. a \in Seq(S) /\ b \in Seq(S) /\ flat[k] = a \o b
    BY <2>1, ElementOfSeq DEF Flattens
  <2> HIDE DEF a, b
  <2>3. /\ Len(a) \in Nat /\ Len(b) \in Nat
        /\ Len(a \o b) = Len(a) + Len(b)
        /\ \A p \in 1..Len(a) : (a \o b)[p] = a[p]
        /\ \A p \in 1..Len(b) : (a \o b)[Len(a) + p] = b[p]
    BY <2>2, ConcatProperties
  <2> QED BY <2>2, <2>3 DEF a, b
<1>10. \A k \in 0..n : flat[k] \in Seq(S)
  BY DEF Flattens
<1> HIDE DEF n
<1>3. i \in G
  <2>1. flat[i] \in Seq(S)
    BY <1>1, <1>10
  <2>2. Len(flat[i]) \in Nat
    BY <2>1
  <2> QED BY <1>1, <2>2
<1>4. ASSUME NEW k \in i..(n - 1), k \in G PROVE k + 1 \in G
  <2>1. k + 1 \in 1..n /\ k + 1 \in i..n /\ (k + 1) - 1 = k
    BY <1>1
  <2>2. /\ Len(flat[k + 1]) = Len(flat[k]) + Len(seqs[k + 1])
        /\ \A p \in 1..Len(flat[k]) : flat[k + 1][p] = flat[k][p]
        /\ Len(flat[k]) \in Nat /\ Len(seqs[k + 1]) \in Nat
    <3> DEFINE j == k + 1
    <3>1. j \in 1..n /\ j - 1 = k
      BY <2>1
    <3> HIDE DEF j
    <3>2. /\ Len(flat[j]) = Len(flat[j - 1]) + Len(seqs[j])
          /\ \A p \in 1..Len(flat[j - 1]) : flat[j][p] = flat[j - 1][p]
          /\ Len(flat[j - 1]) \in Nat /\ Len(seqs[j]) \in Nat
      BY <1>2, <3>1
    <3> QED BY <3>1, <3>2 DEF j
  <2>3. Len(flat[i]) \in Nat
    <3>1. flat[i] \in Seq(S)
      BY <1>1, <1>10
    <3> QED BY <3>1
  <2>4. Len(flat[i]) <= Len(flat[k]) /\ \A p \in 1..Len(flat[i]) : flat[k][p] = flat[i][p]
    BY <1>4
  <2>5. Len(flat[i]) <= Len(flat[k + 1])
    <3> DEFINE a == Len(flat[i])
               b == Len(flat[k])
               c == Len(seqs[k + 1])
               d == Len(flat[k + 1])
    <3>1. a \in Nat /\ b \in Nat /\ c \in Nat /\ d = b + c /\ a <= b
      BY <2>2, <2>3, <2>4
    <3> HIDE DEF a, b, c, d
    <3>2. a <= d
      BY <3>1
    <3> QED BY <3>2 DEF a, d
  <2>6. \A p \in 1..Len(flat[i]) : flat[k + 1][p] = flat[i][p]
    <3>1. \A p \in 1..Len(flat[i]) : p \in 1..Len(flat[k])
      BY <2>2, <2>3, <2>4
    <3> QED BY <2>2, <2>4, <3>1
  <2> QED BY <2>1, <2>5, <2>6
<1>5. n \in G
  <2> HIDE DEF G
  <2>1. i..n \subseteq G
    BY <1>1, <1>3, <1>4, UpFrom
  <2> QED BY <1>1, <2>1
<1>6. i \in 1..n
  BY DEF n
<1>7. \A p \in 1..Len(seqs[i]) : flat[n][Len(flat[i - 1]) + p] = seqs[i][p]
  <2>1. ASSUME NEW p \in 1..Len(seqs[i]) PROVE flat[n][Len(flat[i - 1]) + p] = seqs[i][p]
    <3>1. Len(flat[i - 1]) + p \in 1..Len(flat[i])
      <4> DEFINE a == Len(flat[i - 1])
                 b == Len(seqs[i])
                 c == Len(flat[i])
      <4>1. a \in Nat /\ b \in Nat /\ c = a + b /\ p \in 1..b
        BY <1>2, <1>6
      <4> HIDE DEF a, b, c
      <4>2. a + p \in 1..c
        BY <4>1
      <4> QED BY <4>2 DEF a, c
    <3>2. flat[n][Len(flat[i - 1]) + p] = flat[i][Len(flat[i - 1]) + p]
      BY <1>5, <3>1
    <3> QED BY <1>2, <1>6, <3>2
  <2> QED BY <2>1
<1>8. Len(flat[i]) = Len(flat[i - 1]) + Len(seqs[i]) /\ Len(flat[i]) <= Len(flat[n])
  BY <1>2, <1>5, <1>6
<1> QED BY <1>7, <1>8 DEF n, PartLies

-----------------------------------------------------------------------------
(***************************************************************************)
(* What is quoted.  Every atom begins a part of its own, of two quotes if  *)
(* it is the quote; ClosingQuote passes a part at a time, up to the quote  *)
(* behind the last one.                                                    *)
(***************************************************************************)
LEMMA ConcatLies ==
  ASSUME NEW S, NEW a \in Seq(S), NEW b \in Seq(S)
  PROVE  /\ a \o b \in Seq(S)
         /\ Len(a) \in Nat /\ Len(b) \in Nat
         /\ Len(a \o b) = Len(a) + Len(b)
         /\ \A p \in 1..Len(a) : (a \o b)[p] = a[p]
         /\ \A p \in 1..Len(b) : (a \o b)[Len(a) + p] = b[p]
BY ConcatProperties

\* The first i atoms of a text take up len[i] atoms when they are doubled.
Lays(len, text, q, doubled) ==
  /\ len[0] = 0 /\ len[Len(text)] = Len(doubled)
  /\ \A i \in 0..Len(text) : len[i] \in Nat
  /\ \A i \in 1..Len(text) :
       /\ len[i] <= Len(doubled)
       /\ doubled[len[i - 1] + 1] = text[i]
       /\ text[i] # q => len[i] = len[i - 1] + 1
       /\ text[i] = q => len[i] = len[i - 1] + 2 /\ doubled[len[i - 1] + 2] = q

LEMMA DoubledIs ==
  ASSUME NEW S, NEW text \in Seq(S), NEW q \in S
  PROVE  Doubled(text, q) \in Seq(S) /\ \E len : Lays(len, text, q, Doubled(text, q))
<1> DEFINE n == Len(text)
           part(i) == IF text[i] = q THEN <<q, q>> ELSE <<text[i]>>
           seqs == [i \in 1..n |-> part(i)]
           D == Doubled(text, q)
<1>1. n \in Nat /\ DOMAIN text = 1..n /\ \A i \in 1..n : text[i] \in S
  BY ElementOfSeq
<1>2. D = FlattenSeq(seqs)
  BY <1>1 DEF Doubled
<1>3. \A i \in 1..n : part(i) \in Seq(S)
  BY <1>1
<1>4. \A i \in 1..n : /\ text[i] # q => Len(part(i)) = 1 /\ part(i)[1] = text[i]
                      /\ text[i] = q => Len(part(i)) = 2 /\ part(i)[1] = text[i] /\ part(i)[2] = q
  OBVIOUS
<1> HIDE DEF part
<1>5. seqs \in [1..n -> Seq(S)] /\ \A i \in 1..n : seqs[i] = part(i)
  BY <1>3
<1> HIDE DEF seqs, n
<1>6. seqs \in Seq(Seq(S)) /\ Len(seqs) = n
  <2>1. seqs \in UNION {[1..m -> Seq(S)] : m \in Nat}
    BY <1>1, <1>5
  <2>2. seqs \in Seq(Seq(S))
    BY <2>1, SeqDef
  <2>3. DOMAIN seqs = 1..n
    BY <1>5
  <2>4. Len(seqs) = n
    BY <1>1, <2>2, <2>3
  <2> QED BY <2>2, <2>4
<1>17. PICK flat : Flattens(flat, seqs, S) /\ FlattenSeq(seqs) = flat[Len(seqs)]
  BY <1>6, FlattenExists
<1>7. /\ Flattens(flat, seqs, S)
      /\ \A i \in 0..n : flat[i] \in Seq(S)
      /\ D = flat[n]
  BY <1>2, <1>6, <1>17 DEF Flattens
<1> HIDE DEF D
<1> DEFINE len == [i \in 0..n |-> Len(flat[i])]
<1>8. D \in Seq(S) /\ \A i \in 0..n : Len(flat[i]) \in Nat
  BY <1>1, <1>7
<1>9. /\ len[0] = 0 /\ len[n] = Len(D)
      /\ \A i \in 0..n : len[i] \in Nat /\ len[i] = Len(flat[i])
  BY <1>1, <1>7, <1>8 DEF Flattens
<1>10. ASSUME NEW i \in 1..n
       PROVE  /\ len[i] <= Len(D)
              /\ D[len[i - 1] + 1] = text[i]
              /\ text[i] # q => len[i] = len[i - 1] + 1
              /\ text[i] = q => len[i] = len[i - 1] + 2 /\ D[len[i - 1] + 2] = q
  <2>1. i \in 0..n /\ i - 1 \in 0..n
    BY <1>1
  <2>2. len[i] = Len(flat[i]) /\ len[i - 1] = Len(flat[i - 1])
    BY <1>9, <2>1
  <2>3. /\ Len(flat[i]) = Len(flat[i - 1]) + Len(part(i))
        /\ Len(flat[i]) <= Len(D)
        /\ \A p \in 1..Len(part(i)) : D[Len(flat[i - 1]) + p] = part(i)[p]
    <3>1. i \in 1..Len(seqs)
      BY <1>6
    <3>2. /\ Len(flat[i]) = Len(flat[i - 1]) + Len(seqs[i])
          /\ Len(flat[i]) <= Len(flat[Len(seqs)])
          /\ \A p \in 1..Len(seqs[i]) : flat[Len(seqs)][Len(flat[i - 1]) + p] = seqs[i][p]
      <4>2. Flattens(flat, seqs, S) /\ seqs \in Seq(Seq(S))
        BY <1>6, <1>7
      <4>3. PartLies(flat, seqs, i)
        BY <3>1, <4>2, PartsLie
      <4> QED BY <4>3 DEF PartLies
    <3> QED BY <1>5, <1>6, <1>7, <3>2
  <2> HIDE DEF len
  <2>4. CASE text[i] # q
    <3>1. Len(part(i)) = 1 /\ part(i)[1] = text[i] /\ 1 \in 1..1
      BY <1>4, <2>4
    <3> QED BY <2>2, <2>3, <2>4, <3>1
  <2>5. CASE text[i] = q
    <3>1. Len(part(i)) = 2 /\ part(i)[1] = text[i] /\ part(i)[2] = q /\ 1 \in 1..2 /\ 2 \in 1..2
      BY <1>4, <2>5
    <3> QED BY <2>2, <2>3, <2>5, <3>1
  <2> QED BY <2>4, <2>5
<1> HIDE DEF len
<1>11. Lays(len, text, q, D)
  BY <1>9, <1>10 DEF Lays, n
<1> QED BY <1>8, <1>11 DEF D

LEMMA QuotedReadsBack ==
  ASSUME NEW S, NEW text \in Seq(S), NEW q \in Quotes
  PROVE  TokenEnd(quoted(text, q), 1) = Len(quoted(text, q))
<1> DEFINE X == S \cup {q}
           D == Doubled(text, q)
           sql == quoted(text, q)
           n == Len(text)
           m == Len(D)
<1>1. text \in Seq(X) /\ q \in X /\ n \in Nat
  BY SeqMonotonic
<1> HIDE DEF X
<1>0. D \in Seq(X) /\ \E len : Lays(len, text, q, D)
  BY <1>1, DoubledIs
<1> HIDE DEF D, n
<1>2. PICK len : Lays(len, text, q, D)
  BY <1>0
<1>20. /\ len[0] = 0 /\ len[n] = m
       /\ \A i \in 0..n : len[i] \in Nat
       /\ \A i \in 1..n :
            /\ len[i] <= m
            /\ D[len[i - 1] + 1] = text[i]
            /\ text[i] # q => len[i] = len[i - 1] + 1
            /\ text[i] = q => len[i] = len[i - 1] + 2 /\ D[len[i - 1] + 2] = q
  BY <1>2 DEF Lays, n
<1>3. /\ sql \in Seq(X) /\ Len(sql) = m + 2 /\ m \in Nat
      /\ sql[1] = q /\ sql[m + 2] = q
      /\ \A p \in 1..m : sql[p + 1] = D[p]
  <2> DEFINE one == <<q>>
  <2>1. sql = (one \o D) \o one
    BY DEF quoted, D
  <2>2. one \in Seq(X) /\ Len(one) = 1 /\ one[1] = q
    BY <1>1
  <2>3. m \in Nat
    BY <1>0
  <2> HIDE DEF one, D, sql
  <2> DEFINE front == one \o D
  <2>4. /\ front \in Seq(X) /\ Len(front) = 1 + m
        /\ \A p \in 1..1 : front[p] = one[p]
        /\ \A p \in 1..m : front[1 + p] = D[p]
    <3>1. /\ one \o D \in Seq(X)
          /\ Len(one \o D) = Len(one) + Len(D)
          /\ \A p \in 1..Len(one) : (one \o D)[p] = one[p]
          /\ \A p \in 1..Len(D) : (one \o D)[Len(one) + p] = D[p]
      <4>1. one \in Seq(X) /\ D \in Seq(X)
        BY <1>0, <2>2
      <4> QED BY <4>1, ConcatLies
    <3> HIDE DEF front
    <3>2. front = one \o D
      BY DEF front
    <3> QED BY <2>2, <3>1, <3>2
  <2> HIDE DEF front
  <2>5. /\ front \o one \in Seq(X) /\ Len(front \o one) = (1 + m) + 1
        /\ \A p \in 1..(1 + m) : (front \o one)[p] = front[p]
        /\ \A p \in 1..1 : (front \o one)[(1 + m) + p] = one[p]
    <3>1. /\ front \o one \in Seq(X)
          /\ Len(front \o one) = Len(front) + Len(one)
          /\ \A p \in 1..Len(front) : (front \o one)[p] = front[p]
          /\ \A p \in 1..Len(one) : (front \o one)[Len(front) + p] = one[p]
      <4>1. one \in Seq(X) /\ front \in Seq(X)
        BY <2>2, <2>4
      <4> QED BY <4>1, ConcatLies
    <3> QED BY <2>2, <2>4, <3>1
  <2>6. sql = front \o one
    BY <2>1 DEF front
  <2>7. sql[1] = q
    <3>1. 1 \in 1..(1 + m) /\ 1 \in 1..1
      BY <2>3
    <3> QED BY <2>2, <2>4, <2>5, <2>6, <3>1
  <2>8. sql[m + 2] = q
    <3>1. (1 + m) + 1 = m + 2 /\ 1 \in 1..1
      BY <2>3
    <3> QED BY <2>2, <2>5, <2>6, <3>1
  <2>9. \A p \in 1..m : sql[p + 1] = D[p]
    <3>1. \A p \in 1..m : 1 + p = p + 1 /\ p + 1 \in 1..(1 + m)
      BY <2>3
    <3> QED BY <2>4, <2>5, <2>6, <3>1
  <2> QED BY <2>3, <2>5, <2>6, <2>7, <2>8, <2>9
<1> HIDE DEF sql, D, m, n
<1>4. PICK close : Closes(close, sql, 1) /\ ClosingQuote(sql, 1) = close[1 + 1]
  <2>1. 1 \in 1..Len(sql) /\ sql[1] \in Quotes
    BY <1>3
  <2> QED BY <1>3, <2>1, ClosingExists
<1>5. \A j \in 2..(m + 2) :
        /\ (sql[j] = q /\ At(sql, j + 1) = q) => close[j] = close[j + 2]
        /\ (sql[j] = q /\ At(sql, j + 1) # q) => close[j] = j
        /\ sql[j] # q => close[j] = close[j + 1]
  <2>1. \A j \in 2..(m + 2) : j \in (1 + 1)..(Len(sql) + 2) /\ j <= Len(sql)
    BY <1>3
  <2> QED BY <1>3, <1>4, <2>1 DEF Closes
<1> DEFINE G == {i \in 0..n : close[2] = close[len[i] + 2]}
<1>6. 0 \in G
  BY <1>1, <1>20
<1>7. ASSUME NEW k \in 0..(n - 1), k \in G PROVE k + 1 \in G
  <2> DEFINE i == k + 1
             l == len[k]
  <2>1. i \in 1..n /\ i \in 0..n /\ k \in 0..n /\ i - 1 = k
    BY <1>1
  <2>2. /\ l \in Nat /\ len[i] \in Nat /\ len[i] <= m /\ D[l + 1] = text[i]
        /\ text[i] # q => len[i] = l + 1
        /\ text[i] = q => len[i] = l + 2 /\ D[l + 2] = q
    <3> HIDE DEF i
    <3> QED BY <1>20, <2>1
  <2>3. close[2] = close[l + 2]
    BY <1>7
  <2> HIDE DEF i, l
  <2>4. l + 2 \in 2..(m + 2) /\ l + 1 \in 1..m /\ (l + 1) + 1 = l + 2
    BY <1>3, <2>2
  <2>5. sql[l + 2] = text[i]
    BY <1>3, <2>2, <2>4
  <2>6. CASE text[i] # q
    <3>1. close[l + 2] = close[(l + 2) + 1] /\ (l + 2) + 1 = len[i] + 2
      BY <1>5, <2>2, <2>4, <2>5, <2>6
    <3>2. close[2] = close[len[i] + 2]
      BY <2>3, <3>1
    <3> QED BY <2>1, <3>2 DEF i
  <2>7. CASE text[i] = q
    <3>1. l + 2 \in 1..m /\ (l + 2) + 1 \in 1..Len(sql) /\ (l + 2) + 1 \in Nat
      BY <1>3, <2>2, <2>7
    <3>2. At(sql, (l + 2) + 1) = q
      BY <1>3, <2>2, <2>7, <3>1, AtIs
    <3>3. close[l + 2] = close[(l + 2) + 2] /\ (l + 2) + 2 = len[i] + 2
      BY <1>5, <2>2, <2>4, <2>5, <2>7, <3>2
    <3>4. close[2] = close[len[i] + 2]
      BY <2>3, <3>3
    <3> QED BY <2>1, <3>4 DEF i
  <2> QED BY <2>6, <2>7
<1>8. close[2] = close[m + 2]
  <2> HIDE DEF G
  <2>1. 0..n \subseteq G
    BY <1>1, <1>6, <1>7, UpFrom
  <2>2. n \in G
    BY <1>1, <2>1
  <2> QED BY <1>20, <2>2 DEF G
<1>9. close[m + 2] = m + 2
  <2>1. (m + 2) + 1 \in Nat /\ (m + 2) + 1 \notin 1..Len(sql) /\ m + 2 \in 2..(m + 2)
    BY <1>3
  <2>2. At(sql, (m + 2) + 1) # q
    BY <1>3, <2>1, AtIs, QuotesDiffer
  <2> QED BY <1>3, <1>5, <2>1, <2>2
<1>10. TokenEnd(sql, 1) = ClosingQuote(sql, 1)
  <2>1. 1 \in 1..Len(sql) /\ sql[1] \in Quotes
    BY <1>3
  <2>2. Pair(sql, 1) # <<"-", "-">> /\ Pair(sql, 1) # <<"/", "*">>
    BY <1>3, <2>1, PairStarts
  <2> QED BY <2>1, <2>2 DEF TokenEnd
<1>11. TokenEnd(sql, 1) = Len(sql)
  BY <1>3, <1>4, <1>8, <1>9, <1>10
<1> QED BY <1>11 DEF sql

(***************************************************************************)
(* QuotedIsOneToken: for any name or literal, whatever quotes it contains. *)
(***************************************************************************)
THEOREM QuotedReadsAsOneToken == Spec => []QuotedIsOneToken
<1>1. EditorInv => QuotedIsOneToken
  <2> SUFFICES ASSUME EditorInv, NEW quote \in Quotes
               PROVE  TokenEnd(quoted(buffer, quote), 1) = Len(quoted(buffer, quote))
    BY DEF QuotedIsOneToken
  <2>1. buffer \in Seq(Alphabet)
    BY DEF EditorInv, BufferInv
  <2> QED BY <2>1, QuotedReadsBack
<1> QED BY <1>1, EditorInvariant, PTL
=============================================================================
