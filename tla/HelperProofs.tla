---------------------------- MODULE HelperProofs ----------------------------
(***************************************************************************)
(* Proofs about StrPair and FileHelper: loops over text compared with what *)
(* they are to compute.  Induction goes through the least element of a set *)
(* of counterexamples (Least), so no theorem here takes an operator.       *)
(* Then Md5: for every block size, every wrap of the counters and every    *)
(* cut of a message into pieces, it digests the padded message.  Its       *)
(* invariant is inductive once the type of total and final is added; most  *)
(* of the work is arithmetic on remainders and sequences put together.     *)
(***************************************************************************)
EXTENDS StrPair, FileHelper, Md5, SequenceTheorems, FiniteSetTheorems,
        WellFoundedInduction, TLAPS

(* Every set of naturals has a least element.                               *)
LEMMA Least ==
  ASSUME NEW S \in SUBSET Nat, S # {}
  PROVE  \E n \in S : \A m \in S : n <= m
<1>1. IsWellFoundedOn(OpToRel(<, Nat), Nat)
  BY NatLessThanWellFounded
<1>2. PICK n \in S : \A m \in S : ~ (<<m, n>> \in OpToRel(<, Nat))
  BY <1>1, WFMin
<1>3. ASSUME NEW m \in S
      PROVE  n <= m
  <2>1. <<m, n>> \in Nat \X Nat
    OBVIOUS
  <2>2. ~ (m < n)
    BY <2>1, <1>2 DEF OpToRel
  <2> QED BY <2>2
<1> QED BY <1>3

(* What Min returns.                                                        *)
LEMMA MinIs ==
  ASSUME NEW S \in SUBSET Nat, S # {}
  PROVE  /\ Min(S) \in S
         /\ \A m \in S : Min(S) <= m
  BY Least DEF Min

(* The element that no other is below is the least.                         *)
LEMMA MinIsThat ==
  ASSUME NEW S \in SUBSET Nat, NEW n \in S, \A m \in S : n <= m
  PROVE  Min(S) = n
<1>1. Min(S) \in S /\ Min(S) <= n
  BY MinIs
<1>2. n <= Min(S) /\ n \in Nat /\ Min(S) \in Nat
  BY <1>1
<1> QED BY <1>1, <1>2

(* Every bounded set of naturals has a greatest element.                    *)
LEMMA Greatest ==
  ASSUME NEW S \in SUBSET Nat, S # {}, NEW b \in Nat, \A m \in S : m <= b
  PROVE  \E n \in S : \A m \in S : n >= m
<1> DEFINE D == {b - m : m \in S}
<1>1. ASSUME NEW m \in S
      PROVE  b - m \in Nat
  OBVIOUS
<1>2. D \in SUBSET Nat /\ D # {}
  BY <1>1
<1>3. PICK d \in D : \A e \in D : d <= e
  <2> HIDE DEF D
  <2> QED BY <1>2, Least
<1>4. PICK n \in S : d = b - n
  OBVIOUS
<1>5. ASSUME NEW m \in S
      PROVE  n >= m
  <2>1. b - m \in D
    OBVIOUS
  <2>2. b - n <= b - m
    BY <1>3, <1>4, <2>1
  <2> QED BY <2>2
<1> QED BY <1>5

(* What Max returns.                                                        *)
LEMMA MaxIs ==
  ASSUME NEW S \in SUBSET Nat, S # {}, NEW b \in Nat, \A m \in S : m <= b
  PROVE  /\ Max(S) \in S
         /\ \A m \in S : m <= Max(S)
<1>1. \E n \in S : \A m \in S : n >= m
  BY Greatest
<1>2. Max(S) \in S /\ \A m \in S : Max(S) >= m
  BY <1>1 DEF Max
<1> QED BY <1>2

(* The element that no other is above is the greatest.                      *)
LEMMA MaxIsThat ==
  ASSUME NEW S \in SUBSET Nat, NEW n \in S, \A m \in S : m <= n
  PROVE  Max(S) = n
<1>1. Max(S) \in S /\ n <= Max(S)
  <2>1. n \in Nat
    OBVIOUS
  <2> QED BY <2>1, MaxIs
<1>2. Max(S) <= n /\ n \in Nat /\ Max(S) \in Nat
  BY <1>1
<1> QED BY <1>1, <1>2

-----------------------------------------------------------------------------
(* Parts of sequences.                                                      *)

(* The cells of a part, which may be empty.                                 *)
LEMMA PartIs ==
  ASSUME NEW S, NEW s \in Seq(S), NEW m \in 1 .. Len(s) + 1, NEW n \in m - 1 .. Len(s)
  PROVE  /\ SubSeq(s, m, n) \in Seq(S)
         /\ Len(SubSeq(s, m, n)) = n - m + 1
         /\ \A i \in 1 .. n - m + 1 : SubSeq(s, m, n)[i] = s[m + i - 1]
<1>1. Len(s) \in Nat
  BY LenProperties
<1>2. m \in Int /\ n \in Int
  BY <1>1
<1>3. \A i \in m .. n : s[i] \in S
  BY <1>1, ElementOfSeq
<1> QED BY <1>1, <1>2, <1>3, SubSeqProperties

(* A part of a part is a part.                                              *)
LEMMA PartOfPart ==
  ASSUME NEW S, NEW s \in Seq(S), NEW m \in 1 .. Len(s) + 1, NEW n \in m - 1 .. Len(s),
         NEW a \in 1 .. n - m + 2, NEW b \in a - 1 .. n - m + 1
  PROVE  SubSeq(SubSeq(s, m, n), a, b) = SubSeq(s, m + a - 1, m + b - 1)
<1> DEFINE t == SubSeq(s, m, n)
           u == SubSeq(t, a, b)
           v == SubSeq(s, m + a - 1, m + b - 1)
<1>1. Len(s) \in Nat
  BY LenProperties
<1>2. /\ t \in Seq(S) /\ Len(t) = n - m + 1
      /\ \A i \in 1 .. n - m + 1 : t[i] = s[m + i - 1]
  BY PartIs
<1>3. /\ u \in Seq(S) /\ Len(u) = b - a + 1
      /\ \A i \in 1 .. b - a + 1 : u[i] = t[a + i - 1]
  <2> HIDE DEF t
  <2>1. a \in 1 .. Len(t) + 1 /\ b \in a - 1 .. Len(t)
    BY <1>1, <1>2
  <2> QED BY <1>2, <2>1, PartIs
<1>4. /\ v \in Seq(S) /\ Len(v) = b - a + 1
      /\ \A i \in 1 .. b - a + 1 : v[i] = s[m + a - 1 + i - 1]
  <2>1. /\ m + a - 1 \in 1 .. Len(s) + 1 /\ m + b - 1 \in (m + a - 1) - 1 .. Len(s)
        /\ (m + b - 1) - (m + a - 1) + 1 = b - a + 1
    BY <1>1
  <2>2. /\ v \in Seq(S) /\ Len(v) = (m + b - 1) - (m + a - 1) + 1
        /\ \A i \in 1 .. (m + b - 1) - (m + a - 1) + 1 : v[i] = s[(m + a - 1) + i - 1]
    BY <2>1, PartIs
  <2> QED BY <2>1, <2>2
<1> HIDE DEF t, u, v
<1>5. ASSUME NEW i \in 1 .. Len(u)
      PROVE  u[i] = v[i]
  <2>1. i \in 1 .. b - a + 1 /\ a + i - 1 \in 1 .. n - m + 1
    BY <1>1, <1>3
  <2>2. u[i] = t[a + i - 1] /\ t[a + i - 1] = s[m + (a + i - 1) - 1]
    BY <1>2, <1>3, <2>1
  <2>3. v[i] = s[m + a - 1 + i - 1]
    BY <1>4, <2>1
  <2>4. m + a - 1 + i - 1 = m + (a + i - 1) - 1
    BY <1>1, <2>1
  <2> QED BY <2>2, <2>3, <2>4
<1>6. u = v
  BY <1>3, <1>4, <1>5, SeqEqual
<1> QED BY <1>6 DEF t, u, v

-----------------------------------------------------------------------------
(* Loops that take some cells and write others for them: what Rest computes. *)

(* Pieces of a text: none goes beyond its end.                              *)
Fit(items, T) ==
  /\ items \in Seq([takes : Nat, gives : Seq(T)])
  /\ \A i \in 1 .. Len(items) :
       items[i].takes \in 1 .. Len(items) + 1 - i /\ items[i].gives \in Seq(T)

(* g is what Rest would be from cell k on.                                  *)
IsRest(items, g, k, T) ==
  /\ g \in [k .. Len(items) + 1 -> Seq(T)]
  /\ g[Len(items) + 1] = <<>>
  /\ \A i \in k .. Len(items) : g[i] = items[i].gives \o g[i + items[i].takes]

(* From any cell on there is such a function.                               *)
LEMMA RestExists ==
  ASSUME NEW T, NEW items, Fit(items, T)
  PROVE  \E g : IsRest(items, g, 1, T)
<1> DEFINE n == Len(items)
           Bad == {j \in 0 .. n : ~ \E g : IsRest(items, g, n + 1 - j, T)}
<1>1. n \in Nat
  BY LenProperties DEF Fit
<1>2. 0 \notin Bad
  <2> DEFINE g == [i \in n + 1 .. n + 1 |-> <<>>]
  <2>1. <<>> \in Seq(T)
    BY EmptySeq
  <2>2. g \in [n + 1 .. n + 1 -> Seq(T)] /\ g[n + 1] = <<>>
    BY <1>1, <2>1
  <2>3. n + 1 .. n = {} /\ n + 1 - 0 = n + 1
    BY <1>1
  <2> HIDE DEF g
  <2>4. IsRest(items, g, n + 1 - 0, T)
    BY <2>2, <2>3 DEF IsRest
  <2> QED BY <2>4
<1>3. ASSUME NEW j \in 0 .. n - 1, NEW g, IsRest(items, g, n + 1 - j, T)
      PROVE  \E h : IsRest(items, h, n + 1 - (j + 1), T)
  <2> DEFINE k == n - j
             first == items[k].gives \o g[k + items[k].takes]
             h == [i \in k .. n + 1 |-> IF i = k THEN first ELSE g[i]]
  <2>1. /\ k \in 1 .. n /\ n + 1 - j = k + 1 /\ n + 1 - (j + 1) = k
        /\ n + 1 \in k + 1 .. n + 1 /\ n + 1 # k
    BY <1>1
  <2>2. items[k].takes \in 1 .. n + 1 - k /\ items[k].gives \in Seq(T)
    <3> HIDE DEF k
    <3> QED BY <2>1 DEF Fit
  <2>3. /\ g \in [k + 1 .. n + 1 -> Seq(T)]
        /\ g[n + 1] = <<>>
        /\ \A i \in k + 1 .. n : g[i] = items[i].gives \o g[i + items[i].takes]
    <3> HIDE DEF k
    <3> QED BY <1>3, <2>1 DEF IsRest
  <2> HIDE DEF k
  <2>4. k + items[k].takes \in k + 1 .. n + 1
    BY <1>1, <2>1, <2>2
  <2>5. first \in Seq(T)
    <3>1. g[k + items[k].takes] \in Seq(T)
      BY <2>3, <2>4
    <3> QED BY <2>2, <3>1, ConcatProperties
  <2> HIDE DEF first
  <2>6. ASSUME NEW i \in k .. n + 1
        PROVE  (IF i = k THEN first ELSE g[i]) \in Seq(T)
    <3>1. i # k => i \in k + 1 .. n + 1
      BY <1>1, <2>1
    <3> QED BY <2>3, <2>5, <3>1
  <2>7. h \in [k .. n + 1 -> Seq(T)]
    BY <2>6
  <2>8. h[k] = first /\ \A i \in k + 1 .. n + 1 : h[i] = g[i]
    <3>1. k \in k .. n + 1
      BY <1>1, <2>1
    <3>2. \A i \in k + 1 .. n + 1 : i \in k .. n + 1 /\ i # k
      BY <1>1, <2>1
    <3> QED BY <3>1, <3>2
  <2> HIDE DEF h
  <2>9. ASSUME NEW i \in k .. n
        PROVE  h[i] = items[i].gives \o h[i + items[i].takes]
    <3>1. CASE i = k
      BY <2>4, <2>8, <3>1 DEF first
    <3>2. CASE i # k
      <4>1. i \in k + 1 .. n /\ i \in k + 1 .. n + 1 /\ i \in 1 .. n
        BY <1>1, <2>1, <3>2
      <4>2. items[i].takes \in 1 .. n + 1 - i
        BY <4>1 DEF Fit
      <4>3. i + items[i].takes \in k + 1 .. n + 1
        BY <1>1, <2>1, <4>1, <4>2
      <4> QED BY <2>3, <2>8, <4>1, <4>3
    <3> QED BY <3>1, <3>2
  <2>10. h[n + 1] = <<>>
    BY <2>1, <2>3, <2>8
  <2>11. IsRest(items, h, k, T)
    BY <2>7, <2>9, <2>10 DEF IsRest
  <2> QED BY <2>1, <2>11
<1>4. Bad = {}
  <2>1. SUFFICES ASSUME Bad # {}
        PROVE  FALSE
    OBVIOUS
  <2>2. Bad \in SUBSET Nat
    BY <1>1
  <2>3. PICK j \in Bad : \A m \in Bad : j <= m
    <3> HIDE DEF Bad
    <3> QED BY <2>1, <2>2, Least
  <2>4. j \in 0 .. n /\ j # 0 /\ ~ \E g : IsRest(items, g, n + 1 - j, T)
    BY <1>2, <2>3
  <2>5. j - 1 \in 0 .. n - 1 /\ j - 1 \in 0 .. n /\ (j - 1) + 1 = j /\ ~ (j <= j - 1)
    BY <1>1, <2>4
  <2>6. j - 1 \notin Bad
    BY <2>3, <2>5
  <2>7. \E g : IsRest(items, g, n + 1 - (j - 1), T)
    BY <2>5, <2>6
  <2>8. \E h : IsRest(items, h, n + 1 - ((j - 1) + 1), T)
    BY <1>3, <2>5, <2>7
  <2> QED BY <2>4, <2>5, <2>8
<1>5. n \notin Bad /\ n \in 0 .. n /\ n + 1 - n = 1
  BY <1>1, <1>4
<1>6. \E g : IsRest(items, g, n + 1 - n, T)
  BY <1>5
<1> QED BY <1>5, <1>6

(* What the recursion of Rest computes.                                     *)
LEMMA RestIs ==
  ASSUME NEW T, NEW items, Fit(items, T)
  PROVE  IsRest(items, Rest(items), 1, T)
<1> DEFINE n == Len(items)
           Then(g) == [i \in 1 .. n + 1 |->
                         IF i = n + 1 THEN <<>>
                         ELSE items[i].gives \o g[i + items[i].takes]]
<1>1. n \in Nat
  BY LenProperties DEF Fit
<1>2. PICK g : IsRest(items, g, 1, T)
  BY RestExists
<1>3. g = Then(g)
  <2>1. g \in [1 .. n + 1 -> Seq(T)]
    BY <1>2 DEF IsRest
  <2>2. ASSUME NEW i \in 1 .. n + 1
        PROVE  g[i] = IF i = n + 1 THEN <<>>
                      ELSE items[i].gives \o g[i + items[i].takes]
    <3>1. i # n + 1 => i \in 1 .. n
      BY <1>1
    <3> QED BY <1>2, <3>1 DEF IsRest
  <2> QED BY <2>1, <2>2
<1>4. Rest(items) = CHOOSE h : h = Then(h)
  BY DEF Rest
<1>5. Rest(items) = Then(Rest(items))
  <2> HIDE DEF Then
  <2> QED BY <1>3, <1>4
<1> DEFINE r == Rest(items)
<1> HIDE DEF Then, r
<1>6. /\ r = [i \in 1 .. n + 1 |-> r[i]]
      /\ r[n + 1] = <<>>
      /\ \A i \in 1 .. n : r[i] = items[i].gives \o r[i + items[i].takes]
  <2>1. r = [i \in 1 .. n + 1 |-> IF i = n + 1 THEN <<>>
                                  ELSE items[i].gives \o r[i + items[i].takes]]
    BY <1>5 DEF Then, r
  <2>2. n + 1 \in 1 .. n + 1 /\ \A i \in 1 .. n : i \in 1 .. n + 1 /\ i # n + 1
    BY <1>1
  <2> HIDE DEF n
  <2> QED BY <2>1, <2>2
<1> DEFINE Bad == {j \in 0 .. n : r[n + 1 - j] \notin Seq(T)}
<1>7. Bad = {}
  <2>1. SUFFICES ASSUME Bad # {}
        PROVE  FALSE
    OBVIOUS
  <2>2. Bad \in SUBSET Nat
    BY <1>1
  <2>3. PICK j \in Bad : \A m \in Bad : j <= m
    <3> HIDE DEF Bad
    <3> QED BY <2>1, <2>2, Least
  <2> DEFINE i == n + 1 - j
             k == i + items[i].takes
  <2>4. j \in 0 .. n /\ r[i] \notin Seq(T)
    BY <2>3
  <2>5. i \in 1 .. n + 1
    BY <1>1, <2>4
  <2> HIDE DEF i
  <2>6. i # n + 1
    <3>1. <<>> \in Seq(T)
      BY EmptySeq
    <3> QED BY <1>6, <2>4, <3>1
  <2>7. i \in 1 .. n
    BY <1>1, <2>5, <2>6
  <2>8. items[i].takes \in 1 .. n + 1 - i /\ items[i].gives \in Seq(T)
    BY <2>7 DEF Fit
  <2>9. k \in i + 1 .. n + 1
    BY <1>1, <2>7, <2>8
  <2> HIDE DEF k
  <2>10. n + 1 - k \in 0 .. n /\ n + 1 - (n + 1 - k) = k /\ ~ (j <= n + 1 - k)
    BY <1>1, <2>4, <2>7, <2>9 DEF i
  <2>11. n + 1 - k \notin Bad
    BY <2>3, <2>10
  <2>12. r[k] \in Seq(T)
    BY <2>10, <2>11
  <2>13. r[i] = items[i].gives \o r[k]
    BY <1>6, <2>7 DEF k
  <2> QED BY <2>4, <2>8, <2>12, <2>13, ConcatProperties
<1>8. ASSUME NEW i \in 1 .. n + 1
      PROVE  r[i] \in Seq(T)
  <2>1. n + 1 - i \in 0 .. n /\ n + 1 - (n + 1 - i) = i
    BY <1>1
  <2>2. n + 1 - i \notin Bad
    BY <1>7
  <2> QED BY <2>1, <2>2
<1>9. r \in [1 .. n + 1 -> Seq(T)]
  BY <1>6, <1>8
<1> QED BY <1>6, <1>9 DEF IsRest, r

(* What is read of a text moves from what is ahead to what is written.      *)
LEMMA RestMoves ==
  ASSUME NEW T, NEW items, Fit(items, T), NEW i \in 1 .. Len(items),
         NEW done \in Seq(T)
  PROVE  /\ i + items[i].takes \in i + 1 .. Len(items) + 1
         /\ done \o Rest(items)[i]
              = (done \o items[i].gives) \o Rest(items)[i + items[i].takes]
<1> DEFINE n == Len(items)
           k == i + items[i].takes
<1>1. n \in Nat
  BY LenProperties DEF Fit
<1>2. items[i].takes \in 1 .. n + 1 - i /\ items[i].gives \in Seq(T)
  BY DEF Fit
<1>3. k \in i + 1 .. n + 1 /\ k \in 1 .. n + 1
  BY <1>1, <1>2
<1>4. IsRest(items, Rest(items), 1, T)
  BY RestIs
<1>5. Rest(items)[k] \in Seq(T) /\ Rest(items)[i] = items[i].gives \o Rest(items)[k]
  <2> HIDE DEF k
  <2>1. Rest(items)[k] \in Seq(T)
    BY <1>3, <1>4 DEF IsRest
  <2>2. Rest(items)[i] = items[i].gives \o Rest(items)[k]
    BY <1>4 DEF IsRest, k
  <2> QED BY <2>1, <2>2
<1> HIDE DEF k
<1>6. done \o (items[i].gives \o Rest(items)[k]) = (done \o items[i].gives) \o Rest(items)[k]
  <2> DEFINE g == items[i].gives
             r == Rest(items)[k]
  <2>1. done \in Seq(T) /\ g \in Seq(T) /\ r \in Seq(T)
    BY <1>2, <1>5
  <2> HIDE DEF g, r
  <2>2. (done \o g) \o r = done \o (g \o r)
    BY ONLY <2>1, ConcatAssociative
  <2> QED BY <2>2 DEF g, r
<1> QED BY <1>3, <1>5, <1>6 DEF k

(* Its type and its end.                                                    *)
LEMMA RestType ==
  ASSUME NEW T, NEW items, Fit(items, T)
  PROVE  /\ \A i \in 1 .. Len(items) + 1 : Rest(items)[i] \in Seq(T)
         /\ Rest(items)[Len(items) + 1] = <<>>
  BY RestIs DEF IsRest

(* Cells that give nothing are passed over.                                 *)
LEMMA RestSkips ==
  ASSUME NEW T, NEW items, Fit(items, T),
         NEW a \in 1 .. Len(items) + 1, NEW b \in a .. Len(items) + 1,
         \A i \in a .. b - 1 : items[i].takes = 1 /\ items[i].gives = <<>>
  PROVE  Rest(items)[a] = Rest(items)[b]
<1> DEFINE r == Rest(items)
           Bad == {j \in 0 .. b - a : r[b - j] # r[b]}
<1>1. Len(items) \in Nat /\ a \in Int /\ b \in Int /\ a <= b
  BY LenProperties DEF Fit
<1>2. Bad = {}
  <2>1. SUFFICES ASSUME Bad # {}
        PROVE  FALSE
    OBVIOUS
  <2>2. Bad \in SUBSET Nat
    BY <1>1
  <2>3. PICK j \in Bad : \A m \in Bad : j <= m
    <3> HIDE DEF Bad
    <3> QED BY <2>1, <2>2, Least
  <2>4. j \in 0 .. b - a /\ r[b - j] # r[b]
    BY <2>3
  <2>5. j # 0
    BY <1>1, <2>4
  <2>6. /\ j - 1 \in 0 .. b - a /\ ~ (j <= j - 1) /\ b - (j - 1) = b - j + 1
        /\ b - j \in a .. b - 1 /\ b - j \in 1 .. Len(items)
    BY <1>1, <2>4, <2>5
  <2>7. j - 1 \notin Bad
    BY <2>3, <2>6
  <2>8. r[b - j + 1] = r[b]
    BY <2>6, <2>7
  <2>9. items[b - j].takes = 1 /\ items[b - j].gives = <<>>
    BY <2>6
  <2>10. IsRest(items, r, 1, T)
    BY RestIs
  <2>11. r[b - j] = <<>> \o r[b - j + 1]
    <3> HIDE DEF r
    <3> QED BY <2>6, <2>9, <2>10 DEF IsRest
  <2>12. b - j + 1 \in 1 .. Len(items) + 1
    BY <2>6
  <2>13. r[b - j + 1] \in Seq(T)
    BY <2>12, RestType
  <2>14. r[b - j] = r[b - j + 1]
    <3> HIDE DEF r
    <3> QED BY <2>11, <2>13, ConcatEmptySeq
  <2> QED BY <2>4, <2>8, <2>14
<1>3. b - a \in 0 .. b - a /\ b - (b - a) = a
  BY <1>1
<1> QED BY <1>2, <1>3

(* One item put in front moves what is computed for the others by one.      *)
LEMMA RestShift ==
  ASSUME NEW T, NEW items, Fit(items, T), NEW more, Fit(more, T),
         Len(more) = Len(items) + 1,
         \A i \in 1 .. Len(items) : more[i + 1] = items[i]
  PROVE  \A i \in 1 .. Len(items) + 1 : Rest(more)[i + 1] = Rest(items)[i]
<1> DEFINE n == Len(items)
           r == Rest(items)
           s == Rest(more)
           Bad == {j \in 0 .. n : s[(n + 1 - j) + 1] # r[n + 1 - j]}
<1>1. n \in Nat
  BY LenProperties DEF Fit
<1>2. IsRest(items, r, 1, T) /\ IsRest(more, s, 1, T)
  BY RestIs
<1> HIDE DEF r, s
<1>3. /\ r[n + 1] = <<>> /\ s[(n + 1) + 1] = <<>>
      /\ \A i \in 1 .. n : r[i] = items[i].gives \o r[i + items[i].takes]
      /\ \A i \in 1 .. n + 1 : s[i] = more[i].gives \o s[i + more[i].takes]
  BY <1>2 DEF IsRest
<1>4. \A i \in 1 .. n : items[i].takes \in 1 .. n + 1 - i
  BY DEF Fit
<1>5. \A i \in 1 .. n : more[i + 1] = items[i]
  OBVIOUS
<1> HIDE DEF n
<1>6. ASSUME NEW j \in Bad, \A m \in Bad : j <= m
      PROVE  FALSE
  <2> DEFINE i == n + 1 - j
  <2>1. j \in 0 .. n /\ s[i + 1] # r[i]
    OBVIOUS
  <2>2. j # 0
    <3>1. j = 0 => i = n + 1
      BY <1>1
    <3> QED BY <1>3, <2>1, <3>1
  <2> DEFINE k == i + items[i].takes
  <2>3. i \in 1 .. n /\ i + 1 \in 1 .. n + 1
    BY <1>1, <2>1, <2>2
  <2> HIDE DEF i
  <2>4. items[i].takes \in 1 .. n + 1 - i
    BY <1>4, <2>3
  <2>5. k \in i + 1 .. n + 1 /\ (i + 1) + items[i].takes = k + 1
    BY <1>1, <2>3, <2>4
  <2>6. s[k + 1] = r[k]
    <3>1. n + 1 - k \in 0 .. n /\ ~ (j <= n + 1 - k) /\ n + 1 - (n + 1 - k) = k
      BY <1>1, <2>1, <2>3, <2>5 DEF i
    <3>2. n + 1 - k \notin Bad
      BY <1>6, <3>1
    <3> HIDE DEF k
    <3> QED BY <3>1, <3>2
  <2>7. r[i] = items[i].gives \o r[k]
    BY <1>3, <2>3
  <2>8. s[i + 1] = items[i].gives \o s[k + 1]
    <3>1. s[i + 1] = more[i + 1].gives \o s[(i + 1) + more[i + 1].takes]
      BY <1>3, <2>3
    <3>2. more[i + 1] = items[i]
      BY <1>5, <2>3
    <3> QED BY <2>5, <3>1, <3>2
  <2> QED BY <2>1, <2>6, <2>7, <2>8
<1>7. Bad = {}
  <2>1. Bad \in SUBSET Nat
    BY <1>1
  <2> HIDE DEF Bad
  <2> QED BY <1>6, <2>1, Least
<1>8. ASSUME NEW i \in 1 .. n + 1
      PROVE  s[i + 1] = r[i]
  <2>1. n + 1 - i \in 0 .. n /\ n + 1 - (n + 1 - i) = i
    BY <1>1
  <2>2. n + 1 - i \notin Bad
    BY <1>7
  <2> QED BY <2>1, <2>2
<1> QED BY <1>8 DEF n, r, s

-----------------------------------------------------------------------------
(* trim.                                                                    *)

(* Nothing is left of a text all of which is cut off.                       *)
LEMMA TrimOfNothing ==
  ASSUME NEW S, NEW s \in Seq(S), NEW chars, \A i \in 1 .. Len(s) : s[i] \in chars
  PROVE  Trim(s, chars) = <<>>
<1>1. {i \in DOMAIN s : s[i] \notin chars} = {}
  BY LenProperties
<1> QED BY <1>1 DEF Trim

(* All but the first and the last that stay, and what is between them.      *)
LEMMA TrimIs ==
  ASSUME NEW S, NEW s \in Seq(S), NEW chars,
         NEW a \in 1 .. Len(s), NEW b \in 1 .. Len(s),
         s[a] \notin chars, s[b] \notin chars,
         \A i \in 1 .. Len(s) : i < a \/ i > b => s[i] \in chars
  PROVE  Trim(s, chars) = SubSeq(s, a, b)
<1> DEFINE kept == {i \in DOMAIN s : s[i] \notin chars}
<1>1. Len(s) \in Nat /\ DOMAIN s = 1 .. Len(s)
  BY LenProperties
<1>2. kept \in SUBSET Nat /\ a \in kept /\ b \in kept
  BY <1>1
<1>3. \A i \in kept : a <= i /\ i <= b
  BY <1>1
<1>4. Min(kept) = a /\ Max(kept) = b
  <2> HIDE DEF kept
  <2> QED BY <1>2, <1>3, MinIsThat, MaxIsThat
<1> QED BY <1>2, <1>4 DEF Trim

(* Otherwise there is a first and a last that stay.                         *)
LEMMA TrimCases ==
  ASSUME NEW S, NEW s \in Seq(S), NEW chars, \E i \in 1 .. Len(s) : s[i] \notin chars
  PROVE  \E a \in 1 .. Len(s), b \in 1 .. Len(s) :
           /\ a <= b /\ s[a] \notin chars /\ s[b] \notin chars
           /\ \A i \in 1 .. Len(s) : i < a \/ i > b => s[i] \in chars
<1> DEFINE kept == {i \in 1 .. Len(s) : s[i] \notin chars}
<1>1. Len(s) \in Nat
  BY LenProperties
<1>2. kept \in SUBSET Nat /\ kept # {} /\ \A i \in kept : i <= Len(s)
  BY <1>1
<1>3. /\ Min(kept) \in kept /\ \A i \in kept : Min(kept) <= i
      /\ Max(kept) \in kept /\ \A i \in kept : i <= Max(kept)
  <2> HIDE DEF kept
  <2> QED BY <1>1, <1>2, MinIs, MaxIs
<1>4. PICK a \in kept, b \in kept : \A i \in kept : a <= i /\ i <= b
  BY <1>3
<1>5. \A i \in 1 .. Len(s) : i < a \/ i > b => s[i] \in chars
  <2>1. ASSUME NEW i \in 1 .. Len(s), i < a \/ i > b, s[i] \notin chars
        PROVE  FALSE
    <3>1. i \in kept
      BY <2>1
    <3> QED BY <1>1, <1>4, <2>1, <3>1
  <2> QED BY <2>1
<1> QED BY <1>4, <1>5

(* What is cut off at the borders before makes no difference.               *)
LEMMA TrimStrips ==
  ASSUME NEW S, NEW s \in Seq(S), NEW chars,
         NEW m \in 1 .. Len(s) + 1, NEW n \in m - 1 .. Len(s),
         \A i \in 1 .. Len(s) : i < m \/ i > n => s[i] \in chars
  PROVE  Trim(SubSeq(s, m, n), chars) = Trim(s, chars)
<1> DEFINE t == SubSeq(s, m, n)
<1>1. Len(s) \in Nat
  BY LenProperties
<1>2. /\ t \in Seq(S) /\ Len(t) = n - m + 1
      /\ \A i \in 1 .. n - m + 1 : t[i] = s[m + i - 1]
  BY PartIs
<1>3. CASE \A i \in 1 .. Len(s) : s[i] \in chars
  <2>1. \A i \in 1 .. Len(t) : t[i] \in chars
    <3>1. ASSUME NEW i \in 1 .. Len(t)
          PROVE  t[i] \in chars
      <4> HIDE DEF t
      <4>1. m + i - 1 \in 1 .. Len(s) /\ t[i] = s[m + i - 1]
        BY <1>1, <1>2
      <4> QED BY <1>3, <4>1
    <3> QED BY <3>1
  <2> HIDE DEF t
  <2>2. Trim(t, chars) = <<>> /\ Trim(s, chars) = <<>>
    BY <1>2, <1>3, <2>1, TrimOfNothing
  <2> QED BY <2>2 DEF t
<1>4. CASE \E i \in 1 .. Len(s) : s[i] \notin chars
  <2>1. PICK a \in 1 .. Len(s), b \in 1 .. Len(s) :
           /\ a <= b /\ s[a] \notin chars /\ s[b] \notin chars
           /\ \A i \in 1 .. Len(s) : i < a \/ i > b => s[i] \in chars
    BY <1>4, TrimCases
  <2>2. Trim(s, chars) = SubSeq(s, a, b)
    BY <2>1, TrimIs
  <2>3. m <= a /\ b <= n
    BY <1>1, <2>1
  <2> DEFINE c == a - m + 1
             e == b - m + 1
  <2>4. /\ c \in 1 .. n - m + 1 /\ e \in 1 .. n - m + 1
        /\ c \in 1 .. n - m + 2 /\ e \in c - 1 .. n - m + 1
        /\ m + c - 1 = a /\ m + e - 1 = b
    BY <1>1, <2>1, <2>3
  <2>5. c \in 1 .. Len(t) /\ e \in 1 .. Len(t) /\ t[c] = s[a] /\ t[e] = s[b]
    <3> HIDE DEF t, c, e
    <3> QED BY <1>2, <2>4
  <2>6. \A i \in 1 .. Len(t) : i < c \/ i > e => t[i] \in chars
    <3>1. ASSUME NEW i \in 1 .. Len(t), i < c \/ i > e
          PROVE  t[i] \in chars
      <4> HIDE DEF t
      <4>1. m + i - 1 \in 1 .. Len(s) /\ t[i] = s[m + i - 1]
        BY <1>1, <1>2
      <4>2. m + i - 1 < a \/ m + i - 1 > b
        BY <1>1, <1>2, <3>1
      <4> QED BY <2>1, <4>1, <4>2
    <3> QED BY <3>1
  <2>7. Trim(t, chars) = SubSeq(t, c, e)
    <3> HIDE DEF t, c, e
    <3> QED BY <1>2, <2>1, <2>5, <2>6, TrimIs
  <2>8. SubSeq(t, c, e) = SubSeq(s, m + c - 1, m + e - 1)
    <3> HIDE DEF c, e
    <3> QED BY <2>4, PartOfPart
  <2> QED BY <2>2, <2>4, <2>7, <2>8
<1> QED BY <1>3, <1>4

(* What is left is a text.                                                  *)
LEMMA TrimType ==
  ASSUME NEW S, NEW s \in Seq(S), NEW chars
  PROVE  Trim(s, chars) \in Seq(S)
<1>1. Len(s) \in Nat
  BY LenProperties
<1>2. CASE \A i \in 1 .. Len(s) : s[i] \in chars
  <2>1. <<>> \in Seq(S)
    BY EmptySeq
  <2> QED BY <1>2, <2>1, TrimOfNothing
<1>3. CASE \E i \in 1 .. Len(s) : s[i] \notin chars
  <2>1. PICK a \in 1 .. Len(s), b \in 1 .. Len(s) :
           /\ a <= b /\ s[a] \notin chars /\ s[b] \notin chars
           /\ \A i \in 1 .. Len(s) : i < a \/ i > b => s[i] \in chars
    BY <1>3, TrimCases
  <2>2. a \in 1 .. Len(s) + 1 /\ b \in a - 1 .. Len(s)
    BY <1>1, <2>1
  <2>3. SubSeq(s, a, b) \in Seq(S)
    BY <2>2, PartIs
  <2>4. Trim(s, chars) = SubSeq(s, a, b)
    BY <2>1, TrimIs
  <2> QED BY <2>3, <2>4
<1> QED BY <1>2, <1>3

(* What is left is what the properties ask for.                             *)
LEMMA TrimIsBare ==
  ASSUME NEW S, NEW s \in Seq(S), NEW chars
  PROVE  Bare(s, chars) = Trim(s, chars)
<1> DEFINE Holds(i, j) == i <= j + 1 /\ \A k \in DOMAIN s : s[k] \in chars \/ k \in i .. j
           Borders == {e \in (1 .. Len(s) + 1) \X (0 .. Len(s)) : Holds(e[1], e[2])}
           pieces == {SubSeq(s, e[1], e[2]) : e \in Borders}
           Ends(piece) == piece = <<>> \/ (Head(piece) \notin chars /\ Last(piece) \notin chars)
<1>1. Len(s) \in Nat /\ DOMAIN s = 1 .. Len(s)
  BY LenProperties
<1>2. ASSUME NEW i \in 1 .. Len(s) + 1, NEW j \in 0 .. Len(s), Holds(i, j)
      PROVE  SubSeq(s, i, j) \in pieces
  <2>1. <<i, j>> \in Borders
    BY <1>2
  <2>2. SubSeq(s, <<i, j>>[1], <<i, j>>[2]) = SubSeq(s, i, j)
    OBVIOUS
  <2> HIDE DEF Borders
  <2>3. \E e \in Borders : SubSeq(s, e[1], e[2]) = SubSeq(s, i, j)
    BY <2>1, <2>2
  <2> QED BY <2>3
<1>3. ASSUME NEW piece \in pieces
      PROVE  \E i \in 1 .. Len(s) + 1, j \in 0 .. Len(s) : Holds(i, j) /\ piece = SubSeq(s, i, j)
  <2>1. PICK e \in Borders : piece = SubSeq(s, e[1], e[2])
    OBVIOUS
  <2>2. e[1] \in 1 .. Len(s) + 1 /\ e[2] \in 0 .. Len(s) /\ Holds(e[1], e[2])
    OBVIOUS
  <2> QED BY <2>1, <2>2
<1> HIDE DEF pieces
<1>4. CASE \A i \in 1 .. Len(s) : s[i] \in chars
  <2>1. Trim(s, chars) = <<>>
    BY <1>4, TrimOfNothing
  <2>2. 1 \in 1 .. Len(s) + 1 /\ 0 \in 1 - 1 .. Len(s) /\ 0 \in 0 .. Len(s) /\ Holds(1, 0)
    BY <1>1, <1>4
  <2>3. SubSeq(s, 1, 0) = <<>>
    <3>1. SubSeq(s, 1, 0) \in Seq(S) /\ Len(SubSeq(s, 1, 0)) = 0
      BY <2>2, PartIs
    <3> QED BY <3>1, EmptySeq
  <2>4. <<>> \in pieces /\ Ends(<<>>)
    BY <1>2, <2>2, <2>3
  <2>5. ASSUME NEW piece \in pieces, Ends(piece)
        PROVE  piece = <<>>
    <3>1. PICK i \in 1 .. Len(s) + 1, j \in 0 .. Len(s) : Holds(i, j) /\ piece = SubSeq(s, i, j)
      BY <1>3
    <3>2. j \in i - 1 .. Len(s)
      BY <1>1, <3>1
    <3>3. /\ piece \in Seq(S) /\ Len(piece) = j - i + 1
          /\ \A k \in 1 .. j - i + 1 : piece[k] = s[i + k - 1]
      BY <3>1, <3>2, PartIs
    <3>4. ASSUME piece # <<>>
          PROVE  FALSE
      <4>1. 1 \in 1 .. j - i + 1 /\ Head(piece) = piece[1]
        BY <3>2, <3>3, <3>4, EmptySeq
      <4>2. Head(piece) = s[i] /\ i \in 1 .. Len(s)
        BY <1>1, <3>1, <3>2, <3>3, <4>1
      <4> QED BY <1>4, <2>5, <3>4, <4>2
    <3> QED BY <3>4
  <2> QED BY <2>1, <2>4, <2>5 DEF Bare, pieces
<1>5. CASE \E i \in 1 .. Len(s) : s[i] \notin chars
  <2>1. PICK a \in 1 .. Len(s), b \in 1 .. Len(s) :
           /\ a <= b /\ s[a] \notin chars /\ s[b] \notin chars
           /\ \A i \in 1 .. Len(s) : i < a \/ i > b => s[i] \in chars
    BY <1>5, TrimCases
  <2> DEFINE kept == SubSeq(s, a, b)
  <2>2. Trim(s, chars) = kept
    BY <2>1, TrimIs
  <2>3. kept \in pieces
    <3>1. Holds(a, b) /\ a \in 1 .. Len(s) + 1 /\ b \in 0 .. Len(s)
      BY <1>1, <2>1
    <3> QED BY <1>2, <3>1
  <2>4. Ends(kept)
    <3>1. a \in 1 .. Len(s) + 1 /\ b \in a - 1 .. Len(s)
      BY <1>1, <2>1
    <3>2. /\ kept \in Seq(S) /\ Len(kept) = b - a + 1
          /\ \A k \in 1 .. b - a + 1 : kept[k] = s[a + k - 1]
      BY <3>1, PartIs
    <3> HIDE DEF kept
    <3>3. Head(kept) = s[a] /\ Last(kept) = s[b]
      BY <1>1, <2>1, <3>2 DEF Last
    <3> QED BY <2>1, <3>3
  <2>5. ASSUME NEW piece \in pieces, Ends(piece)
        PROVE  piece = kept
    <3>1. PICK i \in 1 .. Len(s) + 1, j \in 0 .. Len(s) : Holds(i, j) /\ piece = SubSeq(s, i, j)
      BY <1>3
    <3>2. i <= a /\ b <= j
      BY <1>1, <2>1, <3>1
    <3>3. j \in i - 1 .. Len(s) /\ j - i + 1 \in Nat \ {0}
      BY <1>1, <2>1, <3>1, <3>2
    <3>4. /\ piece \in Seq(S) /\ Len(piece) = j - i + 1
          /\ \A k \in 1 .. j - i + 1 : piece[k] = s[i + k - 1]
      BY <3>1, <3>3, PartIs
    <3>5. Head(piece) = s[i] /\ Last(piece) = s[j] /\ piece # <<>>
      BY <1>1, <3>3, <3>4, EmptySeq DEF Last
    <3>6. s[i] \notin chars /\ s[j] \notin chars
      BY <2>5, <3>5
    <3>7. i = a /\ j = b
      BY <1>1, <2>1, <3>1, <3>2, <3>3, <3>6
    <3> QED BY <3>1, <3>7
  <2> HIDE DEF kept
  <2> QED BY <2>2, <2>3, <2>4, <2>5 DEF Bare, pieces
<1> QED BY <1>4, <1>5

LEMMA ContentIsCleaned ==
  ASSUME NEW S, NEW line \in Seq(S)
  PROVE  Content(line) = Cleaned(line)
BY TrimIsBare DEF Content, Cleaned

-----------------------------------------------------------------------------
(* SimpleConfig: what one line defines.                                     *)

(* The first of its kind is the one up to which there is one.               *)
LEMMA CountOfFirst ==
  ASSUME NEW s, NEW i \in Nat \ {0}, NEW c, s[i] = c
  PROVE  Count(s, c, i) = 1 <=> \A j \in 1 .. i - 1 : s[j] # c
<1> DEFINE X == {j \in 1 .. i : s[j] = c}
<1>1. IsFiniteSet(X)
  <2>1. 1 \in Int /\ i \in Int
    OBVIOUS
  <2>2. IsFiniteSet(1 .. i)
    BY <2>1, FS_Interval
  <2> QED BY <2>2, FS_Subset
<1>2. i \in X
  OBVIOUS
<1>3. Cardinality(X) = 1 <=> \E x : X = {x}
  BY <1>1, FS_Singleton
<1>4. (\E x : X = {x}) <=> X = {i}
  BY <1>2
<1>5. X = {i} <=> \A j \in 1 .. i - 1 : s[j] # c
  OBVIOUS
<1> QED BY <1>3, <1>4, <1>5 DEF Count

(* Where one character is found.                                            *)
LEMMA FindsOne ==
  ASSUME NEW S, NEW s \in Seq(S), NEW c
  PROVE  Finds(s, <<c>>) = {i \in 1 .. Len(s) : s[i] = c}
<1>1. Len(s) \in Nat /\ Len(<<c>>) = 1
  BY LenProperties
<1>2. ASSUME NEW i \in 1 .. Len(s)
      PROVE  SubSeq(s, i, i) = <<c>> <=> s[i] = c
  <2>1. i \in 1 .. Len(s) + 1 /\ i \in i - 1 .. Len(s)
    BY <1>1
  <2>2. /\ SubSeq(s, i, i) \in Seq(S) /\ Len(SubSeq(s, i, i)) = i - i + 1
        /\ \A k \in 1 .. i - i + 1 : SubSeq(s, i, i)[k] = s[i + k - 1]
    BY <2>1, PartIs
  <2>3. i - i + 1 = 1 /\ i + 1 - 1 = i /\ 1 \in 1 .. 1
    BY <1>1
  <2>4. Len(SubSeq(s, i, i)) = 1 /\ SubSeq(s, i, i)[1] = s[i]
    BY <2>2, <2>3
  <2>5. SubSeq(s, i, i) = <<c>> => s[i] = c
    BY <2>4
  <2>6. s[i] \in S
    BY ElementOfSeq
  <2>7. ASSUME s[i] = c
        PROVE  SubSeq(s, i, i) = <<c>>
    <3>1. <<c>> \in Seq(S) /\ Len(<<c>>) = 1 /\ <<c>>[1] = c
      BY <2>6, <2>7
    <3>2. \A k \in 1 .. Len(SubSeq(s, i, i)) : SubSeq(s, i, i)[k] = <<c>>[k]
      BY <2>4, <2>7, <3>1
    <3> QED BY <2>2, <2>4, <3>1, <3>2, SeqEqual
  <2> QED BY <2>5, <2>7
<1>3. Finds(s, <<c>>) = {i \in 1 .. Len(s) : SubSeq(s, i, i) = <<c>>}
  <2>1. Len(s) - Len(<<c>>) + 1 = Len(s)
    BY <1>1
  <2>2. \A i \in 1 .. Len(s) : i + Len(<<c>>) - 1 = i
    BY <1>1
  <2> QED BY <2>1, <2>2 DEF Finds
<1> QED BY <1>2, <1>3

(* What is before and behind a place in a part, as parts of what is before  *)
(* and behind that place in the whole.                                      *)
LEMMA BothSides ==
  ASSUME NEW S, NEW s \in Seq(S), NEW a \in 1 .. Len(s), NEW b \in 1 .. Len(s),
         NEW i \in a .. b, NEW at, at = i - a + 1, NEW n, n = b - a + 1
  PROVE  /\ SubSeq(SubSeq(s, 1, i - 1), a, i - 1) = SubSeq(SubSeq(s, a, b), 1, at - 1)
         /\ SubSeq(SubSeq(s, i + 1, Len(s)), 1, b - i) = SubSeq(SubSeq(s, a, b), at + 1, n)
<1>1. Len(s) \in Nat
  BY LenProperties
<1>2. SubSeq(SubSeq(s, 1, i - 1), a, i - 1) = SubSeq(s, a, i - 1)
  <2> DEFINE j == i - 1
  <2>1. 1 \in 1 .. Len(s) + 1 /\ j \in 1 - 1 .. Len(s)
        /\ a \in 1 .. j - 1 + 2 /\ j \in a - 1 .. j - 1 + 1
    BY <1>1
  <2>2. 1 + a - 1 = a /\ 1 + j - 1 = j
    BY <1>1
  <2> HIDE DEF j
  <2>3. SubSeq(SubSeq(s, 1, j), a, j) = SubSeq(s, 1 + a - 1, 1 + j - 1)
    BY <2>1, PartOfPart
  <2> QED BY <2>2, <2>3 DEF j
<1>3. SubSeq(SubSeq(s, a, b), 1, at - 1) = SubSeq(s, a, i - 1)
  <2> DEFINE j == at - 1
  <2>1. a \in 1 .. Len(s) + 1 /\ b \in a - 1 .. Len(s)
        /\ 1 \in 1 .. b - a + 2 /\ j \in 1 - 1 .. b - a + 1
    BY <1>1
  <2>2. a + 1 - 1 = a /\ a + j - 1 = i - 1
    BY <1>1
  <2> HIDE DEF j
  <2>3. SubSeq(SubSeq(s, a, b), 1, j) = SubSeq(s, a + 1 - 1, a + j - 1)
    BY <2>1, PartOfPart
  <2> QED BY <2>2, <2>3 DEF j
<1>4. SubSeq(SubSeq(s, i + 1, Len(s)), 1, b - i) = SubSeq(s, i + 1, b)
  <2> DEFINE j == i + 1
             k == b - i
             l == Len(s)
  <2>1. j \in 1 .. l + 1 /\ l \in j - 1 .. l
        /\ 1 \in 1 .. l - j + 2 /\ k \in 1 - 1 .. l - j + 1
    BY <1>1
  <2>2. j + 1 - 1 = j /\ j + k - 1 = b
    BY <1>1
  <2> HIDE DEF j, k
  <2>3. SubSeq(SubSeq(s, j, l), 1, k) = SubSeq(s, j + 1 - 1, j + k - 1)
    BY <2>1, PartOfPart
  <2> QED BY <2>2, <2>3 DEF j, k
<1>5. SubSeq(SubSeq(s, a, b), at + 1, n) = SubSeq(s, i + 1, b)
  <2> DEFINE j == at + 1
  <2>1. a \in 1 .. Len(s) + 1 /\ b \in a - 1 .. Len(s)
        /\ j \in 1 .. b - a + 2 /\ n \in j - 1 .. b - a + 1
    BY <1>1
  <2>2. a + j - 1 = i + 1 /\ a + n - 1 = b
    BY <1>1
  <2> HIDE DEF j
  <2>3. SubSeq(SubSeq(s, a, b), j, n) = SubSeq(s, a + j - 1, a + n - 1)
    BY <2>1, PartOfPart
  <2> QED BY <2>2, <2>3 DEF j
<1> QED BY <1>2, <1>3, <1>4, <1>5

(* Whether the line is cleaned of its line end first makes no difference.   *)
LEMMA LineDefines ==
  ASSUME NEW line \in Seq(STRING)
  PROVE  LET clean == Cleaned(line)
             equals == Finds(clean, <<"=">>)
             at == Min(equals)
         IN  Assigned(line) =
               IF PassedOver(clean) \/ equals = {} THEN {}
               ELSE {<<Trim(SubSeq(clean, 1, at - 1), WhiteSpaces),
                       Trim(SubSeq(clean, at + 1, Len(clean)), WhiteSpaces)>>}
<1> DEFINE clean == Cleaned(line)
           equals == Finds(clean, <<"=">>)
           at == Min(equals)
           J == {j \in DOMAIN line : line[j] = "=" /\ Count(line, "=", j) = 1
                                     /\ Head(clean) # "#"}
           Pair(i) == <<Trim(SubSeq(line, 1, i - 1), WhiteSpaces),
                        Trim(SubSeq(line, i + 1, Len(line)), WhiteSpaces)>>
<1>1. Len(line) \in Nat /\ DOMAIN line = 1 .. Len(line)
  BY LenProperties
<1>2. Assigned(line) = {Pair(i) : i \in J}
  <2>1. ASSUME NEW i \in 1 .. Len(line)
        PROVE  /\ Bare(SubSeq(line, 1, i - 1), WhiteSpaces)
                    = Trim(SubSeq(line, 1, i - 1), WhiteSpaces)
               /\ Bare(SubSeq(line, i + 1, Len(line)), WhiteSpaces)
                    = Trim(SubSeq(line, i + 1, Len(line)), WhiteSpaces)
    <3>1. /\ 1 \in 1 .. Len(line) + 1 /\ i - 1 \in 1 - 1 .. Len(line)
          /\ i + 1 \in 1 .. Len(line) + 1 /\ Len(line) \in i + 1 - 1 .. Len(line)
      BY <1>1
    <3>2. SubSeq(line, 1, i - 1) \in Seq(STRING) /\ SubSeq(line, i + 1, Len(line)) \in Seq(STRING)
      BY <3>1, PartIs
    <3> QED BY <3>2, TrimIsBare
  <2>2. Content(line) = clean
    BY ContentIsCleaned
  <2> QED BY <1>1, <2>1, <2>2 DEF Assigned
<1>3. J = {} => Assigned(line) = {}
  BY <1>2
<1>4. CASE \A i \in 1 .. Len(line) : line[i] \in {"cr"}
  <2>1. clean = <<>>
    BY <1>4, TrimOfNothing DEF Cleaned
  <2>2. J = {}
    BY <1>1, <1>4
  <2> QED BY <1>3, <2>1, <2>2 DEF PassedOver
<1>5. CASE \E i \in 1 .. Len(line) : line[i] \notin {"cr"}
  <2>1. PICK a \in 1 .. Len(line), b \in 1 .. Len(line) :
           /\ a <= b /\ line[a] \notin {"cr"} /\ line[b] \notin {"cr"}
           /\ \A i \in 1 .. Len(line) : i < a \/ i > b => line[i] \in {"cr"}
    BY <1>5, TrimCases
  <2>2. clean = SubSeq(line, a, b)
    BY <2>1, TrimIs DEF Cleaned
  <2>3. a \in 1 .. Len(line) + 1 /\ b \in a - 1 .. Len(line)
    BY <1>1, <2>1
  <2>4. /\ clean \in Seq(STRING) /\ Len(clean) = b - a + 1
        /\ \A i \in 1 .. b - a + 1 : clean[i] = line[a + i - 1]
    BY <2>2, <2>3, PartIs
  <2> HIDE DEF clean
  <2>5. clean # <<>> /\ Head(clean) = clean[1]
    BY <1>1, <2>1, <2>4
  <2>6. equals = {i \in 1 .. b - a + 1 : clean[i] = "="}
    BY <2>4, FindsOne
  <2> HIDE DEF equals
  <2>7. \A j \in J : j \in a .. b /\ j - a + 1 \in equals
    <3>1. ASSUME NEW j \in J
          PROVE  j \in a .. b /\ j - a + 1 \in equals
      <4>1. j \in 1 .. Len(line) /\ line[j] = "="
        BY <1>1
      <4>2. ~ (j < a \/ j > b)
        BY <2>1, <4>1
      <4>3. j \in a .. b /\ j - a + 1 \in 1 .. b - a + 1 /\ a + (j - a + 1) - 1 = j
        BY <1>1, <2>1, <4>1, <4>2
      <4> QED BY <2>4, <2>6, <4>1, <4>3
    <3> QED BY <3>1
  <2>8. CASE clean[1] = "#" \/ equals = {}
    <3>1. J = {}
      BY <2>5, <2>7, <2>8
    <3>2. PassedOver(clean) \/ equals = {}
      BY <2>8 DEF PassedOver
    <3> QED BY <1>3, <3>1, <3>2 DEF clean, equals
  <2>9. CASE clean[1] # "#" /\ equals # {}
    <3> DEFINE i == a + at - 1
    <3>1. at \in equals /\ \A k \in equals : at <= k
      <4>1. equals \in SUBSET Nat
        BY <2>6
      <4> QED BY <2>9, <4>1, MinIs
    <3>2. at \in 1 .. b - a + 1 /\ clean[at] = "="
      BY <2>6, <3>1
    <3> HIDE DEF at
    <3>3. i \in a .. b /\ line[i] = "=" /\ i \in 1 .. Len(line)
      BY <1>1, <2>1, <2>4, <3>2
    <3>4. \A k \in 1 .. i - 1 : line[k] # "="
      <4>1. ASSUME NEW k \in 1 .. i - 1, line[k] = "="
            PROVE  FALSE
        <5>1. k \in 1 .. Len(line) /\ k <= b
          BY <1>1, <3>3
        <5>2. ~ (k < a \/ k > b)
          BY <2>1, <4>1, <5>1
        <5>3. k - a + 1 \in 1 .. b - a + 1 /\ a + (k - a + 1) - 1 = k
          BY <1>1, <2>1, <5>1, <5>2
        <5>4. k - a + 1 \in equals
          BY <2>4, <2>6, <4>1, <5>3
        <5>5. at <= k - a + 1
          BY <3>1, <5>4
        <5> QED BY <1>1, <2>1, <3>2, <5>1, <5>5
      <4> QED BY <4>1
    <3>5. i \in J
      <4>1. i \in Nat \ {0}
        BY <3>3
      <4>2. Count(line, "=", i) = 1
        BY <3>3, <3>4, <4>1, CountOfFirst
      <4> QED BY <1>1, <2>5, <2>9, <3>3, <4>2
    <3>6. ASSUME NEW j \in J
          PROVE  j = i
      <4>1. j \in 1 .. Len(line) /\ line[j] = "=" /\ Count(line, "=", j) = 1 /\ j \in Nat \ {0}
        BY <1>1
      <4>2. \A k \in 1 .. j - 1 : line[k] # "="
        BY <4>1, CountOfFirst
      <4>3. ~ (i < j) /\ ~ (j < i)
        BY <1>1, <3>3, <3>4, <4>1, <4>2
      <4> QED BY <1>1, <3>3, <4>1, <4>3
    <3>7. J = {i}
      BY <3>5, <3>6
    <3>8. Assigned(line) = {Pair(i)}
      BY <1>2, <3>7
    <3>9. /\ SubSeq(SubSeq(line, 1, i - 1), a, i - 1) = SubSeq(SubSeq(line, a, b), 1, at - 1)
           /\ SubSeq(SubSeq(line, i + 1, Len(line)), 1, b - i)
                = SubSeq(SubSeq(line, a, b), at + 1, Len(clean))
      <4>1. at \in Int /\ at = i - a + 1
        BY <1>1, <2>1, <3>2
      <4> HIDE DEF i
      <4> QED BY ONLY <2>1, <2>4, <3>3, <4>1, line \in Seq(STRING), BothSides
    <3>10. Trim(SubSeq(line, 1, i - 1), WhiteSpaces)
            = Trim(SubSeq(clean, 1, at - 1), WhiteSpaces)
      <4> DEFINE t == SubSeq(line, 1, i - 1)
      <4>1. 1 \in 1 .. Len(line) + 1 /\ i - 1 \in 1 - 1 .. Len(line)
        BY <1>1, <3>3
      <4>2. /\ t \in Seq(STRING) /\ Len(t) = i - 1 - 1 + 1
            /\ \A k \in 1 .. i - 1 - 1 + 1 : t[k] = line[1 + k - 1]
        BY <4>1, PartIs
      <4>3. i - 1 - 1 + 1 = i - 1 /\ \A k \in 1 .. i - 1 : 1 + k - 1 = k /\ k \in 1 .. Len(line)
        BY <1>1, <3>3
      <4>4. a \in 1 .. i /\ i - 1 \in a - 1 .. i - 1
        BY <1>1, <3>3
      <4>5. \A k \in 1 .. i - 1 : k < a \/ k > i - 1 => t[k] \in WhiteSpaces
        <5>1. ASSUME NEW k \in 1 .. i - 1, k < a \/ k > i - 1
              PROVE  t[k] \in WhiteSpaces
          <6>1. t[k] = line[k] /\ k \in 1 .. Len(line)
            BY <4>2, <4>3
          <6>2. k < a
            BY <1>1, <3>3, <5>1
          <6>3. line[k] = "cr"
            BY <2>1, <6>1, <6>2
          <6> QED BY <6>1, <6>3 DEF WhiteSpaces
        <5> QED BY <5>1
      <4>6. Trim(SubSeq(t, a, i - 1), WhiteSpaces) = Trim(t, WhiteSpaces)
        <5>1. a \in 1 .. Len(t) + 1 /\ i - 1 \in a - 1 .. Len(t)
          BY <1>1, <3>3, <4>2, <4>3, <4>4
        <5>2. \A k \in 1 .. Len(t) : k < a \/ k > i - 1 => t[k] \in WhiteSpaces
          BY <4>2, <4>3, <4>5
        <5> HIDE DEF t
        <5> QED BY <4>2, <5>1, <5>2, TrimStrips
      <4>7. SubSeq(t, a, i - 1) = SubSeq(clean, 1, at - 1)
        BY <2>2, <3>9
      <4> QED BY <4>6, <4>7
    <3>11. Trim(SubSeq(line, i + 1, Len(line)), WhiteSpaces)
             = Trim(SubSeq(clean, at + 1, Len(clean)), WhiteSpaces)
      <4> DEFINE t == SubSeq(line, i + 1, Len(line))
                 n == Len(line) - i
      <4>1. i + 1 \in 1 .. Len(line) + 1 /\ Len(line) \in (i + 1) - 1 .. Len(line)
        BY <1>1, <3>3
      <4>2. /\ t \in Seq(STRING) /\ Len(t) = Len(line) - (i + 1) + 1
            /\ \A k \in 1 .. Len(line) - (i + 1) + 1 : t[k] = line[i + 1 + k - 1]
        BY <4>1, PartIs
      <4>3. /\ Len(line) - (i + 1) + 1 = n
            /\ \A k \in 1 .. n : i + 1 + k - 1 = i + k /\ i + k \in 1 .. Len(line)
        BY <1>1, <3>3
      <4>4. b - i \in 0 .. n /\ n \in Nat
        BY <1>1, <2>1, <3>3
      <4>5. \A k \in 1 .. n : k < 1 \/ k > b - i => t[k] \in WhiteSpaces
        <5>1. ASSUME NEW k \in 1 .. n, k < 1 \/ k > b - i
              PROVE  t[k] \in WhiteSpaces
          <6>1. t[k] = line[i + k] /\ i + k \in 1 .. Len(line)
            BY <4>2, <4>3
          <6>2. i + k > b
            BY <1>1, <2>1, <3>3, <5>1
          <6>3. line[i + k] = "cr"
            BY <2>1, <6>1, <6>2
          <6> QED BY <6>1, <6>3 DEF WhiteSpaces
        <5> QED BY <5>1
      <4>6. Trim(SubSeq(t, 1, b - i), WhiteSpaces) = Trim(t, WhiteSpaces)
        <5>1. 1 \in 1 .. Len(t) + 1 /\ b - i \in 1 - 1 .. Len(t)
          BY <4>2, <4>3, <4>4
        <5>2. \A k \in 1 .. Len(t) : k < 1 \/ k > b - i => t[k] \in WhiteSpaces
          BY <4>2, <4>3, <4>5
        <5> HIDE DEF t
        <5> QED BY <4>2, <5>1, <5>2, TrimStrips
      <4>7. SubSeq(t, 1, b - i) = SubSeq(clean, at + 1, Len(clean))
        BY <2>2, <3>9
      <4> QED BY <4>6, <4>7
    <3>12. ~ (PassedOver(clean) \/ equals = {})
      BY <2>5, <2>9 DEF PassedOver
    <3>13. Assigned(line) = {<<Trim(SubSeq(clean, 1, at - 1), WhiteSpaces),
                               Trim(SubSeq(clean, at + 1, Len(clean)), WhiteSpaces)>>}
      BY <3>8, <3>10, <3>11
    <3> HIDE DEF Pair, i, J
    <3> QED BY <3>12, <3>13 DEF at, clean, equals
  <2> QED BY <2>8, <2>9
<1> QED BY <1>4, <1>5

(* The keys the lines of a file define.                                     *)
KeysOf(file) == {pair[1] : pair \in UNION {Assigned(file[n]) : n \in DOMAIN file}}

(* A configuration d is that of a file.                                     *)
IsConfigOf(d, file) ==
  /\ DOMAIN d = KeysOf(file)
  /\ \A key \in KeysOf(file) : <<key, d[key]>> \in Assigned(file[Min(Defining(file, key))])

(* A key is defined by a line of its own.                                   *)
LEMMA KeysAreDefined ==
  ASSUME NEW file, NEW key
  PROVE  key \in KeysOf(file) <=> Defining(file, key) # {}
  BY DEF KeysOf, Defining

(* Lines that define a key stay where they are when one is read more.       *)
PairsFor(line, key) == {pair \in Assigned(line) : pair[1] = key}

(* A line more adds what it defines, except for keys there are.             *)
LEMMA OneLineMore ==
  ASSUME NEW file \in Seq(Lines), NEW line \in Lines, NEW key
  PROVE  /\ Defining(Append(file, line), key) =
              Defining(file, key)
                \union (IF PairsFor(line, key) # {} THEN {Len(file) + 1} ELSE {})
         /\ Defining(file, key) # {} =>
              /\ Min(Defining(Append(file, line), key)) = Min(Defining(file, key))
              /\ Append(file, line)[Min(Defining(file, key))] = file[Min(Defining(file, key))]
         /\ Defining(file, key) = {} /\ PairsFor(line, key) # {} =>
              Append(file, line)[Min(Defining(Append(file, line), key))] = line
<1> DEFINE more == Append(file, line)
           own == PairsFor(line, key)
           D == Defining(file, key)
           E == Defining(more, key)
<1>1. /\ Len(file) \in Nat /\ DOMAIN file = 1 .. Len(file)
      /\ more \in Seq(Lines) /\ Len(more) = Len(file) + 1
      /\ \A n \in 1 .. Len(file) : more[n] = file[n]
      /\ more[Len(file) + 1] = line
  BY LenProperties, AppendProperties
<1>2. DOMAIN more = 1 .. Len(file) + 1
  BY <1>1, LenProperties
<1> HIDE DEF more
<1>3. D = {n \in 1 .. Len(file) : \E pair \in Assigned(file[n]) : pair[1] = key}
  BY <1>1 DEF Defining
<1>4. E = {n \in 1 .. Len(file) + 1 : \E pair \in Assigned(more[n]) : pair[1] = key}
  BY <1>2 DEF Defining
<1> HIDE DEF D, E
<1>5. E = D \union (IF own # {} THEN {Len(file) + 1} ELSE {})
  <2>1. ASSUME NEW n \in 1 .. Len(file)
        PROVE  n \in E <=> n \in D
    BY <1>1, <1>3, <1>4
  <2>2. Len(file) + 1 \in E <=> own # {}
    <3>1. Len(file) + 1 \in 1 .. Len(file) + 1
      BY <1>1
    <3>2. Len(file) + 1 \in E <=> \E pair \in Assigned(line) : pair[1] = key
      BY <1>1, <1>4, <3>1
    <3> QED BY <3>2 DEF PairsFor
  <2>3. 1 .. Len(file) + 1 = (1 .. Len(file)) \union {Len(file) + 1}
    BY <1>1
  <2>4. Len(file) + 1 \notin 1 .. Len(file)
    BY <1>1
  <2>5. D \subseteq 1 .. Len(file) /\ E \subseteq 1 .. Len(file) + 1
    BY <1>3, <1>4
  <2> QED BY ONLY <2>1, <2>2, <2>3, <2>4, <2>5
<1>6. D \in SUBSET (1 .. Len(file)) /\ D \in SUBSET Nat
  BY <1>1, <1>3
<1>7. ASSUME D # {}
      PROVE  Min(E) = Min(D) /\ more[Min(D)] = file[Min(D)]
  <2>1. Min(D) \in D /\ \A m \in D : Min(D) <= m
    BY <1>6, <1>7, MinIs
  <2>2. Min(D) \in 1 .. Len(file)
    BY <1>6, <2>1
  <2>3. Len(file) + 1 \in Nat /\ Min(D) <= Len(file) + 1
    BY <1>1, <2>2
  <2>4. E \in SUBSET Nat /\ Min(D) \in E /\ \A m \in E : Min(D) <= m
    BY <1>5, <1>6, <2>1, <2>3
  <2> QED BY <1>1, <2>2, <2>4, MinIsThat
<1>8. ASSUME D = {}, own # {}
      PROVE  more[Min(E)] = line
  <2>1. E = {Len(file) + 1}
    BY <1>5, <1>8
  <2>2. Min(E) = Len(file) + 1
    BY <1>1, <2>1, MinIsThat
  <2> QED BY <1>1, <2>2
<1> QED BY <1>5, <1>7, <1>8 DEF more, D, E

(* A line that defines nothing.                                             *)
LEMMA IdleLine ==
  ASSUME NEW file \in Seq(Lines), NEW line \in Lines, NEW d,
         IsConfigOf(d, file), Assigned(line) = {}
  PROVE  IsConfigOf(d, Append(file, line))
<1> DEFINE more == Append(file, line)
<1>1. \A key : /\ Defining(more, key) = Defining(file, key)
               /\ Defining(file, key) # {} =>
                    more[Min(Defining(file, key))] = file[Min(Defining(file, key))]
  <2>1. ASSUME NEW key
        PROVE  /\ Defining(more, key) = Defining(file, key)
               /\ Defining(file, key) # {} =>
                    more[Min(Defining(file, key))] = file[Min(Defining(file, key))]
    <3>1. PairsFor(line, key) = {}
      BY DEF PairsFor
    <3>2. Defining(more, key) = Defining(file, key)
                                  \union (IF PairsFor(line, key) # {} THEN {Len(file) + 1} ELSE {})
      BY OneLineMore
    <3>3. Defining(file, key) # {} =>
            more[Min(Defining(file, key))] = file[Min(Defining(file, key))]
      BY OneLineMore
    <3> QED BY <3>1, <3>2, <3>3
  <2> QED BY <2>1
<1> HIDE DEF more
<1>2. KeysOf(more) = KeysOf(file)
  <2>1. \A key : key \in KeysOf(more) <=> key \in KeysOf(file)
    BY <1>1, KeysAreDefined
  <2> QED BY <2>1
<1>3. \A key \in KeysOf(file) : <<key, d[key]>> \in Assigned(more[Min(Defining(more, key))])
  <2>1. ASSUME NEW key \in KeysOf(file)
        PROVE  <<key, d[key]>> \in Assigned(more[Min(Defining(more, key))])
    <3>1. more[Min(Defining(more, key))] = file[Min(Defining(file, key))]
      BY <1>1, KeysAreDefined
    <3> QED BY <3>1 DEF IsConfigOf
  <2> QED BY <2>1
<1> QED BY <1>2, <1>3 DEF IsConfigOf, more

(* A line that defines a key, which may be there already.                   *)
WithPair(d, k, v) == [x \in DOMAIN d \union {k} |-> IF x \in DOMAIN d THEN d[x] ELSE v]

(* A line with "=" defines its key, if nothing before it did.               *)
LEMMA DefiningLine ==
  ASSUME NEW file \in Seq(Lines), NEW line \in Lines, NEW d, NEW k, NEW v,
         IsConfigOf(d, file), Assigned(line) = {<<k, v>>}
  PROVE  IsConfigOf(WithPair(d, k, v), Append(file, line))
<1> DEFINE more == Append(file, line)
           f == [x \in DOMAIN d \union {k} |-> IF x \in DOMAIN d THEN d[x] ELSE v]
<1>2. ASSUME NEW key
      PROVE  /\ Defining(more, key) = Defining(file, key)
                                        \union (IF key = k THEN {Len(file) + 1} ELSE {})
             /\ Defining(file, key) # {} =>
                  /\ Min(Defining(more, key)) = Min(Defining(file, key))
                  /\ more[Min(Defining(file, key))] = file[Min(Defining(file, key))]
             /\ Defining(file, key) = {} /\ key = k =>
                  more[Min(Defining(more, key))] = line
  <2>1. PairsFor(line, key) # {} <=> key = k
    <3>1. key = k => <<k, v>> \in PairsFor(line, key)
      BY DEF PairsFor
    <3>2. \A pair \in PairsFor(line, key) : pair = <<k, v>> /\ pair[1] = key
      BY DEF PairsFor
    <3> QED BY <3>1, <3>2
  <2> QED BY <2>1, OneLineMore
<1> HIDE DEF more
<1>3. KeysOf(more) = KeysOf(file) \union {k}
  <2>1. ASSUME NEW key
        PROVE  key \in KeysOf(more) <=> key \in KeysOf(file) \/ key = k
    BY <1>2, KeysAreDefined
  <2> QED BY <2>1
<1>4. DOMAIN d = KeysOf(file)
  BY DEF IsConfigOf
<1>5. ASSUME NEW key \in KeysOf(more)
      PROVE  <<key, f[key]>> \in Assigned(more[Min(Defining(more, key))])
  <2>1. CASE key \in KeysOf(file)
    <3>1. more[Min(Defining(more, key))] = file[Min(Defining(file, key))]
      BY <1>2, <2>1, KeysAreDefined
    <3>2. f[key] = d[key]
      BY <1>4, <2>1
    <3>3. <<key, d[key]>> \in Assigned(file[Min(Defining(file, key))])
      BY <2>1 DEF IsConfigOf
    <3> HIDE DEF f
    <3> QED BY <3>1, <3>2, <3>3
  <2>2. CASE key \notin KeysOf(file)
    <3>1. key = k /\ Defining(file, key) = {}
      BY <1>3, <2>2, KeysAreDefined
    <3>2. more[Min(Defining(more, key))] = line
      BY <1>2, <3>1
    <3>3. f[key] = v
      BY <1>4, <2>2, <3>1
    <3> HIDE DEF f
    <3> QED BY <3>1, <3>2, <3>3
  <2> QED BY <2>1, <2>2
<1>6. DOMAIN f = KeysOf(more)
  BY <1>3, <1>4
<1> HIDE DEF f
<1>7. IsConfigOf(f, more)
  BY <1>5, <1>6 DEF IsConfigOf
<1> QED BY <1>7 DEF f, more, WithPair

(* The invariant: what was seen are lines, and the property.                *)
ConfigInv ==
  /\ seen \in [csv : Seq(Lines), config : Seq(Lines)]
  /\ IsConfigOf(data, seen.config)

(* The invariant says what ConfigIsTheLastFile says.                        *)
LEMMA ConfigInvSays == ConfigInv => ConfigIsTheLastFile
  BY DEF ConfigInv, IsConfigOf, KeysOf, ConfigIsTheLastFile

(* A configuration that was not read is empty.                              *)
LEMMA NothingRead == IsConfigOf(NoData, <<>>)
<1>1. KeysOf(<<>>) = {}
  BY DEF KeysOf
<1>2. DOMAIN NoData = {}
  BY DEF NoData
<1> QED BY <1>1, <1>2 DEF IsConfigOf

(* Only the lines of a configuration file change what is seen of one.       *)
LEMMA ConfigLineStep ==
  ASSUME ConfigInv, NEW line \in Lines, ConfigLine(line)
  PROVE  ConfigInv'
<1> DEFINE clean == Cleaned(line)
           equals == Finds(clean, <<"=">>)
           at == Min(equals)
           k == Trim(SubSeq(clean, 1, at - 1), WhiteSpaces)
           v == Trim(SubSeq(clean, at + 1, Len(clean)), WhiteSpaces)
<1>1. line \in Seq(STRING)
  BY FileAssumption
<1>2. Assigned(line) = IF PassedOver(clean) \/ equals = {} THEN {} ELSE {<<k, v>>}
  BY <1>1, LineDefines
<1>3. data' = IF PassedOver(clean) \/ equals = {} THEN data ELSE Inserted(k, v)
  BY DEF ConfigLine
<1>4. seen' = [seen EXCEPT !["config"] = Append(seen["config"], line)]
  BY DEF ConfigLine, ReadsLine
<1> HIDE DEF clean, equals, at, k, v
<1>5. seen.config \in Seq(Lines) /\ seen.csv \in Seq(Lines) /\ IsConfigOf(data, seen.config)
  BY DEF ConfigInv
<1>6. Append(seen.config, line) \in Seq(Lines)
  BY <1>5, AppendProperties
<1>7. /\ seen' \in [csv : Seq(Lines), config : Seq(Lines)]
      /\ seen'.config = Append(seen.config, line)
  BY <1>4, <1>5, <1>6 DEF ConfigInv
<1>8. IsConfigOf(data', Append(seen.config, line))
  <2>1. CASE PassedOver(clean) \/ equals = {}
    <3>1. Assigned(line) = {} /\ data' = data
      BY <1>2, <1>3, <2>1
    <3> QED BY <1>5, <3>1, IdleLine
  <2>2. CASE ~ (PassedOver(clean) \/ equals = {})
    <3>1. Assigned(line) = {<<k, v>>} /\ data' = WithPair(data, k, v)
      BY <1>2, <1>3, <2>2 DEF Inserted, WithPair
    <3> QED BY <1>5, <3>1, DefiningLine
  <2> QED BY <2>1, <2>2
<1> QED BY <1>7, <1>8 DEF ConfigInv

(* Opening a file, or not finding one, starts from nothing.                 *)
LEMMA ConfigStartsAfresh ==
  ASSUME ConfigInv, ConfigFindsNone \/ ConfigOpens
  PROVE  ConfigInv'
<1>1. data' = NoData /\ seen' = [seen EXCEPT !["config"] = <<>>]
  BY DEF ConfigFindsNone, ConfigOpens, Opens
<1>2. <<>> \in Seq(Lines)
  BY EmptySeq
<1>3. seen' \in [csv : Seq(Lines), config : Seq(Lines)] /\ seen'.config = <<>>
  BY <1>1, <1>2 DEF ConfigInv
<1> QED BY <1>1, <1>3, NothingRead DEF ConfigInv

(* Reading a table does not touch the configuration.                        *)
LEMMA TableLeavesConfig ==
  ASSUME ConfigInv,
         \/ \E separator \in Delimiters : CsvOpens(separator)
         \/ \E line \in Lines : CsvLine(line)
  PROVE  ConfigInv'
<1>1. data' = data
  BY DEF CsvOpens, CsvLine
<1>2. PICK lines \in Seq(Lines) : seen' = [seen EXCEPT !["csv"] = lines]
  <2>1. ASSUME NEW separator \in Delimiters, CsvOpens(separator)
        PROVE  \E lines \in Seq(Lines) : seen' = [seen EXCEPT !["csv"] = lines]
    <3>1. <<>> \in Seq(Lines) /\ seen' = [seen EXCEPT !["csv"] = <<>>]
      BY <2>1, EmptySeq DEF CsvOpens, Opens
    <3> QED BY <3>1
  <2>2. ASSUME NEW line \in Lines, CsvLine(line)
        PROVE  \E lines \in Seq(Lines) : seen' = [seen EXCEPT !["csv"] = lines]
    <3>1. seen.csv \in Seq(Lines)
      BY DEF ConfigInv
    <3>2. Append(seen.csv, line) \in Seq(Lines)
      BY <3>1, AppendProperties
    <3>3. seen' = [seen EXCEPT !["csv"] = Append(seen["csv"], line)]
      BY <2>2 DEF CsvLine, ReadsLine
    <3> QED BY <3>2, <3>3
  <2> QED BY <2>1, <2>2
<1>3. /\ seen' \in [csv : Seq(Lines), config : Seq(Lines)]
      /\ seen'.config = seen.config
  BY <1>2 DEF ConfigInv
<1> QED BY <1>1, <1>3 DEF ConfigInv

(* Every step keeps the invariant.                                          *)
LEMMA ConfigInvInductive ==
  ASSUME ConfigInv, [FileNext]_fileVars
  PROVE  ConfigInv'
<1>1. ASSUME NEW line \in Lines, ConfigLine(line)
      PROVE  ConfigInv'
  BY <1>1, ConfigLineStep
<1>2. CASE ConfigFindsNone \/ ConfigOpens
  BY <1>2, ConfigStartsAfresh
<1>3. CASE \/ \E separator \in Delimiters : CsvOpens(separator)
           \/ \E line \in Lines : CsvLine(line)
  BY <1>3, TableLeavesConfig
<1>4. CASE \/ CsvRefuses \/ CsvEnds \/ ConfigEnds \/ UNCHANGED fileVars
           \/ \E line \in QuotedLines : AskSplitWithQuot(line)
  <2>1. data' = data /\ seen' = seen
    BY <1>4 DEF CsvRefuses, CsvEnds, ConfigEnds, AskSplitWithQuot, fileVars
  <2> QED BY <2>1 DEF ConfigInv
<1> QED BY <1>1, <1>2, <1>3, <1>4 DEF FileNext, LoadNext

(* After any number of loads, of files of any length, the configuration     *)
(* holds the keys that the lines of the last file define, each with the     *)
(* value of the first line that defines it.                                 *)
THEOREM ConfigIsTheLastFileHolds == FileSpec => []ConfigIsTheLastFile
<1>1. FileInit => ConfigInv
  <2> SUFFICES ASSUME FileInit PROVE ConfigInv
    OBVIOUS
  <2>1. <<>> \in Seq(Lines)
    BY EmptySeq
  <2>2. data = NoData /\ seen = [csv |-> <<>>, config |-> <<>>]
    BY DEF FileInit
  <2> QED BY <2>1, <2>2, NothingRead DEF ConfigInv
<1>2. ConfigInv /\ [FileNext]_fileVars => ConfigInv'
  BY ConfigInvInductive
<1> QED BY <1>1, <1>2, ConfigInvSays, PTL DEF FileSpec

-----------------------------------------------------------------------------
(* split, split_with_quot and join.                                         *)

(* Characters; the provers do not know of a literal that it is a string.    *)
Chars == STRING \union {"comma"}

(* ConcatAssociative for texts.                                             *)
LEMMA TextsAssociate ==
  ASSUME NEW s \in Seq(Chars), NEW t \in Seq(Chars), NEW u \in Seq(Chars)
  PROVE  (s \o t) \o u = s \o (t \o u)
  BY ConcatAssociative

(* The items of a join.                                                     *)
LEMMA JoinedFits ==
  ASSUME NEW fields \in Seq(Seq(Chars)), NEW sep \in Seq(Chars)
  PROVE  /\ Fit(Joined(fields, sep), Chars)
         /\ Len(Joined(fields, sep)) = Len(fields)
         /\ \A i \in 1 .. Len(fields) :
              Joined(fields, sep)[i]
                = [takes |-> 1, gives |-> IF i < Len(fields) THEN fields[i] \o sep
                                          ELSE fields[i]]
<1> DEFINE n == Len(fields)
           gives(i) == IF i < n THEN fields[i] \o sep ELSE fields[i]
           item(i) == [takes |-> 1, gives |-> gives(i)]
           items == [i \in 1 .. n |-> item(i)]
<1>1. n \in Nat
  BY LenProperties
<1>2. ASSUME NEW i \in 1 .. n
      PROVE  gives(i) \in Seq(Chars)
  <2>1. fields[i] \in Seq(Chars)
    BY ElementOfSeq
  <2> DEFINE both == fields[i] \o sep
  <2>2. both \in Seq(Chars)
    BY <2>1, ConcatProperties
  <2> HIDE DEF both
  <2> QED BY <2>1, <2>2 DEF both
<1> HIDE DEF gives
<1>3. ASSUME NEW i \in 1 .. n
      PROVE  item(i) \in [takes : Nat, gives : Seq(Chars)]
  BY <1>2
<1>4. /\ items \in Seq([takes : Nat, gives : Seq(Chars)])
      /\ Len(items) = n
      /\ \A i \in 1 .. n : items[i] = item(i)
  <2> HIDE DEF item, n
  <2> QED BY <1>1, <1>3
<1>5. ASSUME NEW i \in 1 .. n
      PROVE  items[i].takes \in 1 .. n + 1 - i /\ items[i].gives \in Seq(Chars)
  <2>1. items[i].takes = 1 /\ items[i].gives = gives(i)
    BY <1>4
  <2>2. 1 \in 1 .. n + 1 - i
    BY <1>1
  <2> QED BY <1>2, <2>1, <2>2
<1>6. items = Joined(fields, sep)
  BY DEF Joined, gives
<1> HIDE DEF items
<1>7. Fit(items, Chars)
  <2> HIDE DEF n
  <2> QED BY <1>4, <1>5 DEF Fit
<1> QED BY <1>4, <1>6, <1>7 DEF gives

(* One field is its join.                                                   *)
LEMMA JoinOne ==
  ASSUME NEW f \in Seq(Chars), NEW sep \in Seq(Chars)
  PROVE  Join(<<f>>, sep) = f
<1> DEFINE fields == <<f>>
           items == Joined(fields, sep)
           r == Rest(items)
<1>1. fields \in Seq(Seq(Chars)) /\ Len(fields) = 1 /\ fields[1] = f
  OBVIOUS
<1> HIDE DEF fields
<1>2. /\ Fit(items, Chars) /\ Len(items) = 1
      /\ items[1] = [takes |-> 1, gives |-> IF 1 < 1 THEN fields[1] \o sep ELSE fields[1]]
  <2>1. /\ Fit(items, Chars) /\ Len(items) = Len(fields)
        /\ \A i \in 1 .. Len(fields) :
             items[i] = [takes |-> 1, gives |-> IF i < Len(fields) THEN fields[i] \o sep
                                                ELSE fields[i]]
    BY <1>1, JoinedFits
  <2> HIDE DEF items
  <2> QED BY <1>1, <2>1
<1>3. items[1].takes = 1 /\ items[1].gives = f
  BY <1>1, <1>2
<1> HIDE DEF items
<1>4. r[1] = items[1].gives \o r[1 + items[1].takes] /\ r[1 + 1] = <<>>
  <2>1. IsRest(items, r, 1, Chars)
    BY <1>2, RestIs
  <2>2. 1 \in 1 .. Len(items)
    BY <1>2
  <2> HIDE DEF r
  <2> QED BY <1>2, <2>1, <2>2 DEF IsRest
<1> HIDE DEF r
<1>5. r[1] = f
  BY <1>3, <1>4, ConcatEmptySeq
<1> QED BY <1>5 DEF Join, Rewritten, r, items, fields

(* Another field in front.                                                  *)
LEMMA JoinCons ==
  ASSUME NEW f \in Seq(Chars), NEW fs \in Seq(Seq(Chars)), fs # <<>>,
         NEW sep \in Seq(Chars)
  PROVE  /\ Join(<<f>> \o fs, sep) = (f \o sep) \o Join(fs, sep)
         /\ Join(fs, sep) \in Seq(Chars)
<1> DEFINE one == <<f>>
           n == Len(fs)
           gs == one \o fs
           items == Joined(fs, sep)
           more == Joined(gs, sep)
<1>1. one \in Seq(Seq(Chars)) /\ Len(one) = 1 /\ one[1] = f
  OBVIOUS
<1> HIDE DEF one
<1>2. n \in Nat /\ n >= 1
  BY EmptySeq, LenProperties
<1>3. /\ gs \in Seq(Seq(Chars)) /\ Len(gs) = 1 + n
      /\ \A i \in 1 .. 1 + n : gs[i] = IF i <= 1 THEN one[i] ELSE fs[i - 1]
  <2>1. one \in Seq(Seq(Chars)) /\ fs \in Seq(Seq(Chars))
    BY <1>1
  <2>2. /\ gs \in Seq(Seq(Chars)) /\ Len(gs) = Len(one) + Len(fs)
        /\ \A i \in 1 .. Len(one) + Len(fs) :
             gs[i] = IF i <= Len(one) THEN one[i] ELSE fs[i - Len(one)]
    BY ONLY <2>1, ConcatProperties
  <2> HIDE DEF gs
  <2> QED BY <1>1, <2>2
<1> HIDE DEF gs
<1>4. /\ Fit(items, Chars) /\ Len(items) = n
      /\ \A i \in 1 .. n :
           items[i] = [takes |-> 1, gives |-> IF i < n THEN fs[i] \o sep ELSE fs[i]]
  BY JoinedFits
<1>5. /\ Fit(more, Chars) /\ Len(more) = n + 1
      /\ \A i \in 1 .. 1 + n :
           more[i] = [takes |-> 1, gives |-> IF i < 1 + n THEN gs[i] \o sep ELSE gs[i]]
  <2>1. 1 + n = n + 1
    BY <1>2
  <2> HIDE DEF n
  <2>2. /\ Fit(more, Chars) /\ Len(more) = Len(gs)
        /\ \A i \in 1 .. Len(gs) :
             more[i] = [takes |-> 1, gives |-> IF i < Len(gs) THEN gs[i] \o sep ELSE gs[i]]
    BY <1>3, JoinedFits
  <2> QED BY <1>3, <2>1, <2>2
<1> HIDE DEF n, items, more
<1>6. ASSUME NEW i \in 1 .. n
      PROVE  more[i + 1] = items[i]
  <2>1. i + 1 \in 1 .. 1 + n /\ ~ (i + 1 <= 1) /\ (i + 1) - 1 = i /\ (i + 1 < 1 + n <=> i < n)
    BY <1>2
  <2>2. gs[i + 1] = fs[i]
    BY <1>3, <2>1
  <2>3. more[i + 1] = [takes |-> 1, gives |-> IF i < n THEN fs[i] \o sep ELSE fs[i]]
    BY <1>5, <2>1, <2>2
  <2> QED BY <1>4, <2>3
<1>7. \A i \in 1 .. n + 1 : Rest(more)[i + 1] = Rest(items)[i]
  <2>1. /\ Fit(items, Chars) /\ Fit(more, Chars) /\ Len(more) = Len(items) + 1
        /\ \A i \in 1 .. Len(items) : more[i + 1] = items[i]
    BY <1>4, <1>5, <1>6
  <2>2. \A i \in 1 .. Len(items) + 1 : Rest(more)[i + 1] = Rest(items)[i]
    BY ONLY <2>1, RestShift
  <2> QED BY <1>4, <2>2
<1>8. more[1].takes = 1 /\ more[1].gives = f \o sep
  <2>1. 1 \in 1 .. 1 + n /\ 1 < 1 + n
    BY <1>2
  <2>2. gs[1] = f
    BY <1>1, <1>3, <2>1
  <2>3. more[1] = [takes |-> 1, gives |-> IF 1 < 1 + n THEN gs[1] \o sep ELSE gs[1]]
    BY <1>5, <2>1
  <2> QED BY <2>1, <2>2, <2>3
<1>9. Rest(more)[1] = (f \o sep) \o Rest(items)[1]
  <2>1. IsRest(more, Rest(more), 1, Chars)
    BY <1>5, RestIs
  <2>2. 1 \in 1 .. Len(more) /\ 1 \in 1 .. n + 1
    BY <1>2, <1>5
  <2>3. Rest(more)[1] = more[1].gives \o Rest(more)[1 + more[1].takes]
    BY <2>1, <2>2 DEF IsRest
  <2> QED BY <1>7, <1>8, <2>2, <2>3
<1>10. Rest(items)[1] \in Seq(Chars)
  <2>1. 1 \in 1 .. Len(items) + 1
    BY <1>2, <1>4
  <2> QED BY <1>4, <2>1, RestType
<1> QED BY <1>9, <1>10 DEF Join, Rewritten, items, more, gs, one

(* Places where the separator stands in the line.                           *)
Marks(ends, line, sep) ==
  /\ ends \subseteq 1 .. Len(line)
  /\ \A e \in ends : /\ e + Len(sep) <= Len(line) + 1
                     /\ SubSeq(line, e, (e + Len(sep)) - 1) = sep

(* The first of them from cell i on.                                        *)
NextEnd(e, ends, i) == e \in ends /\ e >= i /\ \A j \in i .. e - 1 : j \notin ends

(* What stands in the line from cell i on between two of them.              *)
FieldOf(f, ends, line, sep, i) ==
  \E a \in i .. Len(line) + 1, e \in i .. Len(line) + 1 :
    /\ a <= e /\ f = SubSeq(line, a, e - 1)
    /\ a = i \/ \E d \in ends : a = d + Len(sep)
    /\ e = Len(line) + 1 \/ e \in ends
    /\ \A j \in a .. e - 1 : j \notin ends

(* Fields that the line from cell i on is made of.                          *)
Made(fs, ends, line, sep, i) ==
  /\ fs \in Seq(Seq(Chars)) /\ fs # <<>>
  /\ Makes(fs, SubSeq(line, i, Len(line)), sep)
  /\ \A m \in 1 .. Len(fs) : FieldOf(fs[m], ends, line, sep, i)

(* A field and the separator behind it.                                     *)
EndedAt(e, piece, ends, line, sep, i) ==
  /\ NextEnd(e, ends, i)
  /\ e + Len(sep) \in i + 1 .. Len(line) + 1
  /\ piece = [takes |-> (e + Len(sep)) - i, gives |-> <<SubSeq(line, i, e - 1)>>]

(* A field that no separator ends.                                          *)
Endless(piece, ends, line, i) ==
  /\ \A j \in i .. Len(line) : j \notin ends
  /\ piece = [takes |-> Len(line) + 1 - i, gives |-> <<SubSeq(line, i, Len(line))>>]

(* What begins at cell i is one of them.                                    *)
LEMMA PieceIs ==
  ASSUME NEW line \in Seq(Chars), NEW sep \in Seq(Chars), sep # <<>>,
         NEW ends, Marks(ends, line, sep), NEW i \in 1 .. Len(line)
  PROVE  \/ \E e : EndedAt(e, Cutting(line, ends, sep)[i], ends, line, sep, i)
         \/ Endless(Cutting(line, ends, sep)[i], ends, line, i)
<1> DEFINE n == Len(line)
           ahead == {j \in ends : j >= i}
<1>1. n \in Nat /\ Len(sep) \in Nat /\ Len(sep) >= 1
  BY EmptySeq, LenProperties
<1>2. ends \subseteq 1 .. n /\ \A e \in ends : e + Len(sep) <= n + 1
  BY DEF Marks
<1> HIDE DEF n
<1> DEFINE next(m) == {j \in ends : j >= m}
<1>3. Cutting(line, ends, sep)
        = [m \in 1 .. n |->
             IF next(m) # {}
             THEN [takes |-> (Min(next(m)) + Len(sep)) - m,
                   gives |-> <<SubSeq(line, m, Min(next(m)) - 1)>>]
             ELSE [takes |-> n + 1 - m, gives |-> <<SubSeq(line, m, n)>>]]
  BY DEF Cutting, Behind, n
<1>4. Cutting(line, ends, sep)[i]
        = IF ahead # {}
          THEN [takes |-> (Min(ahead) + Len(sep)) - i,
                gives |-> <<SubSeq(line, i, Min(ahead) - 1)>>]
          ELSE [takes |-> n + 1 - i, gives |-> <<SubSeq(line, i, n)>>]
  BY <1>3 DEF n
<1>5. CASE ahead = {}
  <2>1. \A j \in i .. n : j \notin ends
    BY <1>1, <1>5
  <2> QED BY <1>4, <1>5, <2>1 DEF n, Endless
<1>6. CASE ahead # {}
  <2> DEFINE e == Min(ahead)
  <2>1. ahead \in SUBSET Nat
    <3>1. \A j \in 1 .. n : j \in Nat
      BY <1>1
    <3> QED BY <1>2, <3>1
  <2>2. e \in ahead /\ \A m \in ahead : e <= m
    <3> HIDE DEF ahead
    <3> QED BY <1>6, <2>1, MinIs
  <2>3. Cutting(line, ends, sep)[i]
          = [takes |-> (e + Len(sep)) - i, gives |-> <<SubSeq(line, i, e - 1)>>]
    BY <1>4, <1>6
  <2> HIDE DEF e
  <2>4. e \in ends /\ e >= i /\ e \in 1 .. n /\ e + Len(sep) <= n + 1
    BY <1>2, <2>2
  <2>5. \A j \in i .. e - 1 : j \notin ends
    <3>1. SUFFICES ASSUME NEW j \in i .. e - 1, j \in ends
                   PROVE  FALSE
      OBVIOUS
    <3>2. j \in ahead
      BY <3>1
    <3>3. e <= j
      BY <2>2, <3>2
    <3> QED BY <2>4, <3>3
  <2>6. e + Len(sep) \in i + 1 .. n + 1
    BY <1>1, <2>4
  <2> QED BY <2>3, <2>4, <2>5, <2>6 DEF n, NextEnd, EndedAt
<1> QED BY <1>5, <1>6

(* Each takes a field and the separator behind it.                          *)
LEMMA CuttingFits ==
  ASSUME NEW line \in Seq(Chars), NEW sep \in Seq(Chars), sep # <<>>,
         NEW ends, Marks(ends, line, sep)
  PROVE  Fit(Cutting(line, ends, sep), Seq(Chars)) /\ Len(Cutting(line, ends, sep)) = Len(line)
<1> DEFINE n == Len(line)
           ps == Cutting(line, ends, sep)
           T == Seq(Chars)
<1>1. n \in Nat
  BY LenProperties
<1>2. \A x \in T : <<x>> \in Seq(T)
  OBVIOUS
<1>3. ASSUME NEW i \in 1 .. n
      PROVE  \E t \in 1 .. n + 1 - i, g \in Seq(T) : ps[i] = [takes |-> t, gives |-> g]
  <2>1. CASE \E e : EndedAt(e, ps[i], ends, line, sep, i)
    <3>1. PICK e : EndedAt(e, ps[i], ends, line, sep, i)
      BY <2>1
    <3>2. e \in 1 .. n /\ e >= i
      BY <3>1 DEF Marks, NextEnd, EndedAt
    <3>3. i \in 1 .. Len(line) + 1 /\ e - 1 \in i - 1 .. Len(line)
      BY <1>1, <3>2
    <3>4. SubSeq(line, i, e - 1) \in T
      BY <3>3, PartIs
    <3>5. <<SubSeq(line, i, e - 1)>> \in Seq(T)
      BY <1>2, <3>4
    <3>6. (e + Len(sep)) - i \in 1 .. n + 1 - i
      <4> DEFINE k == e + Len(sep)
      <4>1. k \in i + 1 .. n + 1
        BY <3>1 DEF EndedAt
      <4> HIDE DEF k, n
      <4>2. k - i \in 1 .. n + 1 - i
        BY <1>1, <4>1
      <4> QED BY <4>2 DEF k
    <3> HIDE DEF ps
    <3> QED BY <3>1, <3>5, <3>6 DEF EndedAt
  <2>2. CASE Endless(ps[i], ends, line, i)
    <3>1. i \in 1 .. Len(line) + 1 /\ n \in i - 1 .. Len(line)
      BY <1>1
    <3>2. SubSeq(line, i, n) \in T
      BY <3>1, PartIs
    <3>3. <<SubSeq(line, i, n)>> \in Seq(T)
      BY <1>2, <3>2
    <3>4. n + 1 - i \in 1 .. n + 1 - i
      BY <1>1
    <3> HIDE DEF ps
    <3> QED BY <2>2, <3>3, <3>4 DEF Endless
  <2> QED BY <2>1, <2>2, PieceIs
<1>4. ps = [i \in 1 .. n |-> ps[i]]
  BY DEF Cutting
<1> HIDE DEF ps, n, T
<1>5. ASSUME NEW i \in 1 .. n
      PROVE  /\ ps[i] \in [takes : Nat, gives : Seq(T)]
             /\ ps[i].takes \in 1 .. n + 1 - i /\ ps[i].gives \in Seq(T)
  <2>1. PICK t \in 1 .. n + 1 - i, g \in Seq(T) : ps[i] = [takes |-> t, gives |-> g]
    BY <1>3
  <2>2. t \in Nat /\ ps[i].takes = t /\ ps[i].gives = g
    BY <1>1, <2>1
  <2> QED BY <2>1, <2>2
<1>6. ps \in Seq([takes : Nat, gives : Seq(T)]) /\ Len(ps) = n
  <2> DEFINE R == [takes : Nat, gives : Seq(T)]
  <2>1. \A i \in 1 .. n : ps[i] \in R
    BY <1>5
  <2> HIDE DEF R
  <2>2. ps \in [1 .. n -> R]
    BY <1>4, <2>1
  <2>3. ps \in Seq(R)
    BY <1>1, <2>2, SeqDef
  <2>4. Len(ps) = n
    BY <1>1, <2>2, <2>3, LenProperties
  <2> QED BY <2>3, <2>4 DEF R
<1>7. Fit(ps, T)
  BY <1>5, <1>6 DEF Fit
<1> QED BY <1>6, <1>7 DEF ps, n, T

(* The rest of the line, with no separator behind it.                       *)
LEMMA LastPiece ==
  ASSUME NEW line \in Seq(Chars), NEW sep \in Seq(Chars),
         NEW ends, NEW i \in 1 .. Len(line),
         \A j \in i .. Len(line) : j \notin ends
  PROVE  Made(<<SubSeq(line, i, Len(line))>>, ends, line, sep, i)
<1> DEFINE n == Len(line)
           f == SubSeq(line, i, n)
           fs == <<f>>
<1>1. n \in Nat
  BY LenProperties
<1>2. f \in Seq(Chars) /\ Len(f) = n - i + 1
  <2>1. i \in 1 .. Len(line) + 1 /\ n \in i - 1 .. Len(line)
    BY <1>1
  <2> QED BY <2>1, PartIs
<1>3. f # <<>>
  <2> HIDE DEF f
  <2>1. Len(f) >= 1
    BY <1>1, <1>2
  <2> QED BY <2>1, EmptySeq
<1>4. FieldOf(f, ends, line, sep, i)
  <2>1. /\ i \in i .. n + 1 /\ n + 1 \in i .. n + 1 /\ i <= n + 1 /\ (n + 1) - 1 = n
    BY <1>1
  <2> QED BY <2>1 DEF FieldOf
<1> HIDE DEF f
<1>5. fs \in Seq(Seq(Chars)) /\ Len(fs) = 1 /\ fs[1] = f /\ fs # <<>>
  BY <1>2
<1>6. Join(fs, sep) = f
  BY <1>2, JoinOne
<1>7. Last(fs) = f
  BY <1>5 DEF Last
<1> HIDE DEF fs
<1>8. Makes(fs, f, sep)
  BY <1>3, <1>6, <1>7 DEF Makes
<1>9. \A m \in 1 .. Len(fs) : FieldOf(fs[m], ends, line, sep, i)
  BY <1>4, <1>5
<1> QED BY <1>5, <1>8, <1>9 DEF Made, f, fs

(* A field with the separator behind it.                                    *)
LEMMA FieldBefore ==
  ASSUME NEW line \in Seq(Chars), NEW sep \in Seq(Chars), sep # <<>>,
         NEW ends, Marks(ends, line, sep), NEW i \in 1 .. Len(line),
         NEW e, NextEnd(e, ends, i)
  PROVE  /\ SubSeq(line, i, e - 1) \in Seq(Chars)
         /\ FieldOf(SubSeq(line, i, e - 1), ends, line, sep, i)
         /\ SubSeq(line, i, e - 1) \o sep = SubSeq(line, i, (e + Len(sep)) - 1)
         /\ e \in i .. Len(line) /\ e + Len(sep) \in i + 1 .. Len(line) + 1
<1> DEFINE n == Len(line)
           L == Len(sep)
           k == e + L
<1>1. n \in Nat /\ L \in Nat /\ L >= 1
  BY EmptySeq, LenProperties
<1>2. e \in 1 .. n /\ k <= n + 1 /\ SubSeq(line, e, k - 1) = sep
  BY DEF Marks, NextEnd
<1> HIDE DEF L
<1>3. /\ e \in i .. n /\ e \in i .. n + 1 /\ i \in i .. n + 1
      /\ k \in i + 1 .. n + 1
  BY <1>1, <1>2 DEF NextEnd
<1>4. SubSeq(line, i, e - 1) \in Seq(Chars)
  <2>1. i \in 1 .. Len(line) + 1 /\ e - 1 \in i - 1 .. Len(line)
    BY <1>1, <1>3
  <2> QED BY <2>1, PartIs
<1>5. FieldOf(SubSeq(line, i, e - 1), ends, line, sep, i)
  BY <1>3 DEF FieldOf, NextEnd
<1>6. SubSeq(line, i, e - 1) \o sep = SubSeq(line, i, k - 1)
  <2>1. /\ i \in 1 .. Len(line) + 1 /\ e - 1 \in i - 1 .. Len(line)
        /\ k - 1 \in e - 1 .. Len(line) /\ (e - 1) + 1 = e
    BY <1>1, <1>2, <1>3
  <2> HIDE DEF k
  <2>2. SubSeq(line, i, e - 1) \o SubSeq(line, (e - 1) + 1, k - 1) = SubSeq(line, i, k - 1)
    BY <2>1, ConcatAdjacentSubSeq
  <2> QED BY <1>2, <2>1, <2>2
<1> QED BY <1>3, <1>4, <1>5, <1>6 DEF L

(* The separator ends the line.                                             *)
LEMMA EndedPiece ==
  ASSUME NEW line \in Seq(Chars), NEW sep \in Seq(Chars), sep # <<>>,
         NEW ends, Marks(ends, line, sep), NEW i \in 1 .. Len(line),
         NEW e, NextEnd(e, ends, i),
         e + Len(sep) = Len(line) + 1
  PROVE  Made(<<SubSeq(line, i, e - 1)>>, ends, line, sep, i)
<1> DEFINE n == Len(line)
           f == SubSeq(line, i, e - 1)
           fs == <<f>>
<1>1. n \in Nat
  BY LenProperties
<1>2. /\ f \in Seq(Chars) /\ FieldOf(f, ends, line, sep, i)
      /\ f \o sep = SubSeq(line, i, (e + Len(sep)) - 1)
  BY FieldBefore
<1>3. f \o sep = SubSeq(line, i, n)
  <2>1. (n + 1) - 1 = n
    BY <1>1
  <2> HIDE DEF f
  <2> QED BY <1>2, <2>1
<1> HIDE DEF f
<1>4. fs \in Seq(Seq(Chars)) /\ Len(fs) = 1 /\ fs[1] = f /\ fs # <<>>
  BY <1>2
<1>5. Join(fs, sep) = f
  BY <1>2, JoinOne
<1> HIDE DEF fs
<1>6. Makes(fs, SubSeq(line, i, n), sep)
  BY <1>3, <1>5 DEF Makes
<1>7. \A m \in 1 .. Len(fs) : FieldOf(fs[m], ends, line, sep, i)
  BY <1>2, <1>4
<1> QED BY <1>4, <1>6, <1>7 DEF Made, f, fs

(* A field, the separator, and more fields behind it.                       *)
LEMMA MoreCut ==
  ASSUME NEW line \in Seq(Chars), NEW sep \in Seq(Chars), sep # <<>>,
         NEW ends, Marks(ends, line, sep), NEW i \in 1 .. Len(line),
         NEW e, NextEnd(e, ends, i),
         e + Len(sep) <= Len(line),
         NEW fs, Made(fs, ends, line, sep, e + Len(sep))
  PROVE  Made(<<SubSeq(line, i, e - 1)>> \o fs, ends, line, sep, i)
<1> DEFINE n == Len(line)
           k == e + Len(sep)
           f == SubSeq(line, i, e - 1)
           one == <<f>>
           gs == one \o fs
           head == f \o sep
           tail == SubSeq(line, k, n)
           whole == SubSeq(line, i, n)
           join == Join(fs, sep)
<1>1. n \in Nat
  BY LenProperties
<1>2. /\ f \in Seq(Chars) /\ FieldOf(f, ends, line, sep, i)
      /\ head = SubSeq(line, i, k - 1)
      /\ k \in i + 1 .. n + 1
  BY FieldBefore
<1>3. /\ fs \in Seq(Seq(Chars)) /\ fs # <<>>
      /\ Makes(fs, tail, sep)
      /\ \A m \in 1 .. Len(fs) : FieldOf(fs[m], ends, line, sep, k)
  BY DEF Made
<1> HIDE DEF k
<1>4. head \o tail = whole
  <2>1. /\ i \in 1 .. Len(line) + 1 /\ k - 1 \in i - 1 .. Len(line)
        /\ n \in k - 1 .. Len(line) /\ (k - 1) + 1 = k
    BY <1>1, <1>2
  <2>2. SubSeq(line, i, k - 1) \o SubSeq(line, (k - 1) + 1, n) = SubSeq(line, i, n)
    BY <2>1, ConcatAdjacentSubSeq
  <2> HIDE DEF head
  <2> QED BY <1>2, <2>1, <2>2
<1> HIDE DEF f
<1>5. head \in Seq(Chars)
  BY <1>2, ConcatProperties
<1>6. one \in Seq(Seq(Chars)) /\ Len(one) = 1 /\ one[1] = f
  BY <1>2
<1>7. Join(gs, sep) = head \o join /\ join \in Seq(Chars)
  BY <1>2, <1>3, JoinCons
<1> HIDE DEF one, head, tail, whole, join
<1>8. Len(fs) \in Nat /\ Len(fs) >= 1
  BY <1>3, EmptySeq, LenProperties
<1>9. /\ gs \in Seq(Seq(Chars)) /\ Len(gs) = 1 + Len(fs)
      /\ \A m \in 1 .. 1 + Len(fs) : gs[m] = IF m <= 1 THEN one[m] ELSE fs[m - 1]
  <2>1. one \in Seq(Seq(Chars)) /\ fs \in Seq(Seq(Chars))
    BY <1>3, <1>6
  <2>2. /\ gs \in Seq(Seq(Chars)) /\ Len(gs) = Len(one) + Len(fs)
        /\ \A m \in 1 .. Len(one) + Len(fs) :
             gs[m] = IF m <= Len(one) THEN one[m] ELSE fs[m - Len(one)]
    BY ONLY <2>1, ConcatProperties
  <2> HIDE DEF gs
  <2> QED BY <1>6, <2>2
<1> HIDE DEF gs
<1>10. gs # <<>>
  <2>1. Len(gs) >= 1
    BY <1>8, <1>9
  <2> QED BY <2>1, EmptySeq
<1>11. Last(gs) = Last(fs)
  <2>1. /\ 1 + Len(fs) \in 1 .. 1 + Len(fs) /\ ~ (1 + Len(fs) <= 1)
        /\ (1 + Len(fs)) - 1 = Len(fs)
    BY <1>8
  <2>2. gs[1 + Len(fs)] = fs[Len(fs)]
    BY <1>9, <2>1
  <2> QED BY <1>9, <2>2 DEF Last
<1>12. Makes(gs, whole, sep)
  <2>1. CASE join = tail /\ Last(fs) # <<>>
    <3>1. Join(gs, sep) = whole /\ Last(gs) # <<>>
      BY <1>4, <1>7, <1>11, <2>1
    <3> QED BY <3>1 DEF Makes
  <2>2. CASE join \o sep = tail
    <3>1. (head \o join) \o sep = head \o (join \o sep)
      <4>1. head \in Seq(Chars) /\ join \in Seq(Chars) /\ sep \in Seq(Chars)
        BY <1>5, <1>7
      <4> QED BY ONLY <4>1, TextsAssociate
    <3>2. Join(gs, sep) \o sep = whole
      BY <1>4, <1>7, <2>2, <3>1
    <3> QED BY <3>2 DEF Makes
  <2> QED BY <1>3, <2>1, <2>2 DEF Makes, join
<1>13. ASSUME NEW m \in 1 .. Len(gs)
       PROVE  FieldOf(gs[m], ends, line, sep, i)
  <2>1. CASE m = 1
    <3>1. 1 \in 1 .. 1 + Len(fs)
      BY <1>8
    <3>2. gs[m] = f
      BY <1>6, <1>9, <2>1, <3>1
    <3> QED BY <1>2, <3>2
  <2>2. CASE m # 1
    <3>1. m \in 1 .. 1 + Len(fs) /\ ~ (m <= 1) /\ m - 1 \in 1 .. Len(fs)
      BY <1>8, <1>9, <2>2
    <3>2. gs[m] = fs[m - 1]
      BY <1>9, <3>1
    <3>3. FieldOf(gs[m], ends, line, sep, k)
      BY <1>3, <3>1, <3>2
    <3>4. PICK a \in k .. n + 1, b \in k .. n + 1 :
            /\ a <= b /\ gs[m] = SubSeq(line, a, b - 1)
            /\ a = k \/ \E d \in ends : a = d + Len(sep)
            /\ b = n + 1 \/ b \in ends
            /\ \A j \in a .. b - 1 : j \notin ends
      BY <3>3 DEF FieldOf
    <3>5. a \in i .. n + 1 /\ b \in i .. n + 1
      BY <1>1, <1>2
    <3>6. \E d \in ends : a = d + Len(sep)
      BY <3>4 DEF k, NextEnd
    <3> QED BY <3>4, <3>5, <3>6 DEF FieldOf
  <2> QED BY <2>1, <2>2
<1> QED BY <1>3, <1>9, <1>10, <1>12, <1>13 DEF Made, whole, gs, one, f

(* From every cell on, the fields are made of the line from there on.       *)
LEMMA CuttingMakes ==
  ASSUME NEW line \in Seq(Chars), NEW sep \in Seq(Chars), sep # <<>>,
         NEW ends, Marks(ends, line, sep)
  PROVE  \A i \in 1 .. Len(line) : Made(Rest(Cutting(line, ends, sep))[i], ends, line, sep, i)
<1> DEFINE n == Len(line)
           T == Seq(Chars)
           ps == Cutting(line, ends, sep)
           r == Rest(ps)
           Bad == {j \in 1 .. n : ~ Made(r[n + 1 - j], ends, line, sep, n + 1 - j)}
<1>1. n \in Nat
  BY LenProperties
<1>2. Fit(ps, T) /\ Len(ps) = n
  BY CuttingFits
<1>3. IsRest(ps, r, 1, T)
  BY <1>2, RestIs
<1> HIDE DEF ps, r, T
<1>4. /\ r[n + 1] = <<>>
      /\ \A i \in 1 .. n : r[i] = ps[i].gives \o r[i + ps[i].takes]
  BY <1>2, <1>3 DEF IsRest
<1>5. ASSUME NEW j \in Bad, \A m \in Bad : j <= m
      PROVE  FALSE
  <2> DEFINE i == n + 1 - j
  <2>1. j \in 1 .. n /\ ~ Made(r[i], ends, line, sep, i)
    OBVIOUS
  <2>2. i \in 1 .. n
    BY <1>1, <2>1
  <2> HIDE DEF i
  <2>3. r[i] = ps[i].gives \o r[i + ps[i].takes]
    BY <1>4, <2>2
  <2>4. CASE \E e : EndedAt(e, ps[i], ends, line, sep, i)
    <3>1. PICK e : EndedAt(e, ps[i], ends, line, sep, i)
      BY <2>4
    <3> DEFINE k == e + Len(sep)
               f == SubSeq(line, i, e - 1)
    <3>2. /\ NextEnd(e, ends, i) /\ k \in i + 1 .. n + 1
          /\ ps[i].takes = k - i /\ ps[i].gives = <<f>>
      BY <3>1 DEF EndedAt
    <3> HIDE DEF k
    <3>3. i + (k - i) = k
      BY <1>1, <2>2, <3>2
    <3>4. r[i] = <<f>> \o r[k]
      <4> HIDE DEF f
      <4> QED BY <2>3, <3>2, <3>3
    <3>5. CASE k = n + 1
      <4>1. <<f>> \o <<>> = <<f>>
        <5> HIDE DEF f
        <5> QED OBVIOUS
      <4>2. r[i] = <<f>>
        <5> HIDE DEF f
        <5> QED BY <1>4, <3>4, <3>5, <4>1
      <4>3. Made(<<f>>, ends, line, sep, i)
        BY <2>2, <3>2, <3>5, EndedPiece DEF k
      <4> HIDE DEF f
      <4> QED BY <2>1, <4>2, <4>3
    <3>6. CASE k # n + 1
      <4>1. /\ k <= n /\ n + 1 - k \in 1 .. n /\ ~ (j <= n + 1 - k)
            /\ n + 1 - (n + 1 - k) = k
        <5> HIDE DEF Bad, n, f
        <5>1. k \in i + 1 .. n /\ j = n + 1 - i
          BY <1>1, <2>1, <2>2, <3>2, <3>6 DEF i
        <5> QED BY <1>1, <2>2, <5>1
      <4>2. n + 1 - k \notin Bad
        BY <1>5, <4>1
      <4>3. Made(r[k], ends, line, sep, k)
        BY <4>1, <4>2
      <4>4. Made(<<f>> \o r[k], ends, line, sep, i)
        BY <2>2, <3>2, <4>1, <4>3, MoreCut DEF k
      <4> HIDE DEF f
      <4> QED BY <2>1, <3>4, <4>4
    <3> QED BY <3>5, <3>6
  <2>5. CASE Endless(ps[i], ends, line, i)
    <3> DEFINE f == SubSeq(line, i, n)
    <3>1. /\ \A m \in i .. n : m \notin ends
          /\ ps[i].takes = n + 1 - i /\ ps[i].gives = <<f>>
      BY <2>5 DEF Endless
    <3>2. i + (n + 1 - i) = n + 1
      BY <1>1, <2>2
    <3>3. r[i] = <<f>>
      <4> HIDE DEF f
      <4>1. <<f>> \o <<>> = <<f>>
        OBVIOUS
      <4> QED BY <1>4, <2>3, <3>1, <3>2, <4>1
    <3>4. Made(<<f>>, ends, line, sep, i)
      BY <2>2, <3>1, LastPiece
    <3> HIDE DEF f
    <3> QED BY <2>1, <3>3, <3>4
  <2> QED BY <2>2, <2>4, <2>5, PieceIs DEF ps
<1>6. Bad = {}
  <2>1. Bad \in SUBSET Nat
    BY <1>1
  <2> HIDE DEF Bad
  <2> QED BY <1>5, <2>1, Least
<1>7. ASSUME NEW i \in 1 .. n
      PROVE  Made(r[i], ends, line, sep, i)
  <2>1. n + 1 - i \in 1 .. n /\ n + 1 - (n + 1 - i) = i
    BY <1>1
  <2>2. n + 1 - i \notin Bad
    BY <1>6
  <2> QED BY <2>1, <2>2
<1> QED BY <1>7 DEF r, ps

(* The fields of a whole line.                                              *)
LEMMA FieldsMade ==
  ASSUME NEW line \in Seq(Chars), line # <<>>,
         NEW sep \in Seq(Chars), sep # <<>>,
         NEW ends, Marks(ends, line, sep),
         NEW fs, fs = Rewritten(Cutting(line, ends, sep))
  PROVE  /\ fs \in Seq(Seq(Chars)) /\ fs # <<>>
         /\ Makes(fs, line, sep)
         /\ \A m \in 1 .. Len(fs) : FieldOf(fs[m], ends, line, sep, 1)
<1>1. 1 \in 1 .. Len(line)
  <2>1. Len(line) \in Nat \ {0}
    BY EmptySeq
  <2> QED BY <2>1
<1>2. Made(fs, ends, line, sep, 1)
  BY <1>1, CuttingMakes DEF Rewritten
<1>3. SubSeq(line, 1, Len(line)) = line
  BY SubSeqFull
<1> QED BY <1>2, <1>3 DEF Made

(* split cuts a line at all its separators.                                 *)
LEMMA SplitMakes ==
  ASSUME NEW line \in Seq(Chars), line # <<>>,
         NEW sep \in Seq(Chars), sep # <<>>,
         NEW fs, fs = Split(line, sep)
  PROVE  /\ fs \in Seq(Seq(Chars)) /\ fs # <<>>
         /\ Makes(fs, line, sep)
         /\ \A m \in DOMAIN fs : Finds(fs[m], sep) = {}
<1> DEFINE n == Len(line)
           L == Len(sep)
           ends == Finds(line, sep)
<1>1. n \in Nat /\ L \in Nat /\ L >= 1
  BY EmptySeq, LenProperties
<1>2. \A e : e \in ends <=> e \in 1 .. n - L + 1 /\ SubSeq(line, e, e + L - 1) = sep
  BY DEF Finds
<1>3. Marks(ends, line, sep)
  <2>1. ASSUME NEW e \in ends
        PROVE  /\ e \in 1 .. n /\ e + L <= n + 1
               /\ SubSeq(line, e, (e + L) - 1) = sep
    <3>1. e \in 1 .. n - L + 1 /\ SubSeq(line, e, e + L - 1) = sep
      BY <1>2
    <3> HIDE DEF L, n
    <3>2. e + L - 1 = (e + L) - 1
      BY <1>1, <3>1
    <3>3. e \in 1 .. n /\ e + L <= n + 1
      BY <1>1, <3>1
    <3> QED BY <3>1, <3>2, <3>3
  <2> HIDE DEF ends
  <2> QED BY <2>1 DEF Marks
<1> HIDE DEF ends
<1>4. fs = Rewritten(Cutting(line, ends, sep))
  BY DEF Split, ends
<1>5. /\ fs \in Seq(Seq(Chars)) /\ fs # <<>>
      /\ Makes(fs, line, sep)
      /\ \A m \in 1 .. Len(fs) : FieldOf(fs[m], ends, line, sep, 1)
  BY <1>3, <1>4, FieldsMade
<1>6. ASSUME NEW m \in 1 .. Len(fs), NEW j \in Finds(fs[m], sep)
      PROVE  FALSE
  <2>1. PICK a \in 1 .. n + 1, e \in 1 .. n + 1 :
          a <= e /\ fs[m] = SubSeq(line, a, e - 1) /\ \A d \in a .. e - 1 : d \notin ends
    BY <1>5 DEF FieldOf
  <2> DEFINE f == SubSeq(line, a, e - 1)
  <2>2. a \in 1 .. Len(line) + 1 /\ e - 1 \in a - 1 .. Len(line)
    BY <1>1, <2>1
  <2>3. f \in Seq(Chars) /\ Len(f) = (e - 1) - a + 1
    BY <2>2, PartIs
  <2>4. j \in 1 .. Len(f) - L + 1 /\ SubSeq(f, j, j + L - 1) = sep
    BY <2>1 DEF Finds
  <2> HIDE DEF L
  <2>5. /\ j \in 1 .. (e - 1) - a + 2
        /\ j + L - 1 \in j - 1 .. (e - 1) - a + 1
        /\ (a + j) - 1 \in a .. e - 1 /\ (a + j) - 1 \in 1 .. n - L + 1
        /\ a + j - 1 = (a + j) - 1 /\ a + (j + L - 1) - 1 = ((a + j) - 1) + L - 1
    <3> HIDE DEF f, n
    <3> QED BY <1>1, <2>1, <2>3, <2>4
  <2>6. SubSeq(f, j, j + L - 1) = SubSeq(line, a + j - 1, a + (j + L - 1) - 1)
    <3> DEFINE y == e - 1
               z == j + L - 1
    <3>1. /\ line \in Seq(Chars) /\ a \in 1 .. Len(line) + 1 /\ y \in a - 1 .. Len(line)
          /\ j \in 1 .. y - a + 2 /\ z \in j - 1 .. y - a + 1
      BY <2>2, <2>5
    <3> HIDE DEF y, z, n
    <3>2. SubSeq(SubSeq(line, a, y), j, z) = SubSeq(line, a + j - 1, a + z - 1)
      BY ONLY <3>1, PartOfPart
    <3> QED BY <3>2 DEF y, z
  <2>7. (a + j) - 1 \in ends
    <3> DEFINE b == (a + j) - 1
    <3>1. SubSeq(line, b, b + L - 1) = sep
      <4> HIDE DEF f
      <4> QED BY <2>4, <2>5, <2>6
    <3>2. b \in 1 .. n - L + 1
      BY <2>5
    <3> HIDE DEF b
    <3>3. b \in ends
      BY <1>2, <3>1, <3>2 DEF L
    <3> QED BY <3>3 DEF b
  <2> QED BY <2>1, <2>5, <2>7
<1>7. DOMAIN fs = 1 .. Len(fs)
  BY <1>5, LenProperties
<1> QED BY <1>5, <1>6, <1>7

(* One character more.                                                      *)
LEMMA CountStep ==
  ASSUME NEW s, NEW c, NEW m \in Nat
  PROVE  /\ Count(s, c, m) \in Nat
         /\ Count(s, c, m + 1) = Count(s, c, m) + (IF s[m + 1] = c THEN 1 ELSE 0)
<1> DEFINE A == {j \in 1 .. m : s[j] = c}
           B == {j \in 1 .. m + 1 : s[j] = c}
<1>1. IsFiniteSet(A) /\ Cardinality(A) \in Nat
  <2>1. IsFiniteSet(1 .. m) /\ A \subseteq 1 .. m
    BY FS_Interval
  <2> HIDE DEF A
  <2> QED BY <2>1, FS_Subset, FS_CardinalityType
<1>2. m + 1 \notin A
  OBVIOUS
<1>3. CASE s[m + 1] = c
  <2>1. B = A \union {m + 1}
    BY <1>3
  <2> HIDE DEF A, B
  <2>2. Cardinality(B) = Cardinality(A) + 1
    BY <1>1, <1>2, <2>1, FS_AddElement
  <2> QED BY <1>1, <1>3, <2>2 DEF Count, A, B
<1>4. CASE s[m + 1] # c
  <2>1. B = A
    BY <1>4
  <2>2. Cardinality(B) = Cardinality(A) + 0
    <3> HIDE DEF A, B
    <3> QED BY <1>1, <2>1
  <2> QED BY <1>1, <1>4, <2>2 DEF Count
<1> QED BY <1>3, <1>4

(* A part of a line, behind its first b cells.                              *)
PartAt(f, line, b, n) == \A i \in 1 .. n : f[i] = line[b + i]

(* What is counted in a part of a line.                                     *)
LEMMA CountOfPart ==
  ASSUME NEW line, NEW f, NEW c, NEW b \in Nat, NEW n \in Nat, PartAt(f, line, b, n)
  PROVE  /\ Count(line, c, b) \in Nat
         /\ \A m \in 0 .. n : /\ Count(f, c, m) \in Nat
                              /\ Count(line, c, b + m) = Count(line, c, b) + Count(f, c, m)
<1> DEFINE Bad == {m \in 0 .. n : Count(line, c, b + m) # Count(line, c, b) + Count(f, c, m)}
<1>1. Count(line, c, b) \in Nat /\ \A m \in 0 .. n : Count(f, c, m) \in Nat
  BY CountStep
<1>2. ASSUME NEW m \in Bad, \A k \in Bad : m <= k
      PROVE  FALSE
  <2>1. /\ m \in 0 .. n
        /\ Count(line, c, b + m) # Count(line, c, b) + Count(f, c, m)
    OBVIOUS
  <2>2. m # 0
    <3>1. Count(f, c, 0) = 0
      <4>1. {j \in 1 .. 0 : f[j] = c} = {}
        OBVIOUS
      <4> QED BY <4>1, FS_EmptySet DEF Count
    <3>2. b + 0 = b /\ Count(line, c, b) + 0 = Count(line, c, b)
      BY <1>1
    <3> QED BY <2>1, <3>1, <3>2
  <2> DEFINE k == m - 1
  <2>3. /\ k \in 0 .. n /\ k \in Nat /\ b + k \in Nat /\ ~ (m <= k)
        /\ k + 1 = m /\ (b + k) + 1 = b + m /\ m \in 1 .. n
    BY <2>1, <2>2
  <2>4. k \notin Bad
    BY <1>2, <2>3
  <2> HIDE DEF k
  <2>5. Count(line, c, b + k) = Count(line, c, b) + Count(f, c, k)
    BY <2>3, <2>4
  <2>6. /\ Count(f, c, m) = Count(f, c, k) + (IF f[m] = c THEN 1 ELSE 0)
        /\ Count(f, c, k) \in Nat
    <3>1. /\ Count(f, c, k + 1) = Count(f, c, k) + (IF f[k + 1] = c THEN 1 ELSE 0)
          /\ Count(f, c, k) \in Nat
      BY <2>3, CountStep
    <3> QED BY <2>3, <3>1
  <2>7. Count(line, c, b + m) = Count(line, c, b + k) + (IF line[b + m] = c THEN 1 ELSE 0)
    <3>1. Count(line, c, (b + k) + 1)
            = Count(line, c, b + k) + (IF line[(b + k) + 1] = c THEN 1 ELSE 0)
      BY <2>3, CountStep
    <3> QED BY <2>3, <3>1
  <2>8. f[m] = line[b + m]
    BY <2>3 DEF PartAt
  <2> DEFINE x == IF f[m] = c THEN 1 ELSE 0
  <2>9. x \in Nat
    OBVIOUS
  <2>10. Count(line, c, b + m) = (Count(line, c, b) + Count(f, c, k)) + x
    BY <2>5, <2>7, <2>8
  <2>11. Count(f, c, m) = Count(f, c, k) + x
    BY <2>6
  <2> HIDE DEF x
  <2>12. (Count(line, c, b) + Count(f, c, k)) + x = Count(line, c, b) + (Count(f, c, k) + x)
    BY <1>1, <2>6, <2>9
  <2> QED BY <2>1, <2>10, <2>11, <2>12
<1>3. Bad = {}
  <2>1. Bad \in SUBSET Nat
    OBVIOUS
  <2> HIDE DEF Bad
  <2> QED BY <1>2, <2>1, Least
<1> QED BY <1>1, <1>3

(* split_with_quot of a line whose quotes are closed.                       *)
LEMMA QuotMakes ==
  ASSUME NEW line \in Seq(Chars), line # <<>>,
         Count(line, "quot", Len(line)) % 2 = 0,
         NEW fs, fs = SplitWithQuot(line, "comma", "quot")
  PROVE  /\ fs \in Seq(Seq(Chars))
         /\ Makes(fs, line, <<"comma">>)
         /\ \A m \in DOMAIN fs :
              /\ Count(fs[m], "quot", Len(fs[m])) % 2 = 0
              /\ \A j \in DOMAIN fs[m] : fs[m][j] = "comma" => Count(fs[m], "quot", j) % 2 = 1
<1> DEFINE n == Len(line)
           par(i) == Count(line, "quot", i) % 2
           sep == <<"comma">>
           cuts == {i \in DOMAIN line : line[i] = "comma" /\ par(i) = 0}
           kept == IF Last(line) = "comma" THEN Max({0} \union cuts) ELSE n
<1>1. n \in Nat /\ n >= 1 /\ DOMAIN line = 1 .. n
  BY EmptySeq, LenProperties
<1>2. sep \in Seq(Chars) /\ Len(sep) = 1 /\ sep # <<>>
  <2>1. ASSUME NEW c \in Chars
        PROVE  <<c>> \in Seq(Chars) /\ Len(<<c>>) = 1 /\ <<c>> # <<>>
    OBVIOUS
  <2>2. "comma" \in Chars
    BY DEF Chars
  <2> QED BY <2>1, <2>2
<1>3. \A e : e \in cuts <=> e \in 1 .. n /\ line[e] = "comma" /\ par(e) = 0
  BY <1>1
<1>4. fs = Rewritten(Cutting(SubSeq(line, 1, kept), cuts, sep))
  BY DEF SplitWithQuot
<1>5. kept = n
  <2>1. SUFFICES ASSUME Last(line) = "comma"
                 PROVE  Max({0} \union cuts) = n
    OBVIOUS
  <2>2. line[n] = "comma"
    BY <2>1 DEF Last
  <2>3. n \in cuts
    BY <1>1, <1>3, <2>2
  <2> DEFINE S == {0} \union cuts
  <2>4. S \in SUBSET Nat /\ n \in S /\ \A m \in S : m <= n
    BY <1>1, <2>3
  <2> HIDE DEF S
  <2>5. Max(S) = n
    BY <2>4, MaxIsThat
  <2> QED BY <2>5 DEF S
<1> HIDE DEF kept, cuts, sep
<1>6. Marks(cuts, line, sep)
  <2>1. ASSUME NEW e \in cuts
        PROVE  /\ e \in 1 .. n /\ e + 1 <= n + 1 /\ SubSeq(line, e, (e + 1) - 1) = sep
    <3>1. e \in 1 .. n /\ line[e] = "comma" /\ (e + 1) - 1 = e /\ (e - e) + 1 = 1
      BY <1>1, <1>3
    <3> DEFINE t == SubSeq(line, e, e)
    <3>2. /\ t \in Seq(Chars) /\ Len(t) = (e - e) + 1
          /\ \A i \in 1 .. (e - e) + 1 : t[i] = line[e + i - 1]
      <4>1. e \in 1 .. Len(line) + 1 /\ e \in e - 1 .. Len(line)
        BY <1>1, <3>1
      <4> QED BY <4>1, PartIs
    <3>3. 1 \in 1 .. (e - e) + 1 /\ e + 1 - 1 = e
      BY <3>1
    <3> HIDE DEF t
    <3>4. Len(t) = 1 /\ t[1] = "comma"
      BY <3>1, <3>2, <3>3
    <3>5. Len(sep) = 1 /\ sep[1] = "comma"
      BY <1>2 DEF sep
    <3>6. t = sep
      BY <1>2, <3>2, <3>4, <3>5, SeqEqual
    <3> QED BY <1>1, <3>1, <3>6 DEF t
  <2> QED BY <1>2, <2>1 DEF Marks
<1>7. /\ fs \in Seq(Seq(Chars)) /\ Makes(fs, line, sep)
      /\ \A m \in 1 .. Len(fs) : FieldOf(fs[m], cuts, line, sep, 1)
  <2>1. SubSeq(line, 1, n) = line
    BY SubSeqFull
  <2>2. fs = Rewritten(Cutting(line, cuts, sep))
    BY <1>4, <1>5, <2>1
  <2> QED BY <1>2, <1>6, <2>2, FieldsMade
<1>8. ASSUME NEW m \in 1 .. Len(fs)
      PROVE  /\ Count(fs[m], "quot", Len(fs[m])) % 2 = 0
             /\ \A j \in DOMAIN fs[m] : fs[m][j] = "comma" => Count(fs[m], "quot", j) % 2 = 1
  <2>1. PICK a \in 1 .. n + 1, e \in 1 .. n + 1 :
          /\ a <= e /\ fs[m] = SubSeq(line, a, e - 1)
          /\ a = 1 \/ \E d \in cuts : a = d + 1
          /\ e = n + 1 \/ e \in cuts
          /\ \A d \in a .. e - 1 : d \notin cuts
    BY <1>2, <1>7 DEF FieldOf
  <2> DEFINE f == SubSeq(line, a, e - 1)
             b == a - 1
             l == e - a
  <2>2. /\ f \in Seq(Chars) /\ Len(f) = l /\ l \in Nat /\ b \in Nat
        /\ \A i \in 1 .. l : f[i] = line[b + i]
    <3>1. a \in 1 .. Len(line) + 1 /\ e - 1 \in a - 1 .. Len(line)
      BY <1>1, <2>1
    <3>2. /\ f \in Seq(Chars) /\ Len(f) = (e - 1) - a + 1
          /\ \A i \in 1 .. (e - 1) - a + 1 : f[i] = line[a + i - 1]
      BY <3>1, PartIs
    <3>3. /\ (e - 1) - a + 1 = l /\ l \in Nat /\ b \in Nat
          /\ \A i \in 1 .. l : a + i - 1 = b + i
      BY <1>1, <2>1
    <3> HIDE DEF f, l, b
    <3> QED BY <3>2, <3>3
  <2> HIDE DEF f
  <2>3. /\ Count(line, "quot", b) \in Nat
        /\ \A i \in 0 .. l :
             /\ Count(f, "quot", i) \in Nat
             /\ Count(line, "quot", b + i) = Count(line, "quot", b) + Count(f, "quot", i)
    <3> HIDE DEF b, l
    <3>1. b \in Nat /\ l \in Nat /\ PartAt(f, line, b, l)
      BY <2>2 DEF PartAt
    <3> QED BY ONLY <3>1, CountOfPart
  <2>4. par(b) = 0
    <3>1. CASE a = 1
      <4>1. {j \in 1 .. 0 : line[j] = "quot"} = {}
        OBVIOUS
      <4>2. Count(line, "quot", 0) = 0 /\ b = 0
        BY <3>1, <4>1, FS_EmptySet DEF Count
      <4> QED BY <4>2
    <3>2. CASE \E d \in cuts : a = d + 1
      <4>1. PICK d \in cuts : a = d + 1
        BY <3>2
      <4>2. d \in 1 .. n /\ par(d) = 0
        BY <1>3
      <4>3. b = d
        BY <1>1, <4>1, <4>2
      <4> QED BY <4>2, <4>3
    <3> QED BY <2>1, <3>1, <3>2
  <2>5. par(b + l) = 0
    <3>1. b + l = e - 1 /\ e - 1 \in Nat
      BY <1>1, <2>1
    <3>2. CASE e = n + 1
      <4>1. b + l = n
        BY <1>1, <3>1, <3>2
      <4> QED BY <4>1
    <3>3. CASE e \in cuts
      <4>1. e \in 1 .. n /\ line[e] = "comma" /\ par(e) = 0
        BY <1>3, <3>3
      <4>2. (e - 1) + 1 = e
        BY <4>1
      <4>3. /\ Count(line, "quot", e - 1) \in Nat
            /\ Count(line, "quot", (e - 1) + 1)
                 = Count(line, "quot", e - 1) + (IF line[(e - 1) + 1] = "quot" THEN 1 ELSE 0)
        <5> DEFINE k == e - 1
        <5>1. k \in Nat
          BY <3>1
        <5> HIDE DEF k
        <5>2. /\ Count(line, "quot", k) \in Nat
              /\ Count(line, "quot", k + 1)
                   = Count(line, "quot", k) + (IF line[k + 1] = "quot" THEN 1 ELSE 0)
          BY ONLY <5>1, CountStep
        <5> QED BY <5>2 DEF k
      <4>4. line[e] # "quot"
        BY <4>1
      <4>5. Count(line, "quot", e) = Count(line, "quot", e - 1)
        BY <4>2, <4>3, <4>4
      <4> QED BY <3>1, <4>1, <4>5
    <3> QED BY <2>1, <3>2, <3>3
  <2> HIDE DEF b, l
  <2>6. \A i \in 0 .. l : par(b + i) = Count(f, "quot", i) % 2
    <3>1. ASSUME NEW x \in Nat, NEW y \in Nat, NEW z \in Nat, x % 2 = 0, z = x + y
          PROVE  z % 2 = y % 2
      BY <3>1
    <3>2. ASSUME NEW i \in 0 .. l
          PROVE  par(b + i) = Count(f, "quot", i) % 2
      <4> DEFINE x == Count(line, "quot", b)
                 y == Count(f, "quot", i)
                 z == Count(line, "quot", b + i)
      <4>1. x \in Nat /\ y \in Nat /\ z = x + y /\ x % 2 = 0
        BY <2>3, <2>4
      <4> HIDE DEF x, y, z
      <4>2. z \in Nat
        BY <4>1
      <4>3. z % 2 = y % 2
        BY <3>1, <4>1, <4>2
      <4> QED BY <4>3 DEF y, z
    <3> QED BY <3>2
  <2>7. Count(f, "quot", Len(f)) % 2 = 0
    <3>1. l \in 0 .. l
      BY <2>2
    <3> QED BY <2>2, <2>5, <2>6, <3>1
  <2>8. ASSUME NEW j \in DOMAIN f, f[j] = "comma"
        PROVE  Count(f, "quot", j) % 2 = 1
    <3>1. j \in 1 .. l /\ j \in 0 .. l
      BY <2>2, LenProperties
    <3>2. line[b + j] = "comma"
      BY <2>2, <2>8, <3>1
    <3>3. b + j \in a .. e - 1 /\ b + j \in 1 .. n
      BY <1>1, <2>1, <3>1 DEF b, l
    <3>4. par(b + j) # 0
      BY <1>3, <2>1, <3>2, <3>3
    <3>5. Count(f, "quot", j) \in Nat /\ Count(f, "quot", j) % 2 # 0
      BY <2>3, <2>6, <3>1, <3>4
    <3>6. \A x \in Nat : x % 2 # 0 => x % 2 = 1
      OBVIOUS
    <3> QED BY <3>5, <3>6
  <2> QED BY <2>1, <2>7, <2>8 DEF f
<1>9. DOMAIN fs = 1 .. Len(fs)
  BY <1>7, LenProperties
<1> QED BY <1>7, <1>8, <1>9 DEF sep

(* The lines of a file that make a row.                                     *)
ListedIn(file) ==
  {n \in DOMAIN file : Cleaned(file[n]) # <<>> /\ Head(Cleaned(file[n])) # "#"}

(* Which row such a line makes.                                             *)
Rank(file, n) == Cardinality({m \in ListedIn(file) : m <= n})

(* A table is that of a file.                                               *)
IsTableOf(table, file, sep) ==
  /\ table \in Seq(Seq(Seq(Chars)))
  /\ Len(table) = Cardinality(ListedIn(file))
  /\ \A n \in ListedIn(file) : table[Rank(file, n)] = Split(Cleaned(file[n]), sep)

(* Of a file with no line there is no row.                                  *)
LEMMA NoLineNoRow ==
  ASSUME NEW sep
  PROVE  IsTableOf(<<>>, <<>>, sep)
<1>1. ListedIn(<<>>) = {}
  BY DEF ListedIn
<1>2. Cardinality({}) = 0
  BY FS_EmptySet
<1>3. <<>> \in Seq(Seq(Seq(Chars))) /\ Len(<<>>) = 0
  BY EmptySeq
<1> QED BY <1>1, <1>2, <1>3 DEF IsTableOf

(* A line as the readers clean it.                                          *)
LEMMA CleanedType ==
  ASSUME NEW line \in Seq(STRING)
  PROVE  line \in Seq(Chars) /\ Cleaned(line) \in Seq(Chars)
<1>1. line \in Seq(Chars)
  <2>1. STRING \subseteq Chars
    BY DEF Chars
  <2> QED BY <2>1, SeqMonotonic
<1> QED BY <1>1, TrimType DEF Cleaned

(* The row of a listed line is one of the rows.                             *)
LEMMA RankIsARow ==
  ASSUME NEW file \in Seq(Lines), NEW n \in ListedIn(file)
  PROVE  /\ IsFiniteSet(ListedIn(file))
         /\ Rank(file, n) \in 1 .. Cardinality(ListedIn(file))
<1> DEFINE all == ListedIn(file)
           upto == {m \in all : m <= n}
<1>1. IsFiniteSet(all) /\ Cardinality(all) \in Nat
  <2>1. DOMAIN file = 1 .. Len(file) /\ Len(file) \in Nat
    BY LenProperties
  <2>2. IsFiniteSet(1 .. Len(file)) /\ all \subseteq 1 .. Len(file)
    BY <2>1, FS_Interval DEF ListedIn
  <2> HIDE DEF all
  <2> QED BY <2>2, FS_Subset, FS_CardinalityType
<1>2. n \in Nat
  BY LenProperties DEF ListedIn
<1>3. n \in upto /\ upto \subseteq all
  BY <1>2
<1> HIDE DEF upto, all
<1>4. IsFiniteSet(upto) /\ Cardinality(upto) \in Nat /\ Cardinality(upto) <= Cardinality(all)
  BY <1>1, <1>3, FS_Subset, FS_CardinalityType
<1>5. Cardinality(upto) # 0
  BY <1>3, <1>4, FS_EmptySet
<1>6. Cardinality(upto) \in 1 .. Cardinality(all)
  BY <1>1, <1>4, <1>5
<1> QED BY <1>1, <1>6 DEF Rank, upto, all

(* What a line more does to what is listed.                                 *)
LEMMA OneMoreListed ==
  ASSUME NEW file \in Seq(Lines), NEW line \in Lines
  PROVE  /\ ListedIn(Append(file, line))
              = ListedIn(file)
                  \union (IF PassedOver(Cleaned(line)) THEN {} ELSE {Len(file) + 1})
         /\ \A n \in ListedIn(file) : /\ n \in 1 .. Len(file)
                                      /\ Rank(Append(file, line), n) = Rank(file, n)
                                      /\ Append(file, line)[n] = file[n]
<1> DEFINE more == Append(file, line)
           N == Len(file)
           clean == Cleaned(line)
           Is(cells) == cells # <<>> /\ Head(cells) # "#"
<1>1. /\ N \in Nat /\ DOMAIN file = 1 .. N
      /\ more \in Seq(Lines) /\ Len(more) = N + 1
      /\ \A n \in 1 .. N : more[n] = file[n]
      /\ more[N + 1] = line
  BY AppendProperties, LenProperties
<1>2. DOMAIN more = 1 .. N + 1
  <2> HIDE DEF more
  <2> QED BY <1>1, LenProperties
<1> HIDE DEF more
<1>3. PassedOver(clean) <=> ~ Is(clean)
  <2> HIDE DEF clean
  <2>1. clean # <<>> => Head(clean) = clean[1]
    OBVIOUS
  <2> QED BY <2>1 DEF PassedOver
<1> HIDE DEF N
<1>4. /\ \A n : n \in ListedIn(file) <=> n \in 1 .. N /\ Is(Cleaned(file[n]))
      /\ \A n : n \in ListedIn(more) <=> n \in 1 .. N + 1 /\ Is(Cleaned(more[n]))
  BY <1>1, <1>2 DEF ListedIn
<1> HIDE DEF Is
<1>5. \A n : n \in ListedIn(more) <=> n \in ListedIn(file) \/ (n = N + 1 /\ ~PassedOver(clean))
  <2>1. ASSUME NEW n
        PROVE  n \in 1 .. N + 1 <=> n \in 1 .. N \/ n = N + 1
    BY <1>1
  <2>2. \A n : n \in 1 .. N => more[n] = file[n]
    BY <1>1
  <2> QED BY <1>1, <1>3, <1>4, <2>1, <2>2
<1>6. ListedIn(more) = ListedIn(file) \union (IF PassedOver(clean) THEN {} ELSE {N + 1})
  <2> HIDE DEF clean
  <2> QED BY <1>5
<1>7. ASSUME NEW n \in ListedIn(file)
      PROVE  n \in 1 .. N /\ Rank(more, n) = Rank(file, n) /\ more[n] = file[n]
  <2>1. n \in 1 .. N /\ more[n] = file[n] /\ ~ (N + 1 <= n)
    BY <1>1, <1>4
  <2>2. {m \in ListedIn(more) : m <= n} = {m \in ListedIn(file) : m <= n}
    BY <1>5, <2>1
  <2> QED BY <2>1, <2>2 DEF Rank
<1> QED BY <1>6, <1>7 DEF more, N, clean

(* A line that is passed over makes no row, any other makes one more.       *)
LEMMA RowAdded ==
  ASSUME NEW file \in Seq(Lines), NEW line \in Lines, NEW sep \in Delimiters,
         NEW table, IsTableOf(table, file, sep),
         NEW fields, fields = Split(Cleaned(line), sep)
  PROVE  IsTableOf(IF PassedOver(Cleaned(line)) \/ fields = <<>> THEN table
                   ELSE Append(table, fields),
                   Append(file, line), sep)
<1> DEFINE more == Append(file, line)
           clean == Cleaned(line)
           old == ListedIn(file)
           new == ListedIn(more)
           N == Len(file)
           T == Seq(Seq(Chars))
<1>1. line \in Seq(STRING) /\ sep \in Seq(STRING) /\ sep # <<>>
  BY FileAssumption
<1>2. clean \in Seq(Chars) /\ sep \in Seq(Chars)
  BY <1>1, CleanedType
<1>3. /\ table \in Seq(T) /\ Len(table) = Cardinality(old)
      /\ \A n \in old : table[Rank(file, n)] = Split(Cleaned(file[n]), sep)
  BY DEF IsTableOf
<1>4. /\ new = old \union (IF PassedOver(clean) THEN {} ELSE {N + 1})
      /\ \A n \in old : /\ n \in 1 .. N /\ Rank(more, n) = Rank(file, n)
                        /\ more[n] = file[n]
  BY OneMoreListed
<1>5. N \in Nat /\ more[N + 1] = line
  BY AppendProperties, LenProperties
<1>6. \A n \in old : Rank(file, n) \in 1 .. Len(table)
  BY <1>3, RankIsARow
<1> HIDE DEF more, clean
<1>7. CASE PassedOver(clean)
  <2>1. new = old
    BY <1>4, <1>7
  <2>2. IsTableOf(table, more, sep)
    <3>1. \A n \in new : table[Rank(more, n)] = Split(Cleaned(more[n]), sep)
      BY <1>3, <1>4, <2>1
    <3> QED BY <1>3, <2>1, <3>1 DEF IsTableOf
  <2> QED BY <1>7, <2>2 DEF more, clean
<1>8. CASE ~ PassedOver(clean)
  <2>1. fields \in T /\ fields # <<>>
    <3>1. clean # <<>>
      BY <1>8 DEF PassedOver
    <3>2. fields \in Seq(Seq(Chars)) /\ fields # <<>>
      BY <1>1, <1>2, <3>1, SplitMakes DEF clean
    <3> QED BY <3>2
  <2> DEFINE res == Append(table, fields)
  <2>2. /\ res \in Seq(T) /\ Len(res) = Len(table) + 1
        /\ \A k \in 1 .. Len(table) : res[k] = table[k]
        /\ res[Len(table) + 1] = fields
    <3> HIDE DEF T
    <3> QED BY <1>3, <2>1, AppendProperties
  <2> HIDE DEF res
  <2>3. IsFiniteSet(old) /\ N + 1 \notin old /\ new = old \union {N + 1}
    <3>1. IsFiniteSet(old)
      <4>1. CASE old = {}
        BY <4>1, FS_EmptySet
      <4>2. CASE old # {}
        BY <4>2, RankIsARow
      <4> QED BY <4>1, <4>2
    <3>2. N + 1 \notin 1 .. N
      BY <1>5
    <3> QED BY <1>4, <1>8, <3>1, <3>2
  <2>4. Cardinality(new) = Cardinality(old) + 1
    <3> HIDE DEF old, new
    <3> QED BY <2>3, FS_AddElement
  <2>5. Rank(more, N + 1) = Len(table) + 1
    <3>1. {m \in new : m <= N + 1} = new
      <4>1. \A m \in old : m <= N + 1
        BY <1>4, <1>5
      <4>2. N + 1 <= N + 1
        BY <1>5
      <4> HIDE DEF old, new, N
      <4> QED BY <2>3, <4>1, <4>2
    <3> QED BY <1>3, <2>4, <3>1 DEF Rank
  <2>6. ASSUME NEW n \in new
        PROVE  res[Rank(more, n)] = Split(Cleaned(more[n]), sep)
    <3>1. CASE n \in old
      BY <1>3, <1>4, <1>6, <2>2, <3>1
    <3>2. CASE n = N + 1
      BY <1>5, <2>2, <2>5, <3>2
    <3> QED BY <2>3, <3>1, <3>2
  <2>7. Len(res) = Cardinality(new)
    BY <1>3, <2>2, <2>4
  <2>8. IsTableOf(res, more, sep)
    BY <2>2, <2>6, <2>7 DEF IsTableOf
  <2> QED BY <1>8, <2>1, <2>8 DEF more, clean, res
<1> QED BY <1>7, <1>8

(* What the two loads leave and what split_with_quot gives.                 *)
TableInv ==
  /\ seen \in [csv : Seq(Lines), config : Seq(Lines)]
  /\ delimiter \in Delimiters
  /\ IsTableOf(rows, seen.csv, delimiter)
  /\ \/ quoted.line = <<>>
     \/ /\ quoted.line \in Seq(STRING)
        /\ quoted.fields = SplitWithQuot(quoted.line, "comma", "quot")

(* The invariant says what FieldsMakeTheLine says.                          *)
LEMMA TableInvSays == TableInv => FieldsMakeTheLine
<1> SUFFICES ASSUME TableInv
             PROVE  FieldsMakeTheLine
  OBVIOUS
<1> DEFINE file == seen.csv
           row(n) == rows[Rank(file, n)]
<1>1. /\ Len(rows) = Cardinality(ListedIn(file))
      /\ \A n \in ListedIn(file) : row(n) = Split(Cleaned(file[n]), delimiter)
      /\ file \in Seq(Lines) /\ delimiter \in Delimiters
  BY DEF TableInv, IsTableOf
<1>2. ASSUME NEW n \in ListedIn(file)
      PROVE  /\ Makes(row(n), Cleaned(file[n]), delimiter)
             /\ \A i \in DOMAIN row(n) : Finds(row(n)[i], delimiter) = {}
  <2> DEFINE line == file[n]
             clean == Cleaned(line)
             fs == row(n)
  <2>1. n \in 1 .. Len(file) /\ clean # <<>>
    BY <1>1, LenProperties DEF ListedIn
  <2>2. line \in Lines
    BY <1>1, <2>1, ElementOfSeq
  <2>3. line \in Seq(STRING) /\ delimiter \in Seq(STRING) /\ delimiter # <<>>
    BY <1>1, <2>2, FileAssumption
  <2>4. clean \in Seq(Chars) /\ delimiter \in Seq(Chars)
    BY <2>3, CleanedType
  <2>5. fs = Split(clean, delimiter)
    BY <1>1
  <2> HIDE DEF clean, fs
  <2>6. Makes(fs, clean, delimiter) /\ \A i \in DOMAIN fs : Finds(fs[i], delimiter) = {}
    BY <2>1, <2>3, <2>4, <2>5, SplitMakes
  <2> QED BY <2>6 DEF fs, clean
<1>3. ASSUME quoted.line # <<>>, (Count(quoted.line, "quot", Len(quoted.line)) % 2) = 0
      PROVE  /\ Makes(quoted.fields, quoted.line, <<"comma">>)
             /\ \A m \in DOMAIN quoted.fields :
                  /\ Count(quoted.fields[m], "quot", Len(quoted.fields[m])) % 2 = 0
                  /\ \A j \in DOMAIN quoted.fields[m] :
                       quoted.fields[m][j] = "comma" => Count(quoted.fields[m], "quot", j) % 2 = 1
  <2> DEFINE line == quoted.line
             fs == quoted.fields
  <2>1. line \in Seq(STRING) /\ fs = SplitWithQuot(line, "comma", "quot")
    BY <1>3 DEF TableInv
  <2>2. line \in Seq(Chars)
    BY <2>1, CleanedType
  <2>3. line # <<>> /\ Count(line, "quot", Len(line)) % 2 = 0
    BY <1>3
  <2> HIDE DEF line, fs
  <2>4. /\ Makes(fs, line, <<"comma">>)
        /\ \A m \in DOMAIN fs :
             /\ Count(fs[m], "quot", Len(fs[m])) % 2 = 0
             /\ \A j \in DOMAIN fs[m] :
                  fs[m][j] = "comma" => Count(fs[m], "quot", j) % 2 = 1
    BY <2>1, <2>2, <2>3, QuotMakes
  <2> QED BY <2>4 DEF line, fs
<1>4. /\ Len(rows) = Cardinality(ListedIn(file))
      /\ \A n \in ListedIn(file) :
           /\ Makes(row(n), Cleaned(file[n]), delimiter)
           /\ \A i \in DOMAIN row(n) : Finds(row(n)[i], delimiter) = {}
  BY <1>1, <1>2
<1>5. \A n \in DOMAIN file : Content(file[n]) = Cleaned(file[n])
  <2>1. ASSUME NEW n \in 1 .. Len(file)
        PROVE  Content(file[n]) = Cleaned(file[n])
    <3>1. file[n] \in Lines
      BY <1>1, ElementOfSeq
    <3> QED BY <3>1, FileAssumption, ContentIsCleaned
  <2> QED BY <1>1, <2>1, LenProperties
<1>6. ListedIn(file) = {n \in DOMAIN file : Content(file[n]) # <<>> /\ Head(Content(file[n])) # "#"}
  BY <1>5 DEF ListedIn
<1>7. \A n \in ListedIn(file) : Makes(row(n), Content(file[n]), delimiter)
  BY <1>4, <1>5 DEF ListedIn
<1> QED BY <1>3, <1>4, <1>6, <1>7 DEF FieldsMakeTheLine, Rank

(* A step that touches no row, no delimiter and no quoted text.             *)
LEMMA TableStays ==
  ASSUME TableInv, rows' = rows, delimiter' = delimiter, quoted' = quoted,
         seen' \in [csv : Seq(Lines), config : Seq(Lines)], seen'.csv = seen.csv
  PROVE  TableInv'
  BY DEF TableInv

(* Every step keeps the invariant.                                          *)
LEMMA TableInvInductive ==
  ASSUME TableInv, [FileNext]_fileVars
  PROVE  TableInv'
<1>1. /\ seen \in [csv : Seq(Lines), config : Seq(Lines)]
      /\ seen.csv \in Seq(Lines) /\ seen.config \in Seq(Lines)
  BY DEF TableInv
<1>2. <<>> \in Seq(Lines)
  BY EmptySeq
<1>3. CASE CsvRefuses \/ CsvEnds \/ ConfigEnds \/ UNCHANGED fileVars
  BY <1>1, <1>3, TableStays DEF CsvRefuses, CsvEnds, ConfigEnds, fileVars
<1>4. CASE ConfigFindsNone \/ ConfigOpens
  <2>1. /\ rows' = rows /\ delimiter' = delimiter /\ quoted' = quoted
        /\ seen' = [seen EXCEPT !["config"] = <<>>]
    BY <1>4 DEF ConfigFindsNone, ConfigOpens, Opens
  <2>2. seen' \in [csv : Seq(Lines), config : Seq(Lines)] /\ seen'.csv = seen.csv
    BY <1>1, <1>2, <2>1
  <2> QED BY <2>1, <2>2, TableStays
<1>5. ASSUME NEW line \in Lines, ConfigLine(line)
      PROVE  TableInv'
  <2>1. /\ rows' = rows /\ delimiter' = delimiter /\ quoted' = quoted
        /\ seen' = [seen EXCEPT !["config"] = Append(seen["config"], line)]
    BY <1>5 DEF ConfigLine, ReadsLine
  <2>2. Append(seen.config, line) \in Seq(Lines)
    BY <1>1, AppendProperties
  <2>3. seen' \in [csv : Seq(Lines), config : Seq(Lines)] /\ seen'.csv = seen.csv
    BY <1>1, <2>1, <2>2
  <2> QED BY <2>1, <2>3, TableStays
<1>6. ASSUME NEW separator \in Delimiters, CsvOpens(separator)
      PROVE  TableInv'
  <2>1. /\ rows' = <<>> /\ delimiter' = separator /\ quoted' = quoted
        /\ seen' = [seen EXCEPT !["csv"] = <<>>]
    BY <1>6 DEF CsvOpens, Opens
  <2>2. seen' \in [csv : Seq(Lines), config : Seq(Lines)] /\ seen'.csv = <<>>
    BY <1>1, <1>2, <2>1
  <2>3. IsTableOf(rows', seen'.csv, delimiter')
    BY <2>1, <2>2, NoLineNoRow
  <2> QED BY <1>6, <2>1, <2>2, <2>3 DEF TableInv
<1>7. ASSUME NEW line \in Lines, CsvLine(line)
      PROVE  TableInv'
  <2> DEFINE clean == Cleaned(line)
             fields == Split(clean, delimiter)
  <2>1. /\ rows' = IF PassedOver(clean) \/ fields = <<>> THEN rows ELSE Append(rows, fields)
        /\ delimiter' = delimiter /\ quoted' = quoted
        /\ seen' = [seen EXCEPT !["csv"] = Append(seen["csv"], line)]
    BY <1>7 DEF CsvLine, ReadsLine
  <2> HIDE DEF fields
  <2>2. Append(seen.csv, line) \in Seq(Lines)
    BY <1>1, AppendProperties
  <2>3. /\ seen' \in [csv : Seq(Lines), config : Seq(Lines)]
        /\ seen'.csv = Append(seen.csv, line)
    BY <1>1, <2>1, <2>2
  <2>4. IsTableOf(rows', Append(seen.csv, line), delimiter)
    <3>1. /\ seen.csv \in Seq(Lines) /\ line \in Lines /\ delimiter \in Delimiters
          /\ IsTableOf(rows, seen.csv, delimiter)
          /\ fields = Split(Cleaned(line), delimiter)
      BY <1>1 DEF TableInv, fields
    <3>2. IsTableOf(IF PassedOver(Cleaned(line)) \/ fields = <<>> THEN rows
                    ELSE Append(rows, fields),
                    Append(seen.csv, line), delimiter)
      BY ONLY <3>1, RowAdded
    <3> QED BY <2>1, <3>2
  <2> QED BY <2>1, <2>3, <2>4 DEF TableInv
<1>8. ASSUME NEW line \in QuotedLines, AskSplitWithQuot(line)
      PROVE  TableInv'
  <2>1. /\ quoted' = [line |-> line, fields |-> SplitWithQuot(line, "comma", "quot")]
        /\ UNCHANGED <<rows, seen, delimiter>>
    BY <1>8 DEF AskSplitWithQuot
  <2>2. line \in Seq(STRING)
    BY FileAssumption
  <2>3. quoted'.line = line /\ quoted'.fields = SplitWithQuot(line, "comma", "quot")
    BY <2>1
  <2> QED BY <2>1, <2>2, <2>3 DEF TableInv
<1> QED BY <1>3, <1>4, <1>5, <1>6, <1>7, <1>8 DEF FileNext, LoadNext

(* Whatever files are read, with whatever delimiters, and whatever texts    *)
(* split_with_quot is given: no character of a line is lost but an empty    *)
(* field at its end, and every separator that is to end a field ends one.   *)
THEOREM FieldsMakeTheLineHolds == FileSpec => []FieldsMakeTheLine
<1>1. FileInit => TableInv
  <2> SUFFICES ASSUME FileInit
               PROVE  TableInv
    OBVIOUS
  <2>1. <<>> \in Seq(Lines)
    BY EmptySeq
  <2>2. /\ rows = <<>> /\ delimiter \in Delimiters
        /\ seen = [csv |-> <<>>, config |-> <<>>] /\ quoted.line = <<>>
    BY DEF FileInit
  <2>3. seen \in [csv : Seq(Lines), config : Seq(Lines)] /\ seen.csv = <<>>
    BY <2>1, <2>2
  <2>4. IsTableOf(rows, seen.csv, delimiter)
    BY <2>2, <2>3, NoLineNoRow
  <2> QED BY <2>2, <2>3, <2>4 DEF TableInv
<1>2. TableInv /\ [FileNext]_fileVars => TableInv'
  BY TableInvInductive
<1> QED BY <1>1, <1>2, TableInvSays, PTL DEF FileSpec

-----------------------------------------------------------------------------
(* StrPair: what a text becomes.                                            *)

(* What GetStr may write.                                                   *)
Out == Cells \union {"lf", "<", "u", " "}

(* RestMoves for such texts.                                                *)
LEMMA OutMoves ==
  ASSUME NEW items, Fit(items, Out), NEW i \in 1 .. Len(items),
         NEW done \in Seq(Out)
  PROVE  /\ i + items[i].takes \in i + 1 .. Len(items) + 1
         /\ done \o Rest(items)[i]
              = (done \o items[i].gives) \o Rest(items)[i + items[i].takes]
  BY RestMoves

(* The cell i of a text as the memory shows it.                             *)
At(t, i) == IF i <= Len(t) THEN t[i] ELSE "nul"

(* A line end is one item, of one cell or two.                              *)
LEMMA ItemNewline ==
  ASSUME NEW t, NEW f, NEW i \in Nat, i <= Len(t),
         "newlines" \in f, t[i] \in {"cr", "lf"}
  PROVE  Item(t, f, i) = [takes |-> IF {At(t, i), At(t, i + 1)} = {"cr", "lf"} THEN 2 ELSE 1,
                          gives |-> <<"lf">>]
<1>1. CASE {At(t, i), At(t, i + 1)} = {"cr", "lf"}
  BY <1>1 DEF Item, At
<1>2. CASE {At(t, i), At(t, i + 1)} # {"cr", "lf"} /\ t[i] = "cr"
  <2>1. At(t, i) = "cr" /\ At(t, i + 1) # "lf"
    BY <1>2 DEF At
  <2> QED BY <1>2, <2>1 DEF Item, At
<1>3. CASE {At(t, i), At(t, i + 1)} # {"cr", "lf"} /\ t[i] = "lf"
  BY <1>3 DEF Item, At
<1> QED BY <1>1, <1>2, <1>3

(* An entity of the table.                                                  *)
LEMMA ItemEntity ==
  ASSUME NEW t, NEW f, NEW i \in Nat, i <= Len(t),
         "entities" \in f, t[i] = "&", At(t, i + 1) = "e"
  PROVE  Item(t, f, i) = [takes |-> 2, gives |-> <<"<">>]
<1>1. {At(t, i), At(t, i + 1)} # {"cr", "lf"}
  BY DEF At
<1> QED BY <1>1 DEF Item, At

(* A character reference, or what looks like the beginning of one.          *)
LEMMA ItemReference ==
  ASSUME NEW t, NEW f, NEW i \in Nat, i <= Len(t), Len(t) \in Nat,
         "entities" \in f, t[i] = "&", At(t, i + 1) = "#"
  PROVE  Item(t, f, i) =
           IF i + 1 = Len(t) THEN [takes |-> 1, gives |-> <<>>]
           ELSE IF At(t, i + 2) = "w" THEN [takes |-> 3, gives |-> <<"u", "u">>]
           ELSE [takes |-> 1, gives |-> <<"&">>]
<1>1. {At(t, i), At(t, i + 1)} # {"cr", "lf"}
  BY DEF At
<1>2. i + 1 = Len(t) => At(t, i + 2) = "nul"
  BY DEF At
<1>3. CASE i + 1 = Len(t)
  BY <1>1, <1>2, <1>3 DEF Item, At
<1>4. CASE i + 1 # Len(t) /\ At(t, i + 2) = "w"
  BY <1>1, <1>4 DEF Item, At
<1>5. CASE i + 1 # Len(t) /\ At(t, i + 2) # "w"
  BY <1>1, <1>5 DEF Item, At
<1> QED BY <1>3, <1>4, <1>5

(* Any other cell stands for itself.                                        *)
LEMMA ItemPlain ==
  ASSUME NEW t, NEW f, NEW i \in Nat, i <= Len(t),
         ~ ("newlines" \in f /\ t[i] \in {"cr", "lf"}),
         ~ ("entities" \in f /\ t[i] = "&" /\ At(t, i + 1) \in {"#", "e"})
  PROVE  Item(t, f, i) = [takes |-> 1, gives |-> <<t[i]>>]
<1>1. At(t, i) = t[i]
  BY DEF At
<1>2. ASSUME "newlines" \in f
      PROVE  {At(t, i), At(t, i + 1)} # {"cr", "lf"} /\ At(t, i) # "cr"
  BY <1>1, <1>2
<1> QED BY <1>1, <1>2 DEF Item, At

(* The items of a text are pieces of it.                                    *)
LEMMA ItemsFit ==
  ASSUME NEW t \in Seq(Cells), NEW f
  PROVE  /\ Fit(Items(t, f), Out)
         /\ Len(Items(t, f)) = Len(t)
         /\ \A i \in 1 .. Len(t) : Items(t, f)[i] = Item(t, f, i)
<1> DEFINE n == Len(t)
           item(i) == Item(t, f, i)
<1>1. n \in Nat /\ \A i \in 1 .. n : t[i] \in Cells
  BY LenProperties, ElementOfSeq
<1>2. \A c \in Out : <<c>> \in Seq(Out) /\ <<c, c>> \in Seq(Out)
  OBVIOUS
<1>3. <<>> \in Seq(Out)
  BY EmptySeq
<1>5. ASSUME NEW i \in 1 .. n
      PROVE  /\ item(i).takes \in 1 .. n + 1 - i
             /\ item(i).gives \in Seq(Out)
             /\ item(i) \in [takes : Nat, gives : Seq(Out)]
  <2>1. i \in Nat /\ i <= n /\ t[i] \in Cells
    BY <1>1
  <2>2. At(t, i + 1) # "nul" => i + 2 <= n + 1
    BY <1>1 DEF At
  <2>3. At(t, i + 2) # "nul" => i + 3 <= n + 1
    BY <1>1 DEF At
  <2> HIDE DEF n
  <2>4. CASE "newlines" \in f /\ t[i] \in {"cr", "lf"}
    <3>1. item(i) = [takes |-> IF {At(t, i), At(t, i + 1)} = {"cr", "lf"} THEN 2 ELSE 1,
                          gives |-> <<"lf">>]
      BY <2>1, <2>4, ItemNewline DEF n
    <3>2. {At(t, i), At(t, i + 1)} = {"cr", "lf"} => At(t, i + 1) # "nul"
      OBVIOUS
    <3>3. <<"lf">> \in Seq(Out)
      BY <1>2 DEF Out
    <3> HIDE DEF item
    <3>4. item(i).takes \in 1 .. n + 1 - i /\ item(i).gives = <<"lf">> /\ item(i).takes \in Nat
      BY <1>1, <2>2, <3>1, <3>2
    <3> QED BY <3>1, <3>3, <3>4
  <2>5. CASE "entities" \in f /\ t[i] = "&" /\ At(t, i + 1) = "e"
    <3>1. item(i) = [takes |-> 2, gives |-> <<"<">>]
      BY <2>1, <2>5, ItemEntity DEF n
    <3>3. <<"<">> \in Seq(Out)
      BY <1>2 DEF Out
    <3> HIDE DEF item
    <3>4. item(i).takes \in 1 .. n + 1 - i /\ item(i).gives = <<"<">> /\ item(i).takes \in Nat
      BY <1>1, <2>2, <2>5, <3>1
    <3> QED BY <3>1, <3>3, <3>4
  <2>6. CASE "entities" \in f /\ t[i] = "&" /\ At(t, i + 1) = "#"
    <3>1. item(i) =
           IF i + 1 = Len(t) THEN [takes |-> 1, gives |-> <<>>]
           ELSE IF At(t, i + 2) = "w" THEN [takes |-> 3, gives |-> <<"u", "u">>]
           ELSE [takes |-> 1, gives |-> <<"&">>]
      BY <1>1, <2>1, <2>6, ItemReference DEF n
    <3>3. <<"&">> \in Seq(Out) /\ <<"u", "u">> \in Seq(Out)
      BY <1>2, <2>1, <2>6 DEF Out
    <3> HIDE DEF item
    <3>4. /\ item(i).takes \in 1 .. n + 1 - i /\ item(i).takes \in Nat
          /\ item(i).gives \in {<<>>, <<"u", "u">>, <<"&">>}
      BY <1>1, <2>2, <2>3, <2>6, <3>1
    <3>5. item(i).gives \in Seq(Out)
      BY <1>3, <3>3, <3>4
    <3>6. item(i) = [takes |-> item(i).takes, gives |-> item(i).gives]
      BY <3>1
    <3> QED BY <3>4, <3>5, <3>6
  <2>7. CASE /\ ~ ("newlines" \in f /\ t[i] \in {"cr", "lf"})
             /\ ~ ("entities" \in f /\ t[i] = "&" /\ At(t, i + 1) \in {"#", "e"})
    <3>1. item(i) = [takes |-> 1, gives |-> <<t[i]>>]
      BY <2>1, <2>7, ItemPlain DEF n
    <3>3. <<t[i]>> \in Seq(Out)
      BY <1>2, <2>1 DEF Out
    <3> HIDE DEF item
    <3>4. item(i).takes \in 1 .. n + 1 - i /\ item(i).gives = <<t[i]>> /\ item(i).takes \in Nat
      BY <1>1, <3>1
    <3> QED BY <3>1, <3>3, <3>4
  <2> QED BY <2>4, <2>5, <2>6, <2>7
<1>6. Items(t, f) = [i \in 1 .. n |-> item(i)]
  BY DEF Items
<1> HIDE DEF n, item
<1>7. /\ Items(t, f) \in Seq([takes : Nat, gives : Seq(Out)])
      /\ Len(Items(t, f)) = n
      /\ \A i \in 1 .. n : Items(t, f)[i] = item(i)
  BY <1>1, <1>5, <1>6
<1>8. \A i \in 1 .. n : /\ Items(t, f)[i].takes \in 1 .. n + 1 - i
                        /\ Items(t, f)[i].gives \in Seq(Out)
  BY <1>5, <1>7
<1>9. Fit(Items(t, f), Out)
  BY <1>7, <1>8 DEF Fit
<1> QED BY <1>7, <1>9 DEF n, item

(* Cells that stand for themselves make the text they are from.             *)
LEMMA RestOfPlain ==
  ASSUME NEW t \in Seq(Cells)
  PROVE  Rest(Items(t, {}))[1] = t
<1> DEFINE n == Len(t)
           items == Items(t, {})
           r == Rest(items)
           Bad == {j \in 0 .. n : r[n + 1 - j] # SubSeq(t, n + 1 - j, n)}
<1>1. n \in Nat
  BY LenProperties
<1>2. Fit(items, Out) /\ Len(items) = n /\ \A i \in 1 .. n : items[i] = Item(t, {}, i)
  BY ItemsFit
<1>3. IsRest(items, r, 1, Out)
  BY <1>2, RestIs
<1> HIDE DEF r, items
<1>4. Bad = {}
  <2>1. SUFFICES ASSUME Bad # {}
        PROVE  FALSE
    OBVIOUS
  <2>2. Bad \in SUBSET Nat
    BY <1>1
  <2>3. PICK j \in Bad : \A m \in Bad : j <= m
    <3> HIDE DEF Bad
    <3> QED BY <2>1, <2>2, Least
  <2> DEFINE i == n + 1 - j
  <2>4. j \in 0 .. n /\ r[i] # SubSeq(t, i, n)
    BY <2>3
  <2>5. j # 0
    <3>1. SubSeq(t, n + 1, n) = <<>>
      BY <1>1, SubSeqEmpty
    <3>2. r[n + 1] = <<>>
      BY <1>2, <1>3 DEF IsRest
    <3>3. j = 0 => i = n + 1
      BY <1>1
    <3> QED BY <2>4, <3>1, <3>2, <3>3
  <2>6. /\ i \in 1 .. n /\ n \in i .. n /\ j - 1 \in 0 .. n /\ ~ (j <= j - 1)
        /\ n + 1 - (j - 1) = i + 1 /\ i \in Nat /\ i <= n
    BY <1>1, <2>4, <2>5
  <2> HIDE DEF i
  <2>7. j - 1 \notin Bad
    BY <2>3, <2>6
  <2>8. r[i + 1] = SubSeq(t, i + 1, n)
    BY <2>6, <2>7
  <2>9. Item(t, {}, i) = [takes |-> 1, gives |-> <<t[i]>>]
    BY <2>6, ItemPlain
  <2>10. items[i].takes = 1 /\ items[i].gives = <<t[i]>>
    BY <1>2, <2>6, <2>9
  <2>11. r[i] = <<t[i]>> \o r[i + 1]
    BY <1>2, <1>3, <2>6, <2>10 DEF IsRest
  <2>12. SubSeq(t, i, n) = <<t[i]>> \o SubSeq(t, i + 1, n)
    BY <2>6, SubSeqRecursiveFirst
  <2> QED BY <2>4, <2>8, <2>11, <2>12
<1>5. r[1] = SubSeq(t, 1, n)
  <2>1. n \in 0 .. n /\ n + 1 - n = 1
    BY <1>1
  <2> QED BY <1>4, <2>1
<1> QED BY <1>5, SubSeqFull DEF r, items

(* Memory m with the cells w from b on.                                     *)
Writing(m, b, w) ==
  [i \in DOMAIN m |-> IF i \in b .. b + Len(w) - 1 THEN w[i - b + 1] ELSE m[i]]

(* What is written behind what was written before comes behind it.          *)
LEMMA Written ==
  ASSUME NEW M, NEW m \in Seq(M), NEW w \in Seq(M),
         NEW a \in 1 .. Len(m) + 1, NEW b \in a .. Len(m) + 1,
         b + Len(w) <= Len(m) + 1
  PROVE  /\ Writing(m, b, w) \in Seq(M)
         /\ Len(Writing(m, b, w)) = Len(m)
         /\ \A i \in 1 .. Len(m) : i < b \/ i >= b + Len(w) => Writing(m, b, w)[i] = m[i]
         /\ SubSeq(Writing(m, b, w), a, b + Len(w) - 1) = SubSeq(m, a, b - 1) \o w
<1> DEFINE n == Len(m)
           k == Len(w)
           v == Writing(m, b, w)
<1>1. n \in Nat /\ k \in Nat /\ DOMAIN m = 1 .. n /\ a \in Int /\ b \in Int
  BY LenProperties
<1>2. \A i \in 1 .. n : v[i] = IF i \in b .. b + k - 1 THEN w[i - b + 1] ELSE m[i]
  BY <1>1 DEF Writing
<1>3. v = [i \in 1 .. n |-> v[i]]
  BY <1>1 DEF Writing
<1>4. \A i \in 1 .. n : m[i] \in M
  BY ElementOfSeq
<1>5. \A i \in 1 .. k : w[i] \in M
  BY ElementOfSeq
<1> HIDE DEF v
<1>6. ASSUME NEW i \in 1 .. n
      PROVE  v[i] \in M
  <2>1. CASE i \in b .. b + k - 1
    <3>1. i - b + 1 \in 1 .. k
      BY <1>1, <2>1
    <3> QED BY <1>2, <1>5, <2>1, <3>1
  <2>2. CASE i \notin b .. b + k - 1
    BY <1>2, <1>4, <2>2
  <2> QED BY <2>1, <2>2
<1>7. v \in Seq(M) /\ Len(v) = n
  BY <1>1, <1>3, <1>6
<1>8. \A i \in 1 .. n : i < b \/ i >= b + k => v[i] = m[i]
  <2> HIDE DEF n, k
  <2> QED BY <1>1, <1>2
<1> DEFINE x == SubSeq(v, a, b + k - 1)
           y == SubSeq(m, a, b - 1)
<1>9. x \in Seq(M) /\ Len(x) = b + k - a
      /\ \A i \in 1 .. b + k - a : x[i] = v[a + i - 1]
  <2>1. a \in 1 .. Len(v) + 1 /\ b + k - 1 \in a - 1 .. Len(v)
        /\ (b + k - 1) - a + 1 = b + k - a
    <3> HIDE DEF n, k
    <3> QED BY <1>1, <1>7 DEF n, k
  <2> HIDE DEF k
  <2>2. /\ x \in Seq(M) /\ Len(x) = (b + k - 1) - a + 1
        /\ \A i \in 1 .. (b + k - 1) - a + 1 : x[i] = v[a + i - 1]
    BY <1>7, <2>1, PartIs
  <2> QED BY <2>1, <2>2
<1>10. y \in Seq(M) /\ Len(y) = b - a
       /\ \A i \in 1 .. b - a : y[i] = m[a + i - 1]
  <2>1. a \in 1 .. n + 1 /\ b - 1 \in a - 1 .. n /\ (b - 1) - a + 1 = b - a
    <3> HIDE DEF n
    <3> QED BY <1>1 DEF n
  <2>2. /\ y \in Seq(M) /\ Len(y) = (b - 1) - a + 1
        /\ \A i \in 1 .. (b - 1) - a + 1 : y[i] = m[a + i - 1]
    BY <2>1, PartIs
  <2> QED BY <2>1, <2>2
<1> HIDE DEF x, y
<1>11. y \o w \in Seq(M) /\ Len(y \o w) = (b - a) + k
       /\ \A i \in 1 .. (b - a) + k :
            (y \o w)[i] = IF i <= b - a THEN y[i] ELSE w[i - (b - a)]
  <2>1. Len(y) = b - a /\ y \in Seq(M) /\ w \in Seq(M)
    BY <1>10
  <2>2. /\ y \o w \in Seq(M)
        /\ Len(y \o w) = Len(y) + Len(w)
        /\ \A i \in 1 .. Len(y) + Len(w) :
             (y \o w)[i] = IF i <= Len(y) THEN y[i] ELSE w[i - Len(y)]
    BY ONLY <2>1, ConcatProperties
  <2> QED BY <2>1, <2>2
<1>12. b + k - a = (b - a) + k
  BY <1>1
<1>13. ASSUME NEW i \in 1 .. (b - a) + k
       PROVE  x[i] = (y \o w)[i]
  <2>1. x[i] = v[a + i - 1] /\ a + i - 1 \in 1 .. n
    <3>1. b + k <= n + 1
      OBVIOUS
    <3> HIDE DEF n, k
    <3> QED BY <1>1, <1>9, <1>12, <3>1
  <2> HIDE DEF n, k
  <2>2. CASE i <= b - a
    <3>1. a + i - 1 < b /\ i \in 1 .. b - a
      BY <1>1, <2>2
    <3> QED BY <1>8, <1>10, <1>11, <2>1, <2>2, <3>1
  <2>3. CASE ~ (i <= b - a)
    <3>1. a + i - 1 \in b .. b + k - 1 /\ a + i - 1 - b + 1 = i - (b - a)
      BY <1>1, <2>3
    <3> QED BY <1>2, <1>11, <2>1, <2>3, <3>1
  <2> QED BY <2>2, <2>3
<1>14. x = y \o w
  BY <1>9, <1>11, <1>12, <1>13, SeqEqual
<1> QED BY <1>7, <1>8, <1>14 DEF v, x, y

(* The memory of a span: what was read or written, or the 0 at its end.     *)
Mem == Out \union {"nul"}

(* The pieces of words: what each cell shows.                               *)
LEMMA WordFits ==
  ASSUME NEW u \in Seq(Out)
  PROVE  /\ Fit(Word(u), Out) /\ Len(Word(u)) = Len(u)
         /\ \A i \in 1 .. Len(u) :
              /\ Word(u)[i].takes = 1
              /\ u[i] \notin White => Word(u)[i].gives = <<u[i]>>
              /\ /\ u[i] \in White
                 /\ i - 1 \in 1 .. Len(u) /\ u[i - 1] \notin White
                 /\ \E j \in 1 .. Len(u) : j > i /\ u[j] \notin White
                 => Word(u)[i].gives = <<" ">>
              /\ /\ u[i] \in White
                 /\ \/ i = 1
                    \/ i - 1 \in 1 .. Len(u) /\ u[i - 1] \in White
                    \/ \A j \in 1 .. Len(u) : j > i => u[j] \in White
                 => Word(u)[i].gives = <<>>
<1> DEFINE n == Len(u)
           solid == {i \in 1 .. n : u[i] \notin White}
           shows(i) == IF i \in solid THEN <<u[i]>>
                       ELSE IF i - 1 \in solid /\ \E j \in solid : j > i THEN <<" ">>
                       ELSE <<>>
           w == Word(u)
<1>1. n \in Nat /\ \A i \in 1 .. n : u[i] \in Out
  BY LenProperties, ElementOfSeq
<1>2. w = [i \in 1 .. n |-> [takes |-> 1, gives |-> shows(i)]]
  BY DEF Word
<1>3. ASSUME NEW i \in 1 .. n
      PROVE  shows(i) \in Seq(Out)
  <2>1. <<>> \in Seq(Out)
    BY EmptySeq
  <2>2. <<u[i]>> \in Seq(Out)
    BY <1>1
  <2>3. <<" ">> \in Seq(Out)
    <3>1. " " \in Out
      BY DEF Out
    <3>2. \A x \in Out : <<x>> \in Seq(Out)
      OBVIOUS
    <3> QED BY <3>1, <3>2
  <2> HIDE DEF n, solid
  <2> QED BY <2>1, <2>2, <2>3
<1> HIDE DEF w, shows
<1>4. \A i \in 1 .. n : w[i].takes = 1 /\ w[i].gives = shows(i)
  BY <1>2
<1>5. w \in Seq([takes : Nat, gives : Seq(Out)]) /\ Len(w) = n
  BY <1>1, <1>2, <1>3
<1>6. \A i \in 1 .. n : w[i].takes \in 1 .. n + 1 - i /\ w[i].gives \in Seq(Out)
  BY <1>1, <1>3, <1>4
<1>7. Fit(w, Out)
  BY <1>5, <1>6 DEF Fit
<1> SUFFICES ASSUME NEW i \in 1 .. n
             PROVE  /\ u[i] \notin White => shows(i) = <<u[i]>>
                    /\ /\ u[i] \in White
                       /\ i - 1 \in 1 .. n /\ u[i - 1] \notin White
                       /\ \E j \in 1 .. n : j > i /\ u[j] \notin White
                       => shows(i) = <<" ">>
                    /\ /\ u[i] \in White
                       /\ \/ i = 1
                          \/ i - 1 \in 1 .. n /\ u[i - 1] \in White
                          \/ \A j \in 1 .. n : j > i => u[j] \in White
                       => shows(i) = <<>>
  BY <1>4, <1>5, <1>7 DEF w
<1>8. u[i] \notin White => i \in solid
  OBVIOUS
<1>9. u[i] \in White => i \notin solid
  OBVIOUS
<1>10. i = 1 => i - 1 \notin solid
  BY <1>1
<1>11. u[i - 1] \in White => i - 1 \notin solid
  OBVIOUS
<1>12. (\A j \in 1 .. n : j > i => u[j] \in White) => ~ \E j \in solid : j > i
  OBVIOUS
<1>13. i - 1 \in 1 .. n /\ u[i - 1] \notin White => i - 1 \in solid
  OBVIOUS
<1>14. (\E j \in 1 .. n : j > i /\ u[j] \notin White) => \E j \in solid : j > i
  OBVIOUS
<1> HIDE DEF n, solid
<1> QED BY <1>8, <1>9, <1>10, <1>11, <1>12, <1>13, <1>14 DEF shows

(* A text ends at its first 0.                                              *)
LEMMA EndsThere ==
  ASSUME NEW M, NEW m \in Seq(M), NEW a \in 1 .. Len(m), NEW b \in a .. Len(m),
         m[b] = "nul", \A i \in a .. b - 1 : m[i] # "nul"
  PROVE  Min({i \in a .. Len(m) : m[i] = "nul"}) = b
<1> DEFINE S == {i \in a .. Len(m) : m[i] = "nul"}
<1>1. Len(m) \in Nat
  BY LenProperties
<1>2. S \in SUBSET Nat /\ b \in S
  BY <1>1
<1>3. \A i \in S : b <= i
  BY <1>1
<1> HIDE DEF S
<1>4. Min(S) = b
  BY <1>2, <1>3, MinIsThat
<1> QED BY <1>4 DEF S

(* A 0 written behind a part leaves the part as it is.                      *)
LEMMA PartBefore ==
  ASSUME NEW M, "nul" \in M, NEW m \in Seq(M),
         NEW a \in 1 .. Len(m), NEW b \in a .. Len(m)
  PROVE  /\ [m EXCEPT ![b] = "nul"] \in Seq(M)
         /\ Len([m EXCEPT ![b] = "nul"]) = Len(m)
         /\ [m EXCEPT ![b] = "nul"][b] = "nul"
         /\ \A i \in 1 .. Len(m) : i # b => [m EXCEPT ![b] = "nul"][i] = m[i]
         /\ SubSeq([m EXCEPT ![b] = "nul"], a, b - 1) = SubSeq(m, a, b - 1)
<1> DEFINE v == [m EXCEPT ![b] = "nul"]
           x == SubSeq(v, a, b - 1)
           y == SubSeq(m, a, b - 1)
<1>1. Len(m) \in Nat /\ b \in 1 .. Len(m) /\ a \in Int
  BY LenProperties
<1>2. /\ v \in Seq(M) /\ Len(v) = Len(m)
      /\ \A j \in 1 .. Len(m) : v[j] = IF j = b THEN "nul" ELSE m[j]
  BY <1>1, ExceptSeq
<1> HIDE DEF v
<1>3. a \in 1 .. Len(m) + 1 /\ b - 1 \in a - 1 .. Len(m) /\ (b - 1) - a + 1 = b - a
  BY <1>1
<1>4. /\ x \in Seq(M) /\ Len(x) = (b - 1) - a + 1
      /\ \A i \in 1 .. (b - 1) - a + 1 : x[i] = v[a + i - 1]
  <2>1. a \in 1 .. Len(v) + 1 /\ b - 1 \in a - 1 .. Len(v)
    BY <1>2, <1>3
  <2> QED BY <1>2, <2>1, PartIs
<1>5. /\ y \in Seq(M) /\ Len(y) = (b - 1) - a + 1
      /\ \A i \in 1 .. (b - 1) - a + 1 : y[i] = m[a + i - 1]
  BY <1>3, PartIs
<1> HIDE DEF x, y
<1>6. ASSUME NEW i \in 1 .. Len(x)
      PROVE  x[i] = y[i]
  <2>1. a + i - 1 \in 1 .. Len(m) /\ a + i - 1 # b /\ i \in 1 .. (b - 1) - a + 1
    BY <1>1, <1>4
  <2> QED BY <1>2, <1>4, <1>5, <2>1
<1>7. x = y
  BY <1>4, <1>5, <1>6, SeqEqual
<1> QED BY <1>1, <1>2, <1>7 DEF v, x, y

-----------------------------------------------------------------------------
(* The scan, over a memory m with the read pointer b and the write pointer c: *)
(* b never lies behind c, and what is ahead of b is as it was.               *)
Scans(m, t, b, c) ==
  /\ m \in Seq(Mem) /\ Len(m) = Len(t) + 1
  /\ b \in 1 .. Len(t) + 1 /\ c \in 1 .. b
  /\ \A i \in b .. Len(t) : m[i] = t[i]
  /\ m[Len(t) + 1] = "nul"
  /\ \A i \in 1 .. Len(t) : m[i] \in Out

(* What is written and what is ahead make up what is asked for.             *)
Told(m, t, f, b, c) ==
  SubSeq(m, 1, c - 1) \o Rest(Items(t, f))[b] = Rest(Items(t, f))[1]

(* Ahead of the read pointer is what was read, and the 0 behind it.         *)
LEMMA Ahead ==
  ASSUME NEW t \in Seq(Cells), NEW m, NEW b, NEW c, Scans(m, t, b, c),
         NEW i \in b .. Len(t) + 1
  PROVE  m[i] = At(t, i)
<1>1. Len(t) \in Nat
  BY LenProperties
<1>2. CASE i = Len(t) + 1
  BY <1>1, <1>2 DEF Scans, At
<1>3. CASE i # Len(t) + 1
  <2>1. i \in b .. Len(t) /\ i <= Len(t)
    BY <1>1, <1>3 DEF Scans
  <2> QED BY <2>1 DEF Scans, At
<1> QED BY <1>2, <1>3

(* A turn of the scan that writes w for r cells.                            *)
LEMMA ScanStep ==
  ASSUME NEW t \in Seq(Cells), NEW m, NEW b, NEW c, Scans(m, t, b, c), b <= Len(t),
         NEW r \in Nat, NEW w \in Seq(Out), Len(w) <= r, b + r <= Len(t) + 1
  PROVE  /\ Scans(Writing(m, c, w), t, b + r, c + Len(w))
         /\ \A f : /\ Told(m, t, f, b, c)
                   /\ Item(t, f, b) = [takes |-> r, gives |-> w]
                   => Told(Writing(m, c, w), t, f, b + r, c + Len(w))
<1> DEFINE n == Len(t)
           k == Len(w)
           v == Writing(m, c, w)
<1>1. n \in Nat /\ k \in Nat
  BY LenProperties
<1>2. /\ m \in Seq(Mem) /\ Len(m) = n + 1 /\ b \in 1 .. n + 1 /\ c \in 1 .. b
      /\ \A i \in b .. n : m[i] = t[i]
      /\ m[n + 1] = "nul"
      /\ \A i \in 1 .. n : m[i] \in Out
  BY DEF Scans
<1>3. w \in Seq(Mem)
  BY SeqMonotonic DEF Mem
<1>4. 1 \in 1 .. Len(m) + 1 /\ c \in 1 .. Len(m) + 1 /\ c + k <= Len(m) + 1
  <2> HIDE DEF n, k
  <2>1. k <= r /\ b + r <= n + 1
    BY DEF n, k
  <2> QED BY <1>1, <1>2, <2>1
<1>5. /\ v \in Seq(Mem) /\ Len(v) = n + 1
      /\ \A i \in 1 .. n + 1 : i < c \/ i >= c + k => v[i] = m[i]
      /\ SubSeq(v, 1, c + k - 1) = SubSeq(m, 1, c - 1) \o w
  <2>1. /\ m \in Seq(Mem) /\ w \in Seq(Mem) /\ 1 \in 1 .. Len(m) + 1
        /\ c \in 1 .. Len(m) + 1 /\ c + Len(w) <= Len(m) + 1
    BY <1>2, <1>3, <1>4
  <2>2. /\ v \in Seq(Mem) /\ Len(v) = Len(m)
        /\ \A i \in 1 .. Len(m) : i < c \/ i >= c + Len(w) => v[i] = m[i]
        /\ SubSeq(v, 1, c + Len(w) - 1) = SubSeq(m, 1, c - 1) \o w
    BY ONLY <2>1, Written
  <2> HIDE DEF v
  <2> QED BY <1>2, <2>2
<1>6. \A i \in c .. c + k - 1 : i \in 1 .. n => v[i] \in Out
  <2>1. \A i \in 1 .. n + 1 : i \in c .. c + k - 1 => v[i] = w[i - c + 1]
    <3>1. DOMAIN m = 1 .. n + 1
      BY <1>2, LenProperties
    <3> QED BY <3>1 DEF Writing
  <2>2. \A i \in 1 .. k : w[i] \in Out
    BY ElementOfSeq
  <2>3. ASSUME NEW i \in c .. c + k - 1, i \in 1 .. n
        PROVE  v[i] \in Out
    <3> HIDE DEF n, k, v
    <3>1. i \in 1 .. n + 1 /\ i - c + 1 \in 1 .. k
      BY <1>1, <1>2, <2>3
    <3> QED BY <2>1, <2>2, <3>1
  <2> QED BY <2>3
<1>7. Scans(v, t, b + r, c + k)
  <2>1. k <= r /\ b + r <= n + 1 /\ b <= n
    OBVIOUS
  <2> HIDE DEF n, k, v
  <2>2. b + r \in 1 .. n + 1 /\ c + k \in 1 .. b + r
    BY <1>1, <1>2, <2>1
  <2>3. ASSUME NEW i \in b + r .. n
        PROVE  v[i] = t[i]
    <3>1. i \in b .. n /\ i >= c + k /\ i \in 1 .. n + 1
      BY <1>1, <1>2, <2>1
    <3> QED BY <1>2, <1>5, <3>1
  <2>4. v[n + 1] = "nul"
    <3>1. n + 1 >= c + k /\ n + 1 \in 1 .. n + 1
      BY <1>1, <1>2, <2>1
    <3> QED BY <1>2, <1>5, <3>1
  <2>5. ASSUME NEW i \in 1 .. n
        PROVE  v[i] \in Out
    <3>1. CASE i \in c .. c + k - 1
      BY <1>6, <3>1
    <3>2. CASE i \notin c .. c + k - 1
      <4>1. (i < c \/ i >= c + k) /\ i \in 1 .. n + 1
        BY <1>1, <1>2, <3>2
      <4> QED BY <1>2, <1>5, <4>1
    <3> QED BY <3>1, <3>2
  <2> QED BY <1>5, <2>2, <2>3, <2>4, <2>5 DEF Scans, n
<1>8. ASSUME NEW f, Told(m, t, f, b, c), Item(t, f, b) = [takes |-> r, gives |-> w]
      PROVE  Told(v, t, f, b + r, c + k)
  <2> DEFINE items == Items(t, f)
             done == SubSeq(m, 1, c - 1)
  <2>1. Fit(items, Out) /\ Len(items) = n /\ b \in 1 .. n /\ items[b] = Item(t, f, b)
    <3>1. b \in 1 .. n
      BY <1>1, <1>2
    <3> QED BY <3>1, ItemsFit
  <2>2. items[b].takes = r /\ items[b].gives = w
    BY <1>8, <2>1
  <2>3. done \in Seq(Out)
    <3>1. 1 \in Int /\ c - 1 \in Int /\ \A i \in 1 .. c - 1 : m[i] \in Out
      <4>1. b <= n
        OBVIOUS
      <4> QED BY <1>1, <1>2, <4>1
    <3> QED BY <3>1, SubSeqProperties
  <2>4. done \o Rest(items)[b] = (done \o w) \o Rest(items)[b + r]
    <3> HIDE DEF items, done
    <3>1. b \in 1 .. Len(items)
      BY <2>1
    <3>2. done \o Rest(items)[b]
            = (done \o items[b].gives) \o Rest(items)[b + items[b].takes]
      <4>1. Fit(items, Out) /\ b \in 1 .. Len(items) /\ done \in Seq(Out)
        BY <2>1, <2>3, <3>1
      <4> QED BY ONLY <4>1, OutMoves
    <3> QED BY <2>2, <3>2
  <2>5. SubSeq(v, 1, (c + k) - 1) = done \o w
    <3>1. (c + k) - 1 = c + k - 1
      BY <1>1, <1>2
    <3> QED BY <1>5, <3>1
  <2>6. done \o Rest(items)[b] = Rest(items)[1]
    BY <1>8 DEF Told
  <2> HIDE DEF items, done, v, k
  <2>7. SubSeq(v, 1, (c + k) - 1) \o Rest(items)[b + r] = Rest(items)[1]
    BY <2>4, <2>5, <2>6
  <2> QED BY <2>7 DEF Told, items
<1> QED BY <1>7, <1>8

(* No 0 is written, and a 0 is not white.                                   *)
LEMMA NulIsNotOut == "nul" \notin Out /\ "nul" \notin White
  BY CellsAssumption DEF Out, White

(* Where SkipWhiteSpace stops.                                              *)
LEMMA SkipsTo ==
  ASSUME NEW m, NEW b \in Nat, NEW n \in Nat, NEW z \in b .. n, m[z] \notin White
  PROVE  LET s == Min({j \in b .. n : m[j] \notin White})
         IN /\ s \in b .. z /\ m[s] \notin White
            /\ \A i \in b .. s - 1 : m[i] \in White
<1> DEFINE S == {j \in b .. n : m[j] \notin White}
<1>1. S \in SUBSET Nat /\ z \in S
  OBVIOUS
<1>2. Min(S) \in S /\ \A j \in S : Min(S) <= j
  <2> HIDE DEF S
  <2> QED BY <1>1, MinIs
<1>3. Min(S) \in b .. n /\ m[Min(S)] \notin White /\ Min(S) <= z
  BY <1>1, <1>2
<1>4. ASSUME NEW i \in b .. Min(S) - 1, m[i] \notin White
      PROVE  FALSE
  <2> DEFINE s == Min(S)
  <2>1. s \in b .. n /\ \A j \in S : s <= j
    BY <1>2, <1>3
  <2> HIDE DEF s
  <2>2. i \in b .. n /\ ~ (s <= i)
    BY <2>1 DEF s
  <2>3. i \in S
    BY <1>4, <2>2
  <2> QED BY <2>1, <2>2, <2>3
<1>5. Min(S) \in b .. z
  BY <1>3
<1> QED BY <1>3, <1>4, <1>5

(* CollapseWhitespace over a memory m that holds the text u, from cell a on. *)
Trims(m, u, a, b, c) ==
  /\ u \in Seq(Out) /\ m \in Seq(Mem) /\ Len(u) + 1 \in 1 .. Len(m)
  /\ a \in 1 .. Len(u) + 1 /\ b \in a .. Len(u) + 1 /\ c \in a .. b
  /\ \A i \in b .. Len(u) : m[i] = u[i]
  /\ m[Len(u) + 1] = "nul"
  /\ b # a => u[b - 1] \notin White
  /\ b = a /\ b <= Len(u) => u[b] \notin White
  /\ SubSeq(m, a, c - 1) \in Seq(Out)
  /\ SubSeq(m, a, c - 1) \o Rest(Word(u))[b] = Words(u)

(* It begins at the first cell that is not white.                           *)
LEMMA TrimBegins ==
  ASSUME NEW u \in Seq(Out), NEW m \in Seq(Mem), Len(u) + 1 \in 1 .. Len(m),
         \A i \in 1 .. Len(u) : m[i] = u[i], m[Len(u) + 1] = "nul",
         NEW a \in 1 .. Len(u) + 1, m[a] \notin White,
         \A i \in 1 .. a - 1 : m[i] \in White
  PROVE  Trims(m, u, a, a, a)
<1> DEFINE n == Len(u)
           w == Word(u)
<1>1. n \in Nat /\ a \in Int /\ a <= n + 1
  BY LenProperties
<1>2. /\ Fit(w, Out) /\ Len(w) = n
      /\ \A i \in 1 .. n :
           /\ w[i].takes = 1
           /\ /\ u[i] \in White
              /\ \/ i = 1
                 \/ i - 1 \in 1 .. n /\ u[i - 1] \in White
                 \/ \A j \in 1 .. n : j > i => u[j] \in White
              => w[i].gives = <<>>
  BY WordFits
<1> HIDE DEF w
<1>3. ASSUME NEW i \in 1 .. a - 1
      PROVE  w[i].takes = 1 /\ w[i].gives = <<>>
  <2>1. i \in 1 .. n /\ u[i] \in White
    BY <1>1
  <2>2. i = 1 \/ (i - 1 \in 1 .. n /\ u[i - 1] \in White)
    BY <1>1
  <2> QED BY <1>2, <2>1, <2>2
<1>4. Rest(w)[1] = Rest(w)[a]
  <2>1. 1 \in 1 .. Len(w) + 1 /\ a \in 1 .. Len(w) + 1
    BY <1>1, <1>2
  <2> QED BY <1>2, <1>3, <2>1, RestSkips
<1>5. SubSeq(m, a, a - 1) = <<>>
  BY <1>1, SubSeqEmpty
<1>6. Rest(w)[a] \in Seq(Out)
  <2>1. a \in 1 .. Len(w) + 1
    BY <1>1, <1>2
  <2> QED BY <1>2, <2>1, RestType
<1>7. SubSeq(m, a, a - 1) \o Rest(w)[a] = Words(u)
  BY <1>4, <1>5, <1>6, ConcatEmptySeq DEF Words, Rewritten, w
<1>8. a <= Len(u) => u[a] \notin White
  BY <1>1
<1>9. SubSeq(m, a, a - 1) \in Seq(Out)
  BY <1>5, EmptySeq
<1> QED BY <1>1, <1>7, <1>8, <1>9 DEF Trims, w

(* It ends where nothing but white cells are left.                          *)
LEMMA TrimEnds ==
  ASSUME NEW m, NEW u, NEW a, NEW b, NEW c, Trims(m, u, a, b, c),
         NEW s \in b .. Len(u) + 1, m[s] = "nul",
         \A i \in b .. s - 1 : m[i] \in White
  PROVE  SubSeq(m, a, c - 1) = Words(u)
<1> DEFINE n == Len(u)
           w == Word(u)
           done == SubSeq(m, a, c - 1)
<1>0. u \in Seq(Out)
  BY DEF Trims
<1>1. n \in Nat /\ \A i \in 1 .. n : u[i] \in Out
  BY <1>0, LenProperties, ElementOfSeq
<1>2. /\ m \in Seq(Mem) /\ n + 1 \in 1 .. Len(m)
      /\ a \in 1 .. n + 1 /\ b \in a .. n + 1 /\ c \in a .. b
      /\ \A i \in b .. n : m[i] = u[i]
      /\ done \o Rest(w)[b] = Words(u)
  BY DEF Trims
<1>3. s = n + 1
  <2>1. SUFFICES ASSUME s # n + 1
        PROVE  FALSE
    OBVIOUS
  <2>2. s \in b .. n /\ s \in 1 .. n
    BY <1>1, <1>2, <2>1
  <2> QED BY <1>1, <1>2, <2>2, NulIsNotOut
<1>4. ASSUME NEW i \in b .. n
      PROVE  u[i] \in White
  <2>1. i \in b .. s - 1
    BY <1>1, <1>2, <1>3
  <2> QED BY <1>2, <2>1
<1>5. /\ Fit(w, Out) /\ Len(w) = n
      /\ \A i \in 1 .. n :
           /\ w[i].takes = 1
           /\ /\ u[i] \in White
              /\ \/ i = 1
                 \/ i - 1 \in 1 .. n /\ u[i - 1] \in White
                 \/ \A j \in 1 .. n : j > i => u[j] \in White
              => w[i].gives = <<>>
  BY <1>0, WordFits
<1> HIDE DEF w
<1>6. ASSUME NEW i \in b .. (n + 1) - 1
      PROVE  w[i].takes = 1 /\ w[i].gives = <<>>
  <2>1. i \in 1 .. n /\ i \in b .. n /\ \A j \in 1 .. n : j > i => j \in b .. n
    BY <1>1, <1>2
  <2> QED BY <1>4, <1>5, <2>1
<1>7. Rest(w)[b] = Rest(w)[n + 1]
  <2>1. b \in 1 .. Len(w) + 1 /\ n + 1 \in b .. Len(w) + 1
    BY <1>1, <1>2, <1>5
  <2> QED BY <1>5, <1>6, <2>1, RestSkips
<1>8. Rest(w)[n + 1] = <<>>
  BY <1>5, RestType
<1>9. done \in Seq(Mem)
  <2>1. a \in 1 .. Len(m) + 1 /\ c - 1 \in a - 1 .. Len(m)
    <3>1. Len(m) \in Nat
      BY <1>2, LenProperties
    <3> QED BY <1>1, <1>2, <3>1
  <2> QED BY <1>2, <2>1, PartIs
<1> HIDE DEF done
<1>10. done \o <<>> = done
  BY <1>9, ConcatEmptySeq
<1> QED BY <1>2, <1>7, <1>8, <1>10 DEF done
(* A cell of a word that comes where the last one ended.                    *)
LEMMA TrimPlain ==
  ASSUME NEW m, NEW u, NEW a, NEW b, NEW c, Trims(m, u, a, b, c),
         b <= Len(u), m[b] \notin White
  PROVE  Trims(Writing(m, c, <<m[b]>>), u, a, b + 1, c + 1)
<1> DEFINE n == Len(u)
           items == Word(u)
           done == SubSeq(m, a, c - 1)
           w == <<m[b]>>
           v == Writing(m, c, w)
<1>0. u \in Seq(Out)
  BY DEF Trims
<1>1. n \in Nat /\ \A i \in 1 .. n : u[i] \in Out
  BY <1>0, LenProperties, ElementOfSeq
<1>2. /\ m \in Seq(Mem) /\ n + 1 \in 1 .. Len(m)
      /\ a \in 1 .. n + 1 /\ b \in a .. n + 1 /\ c \in a .. b
      /\ \A i \in b .. n : m[i] = u[i]
      /\ m[n + 1] = "nul"
      /\ done \in Seq(Out)
      /\ done \o Rest(items)[b] = Words(u)
  BY DEF Trims
<1>3. b \in 1 .. n /\ m[b] = u[b] /\ u[b] \in Out /\ Len(m) \in Nat
  BY <1>1, <1>2, LenProperties
<1>4. /\ Fit(items, Out) /\ Len(items) = n
      /\ items[b].takes = 1 /\ items[b].gives = w
  BY <1>0, <1>3, WordFits
<1>5. w \in Seq(Out) /\ Len(w) = 1 /\ w \in Seq(Mem)
  <2>1. \A x \in Out : <<x>> \in Seq(Out)
    OBVIOUS
  <2>2. w \in Seq(Out)
    BY <1>3, <2>1
  <2>3. w \in Seq(Mem)
    BY <2>2, SeqMonotonic DEF Mem
  <2> QED BY <2>2, <2>3
<1> HIDE DEF items, done, w
<1>6. /\ v \in Seq(Mem) /\ Len(v) = Len(m)
      /\ \A i \in 1 .. Len(m) : i < c \/ i >= c + 1 => v[i] = m[i]
      /\ SubSeq(v, a, c) = done \o w
  <2>1. /\ m \in Seq(Mem) /\ w \in Seq(Mem) /\ a \in 1 .. Len(m) + 1
        /\ c \in a .. Len(m) + 1 /\ c + Len(w) <= Len(m) + 1
    BY <1>1, <1>2, <1>3, <1>5
  <2>2. /\ v \in Seq(Mem) /\ Len(v) = Len(m)
        /\ \A i \in 1 .. Len(m) : i < c \/ i >= c + Len(w) => v[i] = m[i]
        /\ SubSeq(v, a, c + Len(w) - 1) = SubSeq(m, a, c - 1) \o w
    BY ONLY <2>1, Written
  <2>3. c + Len(w) - 1 = c
    BY <1>2, <1>5
  <2> HIDE DEF v
  <2> QED BY <1>5, <2>2, <2>3 DEF done
<1>7. done \o Rest(items)[b] = (done \o w) \o Rest(items)[b + 1]
  <2>1. b \in 1 .. Len(items)
    BY <1>3, <1>4
  <2>2. done \o Rest(items)[b]
          = (done \o items[b].gives) \o Rest(items)[b + items[b].takes]
    <3>1. Fit(items, Out) /\ b \in 1 .. Len(items) /\ done \in Seq(Out)
      BY <1>2, <1>4, <2>1
    <3> QED BY ONLY <3>1, OutMoves
  <2> QED BY <1>4, <2>2
<1>8. done \o w \in Seq(Out)
  BY <1>2, <1>5, ConcatProperties
<1> HIDE DEF v
<1>9. SubSeq(v, a, (c + 1) - 1) \in Seq(Out)
      /\ SubSeq(v, a, (c + 1) - 1) \o Rest(items)[b + 1] = Words(u)
  <2>1. (c + 1) - 1 = c
    BY <1>2
  <2> QED BY <1>2, <1>6, <1>7, <1>8, <2>1
<1>10. ASSUME NEW i \in b + 1 .. n + 1
       PROVE  v[i] = m[i]
  <2>1. i \in 1 .. Len(m) /\ i >= c + 1
    BY <1>1, <1>2, <1>3
  <2> QED BY <1>6, <2>1
<1>11. \A i \in b + 1 .. n : v[i] = u[i]
  BY <1>1, <1>2, <1>3, <1>10
<1>12. v[n + 1] = "nul"
  BY <1>1, <1>2, <1>3, <1>10
<1>13. b + 1 \in a .. n + 1 /\ c + 1 \in a .. b + 1 /\ b + 1 # a /\ (b + 1) - 1 = b
  BY <1>1, <1>2, <1>3
<1>14. u[(b + 1) - 1] \notin White
  BY <1>3, <1>13
<1>15. Trims(v, u, a, b + 1, c + 1)
  BY <1>0, <1>2, <1>6, <1>9, <1>11, <1>12, <1>13, <1>14 DEF Trims, n, items
<1> QED BY <1>15 DEF v, w

(* A cell s of a word that comes behind white cells: one space before it.   *)
LEMMA TrimSpaced ==
  ASSUME NEW m, NEW u, NEW a, NEW b, NEW c, Trims(m, u, a, b, c),
         NEW s \in b .. Len(u), s # b, m[s] \notin White,
         \A i \in b .. s - 1 : m[i] \in White
  PROVE  Trims(Writing(m, c, <<" ", m[s]>>), u, a, s + 1, c + 2)
<1> DEFINE n == Len(u)
           items == Word(u)
           done == SubSeq(m, a, c - 1)
           w == <<" ", m[s]>>
           v == Writing(m, c, w)
<1>0. u \in Seq(Out)
  BY DEF Trims
<1>1. n \in Nat /\ \A i \in 1 .. n : u[i] \in Out
  BY <1>0, LenProperties, ElementOfSeq
<1>2. /\ m \in Seq(Mem) /\ n + 1 \in 1 .. Len(m)
      /\ a \in 1 .. n + 1 /\ b \in a .. n + 1 /\ c \in a .. b
      /\ \A i \in b .. n : m[i] = u[i]
      /\ m[n + 1] = "nul"
      /\ b # a => u[b - 1] \notin White
      /\ b = a /\ b <= n => u[b] \notin White
      /\ done \in Seq(Out)
      /\ done \o Rest(items)[b] = Words(u)
  BY DEF Trims
<1>3. /\ s \in 1 .. n /\ b \in 1 .. n /\ s > b
      /\ m[s] = u[s] /\ u[s] \in Out /\ Len(m) \in Nat
  BY <1>1, <1>2, LenProperties
<1>4. \A i \in b .. s - 1 : u[i] \in White
  BY <1>1, <1>2, <1>3
<1>5. u[b] \in White /\ b # a /\ b - 1 \in 1 .. n /\ u[b - 1] \notin White
  <2>1. u[b] \in White
    BY <1>3, <1>4
  <2>2. b # a
    BY <1>1, <1>2, <1>3, <2>1
  <2>3. b - 1 \in 1 .. n
    BY <1>1, <1>2, <1>3, <2>2
  <2> QED BY <1>2, <2>1, <2>2, <2>3
<1>6. /\ Fit(items, Out) /\ Len(items) = n
      /\ \A i \in 1 .. n :
              /\ items[i].takes = 1
              /\ u[i] \notin White => items[i].gives = <<u[i]>>
              /\ /\ u[i] \in White
                 /\ i - 1 \in 1 .. n /\ u[i - 1] \notin White
                 /\ \E j \in 1 .. n : j > i /\ u[j] \notin White
                 => items[i].gives = <<" ">>
              /\ /\ u[i] \in White
                 /\ \/ i = 1
                    \/ i - 1 \in 1 .. n /\ u[i - 1] \in White
                    \/ \A j \in 1 .. n : j > i => u[j] \in White
                 => items[i].gives = <<>>
  BY <1>0, WordFits
<1> HIDE DEF items
<1>7. items[b].takes = 1 /\ items[b].gives = <<" ">>
  <2>1. \E j \in 1 .. n : j > b /\ u[j] \notin White
    BY <1>3
  <2> QED BY <1>3, <1>5, <1>6, <2>1
<1>8. items[s].takes = 1 /\ items[s].gives = <<u[s]>>
  BY <1>3, <1>6
<1>9. ASSUME NEW i \in b + 1 .. s - 1
      PROVE  items[i].takes = 1 /\ items[i].gives = <<>>
  <2>1. i \in 1 .. n /\ i \in b .. s - 1 /\ i - 1 \in b .. s - 1 /\ i - 1 \in 1 .. n
    BY <1>1, <1>3
  <2>2. u[i] \in White /\ u[i - 1] \in White
    BY <1>4, <2>1
  <2> QED BY <1>6, <2>1, <2>2
<1>10. <<" ">> \in Seq(Out) /\ <<u[s]>> \in Seq(Out)
  <2>1. \A x \in Out : <<x>> \in Seq(Out)
    OBVIOUS
  <2>2. " " \in Out
    BY DEF Out
  <2> QED BY <1>3, <2>1, <2>2
<1>11. w \in Seq(Out) /\ Len(w) = 2 /\ w \in Seq(Mem)
  <2>1. w \in Seq(Out)
    <3>1. \A x, y \in Out : <<x, y>> \in Seq(Out)
      OBVIOUS
    <3>2. " " \in Out
      BY DEF Out
    <3> QED BY <1>3, <3>1, <3>2
  <2>2. w \in Seq(Mem)
    BY <2>1, SeqMonotonic DEF Mem
  <2> QED BY <2>1, <2>2
<1>12. <<" ">> \o <<u[s]>> = w
  <2> DEFINE x == <<" ">>
             y == <<u[s]>>
  <2>1. x \in Seq(Out) /\ y \in Seq(Out) /\ Len(x) = 1 /\ Len(y) = 1
        /\ x[1] = " " /\ y[1] = u[s]
    BY <1>10
  <2>2. w \in Seq(Out) /\ Len(w) = 2 /\ w[1] = " " /\ w[2] = u[s]
    BY <1>3, <1>11
  <2> HIDE DEF x, y, w
  <2> DEFINE z == x \o y
  <2>3. /\ z \in Seq(Out)
        /\ Len(z) = Len(x) + Len(y)
        /\ \A i \in 1 .. Len(x) + Len(y) :
             z[i] = IF i <= Len(x) THEN x[i] ELSE y[i - Len(x)]
    BY ONLY <2>1, ConcatProperties
  <2> HIDE DEF z
  <2>4. Len(z) = 2 /\ \A i \in 1 .. 2 : z[i] = IF i <= 1 THEN x[i] ELSE y[i - 1]
    <3>1. Len(x) = 1 /\ Len(y) = 1
      BY <2>1
    <3>2. Len(z) = 1 + 1 /\ \A i \in 1 .. 1 + 1 : z[i] = IF i <= 1 THEN x[i] ELSE y[i - 1]
      BY ONLY <2>3, <3>1
    <3> QED BY ONLY <3>2
  <2>5. z[1] = x[1] /\ z[2] = y[1]
    BY <2>4
  <2>6. z = w
    <3>1. z[1] = w[1] /\ z[2] = w[2]
      BY <2>1, <2>2, <2>5
    <3>2. \A i \in 1 .. 2 : i = 1 \/ i = 2
      OBVIOUS
    <3>3. \A i \in 1 .. 2 : z[i] = w[i]
      BY <3>1, <3>2
    <3> QED BY <2>2, <2>3, <2>4, <3>3, SeqEqual
  <2> QED BY <2>6 DEF x, y, z
<1> HIDE DEF done, w
<1>13. /\ v \in Seq(Mem) /\ Len(v) = Len(m)
       /\ \A i \in 1 .. Len(m) : i < c \/ i >= c + 2 => v[i] = m[i]
       /\ SubSeq(v, a, c + 1) = done \o w
  <2>1. /\ m \in Seq(Mem) /\ w \in Seq(Mem) /\ a \in 1 .. Len(m) + 1
        /\ c \in a .. Len(m) + 1 /\ c + Len(w) <= Len(m) + 1
    BY <1>1, <1>2, <1>3, <1>11
  <2>2. /\ v \in Seq(Mem) /\ Len(v) = Len(m)
        /\ \A i \in 1 .. Len(m) : i < c \/ i >= c + Len(w) => v[i] = m[i]
        /\ SubSeq(v, a, c + Len(w) - 1) = SubSeq(m, a, c - 1) \o w
    BY ONLY <2>1, Written
  <2>3. c + Len(w) - 1 = c + 1
    BY <1>2, <1>11
  <2> HIDE DEF v
  <2> QED BY <1>11, <2>2, <2>3 DEF done
<1>14. done \o Rest(items)[b] = (done \o w) \o Rest(items)[s + 1]
  <2>1. b \in 1 .. Len(items) /\ s \in 1 .. Len(items)
    BY <1>3, <1>6
  <2>2. done \o Rest(items)[b]
          = (done \o items[b].gives) \o Rest(items)[b + items[b].takes]
    <3>1. Fit(items, Out) /\ b \in 1 .. Len(items) /\ done \in Seq(Out)
      BY <1>2, <1>6, <2>1
    <3> QED BY ONLY <3>1, OutMoves
  <2>3. Rest(items)[b + 1] = Rest(items)[s]
    <3>1. b + 1 \in 1 .. n + 1 /\ s \in b + 1 .. n + 1 /\ Len(items) = n
      <4>1. Len(items) = n
        BY <1>6
      <4>2. b + 1 \in 1 .. n + 1
        BY <1>1, <1>3
      <4>3. s \in b + 1 .. n + 1
        BY <1>1, <1>3
      <4> QED BY <4>1, <4>2, <4>3
    <3> QED BY <1>6, <1>9, <3>1, RestSkips
  <2> DEFINE d == done \o <<" ">>
  <2>4. d \in Seq(Out)
    BY <1>2, <1>10, ConcatProperties
  <2> HIDE DEF d
  <2>5. d \o Rest(items)[s]
          = (d \o items[s].gives) \o Rest(items)[s + items[s].takes]
    <3>1. Fit(items, Out) /\ s \in 1 .. Len(items) /\ d \in Seq(Out)
      BY <1>6, <2>1, <2>4
    <3> QED BY ONLY <3>1, OutMoves
  <2>6. d \o <<u[s]>> = done \o w
    <3> DEFINE x == <<" ">>
               y == <<u[s]>>
    <3>1. done \in Seq(Out) /\ x \in Seq(Out) /\ y \in Seq(Out)
      BY <1>2, <1>10
    <3> HIDE DEF x, y
    <3>2. (done \o x) \o y = done \o (x \o y)
      BY ONLY <3>1, ConcatAssociative
    <3> QED BY <1>12, <3>2 DEF d, x, y
  <2> QED BY <1>7, <1>8, <2>2, <2>3, <2>5, <2>6 DEF d
<1>15. done \o w \in Seq(Out)
  BY <1>2, <1>11, ConcatProperties
<1> HIDE DEF v
<1>16. SubSeq(v, a, (c + 2) - 1) \in Seq(Out)
       /\ SubSeq(v, a, (c + 2) - 1) \o Rest(items)[s + 1] = Words(u)
  <2>1. (c + 2) - 1 = c + 1
    BY <1>2
  <2> QED BY <1>2, <1>13, <1>14, <1>15, <2>1
<1>17. ASSUME NEW i \in s + 1 .. n + 1
       PROVE  v[i] = m[i]
  <2>1. i \in 1 .. Len(m) /\ i >= c + 2
    BY <1>1, <1>2, <1>3
  <2> QED BY <1>13, <2>1
<1>18. \A i \in s + 1 .. n : v[i] = u[i]
  BY <1>1, <1>2, <1>3, <1>17
<1>19. v[n + 1] = "nul"
  BY <1>1, <1>2, <1>3, <1>17
<1>20. s + 1 \in a .. n + 1 /\ c + 2 \in a .. s + 1 /\ s + 1 # a /\ (s + 1) - 1 = s
  BY <1>1, <1>2, <1>3
<1>21. u[(s + 1) - 1] \notin White
  BY <1>3, <1>20
<1>22. Trims(v, u, a, s + 1, c + 2)
  BY <1>0, <1>2, <1>13, <1>16, <1>18, <1>19, <1>20, <1>21 DEF Trims, n, items
<1> QED BY <1>22 DEF v, w

-----------------------------------------------------------------------------
(* The inductive invariant: what is written and what is still ahead make up *)
(* what is promised, in the scan and then, over the text u it left, in      *)
(* CollapseWhitespace.                                                      *)
SpanInv ==
  /\ text \in Seq(Cells) /\ flags \in SUBSET FlagNames
  /\ odd \in BOOLEAN /\ stage \in {"set", "scan", "trim", "read"}
  /\ stage = "set" =>
       /\ mem \in Seq(Mem) /\ Len(mem) = End
       /\ p = 1 /\ q = 1 /\ start = 1
       /\ \A i \in 1 .. Len(text) : mem[i] = text[i]
  /\ stage = "scan" =>
       /\ start = 1 /\ Scans(mem, text, p, q)
       /\ ~odd => Told(mem, text, flags, p, q)
  /\ stage = "trim" =>
       /\ "collapse" \in flags
       /\ \E u : Trims(mem, u, start, p, q) /\ (~odd => u = Unescaped)
  /\ stage = "read" /\ ~odd =>
       Shown = IF "collapse" \in flags THEN Words(Unescaped) ELSE Unescaped

(* The invariant says what TextIsNormalised says.                           *)
LEMMA SpanInvSays == SpanInv => TextIsNormalised
<1> SUFFICES ASSUME SpanInv
             PROVE  TextIsNormalised
  OBVIOUS
<1>1. Len(text) \in Nat
  BY LenProperties DEF SpanInv
<1>2. ASSUME stage = "scan"
      PROVE  q <= p /\ p <= End /\ \A i \in p .. Len(text) : mem[i] = text[i]
  BY <1>1, <1>2 DEF SpanInv, Scans, End
<1>3. ASSUME stage = "trim"
      PROVE  start <= q /\ q <= p
  <2>1. PICK u : Trims(mem, u, start, p, q)
    BY <1>3 DEF SpanInv
  <2>2. u \in Seq(Out) /\ start \in 1 .. Len(u) + 1 /\ p \in start .. Len(u) + 1
        /\ q \in start .. p
    BY <2>1 DEF Trims
  <2>3. Len(u) \in Nat
    BY <2>2, LenProperties
  <2> QED BY <2>2, <2>3
<1> QED BY <1>2, <1>3 DEF SpanInv, TextIsNormalised

(* What is shown is what stands before the first 0.                         *)
LEMMA ShowsPart ==
  ASSUME NEW M, NEW m \in Seq(M), NEW a \in 1 .. Len(m), NEW b \in a .. Len(m),
         m[b] = "nul", SubSeq(m, a, b - 1) \in Seq(Out)
  PROVE  SubSeq(m, a, Min({i \in a .. Len(m) : m[i] = "nul"}) - 1) = SubSeq(m, a, b - 1)
<1> DEFINE x == SubSeq(m, a, b - 1)
<1>1. Len(m) \in Nat /\ a \in Int /\ b \in Int
  BY LenProperties
<1>2. /\ Len(x) = (b - 1) - a + 1
      /\ \A i \in 1 .. (b - 1) - a + 1 : x[i] = m[a + i - 1]
  <2>1. a \in 1 .. Len(m) + 1 /\ b - 1 \in a - 1 .. Len(m)
    BY <1>1
  <2> QED BY <2>1, PartIs
<1>3. \A i \in 1 .. Len(x) : x[i] \in Out
  <2>1. x \in Seq(Out)
    OBVIOUS
  <2> HIDE DEF x
  <2> QED BY <2>1, ElementOfSeq
<1> HIDE DEF x
<1>4. ASSUME NEW i \in a .. b - 1
      PROVE  m[i] # "nul"
  <2> DEFINE j == i - a + 1
  <2>1. j \in 1 .. (b - 1) - a + 1 /\ a + j - 1 = i
    BY <1>1
  <2> HIDE DEF j
  <2>2. x[j] = m[i] /\ x[j] \in Out
    BY <1>2, <1>3, <2>1
  <2> QED BY <2>2, NulIsNotOut
<1>5. Min({i \in a .. Len(m) : m[i] = "nul"}) = b
  BY <1>4, EndsThere
<1> QED BY <1>5

(* What is asked for is a text that can be written.                         *)
LEMMA AskedIsOut ==
  ASSUME NEW t \in Seq(Cells), NEW f
  PROVE  Rest(Items(t, f))[1] \in Seq(Out)
<1>1. Fit(Items(t, f), Out) /\ Len(Items(t, f)) = Len(t) /\ Len(t) \in Nat
  BY ItemsFit, LenProperties
<1>2. 1 \in 1 .. Len(Items(t, f)) + 1
  BY <1>1
<1> QED BY <1>1, <1>2, RestType

(* Words of such a text are, too.                                           *)
LEMMA WordsAreOut ==
  ASSUME NEW u \in Seq(Out)
  PROVE  Words(u) \in Seq(Out)
<1>1. Fit(Word(u), Out) /\ Len(Word(u)) = Len(u) /\ Len(u) \in Nat
  BY WordFits, LenProperties
<1>2. 1 \in 1 .. Len(Word(u)) + 1
  BY <1>1
<1> QED BY <1>1, <1>2, RestType DEF Words, Rewritten

(* A step of the scan that writes w for r cells.                            *)
LEMMA ScanInvariant ==
  ASSUME SpanInv, NEW r \in Nat, NEW w \in Seq(Out), Len(w) <= r, p + r <= End,
         Scan(r, w), odd' \in BOOLEAN,
         ~odd' => ~odd /\ Item(text, flags, p) = [takes |-> r, gives |-> w]
  PROVE  SpanInv'
<1>1. /\ stage = "scan" /\ p < End
      /\ mem' = Writing(mem, q, w) /\ p' = p + r /\ q' = q + Len(w)
      /\ UNCHANGED <<text, flags, start, stage>>
  BY DEF Scan, Writing
<1>2. /\ text \in Seq(Cells) /\ flags \in SUBSET FlagNames
      /\ start = 1 /\ Scans(mem, text, p, q)
      /\ ~odd => Told(mem, text, flags, p, q)
  BY <1>1 DEF SpanInv
<1>3. p <= Len(text) /\ p + r <= Len(text) + 1
  <2>1. Len(text) \in Nat /\ p \in Int
    BY <1>2, LenProperties DEF Scans
  <2> QED BY <1>1, <2>1 DEF End
<1>4. /\ Scans(mem', text, p', q')
      /\ \A f : /\ Told(mem, text, f, p, q)
                /\ Item(text, f, p) = [takes |-> r, gives |-> w]
                => Told(mem', text, f, p', q')
  <2>1. /\ Scans(Writing(mem, q, w), text, p + r, q + Len(w))
        /\ \A f : /\ Told(mem, text, f, p, q)
                  /\ Item(text, f, p) = [takes |-> r, gives |-> w]
                  => Told(Writing(mem, q, w), text, f, p + r, q + Len(w))
    BY <1>2, <1>3, ScanStep
  <2> QED BY <1>1, <2>1
<1>5. ~odd' => Told(mem', text, flags, p', q')
  BY <1>2, <1>4
<1> QED BY <1>1, <1>2, <1>4, <1>5 DEF SpanInv

(* Flush.                                                                   *)
LEMMA FlushKeeps == SpanInv /\ Flush => SpanInv'
<1> SUFFICES ASSUME SpanInv, Flush
             PROVE  SpanInv'
  OBVIOUS
<1> DEFINE n == Len(text)
<1>1. /\ text \in Seq(Cells) /\ flags \in SUBSET FlagNames
      /\ mem \in Seq(Mem) /\ Len(mem) = n + 1
      /\ p = 1 /\ q = 1 /\ start = 1
      /\ \A i \in 1 .. n : mem[i] = text[i]
  BY DEF SpanInv, Flush, End
<1>2. n \in Nat /\ \A i \in 1 .. n : text[i] \in Cells
  BY <1>1, LenProperties, ElementOfSeq
<1>3. /\ mem' = [mem EXCEPT ![n + 1] = "nul"]
      /\ stage' = IF flags = {} THEN "read" ELSE "scan"
      /\ UNCHANGED <<text, flags, p, q, start, odd>>
  BY DEF Flush, End
<1>4. /\ mem' \in Seq(Mem) /\ Len(mem') = n + 1 /\ mem'[n + 1] = "nul"
      /\ \A i \in 1 .. n : mem'[i] = text[i]
      /\ SubSeq(mem', 1, n) = SubSeq(mem, 1, n)
  <2>1. "nul" \in Mem /\ 1 \in 1 .. Len(mem) /\ n + 1 \in 1 .. Len(mem) /\ (n + 1) - 1 = n
    BY <1>1, <1>2 DEF Mem
  <2> HIDE DEF n
  <2>2. /\ mem' \in Seq(Mem) /\ Len(mem') = Len(mem) /\ mem'[n + 1] = "nul"
        /\ \A i \in 1 .. Len(mem) : i # n + 1 => mem'[i] = mem[i]
        /\ SubSeq(mem', 1, (n + 1) - 1) = SubSeq(mem, 1, (n + 1) - 1)
    BY <1>1, <1>3, <2>1, PartBefore
  <2>3. \A i \in 1 .. n : i \in 1 .. Len(mem) /\ i # n + 1
    BY <1>1, <1>2
  <2> QED BY <1>1, <2>1, <2>2, <2>3
<1>5. /\ SubSeq(mem', 1, n) = text
      /\ text \in Seq(Out)
  <2>1. text \in Seq(Out)
    BY <1>1, SeqMonotonic DEF Out
  <2> DEFINE x == SubSeq(mem', 1, n)
  <2>2. x \in Seq(Mem) /\ Len(x) = n /\ \A i \in 1 .. n : x[i] = mem'[i]
    <3>1. 1 \in 1 .. Len(mem') + 1 /\ n \in 1 - 1 .. Len(mem') /\ n - 1 + 1 = n
      BY <1>2, <1>4
    <3>2. /\ x \in Seq(Mem) /\ Len(x) = n - 1 + 1
          /\ \A i \in 1 .. n - 1 + 1 : x[i] = mem'[1 + i - 1]
      BY <1>4, <3>1, PartIs
    <3>3. \A i \in 1 .. n : 1 + i - 1 = i
      BY <1>2
    <3> HIDE DEF x, n
    <3> QED BY <3>1, <3>2, <3>3
  <2>3. text \in Seq(Mem)
    BY <2>1, SeqMonotonic DEF Mem
  <2> HIDE DEF x
  <2>4. x = text
    BY <1>4, <2>2, <2>3, SeqEqual
  <2> QED BY <2>1, <2>4 DEF x
<1>6. CASE flags = {}
  <2>1. Rest(Items(text, flags))[1] = text
    BY <1>1, <1>6, RestOfPlain
  <2>2. SubSeq(mem', 1, Min({i \in 1 .. Len(mem') : mem'[i] = "nul"}) - 1) = text
    <3>1. /\ 1 \in 1 .. Len(mem') /\ n + 1 \in 1 .. Len(mem') /\ (n + 1) - 1 = n
          /\ SubSeq(mem', 1, (n + 1) - 1) \in Seq(Out)
      BY <1>2, <1>4, <1>5
    <3> HIDE DEF n
    <3> QED BY <1>4, <1>5, <3>1, ShowsPart
  <2>3. Shown' = Unescaped'
    BY <1>1, <1>3, <2>1, <2>2 DEF Shown, Unescaped, Rewritten
  <2> QED BY <1>1, <1>3, <1>6, <2>3 DEF SpanInv
<1>7. CASE flags # {}
  <2>1. Scans(mem', text, 1, 1)
    <3>1. \A i \in 1 .. n : mem'[i] \in Out
      BY <1>2, <1>4 DEF Out
    <3> QED BY <1>2, <1>4, <3>1 DEF Scans, n
  <2>2. Told(mem', text, flags, 1, 1)
    <3>1. SubSeq(mem', 1, 1 - 1) = <<>>
      BY SubSeqEmpty
    <3>2. Rest(Items(text, flags))[1] \in Seq(Out)
      BY <1>1, AskedIsOut
    <3>3. <<>> \o Rest(Items(text, flags))[1] = Rest(Items(text, flags))[1]
      BY <3>2, ConcatEmptySeq
    <3> QED BY <3>1, <3>3 DEF Told
  <2> QED BY <1>1, <1>3, <1>7, <2>1, <2>2 DEF SpanInv
<1> QED BY <1>6, <1>7

(* What a turn of the scan sees.                                            *)
LEMMA ScanSees ==
  ASSUME SpanInv, stage = "scan", p < End
  PROVE  /\ text \in Seq(Cells) /\ Len(text) \in Nat
         /\ p \in Nat /\ p <= Len(text) /\ p \in 1 .. Len(text)
         /\ Scans(mem, text, p, q) /\ odd \in BOOLEAN
         /\ mem[p] = text[p] /\ mem[p + 1] = At(text, p + 1)
         /\ mem[p + 1] # "nul" => p + 1 <= Len(text) /\ mem[p + 2] = At(text, p + 2)
<1>1. text \in Seq(Cells) /\ Scans(mem, text, p, q) /\ odd \in BOOLEAN
  BY DEF SpanInv
<1>2. Len(text) \in Nat
  BY <1>1, LenProperties
<1>3. p \in Nat /\ p <= Len(text) /\ p \in 1 .. Len(text)
  BY <1>1, <1>2 DEF Scans, End
<1>4. p + 1 \in p .. Len(text) + 1
  BY <1>2, <1>3
<1>5. mem[p] = text[p] /\ mem[p + 1] = At(text, p + 1)
  BY <1>1, <1>2, <1>3, <1>4, Ahead DEF Scans
<1>6. ASSUME mem[p + 1] # "nul"
      PROVE  p + 1 <= Len(text) /\ mem[p + 2] = At(text, p + 2)
  <2>1. p + 1 <= Len(text)
    BY <1>5, <1>6 DEF At
  <2>2. p + 2 \in p .. Len(text) + 1
    BY <1>2, <1>3, <2>1
  <2> QED BY <1>1, <2>1, <2>2, Ahead
<1> QED BY <1>1, <1>2, <1>3, <1>5, <1>6

(* Cells that may be written.                                               *)
LEMMA OneOrTwo ==
  /\ <<>> \in Seq(Out) /\ Len(<<>>) = 0
  /\ \A x \in Out : <<x>> \in Seq(Out) /\ Len(<<x>>) = 1
  /\ \A x, y \in Out : <<x, y>> \in Seq(Out) /\ Len(<<x, y>>) = 2
  /\ {"lf", "<", "u", " "} \subseteq Out
<1>1. <<>> \in Seq(Out) /\ Len(<<>>) = 0
  BY EmptySeq
<1>2. \A x \in Out : <<x>> \in Seq(Out) /\ Len(<<x>>) = 1
  OBVIOUS
<1>3. \A x, y \in Out : <<x, y>> \in Seq(Out) /\ Len(<<x, y>>) = 2
  OBVIOUS
<1>4. {"lf", "<", "u", " "} \subseteq Out
  BY DEF Out
<1> QED BY <1>1, <1>2, <1>3, <1>4

(* A line end.                                                              *)
LEMMA ScanNewlineKeeps == SpanInv /\ ScanNewline => SpanInv'
<1> SUFFICES ASSUME SpanInv, ScanNewline
             PROVE  SpanInv'
  OBVIOUS
<1>1. /\ "newlines" \in flags /\ mem[p] \in {"cr", "lf"}
      /\ Scan(LineEnd, <<"lf">>) /\ odd' = odd
      /\ stage = "scan" /\ p < End
  BY DEF ScanNewline, Scan
<1>2. /\ text \in Seq(Cells) /\ Len(text) \in Nat
      /\ p \in Nat /\ p <= Len(text) /\ odd \in BOOLEAN
      /\ mem[p] = text[p] /\ mem[p + 1] = At(text, p + 1)
  BY <1>1, ScanSees
<1>3. mem[p] = At(text, p)
  BY <1>2 DEF At
<1>4. LineEnd = IF {At(text, p), At(text, p + 1)} = {"cr", "lf"} THEN 2 ELSE 1
  BY <1>2, <1>3 DEF LineEnd
<1>5. LineEnd \in Nat /\ 1 <= LineEnd
  BY <1>4
<1>6. p + LineEnd <= End
  <2>1. {At(text, p), At(text, p + 1)} = {"cr", "lf"} => At(text, p + 1) # "nul"
    OBVIOUS
  <2>2. At(text, p + 1) # "nul" => p + 1 <= Len(text)
    BY DEF At
  <2> QED BY <1>2, <1>4, <2>1, <2>2 DEF End
<1>7. Item(text, flags, p) = [takes |-> LineEnd, gives |-> <<"lf">>]
  BY <1>1, <1>2, <1>4, ItemNewline
<1>8. <<"lf">> \in Seq(Out) /\ Len(<<"lf">>) <= LineEnd
  BY <1>5, OneOrTwo
<1> QED BY <1>1, <1>2, <1>5, <1>6, <1>7, <1>8, ScanInvariant

(* An entity of the table.                                                  *)
LEMMA ScanEntityKeeps == SpanInv /\ ScanEntity => SpanInv'
<1> SUFFICES ASSUME SpanInv, ScanEntity
             PROVE  SpanInv'
  OBVIOUS
<1>1. /\ "entities" \in flags /\ mem[p] = "&" /\ mem[p + 1] = "e"
      /\ Scan(2, <<"<">>) /\ odd' = odd
      /\ stage = "scan" /\ p < End
  BY DEF ScanEntity, Ampersand, Scan
<1>2. /\ text \in Seq(Cells) /\ Len(text) \in Nat
      /\ p \in Nat /\ p <= Len(text) /\ odd \in BOOLEAN
      /\ mem[p] = text[p] /\ mem[p + 1] = At(text, p + 1)
      /\ p + 1 <= Len(text)
  BY <1>1, ScanSees
<1>3. p + 2 <= End
  BY <1>2 DEF End
<1>4. Item(text, flags, p) = [takes |-> 2, gives |-> <<"<">>]
  BY <1>1, <1>2, ItemEntity
<1>5. <<"<">> \in Seq(Out)
  BY OneOrTwo
<1>6. Len(<<"<">>) <= 2 /\ 2 \in Nat
  OBVIOUS
<1> QED BY <1>1, <1>2, <1>3, <1>4, <1>5, <1>6, ScanInvariant

(* Any other cell.                                                          *)
LEMMA ScanPlainKeeps == SpanInv /\ ScanPlain => SpanInv'
<1> SUFFICES ASSUME SpanInv, ScanPlain
             PROVE  SpanInv'
  OBVIOUS
<1>1. /\ ~ ("entities" \in flags /\ mem[p] = "&")
      /\ ~ ("newlines" \in flags /\ mem[p] \in {"cr", "lf"})
      /\ Scan(1, <<mem[p]>>) /\ odd' = odd
      /\ stage = "scan" /\ p < End
  BY DEF ScanPlain, Ampersand, Scan
<1>2. /\ text \in Seq(Cells) /\ Len(text) \in Nat
      /\ p \in Nat /\ p <= Len(text) /\ p \in 1 .. Len(text) /\ odd \in BOOLEAN
      /\ mem[p] = text[p]
  BY <1>1, ScanSees
<1>3. p + 1 <= End
  BY <1>2 DEF End
<1>4. Item(text, flags, p) = [takes |-> 1, gives |-> <<text[p]>>]
  BY <1>1, <1>2, ItemPlain
<1>5. mem[p] \in Out
  BY <1>2, ElementOfSeq DEF Out
<1>6. <<mem[p]>> \in Seq(Out)
  BY <1>5, OneOrTwo
<1>7. Len(<<mem[p]>>) <= 1 /\ 1 \in Nat
  OBVIOUS
<1>8. Item(text, flags, p) = [takes |-> 1, gives |-> <<mem[p]>>]
  BY <1>2, <1>4
<1> QED BY <1>1, <1>2, <1>3, <1>6, <1>7, <1>8, ScanInvariant

(* "&#".                                                                    *)
LEMMA ScanReferenceKeeps == SpanInv /\ ScanReference => SpanInv'
<1> SUFFICES ASSUME SpanInv, ScanReference
             PROVE  SpanInv'
  OBVIOUS
<1>1. /\ "entities" \in flags /\ mem[p] = "&" /\ mem[p + 1] = "#"
      /\ stage = "scan" /\ p < End
  BY DEF ScanReference, Ampersand, Scan
<1>2. /\ text \in Seq(Cells) /\ Len(text) \in Nat
      /\ p \in Nat /\ p <= Len(text) /\ odd \in BOOLEAN
      /\ mem[p] = text[p] /\ mem[p + 1] = At(text, p + 1)
      /\ p + 1 <= Len(text) /\ mem[p + 2] = At(text, p + 2)
      /\ Scans(mem, text, p, q)
  BY <1>1, ScanSees
<1>3. Item(text, flags, p) =
           IF p + 1 = Len(text) THEN [takes |-> 1, gives |-> <<>>]
           ELSE IF mem[p + 2] = "w" THEN [takes |-> 3, gives |-> <<"u", "u">>]
           ELSE [takes |-> 1, gives |-> <<"&">>]
  <2>1. text[p] = "&" /\ At(text, p + 1) = "#"
    BY <1>1, <1>2
  <2>2. Item(text, flags, p) =
           IF p + 1 = Len(text) THEN [takes |-> 1, gives |-> <<>>]
           ELSE IF At(text, p + 2) = "w" THEN [takes |-> 3, gives |-> <<"u", "u">>]
           ELSE [takes |-> 1, gives |-> <<"&">>]
    BY <1>1, <1>2, <2>1, ItemReference
  <2> QED BY <1>2, <2>2
<1>4. p + 2 = End <=> p + 1 = Len(text)
  BY <1>2 DEF End
<1>5. p + 1 <= End
  BY <1>2 DEF End
<1>6. Semicolons \in SUBSET Nat /\ \A j \in Semicolons : j >= p + 2 /\ j <= Len(text)
  BY <1>2 DEF Semicolons
<1>7. mem[p + 2] = "w" /\ p + 1 # Len(text) => p + 2 \in Semicolons
  <2>1. p + 1 # Len(text) => p + 2 \in p + 2 .. Len(text)
    BY <1>2
  <2> QED BY <2>1 DEF Semicolons
<1>8. p + 2 \in Semicolons => Min(Semicolons) = p + 2
  BY <1>2, <1>6, MinIsThat
<1>9. CASE p + 2 = End /\ Scan(1, <<>>) /\ UNCHANGED odd
  <2>1. Item(text, flags, p) = [takes |-> 1, gives |-> <<>>]
    BY <1>3, <1>4, <1>9
  <2>2. <<>> \in Seq(Out)
    BY OneOrTwo
  <2>3. Len(<<>>) <= 1 /\ 1 \in Nat
    OBVIOUS
  <2> QED BY <1>2, <1>5, <1>9, <2>1, <2>2, <2>3, ScanInvariant
<1>10. CASE /\ Refers
            /\ Scan(Min(Semicolons) + 1 - p, <<"u", "u">>)
            /\ odd' = (odd \/ mem[p + 2] # "w")
  <2> DEFINE r == Min(Semicolons) + 1 - p
             w == <<"u", "u">>
  <2>1. Min(Semicolons) \in Semicolons /\ Semicolons # {}
    BY <1>6, <1>10, MinIs DEF Refers
  <2>2. /\ Min(Semicolons) \in Nat /\ Min(Semicolons) >= p + 2
        /\ Min(Semicolons) <= Len(text)
    BY <1>6, <2>1
  <2>3. r \in Nat /\ 2 <= r /\ p + r <= End /\ p + 1 # Len(text)
    BY <1>2, <2>2 DEF End
  <2>4. w \in Seq(Out) /\ Len(w) <= r
    <3>1. "u" \in Out
      BY OneOrTwo
    <3>2. w \in Seq(Out) /\ Len(w) = 2
      BY <3>1, OneOrTwo
    <3> HIDE DEF r, w
    <3> QED BY <2>3, <3>2
  <2>5. mem[p + 2] = "w" => Item(text, flags, p) = [takes |-> r, gives |-> w]
    <3>1. ASSUME mem[p + 2] = "w"
          PROVE  Item(text, flags, p) = [takes |-> r, gives |-> w]
      <4>1. r = 3
        <5>1. Min(Semicolons) = p + 2
          BY <1>7, <1>8, <2>3, <3>1
        <5> QED BY <1>2, <5>1
      <4> HIDE DEF r
      <4> QED BY <1>3, <2>3, <3>1, <4>1
    <3> QED BY <3>1
  <2> HIDE DEF r, w
  <2>6. odd' \in BOOLEAN
    BY <1>2, <1>10
  <2>7. ~odd' => ~odd /\ mem[p + 2] = "w"
    BY <1>10
  <2>8. Scan(r, w)
    BY <1>10 DEF r, w
  <2> QED BY <2>3, <2>4, <2>5, <2>6, <2>7, <2>8, ScanInvariant
<1>11. CASE p + 2 # End /\ ~Refers /\ Scan(1, <<"&">>) /\ UNCHANGED odd
  <2>1. mem[p + 2] # "w"
    <3>1. SUFFICES ASSUME mem[p + 2] = "w"
          PROVE  FALSE
      OBVIOUS
    <3>2. p + 2 \in Semicolons
      BY <1>4, <1>7, <1>11, <3>1
    <3>3. Min(Semicolons) = p + 2 /\ (p + 2) - 1 = p + 1
      BY <1>2, <1>8, <3>2
    <3>4. Refers
      BY <1>1, <3>1, <3>2, <3>3 DEF Refers
    <3> QED BY <1>11, <3>4
  <2>2. Item(text, flags, p) = [takes |-> 1, gives |-> <<"&">>]
    BY <1>3, <1>4, <1>11, <2>1
  <2>3. "&" \in Out
    <3>1. p \in 1 .. Len(text) /\ text[p] = "&"
      BY <1>1, <1>2, ScanSees
    <3>2. text[p] \in Cells
      BY <1>2, <3>1, ElementOfSeq
    <3> QED BY <3>1, <3>2 DEF Out
  <2>4. <<"&">> \in Seq(Out)
    BY <2>3, OneOrTwo
  <2>5. Len(<<"&">>) <= 1 /\ 1 \in Nat
    OBVIOUS
  <2> QED BY <1>2, <1>5, <1>11, <2>2, <2>4, <2>5, ScanInvariant
<1> QED BY <1>9, <1>10, <1>11 DEF ScanReference

(* "&" before no entity: what stands at q is taken for it.                  *)
LEMMA ScanUnknownKeeps == SpanInv /\ ScanUnknown => SpanInv'
<1> SUFFICES ASSUME SpanInv, ScanUnknown
             PROVE  SpanInv'
  OBVIOUS
<1> DEFINE n == Len(text)
<1>1. /\ "entities" \in flags /\ mem[p] = "&" /\ mem[p + 1] \notin {"#", "e"}
      /\ stage = "scan" /\ p < End
      /\ p' = p + 1 /\ q' = q + 1 /\ odd' = (odd \/ q # p)
      /\ UNCHANGED <<text, flags, mem, start, stage>>
  BY DEF ScanUnknown, Ampersand
<1>2. /\ text \in Seq(Cells) /\ n \in Nat
      /\ p \in Nat /\ p <= n /\ p \in 1 .. n /\ odd \in BOOLEAN
      /\ mem[p] = text[p] /\ mem[p + 1] = At(text, p + 1)
      /\ Scans(mem, text, p, q)
  BY <1>1, ScanSees
<1>3. Scans(mem, text, p + 1, q + 1)
  BY <1>2 DEF Scans
<1>4. ASSUME ~odd'
      PROVE  Told(mem, text, flags, p + 1, q + 1)
  <2> DEFINE items == Items(text, flags)
             done == SubSeq(mem, 1, p - 1)
  <2>1. ~odd /\ q = p
    BY <1>1, <1>4
  <2>2. done \o Rest(items)[p] = Rest(items)[1]
    BY <1>1, <2>1 DEF SpanInv, Told
  <2>3. Item(text, flags, p) = [takes |-> 1, gives |-> <<text[p]>>]
    <3>1. text[p] \notin {"cr", "lf"} /\ At(text, p + 1) \notin {"#", "e"}
      BY <1>1, <1>2
    <3> QED BY <1>2, <3>1, ItemPlain
  <2>4. Fit(items, Out) /\ Len(items) = n /\ items[p] = Item(text, flags, p)
    BY <1>2, ItemsFit
  <2>5. done \in Seq(Out)
    <3>1. 1 \in Int /\ p - 1 \in Int /\ \A i \in 1 .. p - 1 : mem[i] \in Out
      BY <1>2 DEF Scans
    <3> QED BY <3>1, SubSeqProperties
  <2>6. done \o <<mem[p]>> = SubSeq(mem, 1, p)
    <3>1. /\ mem \in Seq(Mem) /\ Len(mem) = n + 1 
      BY <1>2 DEF Scans
    <3>2. 1 \in 1 .. Len(mem) /\ p \in 1 .. Len(mem)
      BY <1>2, <3>1
    <3> QED BY <3>1, <3>2, SubSeqRecursiveSecond
  <2>7. done \o Rest(items)[p] = (done \o <<text[p]>>) \o Rest(items)[p + 1]
    <3> HIDE DEF items, done
    <3>1. p \in 1 .. Len(items)
      BY <1>2, <2>4
    <3>2. done \o Rest(items)[p]
            = (done \o items[p].gives) \o Rest(items)[p + items[p].takes]
      BY <2>4, <2>5, <3>1, RestMoves
    <3>3. items[p].takes = 1 /\ items[p].gives = <<text[p]>>
      BY <2>3, <2>4
    <3> QED BY <3>2, <3>3
  <2>8. (p + 1) - 1 = p
    BY <1>2
  <2> HIDE DEF items, done
  <2>9. SubSeq(mem, 1, (p + 1) - 1) \o Rest(items)[p + 1] = Rest(items)[1]
    BY <1>2, <2>2, <2>6, <2>7, <2>8
  <2> QED BY <2>1, <2>9 DEF Told, items
<1>5. odd' \in BOOLEAN
  BY <1>1, <1>2
<1>6. /\ Scans(mem', text', p', q')
      /\ ~odd' => Told(mem', text', flags', p', q')
  BY <1>1, <1>3, <1>4
<1>7. text' \in Seq(Cells) /\ flags' \in SUBSET FlagNames /\ start' = 1 /\ stage' = "scan"
  BY <1>1 DEF SpanInv
<1> QED BY <1>5, <1>6, <1>7 DEF SpanInv

(* The scan is over: what it wrote is the text u.                           *)
LEMMA ScanEndsKeeps == SpanInv /\ ScanEnds => SpanInv'
<1> SUFFICES ASSUME SpanInv, ScanEnds
             PROVE  SpanInv'
  OBVIOUS
<1> DEFINE n == Len(text)
           u == SubSeq(mem, 1, q - 1)
<1>1. /\ stage = "scan" /\ p = n + 1
      /\ mem' = [mem EXCEPT ![q] = "nul"]
      /\ stage' = IF "collapse" \in flags THEN "trim" ELSE "read"
      /\ UNCHANGED <<text, flags, odd>>
  BY DEF ScanEnds, End
<1>2. /\ text \in Seq(Cells) /\ flags \in SUBSET FlagNames /\ odd \in BOOLEAN
      /\ start = 1
      /\ ~odd => Told(mem, text, flags, p, q)
      /\ mem \in Seq(Mem) /\ Len(mem) = n + 1 /\ q \in 1 .. p
      /\ \A i \in 1 .. n : mem[i] \in Out
  BY <1>1 DEF SpanInv, Scans
<1>3. n \in Nat /\ q \in 1 .. n + 1
  BY <1>1, <1>2, LenProperties
<1>4. /\ u \in Seq(Out) /\ Len(u) = q - 1
      /\ \A i \in 1 .. q - 1 : u[i] = mem[i]
  <2>1. 1 \in Int /\ q - 1 \in Int /\ \A i \in 1 .. q - 1 : mem[i] \in Out
    BY <1>2, <1>3
  <2>2. /\ u \in Seq(Out) /\ Len(u) = IF 1 <= q - 1 THEN q - 1 - 1 + 1 ELSE 0
        /\ \A i \in 1 .. q - 1 - 1 + 1 : u[i] = mem[1 + i - 1]
    <3>1. q - 1 - 1 + 1 = (q - 1) - 1 + 1
      BY <1>3
    <3> QED BY <2>1, <3>1, SubSeqProperties
  <2>3. q - 1 - 1 + 1 = q - 1 /\ (~ (1 <= q - 1) => q - 1 = 0)
    BY <1>3
  <2>4. \A i \in 1 .. q - 1 : 1 + i - 1 = i
    BY <1>3
  <2> HIDE DEF u
  <2> QED BY <2>2, <2>3, <2>4
<1>5. ~odd => u = Unescaped
  <2>1. SUFFICES ASSUME ~odd
        PROVE  u = Unescaped
    OBVIOUS
  <2> DEFINE items == Items(text, flags)
  <2>2. Fit(items, Out) /\ Len(items) = n
    BY <1>2, ItemsFit
  <2>3. Rest(items)[n + 1] = <<>>
    BY <2>2, RestType
  <2>4. u \o Rest(items)[n + 1] = Rest(items)[1]
    BY <1>1, <1>2, <2>1 DEF Told
  <2> HIDE DEF u, items
  <2>5. u = Rest(items)[1]
    BY <1>4, <2>3, <2>4, ConcatEmptySeq
  <2> QED BY <2>5 DEF Unescaped, Rewritten, items
<1>6. /\ mem' \in Seq(Mem) /\ Len(mem') = n + 1 /\ mem'[q] = "nul"
      /\ \A i \in 1 .. q - 1 : mem'[i] = u[i]
      /\ SubSeq(mem', 1, q - 1) = u
  <2>1. "nul" \in Mem /\ 1 \in 1 .. Len(mem) /\ q \in 1 .. Len(mem)
    BY <1>2, <1>3 DEF Mem
  <2>2. /\ mem' \in Seq(Mem) /\ Len(mem') = Len(mem) /\ mem'[q] = "nul"
        /\ \A i \in 1 .. Len(mem) : i # q => mem'[i] = mem[i]
        /\ SubSeq(mem', 1, q - 1) = SubSeq(mem, 1, q - 1)
    BY <1>1, <1>2, <2>1, PartBefore
  <2>3. \A i \in 1 .. q - 1 : i \in 1 .. Len(mem) /\ i # q
    BY <1>2, <1>3
  <2> HIDE DEF u, n
  <2>4. \A i \in 1 .. q - 1 : mem'[i] = u[i]
    BY <1>4, <2>2, <2>3
  <2> QED BY <1>2, <2>2, <2>4 DEF u
<1> HIDE DEF u
<1>7. CASE "collapse" \notin flags
  <2>1. /\ stage' = "read" /\ start' = 1
    BY <1>1, <1>2, <1>7 DEF ScanEnds
  <2>2. SubSeq(mem', 1, Min({i \in 1 .. Len(mem') : mem'[i] = "nul"}) - 1) = u
    <3>1. /\ 1 \in 1 .. Len(mem') /\ q \in 1 .. Len(mem')
          /\ SubSeq(mem', 1, q - 1) \in Seq(Out)
      BY <1>3, <1>4, <1>6
    <3> QED BY <1>6, <3>1, ShowsPart
  <2>3. Shown' = u
    BY <2>1, <2>2 DEF Shown
  <2>4. Unescaped' = Unescaped
    BY <1>1 DEF Unescaped
  <2> QED BY <1>1, <1>2, <1>5, <1>7, <2>1, <2>3, <2>4 DEF SpanInv
<1>8. CASE "collapse" \in flags
  <2> DEFINE a == Min({j \in 1 .. Len(mem) : mem'[j] \notin White})
  <2>1. stage' = "trim" /\ start' = a /\ p' = a /\ q' = a
    BY <1>1, <1>8 DEF ScanEnds
  <2>2. /\ a \in 1 .. q /\ mem'[a] \notin White
        /\ \A i \in 1 .. a - 1 : mem'[i] \in White
    <3>1. 1 \in Nat /\ Len(mem) \in Nat /\ q \in 1 .. Len(mem) /\ mem'[q] \notin White
      BY <1>2, <1>3, <1>6, NulIsNotOut
    <3> QED BY <3>1, SkipsTo
  <2> HIDE DEF a
  <2>3. Trims(mem', u, a, a, a)
    <3>1. /\ u \in Seq(Out) /\ mem' \in Seq(Mem) /\ Len(u) + 1 \in 1 .. Len(mem')
          /\ a \in 1 .. Len(u) + 1 /\ mem'[a] \notin White
      BY <1>3, <1>4, <1>6, <2>2
    <3>2. mem'[Len(u) + 1] = "nul" /\ \A i \in 1 .. Len(u) : mem'[i] = u[i]
      <4>1. Len(u) + 1 = q
        BY <1>3, <1>4
      <4> QED BY <1>4, <1>6, <4>1
    <3> QED BY <2>2, <3>1, <3>2, TrimBegins
  <2>4. Unescaped' = Unescaped
    BY <1>1 DEF Unescaped
  <2>5. \E v : Trims(mem', v, start', p', q') /\ (~odd' => v = Unescaped')
    BY <1>1, <1>5, <2>1, <2>3, <2>4
  <2> QED BY <1>1, <1>2, <1>8, <2>1, <2>5 DEF SpanInv
<1> QED BY <1>7, <1>8

(* A turn of CollapseWhitespace.                                            *)
LEMMA CollapseKeeps == SpanInv /\ Collapse => SpanInv'
<1> SUFFICES ASSUME SpanInv, Collapse
             PROVE  SpanInv'
  OBVIOUS
<1> DEFINE s == Skipped(p)
<1>1. /\ text \in Seq(Cells) /\ flags \in SUBSET FlagNames /\ odd \in BOOLEAN
      /\ stage = "trim" /\ "collapse" \in flags
      /\ UNCHANGED <<text, flags, start, odd>>
  BY DEF SpanInv, Collapse
<1>2. PICK u : Trims(mem, u, start, p, q) /\ (~odd => u = Unescaped)
  BY <1>1 DEF SpanInv
<1> DEFINE n == Len(u)
<1>3. /\ u \in Seq(Out) /\ mem \in Seq(Mem) /\ n + 1 \in 1 .. Len(mem)
      /\ start \in 1 .. n + 1 /\ p \in start .. n + 1 /\ q \in start .. p
      /\ mem[n + 1] = "nul"
      /\ SubSeq(mem, start, q - 1) \in Seq(Out)
  BY <1>2 DEF Trims
<1>4. n \in Nat /\ Len(mem) \in Nat /\ p \in Nat /\ start \in Nat /\ q \in Nat
  BY <1>3, LenProperties
<1>5. /\ s \in p .. n + 1 /\ mem[s] \notin White
      /\ \A i \in p .. s - 1 : mem[i] \in White
  <2>1. n + 1 \in p .. Len(mem) /\ mem[n + 1] \notin White
    BY <1>3, <1>4, NulIsNotOut
  <2> QED BY <1>4, <2>1, SkipsTo DEF Skipped
<1>6. Unescaped' = Unescaped
  BY <1>1 DEF Unescaped
<1> HIDE DEF s
<1>7. CASE mem[s] = "nul"
  <2>1. mem' = [mem EXCEPT ![q] = "nul"] /\ stage' = "read"
    BY <1>7 DEF Collapse, s
  <2>2. SubSeq(mem, start, q - 1) = Words(u)
    BY <1>2, <1>5, <1>7, TrimEnds
  <2>3. /\ mem' \in Seq(Mem) /\ Len(mem') = Len(mem) /\ mem'[q] = "nul"
        /\ SubSeq(mem', start, q - 1) = Words(u)
        /\ start \in 1 .. Len(mem) /\ q \in start .. Len(mem)
    <3>1. "nul" \in Mem /\ start \in 1 .. Len(mem) /\ q \in start .. Len(mem)
      BY <1>3, <1>4 DEF Mem
    <3>2. /\ mem' \in Seq(Mem) /\ Len(mem') = Len(mem) /\ mem'[q] = "nul"
          /\ SubSeq(mem', start, q - 1) = SubSeq(mem, start, q - 1)
      BY <1>3, <2>1, <3>1, PartBefore
    <3> QED BY <2>2, <3>1, <3>2
  <2>4. Words(u) \in Seq(Out)
    BY <1>3, WordsAreOut
  <2>5. SubSeq(mem', start, Min({i \in start .. Len(mem') : mem'[i] = "nul"}) - 1) = Words(u)
    <3>1. /\ start \in 1 .. Len(mem') /\ q \in start .. Len(mem')
          /\ SubSeq(mem', start, q - 1) \in Seq(Out)
      BY <2>3, <2>4
    <3> QED BY <2>3, <3>1, ShowsPart
  <2>6. Shown' = Words(u)
    BY <1>1, <2>5 DEF Shown
  <2> QED BY <1>1, <1>2, <1>6, <2>1, <2>6 DEF SpanInv
<1>8. CASE mem[s] # "nul" /\ s = p
  <2>1. /\ mem' = [mem EXCEPT ![q] = mem[p]]
        /\ q' = q + 1 /\ p' = p + 1 /\ stage' = "trim"
    BY <1>1, <1>8 DEF Collapse, s
  <2>2. p <= n
    BY <1>3, <1>4, <1>8
  <2>3. mem' = Writing(mem, q, <<mem[p]>>)
    <3> DEFINE w == <<mem[p]>>
    <3>1. Len(w) = 1 /\ w[1] = mem[p]
      OBVIOUS
    <3> HIDE DEF w
    <3>2. \A i \in DOMAIN mem : i \in q .. q + 1 - 1 <=> i = q
      BY <1>3, <1>4
    <3>3. Writing(mem, q, w)
            = [i \in DOMAIN mem |-> IF i \in q .. q + 1 - 1 THEN w[i - q + 1] ELSE mem[i]]
      BY <3>1 DEF Writing
    <3>4. q - q + 1 = 1
      BY <1>4
    <3>5. mem' = Writing(mem, q, w)
      BY <2>1, <3>1, <3>2, <3>3, <3>4
    <3> QED BY <3>5 DEF w
  <2>4. Trims(mem', u, start, p', q')
    <3>1. Trims(mem, u, start, p, q) /\ p <= Len(u) /\ mem[p] \notin White
      BY <1>2, <1>5, <1>8, <2>2
    <3>2. Trims(Writing(mem, q, <<mem[p]>>), u, start, p + 1, q + 1)
      BY ONLY <3>1, TrimPlain
    <3> QED BY <2>1, <2>3, <3>2
  <2>5. \E v : Trims(mem', v, start', p', q') /\ (~odd' => v = Unescaped')
    BY <1>1, <1>2, <1>6, <2>4
  <2> QED BY <1>1, <2>1, <2>5 DEF SpanInv
<1>9. CASE mem[s] # "nul" /\ s # p
  <2>1. /\ mem' = [mem EXCEPT ![q] = " ", ![q + 1] = mem[s]]
        /\ q' = q + 2 /\ p' = s + 1 /\ stage' = "trim"
    BY <1>1, <1>9 DEF Collapse, s
  <2>2. s \in p .. n
    BY <1>3, <1>4, <1>5, <1>9
  <2>3. mem' = Writing(mem, q, <<" ", mem[s]>>)
    <3> DEFINE w == <<" ", mem[s]>>
    <3>1. Len(w) = 2 /\ w[1] = " " /\ w[2] = mem[s]
      OBVIOUS
    <3>2. q \in DOMAIN mem /\ q + 1 \in DOMAIN mem /\ DOMAIN mem = 1 .. Len(mem)
      BY <1>3, <1>4, <1>9, <2>2, LenProperties
    <3>3. \A i \in DOMAIN mem :
            /\ i \in q .. q + 2 - 1 <=> i = q \/ i = q + 1
            /\ i = q => i - q + 1 = 1
            /\ i = q + 1 => i - q + 1 = 2
            /\ q # q + 1
      BY <1>4, <3>2
    <3> HIDE DEF w
    <3>4. Writing(mem, q, w)
            = [i \in DOMAIN mem |-> IF i \in q .. q + 2 - 1 THEN w[i - q + 1] ELSE mem[i]]
      BY <3>1 DEF Writing
    <3>5. mem' = [i \in DOMAIN mem |-> IF i = q + 1 THEN mem[s] ELSE
                                       IF i = q THEN " " ELSE mem[i]]
      BY <2>1, <3>2
    <3>6. \A i \in DOMAIN mem :
            (IF i = q + 1 THEN mem[s] ELSE IF i = q THEN " " ELSE mem[i])
              = IF i \in q .. q + 2 - 1 THEN w[i - q + 1] ELSE mem[i]
      BY <3>1, <3>3
    <3>7. mem' = Writing(mem, q, w)
      BY <3>4, <3>5, <3>6
    <3> QED BY <3>7 DEF w
  <2>4. Trims(mem', u, start, p', q')
    <3>1. /\ Trims(mem, u, start, p, q) /\ s \in p .. Len(u) /\ s # p
          /\ mem[s] \notin White /\ \A i \in p .. s - 1 : mem[i] \in White
      BY <1>2, <1>5, <1>9, <2>2
    <3>2. Trims(Writing(mem, q, <<" ", mem[s]>>), u, start, s + 1, q + 2)
      BY ONLY <3>1, TrimSpaced
    <3> QED BY <2>1, <2>3, <3>2
  <2>5. \E v : Trims(mem', v, start', p', q') /\ (~odd' => v = Unescaped')
    BY <1>1, <1>2, <1>6, <2>4
  <2> QED BY <1>1, <2>1, <2>5 DEF SpanInv
<1> QED BY <1>7, <1>8, <1>9

(* The span as it is set satisfies the invariant.                           *)
LEMMA SpanBegins ==
  ASSUME NEW t \in Seq(Cells), NEW f \in SUBSET FlagNames, SpanInit(t, f)
  PROVE  SpanInv
<1>1. /\ text = t /\ flags = f /\ mem = Append(t, "<")
      /\ p = 1 /\ q = 1 /\ start = 1 /\ stage = "set" /\ odd = FALSE
  BY DEF SpanInit
<1>2. Len(t) \in Nat /\ t \in Seq(Mem) /\ "<" \in Mem
  BY LenProperties, SeqMonotonic DEF Mem, Out
<1>3. /\ mem \in Seq(Mem) /\ Len(mem) = Len(t) + 1
      /\ \A i \in 1 .. Len(t) : mem[i] = t[i]
  BY <1>1, <1>2, AppendProperties
<1> QED BY <1>1, <1>3 DEF SpanInv, End

(* Every step keeps it.                                                     *)
LEMMA SpanInvInductive == SpanInv /\ [SpanNext]_spanVars => SpanInv'
<1> SUFFICES ASSUME SpanInv, [SpanNext]_spanVars
             PROVE  SpanInv'
  OBVIOUS
<1>1. CASE UNCHANGED spanVars
  BY <1>1 DEF spanVars, SpanInv, Shown, Unescaped, End
<1>2. CASE SpanNext
  BY <1>2, FlushKeeps, ScanNewlineKeeps, ScanReferenceKeeps, ScanEntityKeeps,
     ScanUnknownKeeps, ScanPlainKeeps, ScanEndsKeeps, CollapseKeeps DEF SpanNext
<1> QED BY <1>1, <1>2

(* What GetStr shows of every span, of any length and with any flags, is    *)
(* the text its flags ask for: reading and writing the same memory loses    *)
(* nothing that is still to be read, except where odd says so.              *)
THEOREM TextIsNormalisedHolds == SpanSpec => []TextIsNormalised
<1>1. (\E t \in Seq(Cells), f \in SUBSET FlagNames : SpanInit(t, f)) => SpanInv
  BY SpanBegins
<1>2. SpanInv /\ [SpanNext]_spanVars => SpanInv'
  BY SpanInvInductive
<1>3. SpanInv => TextIsNormalised
  BY SpanInvSays
<1> QED BY <1>1, <1>2, <1>3, PTL DEF SpanSpec

-----------------------------------------------------------------------------
(* MD5: remainders. *)
LEMMA Division ==
  ASSUME NEW a \in Int, NEW m \in Nat \ {0}
  PROVE  /\ a \div m \in Int
         /\ a % m \in 0 .. m - 1
         /\ a = m * (a \div m) + (a % m)
  OBVIOUS

LEMMA NatDivision ==
  ASSUME NEW a \in Nat, NEW m \in Nat \ {0}
  PROVE  a \div m \in Nat
  OBVIOUS

LEMMA ProductIsInt ==
  ASSUME NEW a \in Int, NEW b \in Int
  PROVE  a * b \in Int
  OBVIOUS

LEMMA Distributes ==
  ASSUME NEW m \in Int, NEW a \in Int, NEW b \in Int
  PROVE  /\ m * (a + b) = m * a + m * b
         /\ m * (a - b) = m * a - m * b
  OBVIOUS

LEMMA Associates ==
  ASSUME NEW m \in Int, NEW a \in Int, NEW b \in Int
  PROVE  (m * a) * b = m * (a * b)
  OBVIOUS

(* A multiple of m between -m and m is none.                                *)
LEMMA SmallMultiple ==
  ASSUME NEW m \in Nat \ {0}, NEW k \in Int, m * k > -m, m * k < m
  PROVE  k = 0
<1>1. CASE k >= 1
  <2>1. k - 1 \in Nat /\ m * (k - 1) = m * k - m
    BY <1>1, Distributes
  <2>2. m * (k - 1) >= 0
    BY <2>1
  <2> QED BY <2>1, <2>2, ProductIsInt
<1>2. CASE k <= -1
  <2>1. -k - 1 \in Nat /\ m * (-k - 1) = -(m * k) - m
    BY <1>2
  <2>2. m * (-k - 1) >= 0
    BY <2>1
  <2> QED BY <2>1, <2>2, ProductIsInt
<1> QED BY <1>1, <1>2

(* Quotient and remainder are the only ones that fit.                       *)
LEMMA Remainder ==
  ASSUME NEW m \in Nat \ {0}, NEW k \in Int, NEW r \in 0 .. m - 1, NEW a \in Int,
         a = m * k + r
  PROVE  a % m = r /\ a \div m = k
<1> DEFINE d == (a \div m) - k
<1>1. a \div m \in Int /\ a % m \in 0 .. m - 1 /\ a = m * (a \div m) + (a % m)
  BY Division
<1>2. m * k \in Int /\ m * (a \div m) \in Int
  BY <1>1, ProductIsInt
<1>3. d \in Int /\ m * d = m * (a \div m) - m * k
  BY <1>1, Distributes
<1>4. m * d = r - (a % m)
  BY <1>1, <1>2, <1>3
<1>5. m * d > -m /\ m * d < m
  BY <1>1, <1>4
<1> HIDE DEF d
<1>6. d = 0
  BY <1>3, <1>5, SmallMultiple
<1> QED BY <1>1, <1>2, <1>6 DEF d

(* The remainder of a remainder.                                            *)
LEMMA RemainderOfRemainder ==
  ASSUME NEW w \in Nat \ {0}, NEW m \in Nat \ {0}, w % m = 0, NEW a \in Nat
  PROVE  (a % w) % m = a % m
<1> DEFINE ratio == w \div m
           c == a \div w
           r == a % w
           e == r \div m
<1>1. ratio \in Int /\ w = m * ratio
  BY Division
<1>2. c \in Int /\ r \in Int /\ a = w * c + r
  BY Division
<1>3. e \in Int /\ r % m \in 0 .. m - 1 /\ r = m * e + (r % m)
  BY <1>2, Division
<1>4. w * c = m * (ratio * c) /\ ratio * c \in Int
  BY <1>1, <1>2, Associates, ProductIsInt
<1> DEFINE both == ratio * c
           k == both + e
<1> HIDE DEF ratio, c, r, e, both
<1>5. m * k = m * both + m * e /\ k \in Int
  BY <1>3, <1>4, Distributes DEF both
<1>6. a = m * k + (r % m)
  BY <1>2, <1>3, <1>4, <1>5, ProductIsInt DEF both
<1> DEFINE u == r % m
<1>7. u \in 0 .. m - 1 /\ a = m * k + u
  BY <1>3, <1>6
<1> HIDE DEF k, u
<1>8. a % m = u /\ a \div m = k
  BY <1>5, <1>7, Remainder
<1> QED BY <1>8 DEF r, u

(* Adding to a remainder is adding to the number.                           *)
LEMMA RemainderOfSum ==
  ASSUME NEW m \in Nat \ {0}, NEW a \in Int, NEW b \in Int
  PROVE  ((a % m) + b) % m = (a + b) % m
<1> DEFINE c == a \div m
           s == (a % m) + b
           e == s \div m
<1>1. c \in Int /\ a % m \in Int /\ a = m * c + (a % m)
  BY Division
<1>2. s \in Int /\ e \in Int /\ s % m \in 0 .. m - 1 /\ s = m * e + (s % m)
  BY <1>1, Division
<1> DEFINE k == c + e
           x == a + b
<1>3. m * k = m * c + m * e /\ k \in Int /\ m * c \in Int /\ m * e \in Int
  BY <1>1, <1>2, Distributes, ProductIsInt
<1>4. x = m * c + s /\ x \in Int
  BY <1>1, <1>3
<1> DEFINE u == s % m
<1> HIDE DEF c, s, e, k, x
<1>5. u \in 0 .. m - 1 /\ k \in Int /\ x \in Int /\ x = m * k + u
  BY <1>2, <1>3, <1>4
<1> HIDE DEF u
<1>6. x % m = u /\ x \div m = k
  BY <1>5, Remainder
<1> QED BY <1>6 DEF s, u, x

(* Of a sum the quotient is the sum of the quotients and the carry, which   *)
(* shows in the remainder becoming smaller.                                 *)
LEMMA QuotientOfSum ==
  ASSUME NEW m \in Nat \ {0}, NEW a \in Nat, NEW b \in Nat
  PROVE  (a + b) \div m = (a \div m) + Carry(a % m, (a + b) % m) + (b \div m)
<1> DEFINE c == a \div m
           d == b \div m
           r == a % m
           t == b % m
<1>1. c \in Int /\ r \in 0 .. m - 1 /\ a = m * c + r
  BY Division
<1>2. d \in Int /\ t \in 0 .. m - 1 /\ b = m * d + t
  BY Division
<1> DEFINE x == a + b
           k == c + d
<1>3. m * k = m * c + m * d /\ m * (k + 1) = m * k + m
      /\ k \in Int /\ m * c \in Int /\ m * d \in Int
  BY <1>1, <1>2, Distributes, ProductIsInt
<1> HIDE DEF c, d, r, t, x, k
<1>4. x \in Int /\ x = m * k + (r + t)
  BY <1>1, <1>2, <1>3 DEF x
<1>5. CASE r + t < m
  <2> DEFINE u == r + t
  <2>1. u \in 0 .. m - 1 /\ x = m * k + u /\ ~(u < r)
    BY <1>1, <1>2, <1>4, <1>5
  <2> HIDE DEF u
  <2>2. x % m = u /\ x \div m = k
    BY <1>3, <1>4, <2>1, Remainder
  <2>3. Carry(r, x % m) = 0
    BY <2>1, <2>2 DEF Carry
  <2>4. x \div m = c + 0 + d
    BY <1>1, <1>2, <2>2 DEF k
  <2> QED BY <2>3, <2>4 DEF c, d, r, x
<1>6. CASE r + t >= m
  <2> DEFINE u == r + t - m
             j == k + 1
  <2>1. u \in 0 .. m - 1 /\ j \in Int /\ x = m * j + u /\ u < r
    BY <1>1, <1>2, <1>3, <1>4, <1>6, ProductIsInt
  <2> HIDE DEF u, j
  <2>2. x % m = u /\ x \div m = j
    BY <1>4, <2>1, Remainder
  <2>3. Carry(r, x % m) = 1
    BY <2>1, <2>2 DEF Carry
  <2>4. x \div m = c + 1 + d
    BY <1>1, <1>2, <2>2 DEF k, j
  <2> QED BY <2>3, <2>4 DEF c, d, r, x
<1> QED BY <1>1, <1>2, <1>5, <1>6

(* The remainder is at most the number, and does not see a whole m.         *)
LEMMA RemainderAtMost ==
  ASSUME NEW m \in Nat \ {0}, NEW a \in Nat
  PROVE  a % m \in Nat /\ a % m <= a
<1>1. a \div m \in Nat /\ m * (a \div m) \in Nat
  BY NatDivision
<1> QED BY <1>1, Division

LEMMA RemainderLess ==
  ASSUME NEW m \in Nat \ {0}, NEW a \in Int
  PROVE  (a - m) % m = a % m
<1> DEFINE c == a \div m
           u == a % m
           k == c - 1
           x == a - m
<1>1. c \in Int /\ u \in 0 .. m - 1 /\ a = m * c + u
  BY Division
<1> HIDE DEF c, u
<1>2. m * k = m * c - m /\ m * c \in Int
  BY <1>1, Distributes, ProductIsInt
<1>3. u \in 0 .. m - 1 /\ k \in Int /\ x \in Int /\ x = m * k + u
  BY <1>1, <1>2
<1> HIDE DEF k, x
<1>4. x % m = u /\ x \div m = k
  BY <1>3, Remainder
<1> QED BY <1>4 DEF x, u

(* A number below m, or not, on top of a remainder.                         *)
LEMMA RemainderNear ==
  ASSUME NEW m \in Nat \ {0}, NEW a \in Nat, NEW b \in Nat
  PROVE  /\ (a % m) + b < m => (a + b) % m = (a % m) + b
         /\ (a % m) + b >= m => (a + b) % m = ((a % m) + b - m) % m
<1> DEFINE x == (a % m) + b
<1>1. x \in Nat /\ (a + b) % m = x % m
  <2>1. a % m \in Nat /\ a \in Int /\ b \in Int
    BY RemainderAtMost
  <2>2. (a + b) % m = ((a % m) + b) % m
    BY <2>1, RemainderOfSum, Zenon
  <2> QED BY <2>1, <2>2
<1> HIDE DEF x
<1>2. x < m => x % m = x
  <2>1. SUFFICES ASSUME x < m PROVE x % m = x
    OBVIOUS
  <2>2. x \in 0 .. m - 1 /\ x = m * 0 + x
    BY <1>1, <2>1
  <2>3. x % m = x /\ x \div m = 0
    BY <1>1, <2>2, Remainder
  <2> QED BY <2>3
<1>3. (x - m) % m = x % m
  <2>1. x \in Int
    BY <1>1
  <2> QED BY <2>1, RemainderLess, Zenon
<1> QED BY <1>1, <1>2, <1>3 DEF x

-----------------------------------------------------------------------------
(* A function on 1 .. n is a sequence of length n.                          *)
LEMMA FunctionIsSeq ==
  ASSUME NEW S, NEW n \in Nat, NEW f \in [1 .. n -> S]
  PROVE  f \in Seq(S) /\ Len(f) = n
<1>1. f \in Seq(S)
  BY SeqDef
<1>2. Len(f) \in Nat /\ 1 .. Len(f) = 1 .. n
  BY <1>1, LenProperties
<1> QED BY <1>1, <1>2

Bytes == {Byte(k) : k \in Nat}

LEMMA MessageIsSeq ==
  ASSUME NEW a \in Nat, NEW b \in Nat, a <= b
  PROVE  /\ Message(a, b) \in Seq(Bytes) /\ Len(Message(a, b)) = b - a
         /\ \A i \in 1 .. b - a : Message(a, b)[i] = Byte(a + i)
<1>1. b - a \in Nat
  OBVIOUS
<1>2. Message(a, b) \in [1 .. b - a -> Bytes]
  BY <1>1 DEF Message, Bytes
<1>3. \A i \in 1 .. b - a : Message(a, b)[i] = Byte(a + i)
  BY <1>1 DEF Message
<1> QED BY <1>1, <1>2, <1>3, FunctionIsSeq

(* Pieces of the message put together.                                      *)
LEMMA Together ==
  ASSUME NEW a \in Nat, NEW b \in Nat, NEW c \in Nat, a <= b, b <= c
  PROVE  Message(a, b) \o Message(b, c) = Message(a, c)
<1> DEFINE s == Message(a, b)
           t == Message(b, c)
           u == Message(a, c)
<1>1. /\ s \in Seq(Bytes) /\ Len(s) = b - a
      /\ \A i \in 1 .. b - a : s[i] = Byte(a + i)
  BY MessageIsSeq
<1>2. /\ t \in Seq(Bytes) /\ Len(t) = c - b
      /\ \A i \in 1 .. c - b : t[i] = Byte(b + i)
  BY MessageIsSeq
<1>3. /\ u \in Seq(Bytes) /\ Len(u) = c - a
      /\ \A i \in 1 .. c - a : u[i] = Byte(a + i)
  BY MessageIsSeq
<1> HIDE DEF s, t, u
<1> DEFINE v == s \o t
<1>4. /\ v \in Seq(Bytes) /\ Len(v) = Len(u)
      /\ \A i \in 1 .. c - a : v[i] = IF i <= b - a THEN s[i] ELSE t[i - (b - a)]
  <2>1. /\ v \in Seq(Bytes)
        /\ Len(v) = Len(s) + Len(t)
        /\ \A i \in 1 .. Len(s) + Len(t) :
             v[i] = IF i <= Len(s) THEN s[i] ELSE t[i - Len(s)]
    BY <1>1, <1>2, ConcatProperties, Zenon
  <2>2. Len(s) + Len(t) = c - a
    BY <1>1, <1>2
  <2> QED BY <1>1, <1>3, <2>1, <2>2
<1> HIDE DEF v
<1>5. ASSUME NEW i \in 1 .. c - a
      PROVE  v[i] = u[i]
  <2>1. CASE i <= b - a
    BY <1>1, <1>3, <1>4, <2>1
  <2>2. CASE i > b - a
    <3>1. i - (b - a) \in 1 .. c - b /\ b + (i - (b - a)) = a + i
      BY <2>2
    <3>2. t[i - (b - a)] = Byte(a + i)
      BY <1>2, <3>1
    <3>3. v[i] = t[i - (b - a)]
      BY <1>4, <2>2
    <3> QED BY <1>3, <3>2, <3>3
  <2> QED BY <2>1, <2>2
<1>6. v = u
  BY <1>3, <1>4, <1>5, SeqEqual
<1> QED BY <1>6 DEF s, t, u, v

LEMMA EmptyMessage ==
  ASSUME NEW a \in Nat
  PROVE  Message(a, a) = <<>>
  BY DEF Message

-----------------------------------------------------------------------------
(* The inductive invariant: what the model checker checks, and types.       *)
Md5Inv == total \in Nat /\ final \in BOOLEAN /\ DigestsPaddedMessage

LEMMA Constants ==
  /\ Block \in Nat \ {0} /\ Wrap \in Nat \ {0} /\ HiWrap \in Nat \ {0}
  /\ Half \in Nat /\ 2 * Half < Block /\ Wrap % Block = 0
  BY Md5Assumption

(* The place in the buffer is the length of the message below a block.      *)
LEMMA UsedIsRest ==
  ASSUME NEW n \in Nat
  PROVE  /\ (n % Wrap) % Block = n % Block
         /\ n % Block \in 0 .. Block - 1 /\ n % Block <= n
<1>1. n % Block \in 0 .. Block - 1
  BY Constants, Division, n \in Int
<1>2. n % Block <= n
  BY Constants, RemainderAtMost
<1>3. (n % Wrap) % Block = n % Block
  BY Constants, RemainderOfRemainder
<1> QED BY <1>1, <1>2, <1>3

(* After a piece the counters hold the new length.                          *)
LEMMA Counting ==
  ASSUME Md5Inv, ~final, NEW size \in Nat, Counted(size)
  PROVE  /\ total' = total + size /\ total' \in Nat
         /\ lo' = total' % Wrap /\ hi' = (total' \div Wrap) % HiWrap
         /\ Used = total % Block /\ Used' = total' % Block
<1>1. total' = total + size /\ total' \in Nat
  BY DEF Counted, Md5Inv
<1>2. lo = total % Wrap /\ hi = (total \div Wrap) % HiWrap /\ total \in Nat
  BY DEF Md5Inv, DigestsPaddedMessage, BufferHoldsTheRest
<1>3. lo' = total' % Wrap
  <2>1. total \in Int /\ size \in Int
    BY <1>2
  <2>2. ((total % Wrap) + size) % Wrap = (total + size) % Wrap
    BY <2>1, Constants, RemainderOfSum, Zenon
  <2> QED BY <1>1, <1>2, <2>2 DEF Counted
<1>4. hi' = (total' \div Wrap) % HiWrap
  <2> DEFINE c == total \div Wrap
             d == Carry(lo, lo') + size \div Wrap
  <2>1. c \in Int /\ size \div Wrap \in Int
    BY <1>2, Constants, NatDivision
  <2>2. Carry(lo, lo') \in Int
    BY DEF Carry
  <2>3. total' \div Wrap = c + Carry(lo, lo') + (size \div Wrap)
    BY <1>1, <1>2, <1>3, Constants, QuotientOfSum
  <2>4. d \in Int /\ total' \div Wrap = c + d
    BY <2>1, <2>2, <2>3
  <2>5. hi' = ((c % HiWrap) + d) % HiWrap
    <3>1. hi = c % HiWrap /\ hi \in Int
      BY <1>2, <2>1, Constants, Division
    <3>2. hi + Carry(lo, lo') + size \div Wrap = hi + d
      BY <2>1, <2>2, <3>1
    <3> QED BY <3>1, <3>2 DEF Counted
  <2> HIDE DEF c, d
  <2>6. ((c % HiWrap) + d) % HiWrap = (c + d) % HiWrap
    BY <2>1, <2>4, Constants, RemainderOfSum, Zenon
  <2> QED BY <2>4, <2>5, <2>6
<1>5. Used = total % Block /\ Used' = total' % Block
  BY <1>1, <1>2, <1>3, UsedIsRest DEF Used
<1> QED BY <1>1, <1>3, <1>4, <1>5

-----------------------------------------------------------------------------
(* What the invariant says before the end, in one place.                    *)
LEMMA Before ==
  ASSUME Md5Inv, ~final
  PROVE  /\ total \in Nat /\ Used = total % Block
         /\ Used \in 0 .. Block - 1 /\ Used <= total /\ total - Used \in Nat
         /\ digested = Message(0, total - Used)
         /\ \A i \in 1 .. Used : buffer[i] = Byte(total - Used + i)
<1>1. /\ total \in Nat /\ lo = total % Wrap
      /\ digested = Message(0, total - Used)
      /\ \A i \in 1 .. Used : buffer[i] = Byte(total - Used + i)
  BY DEF Md5Inv, DigestsPaddedMessage, BufferHoldsTheRest
<1>2. Used = total % Block /\ Used \in 0 .. Block - 1 /\ Used <= total
  BY <1>1, UsedIsRest DEF Used
<1> QED BY <1>1, <1>2, Constants

(* What lies in front of the bytes copied, and the bytes.                   *)
LEMMA InFront ==
  ASSUME NEW cells, NEW from \in Nat, NEW a \in Nat, NEW b \in Nat, a <= b,
         NEW i \in 1 .. Block, i <= from
  PROVE  Copied(cells, from, Message(a, b))[i] = cells[i]
<1>1. DOMAIN Message(a, b) = 1 .. b - a /\ ~(i - from \in 1 .. b - a)
  BY DEF Message
<1> QED BY <1>1 DEF Copied

LEMMA CopiedCells ==
  ASSUME NEW cells, NEW from \in Nat, NEW a \in Nat, NEW b \in Nat, a <= b,
         NEW i \in 1 .. Block, NEW k \in 1 .. b - a, i = from + k
  PROVE  Copied(cells, from, Message(a, b))[i] = Byte(a + k)
<1>1. DOMAIN Message(a, b) = 1 .. b - a /\ i - from = k /\ Message(a, b)[k] = Byte(a + k)
  BY DEF Message
<1> QED BY <1>1 DEF Copied

LEMMA InitStep ==
  ASSUME Md5Init
  PROVE  Md5Inv
<1>1. /\ total = 0 /\ lo = 0 /\ hi = 0 /\ digested = <<>> /\ ~final
      /\ final \in BOOLEAN
  BY DEF Md5Init
<1>2. /\ 0 % Wrap = 0 /\ 0 \div Wrap = 0 /\ 0 % HiWrap = 0 /\ 0 % Block = 0
  BY Constants
<1>3. Used = 0 /\ total - Used = 0
  BY <1>1, <1>2 DEF Used
<1>4. digested = Message(0, total - Used)
  BY <1>1, <1>3, EmptyMessage
<1> QED BY <1>1, <1>2, <1>3, <1>4 DEF Md5Inv, DigestsPaddedMessage, BufferHoldsTheRest

(* What is left to show of a piece, once it is counted.                     *)
LEMMA PieceKeepsInv ==
  ASSUME Md5Inv, ~final, NEW size \in Nat, Counted(size), final' = final,
         digested' = Message(0, total' - Used'),
         \A i \in 1 .. Used' : buffer'[i] = Byte(total' - Used' + i)
  PROVE  Md5Inv'
  BY Counting DEF Md5Inv, DigestsPaddedMessage, BufferHoldsTheRest

LEMMA UpdateInBufferStep ==
  ASSUME Md5Inv, NEW size \in Nat, UpdateInBuffer(size)
  PROVE  Md5Inv'
<1> DEFINE u == Used
<1>1. ~final /\ Counted(size) /\ u + size < Block /\ final' = final
      /\ digested' = digested
      /\ buffer' = Copied(buffer, u, Message(total, total + size))
  BY Before, Constants DEF UpdateInBuffer, Fits
<1>2. /\ total \in Nat /\ u = total % Block /\ u \in 0 .. Block - 1 /\ u <= total
      /\ digested = Message(0, total - u)
      /\ \A i \in 1 .. u : buffer[i] = Byte(total - u + i)
  BY <1>1, Before
<1>3. total' = total + size /\ Used' = (total + size) % Block
  BY <1>1, Counting
<1>4. Used' = u + size /\ total' - Used' = total - u
  <2>1. (total + size) % Block = u + size
    BY <1>1, <1>2, Constants, RemainderNear
  <2> QED BY <1>2, <1>3, <2>1
<1> HIDE DEF u
<1>5. ASSUME NEW i \in 1 .. u + size
      PROVE  buffer'[i] = Byte(total - u + i)
  <2>1. i \in 1 .. Block /\ total + size \in Nat /\ u \in Nat
        /\ total <= total + size /\ (total + size) - total = size
    BY <1>1, <1>2, Constants
  <2> DEFINE b == total + size
             k == i - u
  <2>2. b \in Nat /\ total <= b /\ b - total = size /\ total + k = total - u + i
    BY <1>2, <2>1
  <2>3. buffer' = Copied(buffer, u, Message(total, b))
    BY <1>1
  <2> HIDE DEF b
  <2>4. CASE i <= u
    <3>1. Copied(buffer, u, Message(total, b))[i] = buffer[i]
      BY <1>2, <2>1, <2>2, <2>4, InFront
    <3> QED BY <1>2, <2>1, <2>3, <2>4, <3>1
  <2>5. CASE i > u
    <3>1. k \in 1 .. b - total /\ i = u + k
      BY <1>2, <1>5, <2>1, <2>2, <2>5
    <3> HIDE DEF k
    <3>2. Copied(buffer, u, Message(total, b))[i] = Byte(total + k)
      BY <1>2, <2>1, <2>2, <3>1, CopiedCells
    <3> QED BY <2>2, <2>3, <3>2
  <2> QED BY <1>2, <2>1, <2>4, <2>5
<1> QED BY <1>1, <1>2, <1>4, <1>5, PieceKeepsInv

(* A block that is filled up holds the end of the message so far.           *)
LEMMA FilledBlock ==
  ASSUME Md5Inv, ~final, Used # 0
  PROVE  Copied(buffer, Used, Message(total, total + (Block - Used)))
           = Message(total - Used, total + (Block - Used))
<1> DEFINE u == Used
           b == total + (Block - u)
           a == total - u
           copy == Copied(buffer, u, Message(total, b))
<1>1. /\ total \in Nat /\ u \in Nat /\ u < Block /\ a \in Nat
      /\ \A i \in 1 .. u : buffer[i] = Byte(a + i)
  BY Before, Constants
<1>2. b \in Nat /\ total <= b /\ b - total = Block - u /\ b - a = Block
  BY <1>1, Constants
<1>3. copy = [i \in 1 .. Block |-> copy[i]]
  BY DEF Copied
<1>4. Message(a, b) = [i \in 1 .. Block |-> Byte(a + i)]
  BY <1>2 DEF Message
<1> HIDE DEF u, b
<1>5. ASSUME NEW i \in 1 .. Block
      PROVE  copy[i] = Byte(a + i)
  <2>1. CASE i <= u
    <3>1. u \in Nat /\ total \in Nat /\ b \in Nat /\ total <= b /\ i \in 1 .. Block
      BY <1>1, <1>2
    <3>2. copy[i] = buffer[i]
      BY <2>1, <3>1, InFront, Zenon
    <3> QED BY <1>1, <2>1, <3>2
  <2>2. CASE i > u
    <3> DEFINE k == i - u
    <3>1. k \in 1 .. b - total /\ i = u + k /\ total + k = a + i
      BY <1>1, <1>2, <2>2
    <3> HIDE DEF k
    <3>2. copy[i] = Byte(total + k)
      BY <1>1, <1>2, <3>1, CopiedCells
    <3> QED BY <3>1, <3>2
  <2> QED BY <1>1, <2>1, <2>2
<1> HIDE DEF a, copy
<1>6. copy = Message(a, b)
  BY <1>3, <1>4, <1>5
<1> QED BY <1>6 DEF u, b, a, copy

(* What a piece leaves for the next block is where the message then ends.   *)
LEMMA LeftOver ==
  ASSUME Md5Inv, ~final, NEW size \in Nat, ~Fits(size), NEW filling,
         filling = IF Used = 0 THEN 0 ELSE Block - Used
  PROVE  /\ filling \in Nat /\ filling <= size
         /\ (size - filling) % Block = (total + size) % Block
         /\ (size - filling) % Block \in 0 .. Block - 1
         /\ (size - filling) % Block <= size - filling
<1>1. total \in Nat /\ Used = total % Block /\ Used \in 0 .. Block - 1
  BY Before
<1>2. filling \in Nat /\ filling <= size
  BY <1>1, Constants DEF Fits
<1>3. (size - filling) % Block = (total + size) % Block
  <2>1. CASE Used = 0
    <3>1. total \in Int /\ size \in Int /\ (total % Block) + size = size - filling
      BY <1>1, <2>1
    <3>2. ((total % Block) + size) % Block = (total + size) % Block
      BY <3>1, Constants, RemainderOfSum, Zenon
    <3> QED BY <3>1, <3>2
  <2>2. CASE Used # 0
    <3>1. (total % Block) + size >= Block /\ (total % Block) + size - Block = size - filling
      BY <1>1, <2>2, Constants DEF Fits
    <3>2. (total + size) % Block = ((total % Block) + size - Block) % Block
      BY <1>1, <3>1, Constants, RemainderNear
    <3> QED BY <3>1, <3>2
  <2> QED BY <2>1, <2>2
<1> DEFINE r == size - filling
<1>4. r \in Nat /\ r \in Int
  BY <1>2
<1> HIDE DEF r
<1>5. r % Block \in 0 .. Block - 1 /\ r % Block <= r
  BY <1>4, Constants, Division, RemainderAtMost
<1> QED BY <1>2, <1>3, <1>5 DEF r

LEMMA UpdateBlocksStep ==
  ASSUME Md5Inv, NEW size \in Nat, UpdateBlocks(size)
  PROVE  Md5Inv'
<1> DEFINE u       == Used
           filling == IF u = 0 THEN 0 ELSE Block - u
           filled  == Copied(buffer, u, Message(total, total + filling))
           left    == (size - filling) % Block
           b       == total + size
           whole   == b - left
           next    == total + filling
<1>1. /\ ~final /\ ~Fits(size) /\ Counted(size) /\ final' = final
      /\ digested' = digested \o (IF u = 0 THEN <<>> ELSE filled) \o Message(next, whole)
      /\ buffer' = Copied(filled, 0, Message(whole, b))
  BY Zenon DEF UpdateBlocks
<1>2. /\ filling \in Nat /\ filling <= size
      /\ left = b % Block /\ left \in 0 .. Block - 1 /\ left <= size - filling
  BY <1>1, LeftOver
<1>3. /\ total \in Nat /\ u \in 0 .. Block - 1 /\ total - u \in Nat
      /\ digested = Message(0, total - u)
  BY <1>1, Before
<1>4. total' = b /\ Used' = left /\ total' - Used' = whole
  BY <1>1, <1>2, Counting
<1> HIDE DEF left
<1>5. /\ b \in Nat /\ whole \in Nat /\ next \in Nat
      /\ total <= next /\ next <= whole /\ whole <= b /\ b - whole = left
  BY <1>2, <1>3
<1>6. digested' = Message(0, whole)
  <2>1. CASE u = 0
    <3>1. next = total /\ digested = Message(0, total) /\ total <= whole
      BY <1>3, <1>5, <2>1
    <3>2. digested \in Seq(Bytes)
      BY <1>3, <3>1, MessageIsSeq
    <3>3. digested \o <<>> = digested
      BY <3>2, ConcatEmptySeq
    <3>4. digested' = Message(0, total) \o Message(total, whole)
      BY <1>1, <2>1, <3>1, <3>3
    <3>5. 0 \in Nat /\ 0 <= total
      BY <1>3
    <3> HIDE DEF u, whole, next
    <3>6. Message(0, total) \o Message(total, whole) = Message(0, whole)
      BY <1>3, <1>5, <3>1, <3>5, Together, Zenon
    <3> QED BY <3>4, <3>6
  <2>2. CASE u # 0
    <3>1. filled = Message(total - u, next)
      BY <1>1, <2>2, FilledBlock
    <3>2. digested' = (Message(0, total - u) \o Message(total - u, next)) \o Message(next, whole)
      BY <1>1, <1>3, <2>2, <3>1
    <3> DEFINE a == total - u
    <3>3. /\ a \in Nat /\ a <= next
          /\ 0 \in Nat /\ 0 <= a /\ 0 <= next
      BY <1>2, <1>3, <1>5
    <3> HIDE DEF a, whole, next
    <3>4. Message(0, a) \o Message(a, next) = Message(0, next)
      BY <1>5, <3>3, Together, Zenon
    <3>5. Message(0, next) \o Message(next, whole) = Message(0, whole)
      BY <1>5, <3>3, Together, Zenon
    <3> QED BY <3>2, <3>4, <3>5 DEF a
  <2> QED BY <2>1, <2>2
<1>7. ASSUME NEW i \in 1 .. left
      PROVE  buffer'[i] = Byte(whole + i)
  <2>1. i \in 1 .. Block /\ i \in 1 .. b - whole /\ i = 0 + i
    BY <1>2, <1>5, Constants
  <2> HIDE DEF b, whole, filled
  <2>2. Copied(filled, 0, Message(whole, b))[i] = Byte(whole + i)
    BY <1>5, <2>1, CopiedCells
  <2> QED BY <1>1, <2>2
<1> HIDE DEF whole, filled
<1> QED BY <1>1, <1>4, <1>6, <1>7, PieceKeepsInv

-----------------------------------------------------------------------------
(* The bytes added at the end reach to the same place, whether one counts   *)
(* from the buffer, as the code does, or from the length of the message.    *)
Spare(n) == Block - ((n + 1 + 2 * Half) % Block)

PaddedLength(n) == n + 1 + (IF Spare(n) = Block THEN 0 ELSE Spare(n)) + 2 * Half

LEMMA PaddingLength ==
  ASSUME Md5Inv, ~final
  PROVE  /\ PadTo \in Nat /\ Used + 1 + 2 * Half <= PadTo
         /\ PaddedLength(total) = (total - Used) + PadTo
<1> DEFINE u == Used
           h == 2 * Half
           x == (total % Block) + (1 + h)
           r == (total + (1 + h)) % Block
<1>1. total \in Nat /\ u = total % Block /\ u \in 0 .. Block - 1
  BY Before
<1>2. h \in Nat /\ h < Block /\ 1 + h \in Nat /\ Block \in Nat \ {0}
  BY Constants
<1>3. /\ x < Block => r = x
      /\ x >= Block => r = (x - Block) % Block
  <2> DEFINE e == 1 + h
  <2>1. e \in Nat
    BY <1>2
  <2> HIDE DEF e
  <2>2. /\ (total % Block) + e < Block => (total + e) % Block = (total % Block) + e
        /\ (total % Block) + e >= Block =>
             (total + e) % Block = ((total % Block) + e - Block) % Block
    BY <1>1, <1>2, <2>1, RemainderNear
  <2> QED BY <1>1, <1>2, <2>2 DEF e
<1>4. x = u + 1 + h /\ total + 1 + h = total + (1 + h)
  BY <1>1, <1>2
<1>5. Spare(total) = Block - r
  BY <1>4 DEF Spare
<1>6. PadTo = IF u + 1 + h > Block THEN 2 * Block ELSE Block
  BY <1>1, <1>2 DEF PadTo, Room
<1> HIDE DEF u, h, x, r
<1>7. CASE x < Block
  <2>1. Spare(total) = Block - (u + 1 + h) /\ Spare(total) # Block
    BY <1>1, <1>2, <1>3, <1>4, <1>5, <1>7
  <2>2. PaddedLength(total) = total + 1 + (Block - (u + 1 + h)) + h
    BY <2>1 DEF PaddedLength, h
  <2> QED BY <1>1, <1>2, <1>4, <1>6, <1>7, <2>2 DEF u, h
<1>8. CASE x >= Block
  <2>1. x - Block \in 0 .. Block - 1
    BY <1>1, <1>2, <1>4, <1>8
  <2>2. r = x - Block
    <3> DEFINE y == x - Block
    <3>1. y \in 0 .. Block - 1 /\ y \in Int /\ 0 \in Int /\ y = Block * 0 + y
      BY <1>2, <2>1
    <3> HIDE DEF y
    <3>2. y % Block = y /\ y \div Block = 0
      BY <1>2, <3>1, Remainder
    <3> QED BY <1>3, <1>8, <3>2 DEF y
  <2>3. Spare(total) = 2 * Block - x
    BY <1>1, <1>2, <1>4, <1>5, <2>2
  <2>4. CASE x = Block
    <3>1. PaddedLength(total) = total + 1 + 0 + h
      BY <1>2, <2>3, <2>4 DEF PaddedLength, h
    <3> QED BY <1>1, <1>2, <1>4, <1>6, <2>4, <3>1 DEF u, h
  <2>5. CASE x # Block
    <3>1. PaddedLength(total) = total + 1 + (2 * Block - x) + h
      BY <1>1, <1>2, <1>4, <2>3, <2>5 DEF PaddedLength, h
    <3>2. u + 1 + h > Block /\ u + 1 + h <= 2 * Block /\ 2 * Block \in Nat
      BY <1>1, <1>2, <1>4, <1>8, <2>1, <2>5
    <3>3. PadTo = 2 * Block
      BY <1>6, <3>2
    <3>4. PaddedLength(total) = (total - u) + 2 * Block
      BY <1>1, <1>2, <1>4, <3>1, <3>2
    <3> QED BY <3>2, <3>3, <3>4 DEF u, h
  <2> QED BY <2>4, <2>5
<1>9. x < Block \/ x >= Block
  BY <1>1, <1>2, <1>4
<1> QED BY <1>7, <1>8, <1>9

(* Byte for byte the end is the padding of the message.                     *)
PaddedByte(n, i) ==
  CASE i <= n -> Byte(i)
    [] i = n + 1 -> <<"0x80", 0>>
    [] i > n + 1 /\ i <= PaddedLength(n) - 2 * Half -> Zero
    [] i > PaddedLength(n) - 2 * Half /\ i <= PaddedLength(n) - Half ->
         <<"lo", (n % Wrap) * 8>>
    [] OTHER -> <<"hi", (n \div Wrap) % HiWrap>>

LEMMA PaddedCells ==
  ASSUME NEW n
  PROVE  Padded(n) = [i \in 1 .. PaddedLength(n) |-> PaddedByte(n, i)]
  BY DEF Padded, PaddedLength, PaddedByte, Spare

LEMMA EndingCells ==
  ASSUME Md5Inv, ~final, NEW k \in 1 .. PadTo
  PROVE  Ending(k) = PaddedByte(total, (total - Used) + k)
<1> DEFINE u == Used
           h == Half
           w == PaddedLength(total)
           d == total - u
           i == d + k
<1>1. /\ total \in Nat /\ u \in Nat /\ d \in Nat /\ total = d + u
      /\ \A j \in 1 .. u : buffer[j] = Byte(d + j)
  BY Before, Constants
<1>2. /\ PadTo \in Nat /\ u + 1 + 2 * h <= PadTo /\ w = d + PadTo /\ h \in Nat
  BY PaddingLength, Constants
<1>3. lo = total % Wrap /\ hi = (total \div Wrap) % HiWrap
  BY DEF Md5Inv, DigestsPaddedMessage, BufferHoldsTheRest
<1>4. Ending(k) =
        CASE k = u + 1 -> <<"0x80", 0>>
          [] k > PadTo - 2 * h /\ k <= PadTo - h -> <<"lo", lo * 8>>
          [] k > PadTo - h -> <<"hi", hi>>
          [] k <= u -> buffer[k]
          [] OTHER -> Zero
  BY DEF Ending
<1>5. PaddedByte(total, i) =
        CASE i <= total -> Byte(i)
          [] i = total + 1 -> <<"0x80", 0>>
          [] i > total + 1 /\ i <= w - 2 * h -> Zero
          [] i > w - 2 * h /\ i <= w - h -> <<"lo", (total % Wrap) * 8>>
          [] OTHER -> <<"hi", (total \div Wrap) % HiWrap>>
  BY DEF PaddedByte
<1> SUFFICES Ending(k) = PaddedByte(total, i)
  OBVIOUS
<1> HIDE DEF u, h, w, d
<1>6. CASE k <= u
  <2>1. /\ k # u + 1 /\ ~(k > PadTo - 2 * h) /\ ~(k > PadTo - h)
        /\ i <= total /\ i # total + 1 /\ ~(i > total + 1) /\ ~(i > w - 2 * h)
    BY <1>1, <1>2, <1>6
  <2>2. Ending(k) = buffer[k]
    BY <1>4, <1>6, <2>1, Zenon
  <2>3. PaddedByte(total, i) = Byte(i)
    BY <1>5, <2>1, Zenon
  <2> QED BY <1>1, <1>6, <2>2, <2>3
<1>7. CASE k = u + 1
  BY <1>1, <1>2, <1>4, <1>5, <1>7
<1>8. CASE k > u + 1 /\ k <= PadTo - 2 * h
  BY <1>1, <1>2, <1>4, <1>5, <1>8
<1>9. CASE k > PadTo - 2 * h /\ k <= PadTo - h
  BY <1>1, <1>2, <1>3, <1>4, <1>5, <1>9
<1>10. CASE k > PadTo - h
  BY <1>1, <1>2, <1>3, <1>4, <1>5, <1>10
<1> QED BY <1>1, <1>2, <1>6, <1>7, <1>8, <1>9, <1>10

LEMMA FinalStep ==
  ASSUME Md5Inv, MD5_Final
  PROVE  Md5Inv'
<1> DEFINE d   == total - Used
           w   == PaddedLength(total)
           end == [k \in 1 .. PadTo |-> Ending(k)]
           S   == Bytes \union {Ending(k) : k \in 1 .. PadTo}
           v   == Message(0, d) \o end
<1>1. ~final /\ final' = TRUE /\ total' = total /\ digested' = digested \o end
  BY DEF MD5_Final
<1>2. /\ total \in Nat /\ d \in Nat /\ d <= total /\ digested = Message(0, d)
  BY <1>1, Before, Constants
<1>3. PadTo \in Nat /\ w = d + PadTo
  BY <1>1, PaddingLength
<1>4. /\ Message(0, d) \in Seq(Bytes) /\ Len(Message(0, d)) = d
      /\ \A i \in 1 .. d : Message(0, d)[i] = Byte(i)
  <2>1. 0 \in Nat /\ 0 <= d /\ d - 0 = d /\ \A i \in 1 .. d : 0 + i = i
    BY <1>2
  <2> HIDE DEF d
  <2>2. /\ Message(0, d) \in Seq(Bytes) /\ Len(Message(0, d)) = d - 0
        /\ \A i \in 1 .. d - 0 : Message(0, d)[i] = Byte(0 + i)
    BY <1>2, <2>1, MessageIsSeq, Zenon
  <2> QED BY <2>1, <2>2
<1>5. Message(0, d) \in Seq(S)
  BY <1>4, SeqMonotonic
<1>6. end \in Seq(S) /\ Len(end) = PadTo /\ \A k \in 1 .. PadTo : end[k] = Ending(k)
  <2>1. end \in [1 .. PadTo -> S]
    OBVIOUS
  <2> HIDE DEF S, end
  <2>2. end \in Seq(S) /\ Len(end) = PadTo
    BY <1>3, <2>1, FunctionIsSeq
  <2> QED BY <2>2 DEF end
<1> HIDE DEF S, end
<1>7. /\ v \in Seq(S) /\ Len(v) = d + PadTo
      /\ \A i \in 1 .. d + PadTo : v[i] = IF i <= d THEN Message(0, d)[i] ELSE end[i - d]
  <2>1. /\ v \in Seq(S)
        /\ Len(v) = Len(Message(0, d)) + Len(end)
        /\ \A i \in 1 .. Len(Message(0, d)) + Len(end) :
             v[i] = IF i <= Len(Message(0, d)) THEN Message(0, d)[i]
                    ELSE end[i - Len(Message(0, d))]
    BY <1>5, <1>6, ConcatProperties, Zenon
  <2> HIDE DEF v, d
  <2> QED BY <1>4, <1>6, <2>1
<1> HIDE DEF v, w
<1>8. ASSUME NEW i \in 1 .. w
      PROVE  v[i] = PaddedByte(total, i)
  <2>1. CASE i <= d
    <3>1. v[i] = Byte(i)
      <4>1. i \in 1 .. d /\ i \in 1 .. d + PadTo
        BY <1>2, <1>3, <2>1
      <4> HIDE DEF d
      <4>2. v[i] = Message(0, d)[i]
        BY <1>7, <2>1, <4>1
      <4> QED BY <1>4, <4>1, <4>2
    <3>2. i <= total /\ i # total + 1 /\ ~(i > total + 1)
      BY <1>2, <2>1
    <3>3. w - 2 * Half >= total + 1 /\ w - 2 * Half \in Int /\ Half \in Nat
      <4>1. Used \in Nat /\ Used + 1 + 2 * Half <= PadTo /\ 2 * Half \in Nat
        BY <1>1, Before, PaddingLength, Constants
      <4>2. w = (total - Used) + PadTo
        BY <1>3
      <4> QED BY <1>2, <1>3, <4>1, <4>2, Constants
    <3>4. ~(i > w - 2 * Half)
      BY <3>2, <3>3, <1>2
    <3>5. PaddedByte(total, i) = Byte(i)
      BY <3>2, <3>4, Zenon DEF PaddedByte, w
    <3> QED BY <3>1, <3>5
  <2>2. CASE i > d
    <3> DEFINE k == i - d
    <3>1. k \in 1 .. PadTo /\ d + k = i
      BY <1>2, <1>3, <2>2
    <3>2. v[i] = end[k]
      BY <1>2, <1>3, <1>7, <2>2
    <3> HIDE DEF k
    <3>3. end[k] = Ending(k) /\ Ending(k) = PaddedByte(total, (total - Used) + k)
      BY <1>1, <1>6, <3>1, EndingCells
    <3> QED BY <3>1, <3>2, <3>3
  <2> QED BY <1>2, <1>3, <2>1, <2>2
<1>9. v = [i \in 1 .. w |-> PaddedByte(total, i)]
  <2>1. v \in [1 .. w -> S]
    BY <1>3, <1>7, LenProperties
  <2> QED BY <1>8, <2>1
<1>10. digested' = Padded(total')
  BY <1>1, <1>2, <1>9, PaddedCells DEF v, w
<1> QED BY <1>1, <1>2, <1>10 DEF Md5Inv, DigestsPaddedMessage, BufferHoldsTheRest

(* The invariant is inductive.                                              *)
LEMMA Md5InvInductive ==
  ASSUME Md5Inv, [Md5Next]_md5Vars
  PROVE  Md5Inv'
<1>1. ASSUME NEW size \in Pieces, UpdateInBuffer(size)
      PROVE  Md5Inv'
  BY <1>1, UpdateInBufferStep, Md5Assumption
<1>2. ASSUME NEW size \in Pieces, UpdateBlocks(size)
      PROVE  Md5Inv'
  BY <1>2, UpdateBlocksStep, Md5Assumption
<1>3. CASE MD5_Final
  BY <1>3, FinalStep
<1>4. CASE UNCHANGED md5Vars
  BY <1>4 DEF md5Vars, Md5Inv, DigestsPaddedMessage, BufferHoldsTheRest, Used
<1> QED BY <1>1, <1>2, <1>3, <1>4 DEF Md5Next

(* Whatever the pieces a message is handed to MD5_Update in, in the end     *)
(* body() has been given exactly the padded message, and until then the     *)
(* blocks given, the buffer and the two counters add up to what came in.    *)
THEOREM Md5DigestsPaddedMessage == Md5Spec => []DigestsPaddedMessage
<1>1. Md5Init => Md5Inv
  BY InitStep
<1>2. Md5Inv /\ [Md5Next]_md5Vars => Md5Inv'
  BY Md5InvInductive
<1>3. Md5Inv => DigestsPaddedMessage
  BY DEF Md5Inv
<1> QED BY <1>1, <1>2, <1>3, PTL DEF Md5Spec
=============================================================================
