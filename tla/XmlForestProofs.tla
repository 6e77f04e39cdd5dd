-------------------------- MODULE XmlForestProofs --------------------------
(***************************************************************************)
(* The pointers of XmlTree implement the ordered trees of OrderedForest.   *)
(* Read along _next from _firstChild, the children of a node are exactly   *)
(* the nodes whose _parent it is, each once (Chain, ChildrenAreChain), and *)
(* any sequence linked that way is that reading (TheseAreChildren).  So it *)
(* is enough to say of each step of a call what it does to the links: then *)
(* every action of XmlTree is the action of OrderedForest of its name.     *)
(***************************************************************************)
EXTENDS XmlTreeProofs, FiniteSetTheorems

(* Induction along a sequence. *)
LEMMA AllFromOne ==
  ASSUME NEW n \in Nat, NEW S, n # 0 => 1 \in S,
         \A k \in 1 .. n - 1 : k \in S => k + 1 \in S
  PROVE  1 .. n \subseteq S
<1>. DEFINE T == {0} \union {k \in 1 .. n : k \in S}
<1>1. 0 \in T
  OBVIOUS
<1>2. ASSUME NEW k \in 0 .. n - 1, k \in T
      PROVE  k + 1 \in T
  <2>1. k + 1 \in 1 .. n /\ (k # 0 => k \in 1 .. n - 1)
    OBVIOUS
  <2> QED
    BY <1>2, <2>1
<1>3. 0 .. n \subseteq T
  <2> HIDE DEF T
  <2> QED
    BY <1>1, <1>2, AllUpTo
<1> QED
  BY <1>3

-----------------------------------------------------------------------------
(* Chains: the siblings that _next leads to. *)

(* s is what is read along _next from the first child of p, as far as it goes. *)
Run(d, p, s) ==
  /\ s \in Seq(Nodes)
  /\ s # <<>> => d.first[p] = s[1]
  /\ \A i \in 1 .. Len(s) - 1 : d.next[s[i]] = s[i + 1]

(* And s is all of it. *)
Chain(d, p, s) ==
  /\ Run(d, p, s)
  /\ s = <<>> => d.first[p] = Nil
  /\ s # <<>> => d.next[s[Len(s)]] = Nil

(* They are children of p, and the way back is the way there. *)
LEMMA RunParents ==
  ASSUME NEW d, NEW in, IsForest(d, in), NEW p \in in \union {Doc}, NEW s, Run(d, p, s)
  PROVE  /\ \A i \in 1 .. Len(s) : s[i] \in in /\ d.parent[s[i]] = p
         /\ \A i \in 1 .. Len(s) - 1 : d.prev[s[i + 1]] = s[i]
         /\ s # <<>> => d.prev[s[1]] = Nil
<1>. DEFINE Kids == {i \in 1 .. Len(s) : s[i] \in in /\ d.parent[s[i]] = p}
<1>0. /\ s \in Seq(Nodes) /\ Len(s) \in Nat
      /\ \A i \in 1 .. Len(s) : s[i] \in Nodes
      /\ s = <<>> <=> Len(s) = 0
  BY DEF Run
<1>1. \A i \in 1 .. Len(s) : s[i] # Nil
  BY <1>0, StoreAssumption
<1>2. s # <<>> => s[1] = d.first[p] /\ s[1] \in in /\ d.parent[s[1]] = p /\ p # Nil
  <2>1. d.first[p] \in in \union {Nil} /\ (d.first[p] # Nil => d.parent[d.first[p]] = p)
    BY DEF IsForest, Typed, Agree
  <2>2. p # Nil
    BY StoreAssumption DEF IsForest, Typed
  <2>3. s # <<>> => 1 \in 1 .. Len(s) /\ d.first[p] = s[1]
    BY <1>0 DEF Run
  <2> QED
    BY <1>1, <2>1, <2>2, <2>3
<1>3. ASSUME NEW i \in 1 .. Len(s) - 1, i \in Kids
      PROVE  i + 1 \in Kids /\ d.prev[s[i + 1]] = s[i]
  <2>1. i + 1 \in 1 .. Len(s) /\ d.next[s[i]] = s[i + 1]
    BY <1>0 DEF Run
  <2>2. s[i] \in in /\ d.parent[s[i]] = p
    BY <1>3
  <2>3. s[i + 1] # Nil
    BY <1>1, <2>1
  <2>4. s[i + 1] \in in /\ d.parent[s[i + 1]] = p /\ d.prev[s[i + 1]] = s[i]
    BY <2>1, <2>2, <2>3 DEF IsForest, Typed, Agree
  <2> QED
    BY <2>1, <2>4
<1>4. Len(s) # 0 => 1 \in Kids
  BY <1>0, <1>2
<1>5. 1 .. Len(s) \subseteq Kids
  <2> HIDE DEF Kids
  <2> QED
    BY <1>0, <1>3, <1>4, AllFromOne
<1>6. ASSUME s # <<>> PROVE d.prev[s[1]] = Nil
  BY <1>2, <1>6 DEF IsForest, Agree
<1> QED
  BY <1>3, <1>5, <1>6, <1>0

(* No sibling comes twice. *)
LEMMA RunInjective ==
  ASSUME NEW d, NEW in, IsForest(d, in), NEW p \in in \union {Doc}, NEW s, Run(d, p, s)
  PROVE  \A i, j \in 1 .. Len(s) : s[i] = s[j] => i = j
<1>. DEFINE Twice == {i \in 1 .. Len(s) : \E j \in 1 .. Len(s) : i < j /\ s[i] = s[j]}
<1>0. s \in Seq(Nodes) /\ Len(s) \in Nat /\ (\A i \in 1 .. Len(s) : s[i] # Nil)
  BY StoreAssumption DEF Run
<1>1. /\ \A i \in 1 .. Len(s) - 1 : d.prev[s[i + 1]] = s[i]
      /\ s # <<>> => d.prev[s[1]] = Nil
  BY RunParents
<1>2. Twice = {}
  <2>1. SUFFICES ASSUME Twice # {} PROVE FALSE
    OBVIOUS
  <2>2. Twice \in SUBSET Nat
    BY <1>0
  <2>3. PICK i \in Twice : \A k \in Twice : i <= k
    <3> HIDE DEF Twice
    <3> QED
      BY <2>1, <2>2, LeastNatural
  <2>4. PICK j \in 1 .. Len(s) : i < j /\ s[i] = s[j]
    BY <2>3
  <2>5. /\ i \in 1 .. Len(s) /\ i \in Int /\ j \in Int /\ i < j
        /\ j - 1 \in 1 .. Len(s) - 1 /\ j - 1 \in 1 .. Len(s) /\ (j - 1) + 1 = j
    BY <1>0, <2>3, <2>4
  <2>6. d.prev[s[j]] = s[j - 1] /\ s[j - 1] # Nil
    BY <1>0, <1>1, <2>5
  <2>7. CASE i = 1
    <3>1. d.prev[s[i]] = Nil
      BY <1>0, <1>1, <2>7, <2>5
    <3> QED
      BY <2>4, <2>6, <3>1
  <2>8. CASE i # 1
    <3>1. i - 1 \in 1 .. Len(s) - 1 /\ i - 1 \in 1 .. Len(s) /\ (i - 1) + 1 = i /\ i - 1 < j - 1 /\ ~(i <= i - 1)
      BY <2>5, <2>8, <1>0
    <3>2. d.prev[s[i]] = s[i - 1]
      BY <1>1, <3>1
    <3>3. s[i - 1] = s[j - 1]
      BY <2>4, <2>6, <3>2
    <3>4. i - 1 \in Twice
      BY <2>5, <3>1, <3>3
    <3> QED
      BY <2>3, <3>1, <3>4
  <2> QED
    BY <2>7, <2>8
<1>3. ASSUME NEW i \in 1 .. Len(s), NEW j \in 1 .. Len(s), s[i] = s[j]
      PROVE  i = j
  <2>1. ~(i < j) /\ ~(j < i)
    BY <1>2, <1>3
  <2> QED
    BY <2>1, <1>0
<1> QED
  BY <1>3

(* Two chains of the same node are the same. *)
LEMMA ChainsAlike ==
  ASSUME NEW d, NEW p, NEW s, NEW t, Chain(d, p, s), Chain(d, p, t)
  PROVE  s = t
<1>. DEFINE Both == {i \in 1 .. Len(s) : i \in 1 .. Len(t) /\ s[i] = t[i]}
<1>0. /\ s \in Seq(Nodes) /\ Len(s) \in Nat /\ t \in Seq(Nodes) /\ Len(t) \in Nat
      /\ s = <<>> <=> Len(s) = 0
      /\ t = <<>> <=> Len(t) = 0
      /\ \A i \in 1 .. Len(s) : s[i] # Nil
      /\ \A i \in 1 .. Len(t) : t[i] # Nil
  BY StoreAssumption DEF Chain, Run
<1>1. Len(s) # 0 => Len(t) # 0 /\ s[1] = t[1]
  BY <1>0 DEF Chain, Run
<1>2. Len(t) # 0 => Len(s) # 0
  BY <1>0 DEF Chain, Run
<1>3. ASSUME NEW i \in 1 .. Len(s) - 1, i \in Both
      PROVE  i + 1 \in Both
  <2>1. /\ i + 1 \in 1 .. Len(s) /\ d.next[s[i]] = s[i + 1]
        /\ i \in 1 .. Len(t) /\ s[i] = t[i]
    BY <1>0, <1>3 DEF Chain, Run
  <2>2. d.next[t[i]] # Nil
    BY <1>0, <2>1
  <2>3. i # Len(t)
    BY <1>0, <2>1, <2>2 DEF Chain
  <2>4. i \in 1 .. Len(t) - 1 /\ i + 1 \in 1 .. Len(t)
    BY <1>0, <2>1, <2>3
  <2>5. d.next[t[i]] = t[i + 1]
    BY <2>4 DEF Chain, Run
  <2> QED
    BY <2>1, <2>4, <2>5
<1>4. 1 .. Len(s) \subseteq Both
  <2>1. Len(s) # 0 => 1 \in Both
    BY <1>0, <1>1
  <2> HIDE DEF Both
  <2> QED
    BY <1>0, <1>3, <2>1, AllFromOne
<1>5. \A i \in 1 .. Len(s) : i \in 1 .. Len(t) /\ s[i] = t[i]
  BY <1>4
<1>6. Len(t) = Len(s)
  <2>1. CASE Len(s) = 0
    BY <1>2, <2>1
  <2>2. CASE Len(s) # 0
    <3>1. Len(s) \in 1 .. Len(s)
      BY <1>0, <2>2
    <3>2. Len(s) \in 1 .. Len(t) /\ s[Len(s)] = t[Len(s)]
      BY <1>5, <3>1
    <3>3. d.next[s[Len(s)]] = Nil
      BY <1>0, <2>2 DEF Chain
    <3>4. CASE Len(s) # Len(t)
      <4>1. Len(s) \in 1 .. Len(t) - 1 /\ Len(s) + 1 \in 1 .. Len(t)
        BY <1>0, <3>2, <3>4
      <4>2. d.next[t[Len(s)]] = t[Len(s) + 1]
        BY <4>1 DEF Chain, Run
      <4>3. t[Len(s) + 1] # Nil
        BY <1>0, <4>1
      <4> QED
        BY <3>2, <3>3, <4>2, <4>3
    <3> QED
      BY <3>4
  <2> QED
    BY <2>1, <2>2
<1> QED
  BY <1>0, <1>5, <1>6

(* A run is no longer than the memory. *)
LEMMA RunsAreShort ==
  ASSUME NEW d, NEW in, IsForest(d, in), NEW p \in in \union {Doc}, NEW s, Run(d, p, s)
  PROVE  Len(s) <= Cardinality(Nodes)
<1>0. s \in Seq(Nodes) /\ Len(s) \in Nat /\ s \in [1 .. Len(s) -> Nodes]
  BY DEF Run
<1>1. IsFiniteSet(1 .. Len(s)) /\ Cardinality(1 .. Len(s)) = Len(s)
  <2>1. 1 \in Int /\ Len(s) \in Int /\ (IF 1 > Len(s) THEN 0 ELSE Len(s) - 1 + 1) = Len(s)
    BY <1>0
  <2> QED
    BY <2>1, FS_Interval
<1>2. Cardinality(Nodes) \in Nat
  BY MemoryAssumption, FS_CardinalityType
<1>3. ~ (Cardinality(Nodes) < Len(s))
  <2>1. SUFFICES ASSUME Cardinality(Nodes) < Cardinality(1 .. Len(s)) PROVE FALSE
    BY <1>1
  <2>2. \E x, y \in 1 .. Len(s) : x # y /\ s[x] = s[y]
    BY <1>0, <1>1, <2>1, MemoryAssumption, FS_PigeonHole
  <2> QED
    BY <2>2, RunInjective
<1> QED
  BY <1>0, <1>2, <1>3

(* So every node has a chain, which may be empty. *)
LEMMA ChainExists ==
  ASSUME NEW d, NEW in, IsForest(d, in), NEW p \in in \union {Doc}
  PROVE  \E s : Chain(d, p, s)
<1>. DEFINE Goes == {k \in 0 .. Cardinality(Nodes) + 1 : \E s : Run(d, p, s) /\ Len(s) = k}
            N == Cardinality(Nodes)
<1>0. N \in Nat
  BY MemoryAssumption, FS_CardinalityType
<1>1. SUFFICES ASSUME ~ \E s : Chain(d, p, s) PROVE FALSE
  OBVIOUS
<1>2. 0 \in Goes
  <2>1. Run(d, p, <<>>) /\ Len(<<>>) = 0
    BY DEF Run
  <2> QED
    BY <1>0, <2>1
<1>3. ASSUME NEW k \in 0 .. (N + 1) - 1, k \in Goes
      PROVE  k + 1 \in Goes
  <2>1. PICK s : Run(d, p, s) /\ Len(s) = k
    BY <1>3
  <2>2. ~Chain(d, p, s)
    BY <1>1
  <2>3. s \in Seq(Nodes) /\ (s = <<>> <=> k = 0) /\ k \in Nat
    BY <2>1 DEF Run
  <2>. DEFINE m == IF s = <<>> THEN d.first[p] ELSE d.next[s[k]]
  <2>4. m \in Nodes
    <3>1. m # Nil
      BY <2>1, <2>2 DEF Chain
    <3>2. d.first[p] \in in \union {Nil} /\ in \subseteq Nodes
      BY DEF IsForest, Typed
    <3>3. ASSUME s # <<>> PROVE d.next[s[k]] \in Nodes \union {Nil}
      <4>1. k \in 1 .. Len(s)
        BY <2>1, <2>3, <3>3
      <4>2. s[k] \in Nodes
        BY <2>3, <4>1
      <4> QED
        BY <4>2, StoreTypes DEF IsForest
    <3> QED
      BY <3>1, <3>2, <3>3
  <2> HIDE DEF m
  <2>5. /\ Append(s, m) \in Seq(Nodes) /\ Len(Append(s, m)) = k + 1
        /\ \A i \in 1 .. k : Append(s, m)[i] = s[i]
        /\ Append(s, m)[k + 1] = m
    BY <2>1, <2>3, <2>4
  <2>6. Append(s, m)[1] = d.first[p]
    <3>1. CASE k = 0
      BY <2>3, <2>5, <3>1 DEF m
    <3>2. CASE k # 0
      <4>1. 1 \in 1 .. k
        BY <2>3, <3>2
      <4> QED
        BY <2>1, <2>3, <2>5, <3>2, <4>1 DEF Run
    <3> QED
      BY <3>1, <3>2
  <2>7. ASSUME NEW i \in 1 .. (k + 1) - 1
        PROVE  d.next[Append(s, m)[i]] = Append(s, m)[i + 1]
    <3>1. i \in 1 .. k /\ k # 0
      BY <2>3
    <3>2. CASE i = k
      BY <2>3, <2>5, <3>1, <3>2 DEF m
    <3>3. CASE i # k
      <4>1. i \in 1 .. Len(s) - 1 /\ i + 1 \in 1 .. k
        BY <2>1, <2>3, <3>1, <3>3
      <4> QED
        BY <2>1, <2>5, <3>1, <4>1 DEF Run
    <3> QED
      BY <3>2, <3>3
  <2>8. Run(d, p, Append(s, m))
    BY <2>5, <2>6, <2>7 DEF Run
  <2>9. k + 1 \in 0 .. N + 1
    BY <1>0
  <2> QED
    BY <2>5, <2>8, <2>9
<1>4. 0 .. N + 1 \subseteq Goes
  <2>1. N + 1 \in Nat
    BY <1>0
  <2> HIDE DEF Goes, N
  <2> QED
    BY <1>2, <1>3, <2>1, AllUpTo
<1>5. PICK s : Run(d, p, s) /\ Len(s) = N + 1
  BY <1>0, <1>4
<1> QED
  BY <1>0, <1>5, RunsAreShort

(* The chain is what Children reads. *)
LEMMA ChildrenReadsChain ==
  ASSUME NEW d, NEW p, NEW s, Chain(d, p, s), Len(s) <= Cardinality(Nodes),
         Cardinality(Nodes) \in Nat
  PROVE  Children(d, p) = s
<1>. DEFINE N == Cardinality(Nodes)
            Then(g) == [i \in 1 .. N |-> IF i = 1 THEN d.first[p]
                                         ELSE IF g[i - 1] = Nil THEN Nil ELSE d.next[g[i - 1]]]
            nth == CHOOSE g : g = Then(g)
            read == [i \in 1 .. N |-> IF i <= Len(s) THEN s[i] ELSE Nil]
<1>0. /\ N \in Nat /\ s \in Seq(Nodes) /\ Len(s) \in Nat /\ Len(s) <= N
      /\ s = <<>> <=> Len(s) = 0
      /\ \A i \in 1 .. Len(s) : s[i] # Nil
  BY StoreAssumption DEF Chain, Run
<1>1. read = Then(read)
  <2>1. ASSUME NEW i \in 1 .. N
        PROVE  read[i] = IF i = 1 THEN d.first[p]
                         ELSE IF read[i - 1] = Nil THEN Nil ELSE d.next[read[i - 1]]
    <3>1. CASE i = 1
      <4>1. read[1] = IF 1 <= Len(s) THEN s[1] ELSE Nil
        BY <3>1
      <4>2. d.first[p] = IF 1 <= Len(s) THEN s[1] ELSE Nil
        BY <1>0 DEF Chain, Run
      <4> QED
        BY <3>1, <4>1, <4>2
    <3>2. CASE i # 1
      <4>1. i - 1 \in 1 .. N /\ i \in Nat /\ (i - 1) + 1 = i
        BY <1>0, <3>2
      <4>2. read[i - 1] = (IF i - 1 <= Len(s) THEN s[i - 1] ELSE Nil)
            /\ read[i] = (IF i <= Len(s) THEN s[i] ELSE Nil)
        BY <4>1
      <4>3. CASE i <= Len(s)
        <5>1. i - 1 \in 1 .. Len(s) - 1 /\ i - 1 \in 1 .. Len(s) /\ i - 1 <= Len(s)
          BY <1>0, <4>1, <4>3
        <5>2. d.next[s[i - 1]] = s[i]
          BY <4>1, <5>1 DEF Chain, Run
        <5> QED
          BY <1>0, <3>2, <4>2, <4>3, <5>1, <5>2
      <4>4. CASE i - 1 = Len(s)
        <5>1. Len(s) # 0 /\ i - 1 \in 1 .. Len(s) /\ ~(i <= Len(s)) /\ i - 1 <= Len(s)
          BY <1>0, <4>1, <4>4
        <5>2. d.next[s[i - 1]] = Nil
          BY <1>0, <4>4, <5>1 DEF Chain
        <5> QED
          BY <1>0, <3>2, <4>2, <5>1, <5>2
      <4>5. CASE ~(i - 1 <= Len(s))
        <5>1. ~(i <= Len(s))
          BY <1>0, <4>1, <4>5
        <5> QED
          BY <3>2, <4>2, <4>5, <5>1
      <4>6. i <= Len(s) \/ i - 1 = Len(s) \/ ~(i - 1 <= Len(s))
        BY <1>0, <4>1
      <4> QED
        BY <4>3, <4>4, <4>5, <4>6
    <3> QED
      BY <3>1, <3>2
  <2> QED
    BY <2>1
<1>2. nth = Then(nth)
  <2> HIDE DEF Then, read
  <2> QED
    BY <1>1
<1>3. \A i \in 1 .. N : nth[i] = IF i = 1 THEN d.first[p]
                                 ELSE IF nth[i - 1] = Nil THEN Nil ELSE d.next[nth[i - 1]]
  <2> HIDE DEF nth
  <2> QED
    BY <1>2
<1>4. Children(d, p) = [i \in 1 .. Cardinality({i \in 1 .. N : nth[i] # Nil}) |-> nth[i]]
  BY DEF Children
<1> HIDE DEF nth, Then
<1>. DEFINE Same == {i \in 1 .. N : nth[i] = read[i]}
<1>5. 1 .. N \subseteq Same
  <2>0. \A i \in 1 .. N : read[i] = IF i = 1 THEN d.first[p]
                          ELSE IF read[i - 1] = Nil THEN Nil ELSE d.next[read[i - 1]]
    <3> HIDE DEF read
    <3> QED
      BY <1>1 DEF Then
  <2> HIDE DEF read
  <2>1. N # 0 => 1 \in Same
    BY <1>0, <1>3, <2>0
  <2>2. ASSUME NEW k \in 1 .. N - 1, k \in Same
        PROVE  k + 1 \in Same
    <3>1. k + 1 \in 1 .. N /\ (k + 1) - 1 = k /\ k + 1 # 1
      BY <1>0
    <3> QED
      BY <1>3, <2>0, <2>2, <3>1
  <2> HIDE DEF Same, N
  <2> QED
    BY <1>0, <2>1, <2>2, AllFromOne
<1>6. \A i \in 1 .. N : nth[i] = IF i <= Len(s) THEN s[i] ELSE Nil
  BY <1>5
<1>7. {i \in 1 .. N : nth[i] # Nil} = 1 .. Len(s)
  BY <1>0, <1>6
<1>8. Cardinality(1 .. Len(s)) = Len(s)
  <2>1. 1 \in Int /\ Len(s) \in Int /\ (IF 1 > Len(s) THEN 0 ELSE Len(s) - 1 + 1) = Len(s)
    BY <1>0
  <2> QED
    BY <2>1, FS_Interval
<1>9. Children(d, p) = [i \in 1 .. Len(s) |-> nth[i]]
  BY <1>4, <1>7, <1>8
<1>10. \A i \in 1 .. Len(s) : nth[i] = s[i]
  BY <1>0, <1>6
<1>11. s = [i \in 1 .. Len(s) |-> s[i]]
  BY <1>0
<1> QED
  BY <1>9, <1>10, <1>11

(* So Children reads a chain, and any chain is what it reads. *)
LEMMA ChildrenAreChain ==
  ASSUME NEW d, NEW in, IsForest(d, in), NEW p \in Parents
  PROVE  /\ Chain(d, p, Children(d, p))
         /\ \A s : Chain(d, p, s) => Children(d, p) = s
<1>0. Cardinality(Nodes) \in Nat
  BY MemoryAssumption, FS_CardinalityType
<1>1. CASE p \in in \union {Doc}
  <2>1. PICK s : Chain(d, p, s)
    BY <1>1, ChainExists
  <2>2. Children(d, p) = s
    BY <1>0, <1>1, <2>1, RunsAreShort, ChildrenReadsChain DEF Chain
  <2> QED
    BY <2>1, <2>2, ChainsAlike
<1>2. CASE p \notin in \union {Doc}
  <2>1. d.first[p] = Nil
    BY <1>2 DEF IsForest, Typed, Parents
  <2>2. Chain(d, p, <<>>)
    BY <2>1 DEF Chain, Run
  <2>3. Children(d, p) = <<>>
    BY <1>0, <2>2, ChildrenReadsChain
  <2> QED
    BY <2>2, <2>3, ChainsAlike
<1> QED
  BY <1>1, <1>2

(* A node's children are those whose parent it is. *)
LEMMA ChildrenHaveParent ==
  ASSUME NEW d, NEW in, IsForest(d, in), NEW p \in Parents
  PROVE  ToSet(Children(d, p)) = {m \in in : d.parent[m] = p}
<1>. DEFINE K(q) == Children(d, q)
            S == {m \in in : d.parent[m] # Nil => m \in ToSet(K(d.parent[m]))}
<1>1. \A q \in Parents : Chain(d, q, K(q))
  BY ChildrenAreChain
<1>2. \A q \in Parents : K(q) \in Seq(Nodes) /\ ToSet(K(q)) = {K(q)[i] : i \in 1 .. Len(K(q))}
  BY <1>1 DEF Chain, Run, ToSet
<1>3. ASSUME NEW q \in Parents, q \notin in \union {Doc}
      PROVE  K(q) = <<>>
  <2>1. d.first[q] = Nil
    BY <1>3 DEF IsForest, Typed, Parents
  <2>2. K(q) # <<>> => K(q)[1] \in Nodes /\ d.first[q] = K(q)[1]
    BY <1>1, <1>2 DEF Chain, Run
  <2> QED
    BY <2>1, <2>2, StoreAssumption
<1>4. ASSUME NEW m \in ToSet(K(p))
      PROVE  m \in in /\ d.parent[m] = p
  <2>1. p \in in \union {Doc}
    BY <1>2, <1>3
  <2> QED
    BY <1>1, <1>2, <2>1, RunParents DEF Chain
<1>5. \A q \in in \union {Doc} : d.first[q] # Nil => d.first[q] \in ToSet(K(q))
  <2>1. ASSUME NEW q \in in \union {Doc}, d.first[q] # Nil
        PROVE  d.first[q] \in ToSet(K(q))
    <3>1. q \in Parents
      BY DEF IsForest, Typed, Parents
    <3>2. K(q) # <<>> /\ d.first[q] = K(q)[1]
      BY <1>1, <2>1, <3>1 DEF Chain, Run
    <3> HIDE DEF K
    <3>3. 1 \in 1 .. Len(K(q))
      BY <1>2, <3>1, <3>2
    <3> QED
      BY <1>2, <3>1, <3>2, <3>3
  <2> QED
    BY <2>1
<1>6. ASSUME NEW q \in Parents, NEW m \in ToSet(K(q)), d.next[m] # Nil
      PROVE  d.next[m] \in ToSet(K(q))
  <2> HIDE DEF K
  <2>1. PICK i \in 1 .. Len(K(q)) : m = K(q)[i]
    BY <1>2
  <2>2. i # Len(K(q))
    BY <1>1, <1>2, <1>6, <2>1 DEF Chain
  <2>3. i \in 1 .. Len(K(q)) - 1 /\ i + 1 \in 1 .. Len(K(q))
    BY <1>2, <2>1, <2>2
  <2>4. d.next[m] = K(q)[i + 1]
    BY <1>1, <2>1, <2>3 DEF Chain, Run
  <2> QED
    BY <1>2, <2>3, <2>4
<1>7. in \subseteq S
  <2>1. /\ in \subseteq Nodes
        /\ \A m \in in : d.parent[m] \in Parents \union {Nil}
        /\ \A m \in in : d.next[m] \in in \union {Nil}
        /\ \A q \in in \union {Doc} : d.first[q] \in in \union {Nil}
    BY DEF IsForest, Typed, Parents
  <2>2. RootsOf(d, in) \subseteq S /\ S \subseteq in
    BY DEF RootsOf
  <2>3. \A q \in in \union {Doc} : d.first[q] \in S \union {Nil}
    <3>1. \A q \in in \union {Doc} : d.first[q] # Nil => d.parent[d.first[q]] = q
      BY DEF IsForest, Agree
    <3> HIDE DEF K
    <3> QED
      BY <1>5, <2>1, <3>1
  <2>4. \A m \in S : d.next[m] \in S \union {Nil}
    <3>1. ASSUME NEW m \in S, d.next[m] # Nil
          PROVE  d.next[m] \in S
      <4>1. m \in in /\ d.next[m] \in in
        BY <2>1, <3>1
      <4>2. d.parent[d.next[m]] = d.parent[m]
        BY <3>1, <4>1 DEF IsForest, Agree
      <4>3. d.parent[m] # Nil
        BY <3>1, <4>1 DEF IsForest, Agree
      <4>4. d.parent[m] \in Parents /\ m \in ToSet(K(d.parent[m]))
        BY <2>1, <3>1, <4>1, <4>3
      <4> HIDE DEF K
      <4>5. d.next[m] \in ToSet(K(d.parent[m]))
        BY <1>6, <3>1, <4>4
      <4> QED
        BY <4>1, <4>2, <4>5
    <3> QED
      BY <3>1
  <2>5. ClosedIn(d, S)
    BY <2>2, <2>3, <2>4 DEF ClosedIn
  <2> HIDE DEF S
  <2> QED
    BY <2>2, <2>3, <2>5 DEF IsForest, Reaches
<1>8. p # Nil
  BY StoreAssumption DEF Parents
<1> QED
  BY <1>4, <1>7, <1>8

(* None of them comes twice. *)
LEMMA ChildrenInjective ==
  ASSUME NEW d, NEW in, IsForest(d, in), NEW p \in Parents
  PROVE  /\ Children(d, p) \in Seq(Nodes)
         /\ \A i, j \in 1 .. Len(Children(d, p)) : Children(d, p)[i] = Children(d, p)[j] => i = j
<1>1. Chain(d, p, Children(d, p))
  BY ChildrenAreChain
<1>2. Children(d, p) \in Seq(Nodes)
  BY <1>1 DEF Chain, Run
<1>3. CASE p \in in \union {Doc}
  BY <1>1, <1>2, <1>3, RunInjective DEF Chain
<1>4. CASE p \notin in \union {Doc}
  <2>1. d.first[p] = Nil
    BY <1>4 DEF IsForest, Typed, Parents
  <2>2. Chain(d, p, <<>>)
    BY <2>1 DEF Chain, Run
  <2>3. Children(d, p) = <<>>
    BY <2>2, ChildrenAreChain
  <2> QED
    BY <2>3
<1> QED
  BY <1>2, <1>3, <1>4

(* A sequence without one of its entries, place by place. *)
LEMMA DropIs ==
  ASSUME NEW s \in Seq(Nodes), NEW k \in 1 .. Len(s), NEW n, s[k] = n,
         \A i, j \in 1 .. Len(s) : s[i] = s[j] => i = j
  PROVE  /\ Forest!Drop(s, n) \in Seq(Nodes)
         /\ Len(Forest!Drop(s, n)) = Len(s) - 1
         /\ \A i \in 1 .. Len(s) - 1 :
              Forest!Drop(s, n)[i] = IF i < k THEN s[i] ELSE s[i + 1]
<1>1. n \in ToSet(s)
  BY DEF ToSet
<1>2. (CHOOSE i \in 1 .. Len(s) : s[i] = n) = k
  OBVIOUS
<1>3. Forest!Drop(s, n) = SubSeq(s, 1, k - 1) \o SubSeq(s, k + 1, Len(s))
  BY <1>1, <1>2 DEF Forest!Drop, Forest!RemoveAt, Forest!ToSet, ToSet
<1>. DEFINE a == SubSeq(s, 1, k - 1)
            b == SubSeq(s, k + 1, Len(s))
<1>4. Len(s) \in Nat
  OBVIOUS
<1>5. a \in Seq(Nodes) /\ Len(a) = k - 1 /\ \A i \in 1 .. k - 1 : a[i] = s[i]
  BY <1>4
<1>6. b \in Seq(Nodes) /\ Len(b) = Len(s) - k /\ \A i \in 1 .. Len(s) - k : b[i] = s[i + k]
  BY <1>4
<1> HIDE DEF a, b
<1>7. a \o b \in Seq(Nodes) /\ Len(a \o b) = Len(s) - 1
  BY <1>4, <1>5, <1>6
<1>8. ASSUME NEW i \in 1 .. Len(s) - 1
      PROVE  (a \o b)[i] = IF i < k THEN s[i] ELSE s[i + 1]
  <2>1. CASE i < k
    <3>1. i \in 1 .. k - 1 /\ i \in 1 .. Len(a)
      BY <1>4, <1>5, <2>1
    <3> QED
      BY <1>5, <1>6, <2>1, <3>1
  <2>2. CASE ~(i < k)
    <3>1. i - Len(a) \in 1 .. Len(s) - k /\ (i - Len(a)) + k = i + 1 /\ i \in Len(a) + 1 .. Len(a) + Len(b)
      BY <1>4, <1>5, <1>6, <2>2
    <3>2. (a \o b)[i] = b[i - Len(a)]
      BY <1>5, <1>6, <3>1
    <3> QED
      BY <1>6, <2>2, <3>1, <3>2
  <2> QED
    BY <2>1, <2>2
<1> QED
  BY <1>3, <1>7, <1>8 DEF a, b

(* A sequence with one more entry, place by place. *)
LEMMA InsertAtIs ==
  ASSUME NEW s \in Seq(Nodes), NEW n \in Nodes, NEW k \in 1 .. Len(s) + 1
  PROVE  /\ InsertAt(s, k, n) \in Seq(Nodes)
         /\ Len(InsertAt(s, k, n)) = Len(s) + 1
         /\ \A i \in 1 .. Len(s) + 1 :
              InsertAt(s, k, n)[i] = IF i < k THEN s[i] ELSE IF i = k THEN n ELSE s[i - 1]
<1>. DEFINE a == SubSeq(s, 1, k - 1)
            b == SubSeq(s, k, Len(s))
<1>1. InsertAt(s, k, n) = (a \o <<n>>) \o b
  BY DEF InsertAt
<1>4. Len(s) \in Nat
  OBVIOUS
<1>5. a \in Seq(Nodes) /\ Len(a) = k - 1 /\ \A i \in 1 .. k - 1 : a[i] = s[i]
  BY <1>4
<1>6. b \in Seq(Nodes) /\ Len(b) = Len(s) - k + 1 /\ \A i \in 1 .. Len(s) - k + 1 : b[i] = s[i + k - 1]
  BY <1>4
<1> HIDE DEF a, b
<1>. DEFINE c == a \o <<n>>
<1>7. c \in Seq(Nodes) /\ Len(c) = k /\ c[k] = n /\ \A i \in 1 .. k - 1 : c[i] = s[i]
  BY <1>4, <1>5
<1> HIDE DEF c
<1>8. c \o b \in Seq(Nodes) /\ Len(c \o b) = Len(s) + 1
  BY <1>4, <1>6, <1>7
<1>9. ASSUME NEW i \in 1 .. Len(s) + 1
      PROVE  (c \o b)[i] = IF i < k THEN s[i] ELSE IF i = k THEN n ELSE s[i - 1]
  <2>1. CASE i <= k
    <3>1. i \in 1 .. Len(c)
      BY <1>4, <1>7, <2>1
    <3>2. (c \o b)[i] = c[i]
      BY <1>6, <1>7, <3>1
    <3>3. i < k => i \in 1 .. k - 1
      OBVIOUS
    <3>4. i < k \/ i = k
      BY <2>1
    <3> QED
      BY <1>7, <3>2, <3>3, <3>4
  <2>2. CASE ~(i <= k)
    <3>1. /\ i - Len(c) \in 1 .. Len(s) - k + 1 /\ (i - Len(c)) + k - 1 = i - 1
          /\ i \in Len(c) + 1 .. Len(c) + Len(b)
          /\ ~(i < k) /\ i # k
      BY <1>4, <1>6, <1>7, <2>2
    <3>2. (c \o b)[i] = b[i - Len(c)]
      BY <1>6, <1>7, <3>1
    <3> QED
      BY <1>6, <3>1, <3>2
  <2> QED
    BY <2>1, <2>2
<1> QED
  BY <1>1, <1>8, <1>9 DEF c

(* Without an entry it does not have, a sequence stays. *)
LEMMA DropNothing ==
  ASSUME NEW s, NEW n, n \notin ToSet(s)
  PROVE  Forest!Drop(s, n) = s
  BY DEF Forest!Drop, Forest!ToSet, ToSet

-----------------------------------------------------------------------------
(* The children after each step that a call is made of. *)

(* What is known of the children of a node and cited together. *)
LEMMA ChildrenFacts ==
  ASSUME NEW d, NEW in, IsForest(d, in), NEW p \in Parents
  PROVE  LET s == Children(d, p)
         IN  /\ s \in Seq(Nodes) /\ Len(s) \in Nat
             /\ \A i, j \in 1 .. Len(s) : s[i] = s[j] => i = j
             /\ \A i \in 1 .. Len(s) : s[i] \in in /\ d.parent[s[i]] = p
             /\ \A m \in in : d.parent[m] = p => \E i \in 1 .. Len(s) : s[i] = m
             /\ \A i \in 1 .. Len(s) : d.next[s[i]] = IF i = Len(s) THEN Nil ELSE s[i + 1]
             /\ d.first[p] = IF Len(s) = 0 THEN Nil ELSE s[1]
<1>. DEFINE s == Children(d, p)
<1>1. s \in Seq(Nodes) /\ (\A i, j \in 1 .. Len(s) : s[i] = s[j] => i = j)
  BY ChildrenInjective
<1>2. Chain(d, p, s)
  BY ChildrenAreChain
<1>3. ToSet(s) = {m \in in : d.parent[m] = p}
  BY ChildrenHaveParent
<1> HIDE DEF s
<1>4. Len(s) \in Nat /\ ToSet(s) = {s[i] : i \in 1 .. Len(s)} /\ (s = <<>> <=> Len(s) = 0)
  BY <1>1 DEF ToSet
<1>5. \A i \in 1 .. Len(s) : s[i] \in in /\ d.parent[s[i]] = p
  BY <1>3, <1>4
<1>6. \A m \in in : d.parent[m] = p => \E i \in 1 .. Len(s) : s[i] = m
  BY <1>3, <1>4
<1>7. ASSUME NEW i \in 1 .. Len(s)
      PROVE  d.next[s[i]] = IF i = Len(s) THEN Nil ELSE s[i + 1]
  <2>1. CASE i = Len(s)
    BY <1>2, <1>4, <2>1 DEF Chain
  <2>2. CASE i # Len(s)
    <3>1. i \in 1 .. Len(s) - 1
      BY <1>4, <2>2
    <3> QED
      BY <1>2, <2>2, <3>1 DEF Chain, Run
  <2> QED
    BY <2>1, <2>2
<1>8. d.first[p] = IF Len(s) = 0 THEN Nil ELSE s[1]
  BY <1>2, <1>4 DEF Chain, Run
<1> QED
  BY <1>1, <1>4, <1>5, <1>6, <1>7, <1>8 DEF s

(* What makes a sequence the children of a node. *)
LEMMA TheseAreChildren ==
  ASSUME NEW d, NEW in, IsForest(d, in), NEW p \in Parents, NEW s \in Seq(Nodes),
         d.first[p] = IF Len(s) = 0 THEN Nil ELSE s[1],
         \A i \in 1 .. Len(s) : d.next[s[i]] = IF i = Len(s) THEN Nil ELSE s[i + 1]
  PROVE  Children(d, p) = s
<1>1. Len(s) \in Nat /\ (s = <<>> <=> Len(s) = 0)
  OBVIOUS
<1>2. \A i \in 1 .. Len(s) - 1 : i \in 1 .. Len(s) /\ i # Len(s)
  BY <1>1
<1>3. s # <<>> => Len(s) \in 1 .. Len(s)
  BY <1>1
<1>4. Chain(d, p, s)
  BY <1>1, <1>2, <1>3 DEF Chain, Run
<1> QED
  BY <1>4, ChildrenAreChain

(* The children of a node whose pointers stayed are the same. *)
LEMMA SameChildren ==
  ASSUME NEW d, NEW in, IsForest(d, in), NEW e, NEW out, IsForest(e, out), NEW p \in Parents,
         e.first[p] = d.first[p],
         \A m \in in : d.parent[m] = p => e.next[m] = d.next[m]
  PROVE  Children(e, p) = Children(d, p)
<1>. DEFINE s == Children(d, p)
<1>1. /\ s \in Seq(Nodes)
      /\ \A i \in 1 .. Len(s) : s[i] \in in /\ d.parent[s[i]] = p
      /\ \A i \in 1 .. Len(s) : d.next[s[i]] = IF i = Len(s) THEN Nil ELSE s[i + 1]
      /\ d.first[p] = IF Len(s) = 0 THEN Nil ELSE s[1]
  BY ChildrenFacts
<1> HIDE DEF s
<1>2. \A i \in 1 .. Len(s) : e.next[s[i]] = IF i = Len(s) THEN Nil ELSE s[i + 1]
  BY <1>1
<1>3. Children(e, p) = s
  BY <1>1, <1>2, TheseAreChildren
<1> QED
  BY <1>3 DEF s

(* Unlink takes c out of the children of its parent. *)
LEMMA UnlinkDrops ==
  ASSUME NEW d, NEW in, IsForest(d, in), NEW c \in in, d.parent[c] # Nil, NEW p \in Parents
  PROVE  Children(Unlink(d, c), p) = Forest!Drop(Children(d, p), c)
<1>. DEFINE s == Children(d, p)
            e == Unlink(d, c)
<1>1. /\ s \in Seq(Nodes) /\ Len(s) \in Nat
      /\ \A i, j \in 1 .. Len(s) : s[i] = s[j] => i = j
      /\ \A i \in 1 .. Len(s) : s[i] \in in /\ d.parent[s[i]] = p
      /\ \A m \in in : d.parent[m] = p => \E i \in 1 .. Len(s) : s[i] = m
      /\ \A i \in 1 .. Len(s) : d.next[s[i]] = IF i = Len(s) THEN Nil ELSE s[i + 1]
      /\ d.first[p] = IF Len(s) = 0 THEN Nil ELSE s[1]
  BY ChildrenFacts
<1>2. in \subseteq Nodes /\ d \in Stores /\ d.parent[c] \in Parents
  BY DEF IsForest, Typed, Parents
<1>3. /\ \A m \in Nodes : e.next[m] = IF m = c THEN Nil
                                      ELSE IF m = d.prev[c] THEN d.next[c]
                                      ELSE d.next[m]
      /\ \A m \in Parents : e.first[m] = IF m = d.parent[c] /\ d.first[d.parent[c]] = c
                                         THEN d.next[c] ELSE d.first[m]
  BY <1>2, UnlinkIs
<1>4. IsForest(e, in)
  BY UnlinkKeeps
<1>5. d.prev[c] \in in \union {Nil} /\ (d.prev[c] # Nil => d.parent[d.prev[c]] = d.parent[c])
  BY DEF IsForest, Typed, Agree
<1> HIDE DEF s, e
<1>6. CASE d.parent[c] # p
  <2>1. c \notin ToSet(s)
    <3>1. ToSet(s) = {s[i] : i \in 1 .. Len(s)}
      BY <1>1 DEF ToSet
    <3> QED
      BY <1>1, <1>6, <3>1
  <2>2. Forest!Drop(s, c) = s
    BY <2>1, DropNothing
  <2>3. e.first[p] = d.first[p]
    BY <1>3, <1>6
  <2>4. \A m \in in : d.parent[m] = p => e.next[m] = d.next[m]
    BY <1>2, <1>3, <1>5, <1>6, StoreAssumption
  <2>5. Children(e, p) = s
    BY <1>4, <2>3, <2>4, SameChildren DEF s
  <2> QED
    BY <2>2, <2>5 DEF s, e
<1>7. CASE d.parent[c] = p
  <2>1. PICK k \in 1 .. Len(s) : s[k] = c
    BY <1>1, <1>7
  <2>. DEFINE t == Forest!Drop(s, c)
  <2>2. /\ t \in Seq(Nodes) /\ Len(t) = Len(s) - 1
        /\ \A i \in 1 .. Len(s) - 1 : t[i] = IF i < k THEN s[i] ELSE s[i + 1]
    BY <1>1, <2>1, DropIs
  <2> HIDE DEF t
  <2>3. d.next[c] = IF k = Len(s) THEN Nil ELSE s[k + 1]
    BY <1>1, <2>1
  <2>4. d.prev[c] = IF k = 1 THEN Nil ELSE s[k - 1]
    <3>1. CASE k = 1
      <4>1. d.first[p] = c
        BY <1>1, <2>1, <3>1
      <4> QED
        BY <1>7, <3>1, <4>1 DEF IsForest, Agree
    <3>2. CASE k # 1
      <4>1. k - 1 \in 1 .. Len(s) /\ k - 1 # Len(s) /\ (k - 1) + 1 = k
        BY <1>1, <3>2
      <4>2. s[k - 1] \in in /\ d.next[s[k - 1]] = c
        BY <1>1, <2>1, <4>1
      <4>3. c # Nil
        BY <1>2, StoreAssumption
      <4> QED
        BY <3>2, <4>2, <4>3 DEF IsForest, Agree
    <3> QED
      BY <3>1, <3>2
  <2>5. \A i \in 1 .. Len(s) : s[i] # Nil
    BY <1>1, <1>2, StoreAssumption
  <2>6. e.first[p] = IF Len(t) = 0 THEN Nil ELSE t[1]
    <3>1. CASE k = 1
      <4>1. e.first[p] = d.next[c]
        BY <1>1, <1>3, <1>7, <2>1, <3>1
      <4>2. CASE Len(s) = 1
        BY <2>2, <2>3, <3>1, <4>1, <4>2
      <4>3. CASE Len(s) # 1
        <5>1. 1 \in 1 .. Len(s) - 1 /\ Len(t) # 0
          BY <1>1, <2>2, <3>1, <4>3
        <5>2. t[1] = s[2]
          BY <2>2, <3>1, <5>1
        <5> QED
          BY <2>3, <3>1, <4>1, <4>3, <5>1, <5>2
      <4> QED
        BY <4>2, <4>3
    <3>2. CASE k # 1
      <4>1. 1 \in 1 .. Len(s) /\ 1 \in 1 .. Len(s) - 1 /\ Len(t) # 0 /\ 1 < k /\ Len(s) # 0
        BY <1>1, <2>2, <3>2
      <4>2. t[1] = s[1] /\ d.first[p] = s[1]
        BY <1>1, <2>2, <4>1
      <4>3. d.first[p] # c
        BY <1>1, <2>1, <3>2, <4>1, <4>2
      <4> QED
        BY <1>3, <1>7, <4>1, <4>2, <4>3
    <3> QED
      BY <3>1, <3>2
  <2>7. ASSUME NEW i \in 1 .. Len(t)
        PROVE  e.next[t[i]] = IF i = Len(t) THEN Nil ELSE t[i + 1]
    <3>0. i \in 1 .. Len(s) - 1 /\ i \in Nat /\ k \in Nat /\ i \in 1 .. Len(s) /\ i + 1 \in 1 .. Len(s)
      BY <1>1, <2>2
    <3>1. CASE i < k - 1
      <4>1. i + 1 \in 1 .. Len(s) - 1 /\ i < k /\ i + 1 < k /\ i # Len(t) /\ i # Len(s)
        BY <1>1, <2>2, <3>0, <3>1
      <4>2. t[i] = s[i] /\ t[i + 1] = s[i + 1] /\ d.next[s[i]] = s[i + 1]
        BY <1>1, <2>2, <3>0, <4>1
      <4>3. k - 1 \in 1 .. Len(s) /\ i # k - 1 /\ i # k
        BY <1>1, <3>0, <3>1
      <4>4. s[i] # c /\ s[i] # d.prev[c]
        BY <1>1, <2>1, <2>4, <2>5, <3>0, <4>3
      <4>5. s[i] \in Nodes
        BY <1>1, <1>2, <3>0
      <4>6. e.next[s[i]] = d.next[s[i]]
        BY <1>3, <4>4, <4>5
      <4> QED
        BY <4>1, <4>2, <4>6
    <3>2. CASE i = k - 1
      <4>1. i < k /\ ~(i + 1 < k) /\ k # 1 /\ k - 1 \in 1 .. Len(s) /\ k - 1 # k
        BY <3>0, <3>2
      <4>2. t[i] = s[k - 1] /\ s[k - 1] = d.prev[c] /\ s[k - 1] # c
        BY <1>1, <2>1, <2>2, <2>4, <3>0, <3>2, <4>1
      <4>3. s[k - 1] \in Nodes
        BY <1>1, <1>2, <4>1
      <4>4. e.next[t[i]] = d.next[c]
        BY <1>3, <4>2, <4>3
      <4>5. CASE k = Len(s)
        BY <2>2, <2>3, <3>2, <4>4, <4>5
      <4>6. CASE k # Len(s)
        <5>1. i # Len(t) /\ i + 1 \in 1 .. Len(s) - 1 /\ i + 1 = k
          BY <1>1, <2>2, <3>0, <3>2, <4>6
        <5>2. t[i + 1] = s[k + 1]
          BY <2>2, <4>1, <5>1
        <5> QED
          BY <2>3, <4>4, <4>6, <5>1, <5>2
      <4> QED
        BY <4>5, <4>6
    <3>3. CASE ~(i < k)
      <4>1. t[i] = s[i + 1]
        BY <2>2, <3>0, <3>3
      <4>2. i + 1 # k /\ i + 1 # k - 1 /\ (k # 1 => k - 1 \in 1 .. Len(s))
        BY <3>0, <3>3, <1>1
      <4>3. s[i + 1] # c /\ s[i + 1] # d.prev[c]
        BY <1>1, <2>1, <2>4, <2>5, <3>0, <4>2
      <4>4. s[i + 1] \in Nodes
        BY <1>1, <1>2, <3>0
      <4>5. e.next[t[i]] = d.next[s[i + 1]]
        BY <1>3, <4>1, <4>3, <4>4
      <4>6. d.next[s[i + 1]] = IF i + 1 = Len(s) THEN Nil ELSE s[(i + 1) + 1]
        BY <1>1, <3>0
      <4>7. CASE i = Len(t)
        <5>1. i + 1 = Len(s)
          BY <2>2, <1>1, <4>7
        <5> QED
          BY <4>5, <4>6, <4>7, <5>1
      <4>8. CASE i # Len(t)
        <5>1. i + 1 # Len(s) /\ i + 1 \in 1 .. Len(s) - 1 /\ ~(i + 1 < k)
          BY <1>1, <2>2, <3>0, <3>3, <4>8
        <5>2. t[i + 1] = s[(i + 1) + 1]
          BY <2>2, <5>1
        <5> QED
          BY <4>5, <4>6, <4>8, <5>1, <5>2
      <4> QED
        BY <4>7, <4>8
    <3>4. i < k - 1 \/ i = k - 1 \/ ~(i < k)
      BY <3>0
    <3> QED
      BY <3>1, <3>2, <3>3, <3>4
  <2>8. Children(e, p) = t
    BY <1>4, <2>2, <2>6, <2>7, TheseAreChildren
  <2> QED
    BY <2>8 DEF s, e, t
<1> QED
  BY <1>6, <1>7

(* Linking a root between neighbours puts it between them, and touches no   *)
(* other node's children.                                                   *)
LEMMA LinkedInserts ==
  ASSUME NEW d, NEW in, IsForest(d, in), NEW n \in in, d.parent[n] = Nil,
         NEW p \in in \union {Doc}, NEW b, NEW a, Gap(d, in, p, b, a),
         IsForest(LinkedBetween(d, p, b, n, a), in)
  PROVE  /\ \A q \in Parents : q # p =>
              Children(LinkedBetween(d, p, b, n, a), q) = Children(d, q)
         /\ \A k \in 1 .. Len(Children(d, p)) + 1 :
              b = (IF k = 1 THEN Nil ELSE Children(d, p)[k - 1]) =>
                Children(LinkedBetween(d, p, b, n, a), p) = InsertAt(Children(d, p), k, n)
<1>. DEFINE s == Children(d, p)
            f == LinkedBetween(d, p, b, n, a)
<1>1. /\ in \subseteq Nodes /\ d \in Stores /\ p \in Parents
      /\ Nil \notin Parents /\ Nil \notin in
  BY StoreAssumption DEF IsForest, Typed, Parents
<1>2. /\ s \in Seq(Nodes) /\ Len(s) \in Nat
      /\ \A i, j \in 1 .. Len(s) : s[i] = s[j] => i = j
      /\ \A i \in 1 .. Len(s) : s[i] \in in /\ d.parent[s[i]] = p
      /\ \A i \in 1 .. Len(s) : d.next[s[i]] = IF i = Len(s) THEN Nil ELSE s[i + 1]
      /\ d.first[p] = IF Len(s) = 0 THEN Nil ELSE s[1]
  BY <1>1, ChildrenFacts
<1>3. b \in Nodes \union {Nil} /\ a \in Nodes \union {Nil}
  BY <1>1 DEF Gap
<1>4. /\ \A m \in Nodes : f.next[m] = IF m = n THEN a ELSE IF m = b THEN n ELSE d.next[m]
      /\ \A m \in Parents : f.first[m] = IF m = p /\ b = Nil THEN n ELSE d.first[m]
  <2>1. n \in Nodes /\ d \in Stores /\ p \in Parents
    BY <1>1
  <2>2. IsBetween(d, p, b, n, a, f)
    BY <1>3, <2>1, LinkedBetweenIs
  <2> HIDE DEF f
  <2> QED
    BY <2>2 DEF IsBetween
<1>5. /\ b = Nil => a = d.first[p]
      /\ b # Nil => b \in in /\ d.parent[b] = p /\ d.next[b] = a
  BY DEF Gap
<1> HIDE DEF s, f
<1>6. ASSUME NEW q \in Parents, q # p
      PROVE  Children(f, q) = Children(d, q)
  <2>1. f.first[q] = d.first[q]
    BY <1>4, <1>6
  <2>2. \A m \in in : d.parent[m] = q => f.next[m] = d.next[m]
    BY <1>1, <1>4, <1>5, <1>6
  <2>3. IsForest(f, in)
    BY DEF f
  <2> QED
    BY <2>1, <2>2, <2>3, SameChildren
<1>7. ASSUME NEW k \in 1 .. Len(s) + 1, b = (IF k = 1 THEN Nil ELSE s[k - 1])
      PROVE  Children(f, p) = InsertAt(s, k, n)
  <2>. DEFINE t == InsertAt(s, k, n)
  <2>1. /\ t \in Seq(Nodes) /\ Len(t) = Len(s) + 1
        /\ \A i \in 1 .. Len(s) + 1 :
             t[i] = IF i < k THEN s[i] ELSE IF i = k THEN n ELSE s[i - 1]
    <3>1. n \in Nodes
      BY <1>1
    <3> QED
      BY <1>2, <3>1, InsertAtIs
  <2> HIDE DEF t
  <2>2. \A i \in 1 .. Len(s) : s[i] \in Nodes /\ s[i] # n /\ s[i] # Nil
    BY <1>1, <1>2
  <2>3. k # 1 => k - 1 \in 1 .. Len(s) /\ (k - 1) + 1 = k /\ b = s[k - 1]
    BY <1>2, <1>7
  <2>4. a = IF k = Len(s) + 1 THEN Nil ELSE s[k]
    <3>1. CASE k = 1
      BY <1>2, <1>5, <1>7, <3>1
    <3>2. CASE k # 1
      <4>1. b # Nil /\ d.next[b] = a /\ d.next[s[k - 1]] = IF k - 1 = Len(s) THEN Nil ELSE s[k]
        BY <1>2, <1>5, <2>2, <2>3, <3>2
      <4>2. k - 1 = Len(s) <=> k = Len(s) + 1
        BY <1>2
      <4> QED
        BY <2>3, <3>2, <4>1, <4>2
    <3> QED
      BY <3>1, <3>2
  <2>5. f.first[p] = IF Len(t) = 0 THEN Nil ELSE t[1]
    <3>1. Len(t) # 0 /\ 1 \in 1 .. Len(s) + 1
      BY <1>2, <2>1
    <3>2. CASE k = 1
      <4>1. t[1] = n
        BY <2>1, <3>1, <3>2
      <4> QED
        BY <1>1, <1>4, <1>7, <3>1, <3>2, <4>1
    <3>3. CASE k # 1
      <4>1. 1 < k /\ Len(s) # 0
        BY <1>2, <3>3
      <4>2. t[1] = s[1] /\ b # Nil
        BY <2>1, <2>2, <2>3, <3>1, <3>3, <4>1
      <4> QED
        BY <1>1, <1>2, <1>4, <3>1, <4>1, <4>2
    <3> QED
      BY <3>2, <3>3
  <2>6. ASSUME NEW i \in 1 .. Len(t)
        PROVE  f.next[t[i]] = IF i = Len(t) THEN Nil ELSE t[i + 1]
    <3>0. i \in 1 .. Len(s) + 1 /\ i \in Nat /\ k \in Nat
      BY <1>2, <2>1
    <3>1. CASE i < k - 1
      <4>1. /\ i < k /\ i + 1 < k /\ i \in 1 .. Len(s) /\ i + 1 \in 1 .. Len(s) + 1
            /\ i # Len(t) /\ i # Len(s) /\ k # 1 /\ i # k - 1
        BY <1>2, <2>1, <3>0, <3>1
      <4>2. t[i] = s[i] /\ t[i + 1] = s[i + 1] /\ d.next[s[i]] = s[i + 1]
        BY <1>2, <2>1, <3>0, <4>1
      <4>3. s[i] # b
        BY <1>2, <2>3, <4>1
      <4> QED
        BY <1>4, <2>2, <4>1, <4>2, <4>3
    <3>2. CASE i = k - 1
      <4>1. i < k /\ k # 1 /\ i # Len(t) /\ i + 1 = k /\ k \in 1 .. Len(s) + 1 /\ ~(k < k)
        BY <1>2, <2>1, <3>0, <3>2
      <4>2. t[i] = b /\ t[i + 1] = n
        BY <2>1, <2>3, <3>0, <3>2, <4>1
      <4>3. b \in Nodes /\ b # n
        BY <2>2, <2>3, <4>1
      <4> QED
        BY <1>4, <4>1, <4>2, <4>3
    <3>3. CASE i = k
      <4>1. t[i] = n
        BY <2>1, <3>0, <3>3
      <4>2. f.next[n] = a
        BY <1>1, <1>4
      <4>3. CASE i = Len(t)
        BY <2>1, <2>4, <3>3, <4>1, <4>2, <4>3
      <4>4. CASE i # Len(t)
        <5>1. i + 1 \in 1 .. Len(s) + 1 /\ ~(i + 1 < k) /\ i + 1 # k /\ (i + 1) - 1 = k /\ k # Len(s) + 1
          BY <1>2, <2>1, <3>0, <3>3, <4>4
        <5>2. t[i + 1] = s[k]
          BY <2>1, <5>1
        <5> QED
          BY <2>4, <4>1, <4>2, <4>4, <5>1, <5>2
      <4> QED
        BY <4>3, <4>4
    <3>4. CASE i > k
      <4>1. ~(i < k) /\ i # k /\ i - 1 \in 1 .. Len(s) /\ (i - 1) + 1 = i /\ i - 1 # k - 1
            /\ (i - 1 = Len(s) <=> i = Len(t))
        BY <1>2, <2>1, <3>0, <3>4
      <4>2. t[i] = s[i - 1] /\ d.next[s[i - 1]] = IF i = Len(t) THEN Nil ELSE s[i]
        BY <1>2, <2>1, <3>0, <4>1
      <4>3. s[i - 1] # b
        BY <1>2, <1>7, <2>2, <2>3, <4>1
      <4>4. f.next[t[i]] = IF i = Len(t) THEN Nil ELSE s[i]
        BY <1>4, <2>2, <4>1, <4>2, <4>3
      <4>5. i # Len(t) => i + 1 \in 1 .. Len(s) + 1 /\ ~(i + 1 < k) /\ i + 1 # k /\ (i + 1) - 1 = i
        BY <1>2, <2>1, <3>0, <3>4
      <4>6. i # Len(t) => t[i + 1] = s[i]
        BY <2>1, <4>5
      <4> QED
        BY <4>4, <4>6
    <3>5. i < k - 1 \/ i = k - 1 \/ i = k \/ i > k
      BY <3>0
    <3> QED
      BY <3>1, <3>2, <3>3, <3>4, <3>5
  <2>7. IsForest(f, in)
    BY DEF f
  <2>8. Children(f, p) = t
    BY <1>1, <2>1, <2>5, <2>6, <2>7, TheseAreChildren
  <2> QED
    BY <2>8 DEF t
<1> QED
  BY <1>6, <1>7 DEF s, f

(* The preamble of an insertion takes n out of wherever it is. *)
LEMMA PreambleDrops ==
  ASSUME NEW d, NEW in, Good(d, in), NEW n \in in, NEW p \in Parents
  PROVE  Children(InsertChildPreamble(d, n), p) = Forest!Drop(Children(d, p), n)
<1>0. IsForest(d, in) /\ IsForest(InsertChildPreamble(d, n), in)
  BY PreambleReadies DEF Good, Readied
<1>1. CASE d.parent[n] # Nil
  BY <1>0, <1>1, UnlinkDrops DEF InsertChildPreamble
<1>2. CASE d.parent[n] = Nil
  <2>. DEFINE e == InsertChildPreamble(d, n)
  <2>1. ToSet(Children(d, p)) = {m \in in : d.parent[m] = p} /\ p # Nil
    BY <1>0, ChildrenHaveParent, StoreAssumption DEF Parents
  <2>2. Forest!Drop(Children(d, p), n) = Children(d, p)
    BY <1>2, <2>1, DropNothing
  <2>3. e.first = d.first /\ e.next = d.next
    <3>1. n \in ToSet(d.unlinked)
      BY <1>2 DEF Good, Listed, RootsOf
    <3>2. MarkInUse(d.unlinked, n) \in Seq(in) /\ in \subseteq Nodes
      BY <1>0, <3>1, MarkInUseTakesOff DEF Good, Listed, IsForest, Typed
    <3>3. MarkInUse(d.unlinked, n) \in Seq(Nodes) /\ d \in Stores
      BY <1>0, <3>2 DEF IsForest
    <3>4. e = SetTracked([d EXCEPT !.unlinked = MarkInUse(d.unlinked, n)])
      BY <1>2 DEF InsertChildPreamble
    <3> HIDE DEF e
    <3> QED
      BY <3>3, <3>4, TrackedIs DEF SamePointers
  <2> HIDE DEF e
  <2>4. IsForest(e, in)
    BY <1>0 DEF e
  <2>5. Children(e, p) = Children(d, p)
    BY <1>0, <2>3, <2>4, SameChildren
  <2> QED
    BY <2>2, <2>5 DEF e
<1> QED
  BY <1>1, <1>2

(* Freeing a tree, or all below q, leaves the other nodes their children.   *)
LEMMA WithoutChildren ==
  ASSUME NEW d, NEW in, IsForest(d, in), NEW gone, NEW q, Removable(d, in, gone, q),
         NEW e, IsWithout(d, gone, q, e), NEW out, IsForest(e, out), NEW p \in Parents
  PROVE  Children(e, p) = IF p \in gone \union {q} THEN <<>> ELSE Children(d, p)
<1>1. CASE p \in gone \union {q}
  <2>1. e.first[p] = Nil
    BY <1>1 DEF IsWithout
  <2>2. Chain(e, p, <<>>)
    BY <2>1 DEF Chain, Run
  <2>3. Children(e, p) = <<>>
    BY <2>2, ChildrenAreChain
  <2> QED
    BY <1>1, <2>3
<1>2. CASE p \notin gone \union {q}
  <2>1. e.first[p] = d.first[p]
    BY <1>2 DEF IsWithout
  <2>2. in \subseteq Nodes
    BY DEF IsForest, Typed
  <2>3. \A m \in in : d.parent[m] = p => e.next[m] = d.next[m]
    BY <1>2, <2>2 DEF IsWithout, Removable
  <2>4. Children(e, p) = Children(d, p)
    BY <2>1, <2>3, SameChildren
  <2> QED
    BY <1>2, <2>4
<1> QED
  BY <1>1, <1>2

(* DeleteChild: its node goes from its parent, all below it has no children. *)
LEMMA ChildRemovedChildren ==
  ASSUME NEW d, NEW in, Good(d, in), NEW c \in in, d.parent[c] # Nil, NEW p \in Parents
  PROVE  Children(ChildRemoved(d, c), p)
           = IF p \in Subtree(d, c) THEN <<>> ELSE Forest!Drop(Children(d, p), c)
<1>1. /\ IsForest(ChildRemoved(d, c), in \ Subtree(d, c))
      /\ Removable(Unlink(d, c), in, Subtree(d, c), Nil)
      /\ IsWithout(Unlink(d, c), Subtree(d, c), Nil, ChildRemoved(d, c))
  BY ChildRemovedKeeps DEF Good
<1>2. IsForest(d, in) /\ IsForest(Unlink(d, c), in)
  BY UnlinkKeeps DEF Good
<1>3. Children(ChildRemoved(d, c), p)
        = IF p \in Subtree(d, c) \union {Nil} THEN <<>> ELSE Children(Unlink(d, c), p)
  BY <1>1, <1>2, WithoutChildren
<1>4. p # Nil
  BY StoreAssumption DEF Parents
<1>5. Children(Unlink(d, c), p) = Forest!Drop(Children(d, p), c)
  BY <1>2, UnlinkDrops
<1> QED
  BY <1>3, <1>4, <1>5

(* So does DeleteNode of a root. *)
LEMMA LooseRemovedChildren ==
  ASSUME NEW d, NEW in, Good(d, in), NEW c \in in, d.parent[c] = Nil, NEW p \in Parents
  PROVE  Children(LooseRemoved(d, c), p)
           = IF p \in Subtree(d, c) THEN <<>> ELSE Forest!Drop(Children(d, p), c)
<1>1. /\ IsForest(LooseRemoved(d, c), in \ Subtree(d, c))
      /\ IsWithout(d, Subtree(d, c), Nil, LooseRemoved(d, c))
  BY LooseRemovedKeeps DEF Good
<1>2. IsForest(d, in) /\ Removable(d, in, Subtree(d, c), Nil)
  BY TreeRemovable DEF Good
<1>3. Children(LooseRemoved(d, c), p)
        = IF p \in Subtree(d, c) \union {Nil} THEN <<>> ELSE Children(d, p)
  BY <1>1, <1>2, WithoutChildren
<1>4. p # Nil
  BY StoreAssumption DEF Parents
<1>5. ToSet(Children(d, p)) = {m \in in : d.parent[m] = p}
  BY <1>2, ChildrenHaveParent
<1>6. Forest!Drop(Children(d, p), c) = Children(d, p)
  BY <1>4, <1>5, DropNothing
<1> QED
  BY <1>3, <1>4, <1>6

(* DeleteChildren. *)
LEMMA ChildrenRemovedChildren ==
  ASSUME NEW d, NEW in, Good(d, in), NEW q \in in \union {Doc}, NEW p \in Parents
  PROVE  Children(ChildrenRemoved(d, q), p)
           = IF p \in Subtree(d, q) THEN <<>> ELSE Children(d, p)
<1>1. /\ IsForest(ChildrenRemoved(d, q), in \ Below(d, q))
      /\ IsWithout(d, Below(d, q), q, ChildrenRemoved(d, q))
  BY ChildrenRemovedKeeps DEF Good
<1>2. IsForest(d, in) /\ Removable(d, in, Below(d, q), q)
  BY BelowRemovable DEF Good
<1>3. Children(ChildrenRemoved(d, q), p)
        = IF p \in Below(d, q) \union {q} THEN <<>> ELSE Children(d, p)
  BY <1>1, <1>2, WithoutChildren
<1> QED
  BY <1>3 DEF Subtree

(* A store without nodes has no children. *)
LEMMA NoChildren ==
  ASSUME NEW d, IsForest(d, {}), NEW p \in Parents
  PROVE  Children(d, p) = <<>>
<1>1. ToSet(Children(d, p)) = {} /\ Children(d, p) \in Seq(Nodes)
  BY ChildrenHaveParent, ChildrenInjective
<1>2. \A s \in Seq(Nodes) : s # <<>> => s[1] \in ToSet(s)
  <2>1. ASSUME NEW s \in Seq(Nodes), s # <<>>
        PROVE  s[1] \in ToSet(s)
    <3>1. 1 \in DOMAIN s
      BY <2>1
    <3> QED
      BY <3>1 DEF ToSet
  <2> QED
    BY <2>1
<1> QED
  BY <1>1, <1>2

(* What touches no pointer changes no children. *)
LEMMA SamePointersChildren ==
  ASSUME NEW d, NEW in, IsForest(d, in), NEW e \in Stores, SamePointers(d, e),
         NEW out, IsForest(e, out), NEW p \in Parents
  PROVE  Children(e, p) = Children(d, p)
  BY SameChildren DEF SamePointers

(* In e, the copy of a node has the copies of its children, in their order, *)
(* and the other nodes keep theirs.                                         *)
HasCopiedChildren(d, n, f, e) ==
  /\ \A p \in Parents : p \notin Range(f) => Children(e, p) = Children(d, p)
  /\ \A o \in Subtree(d, n) :
       Children(e, f[o]) = [i \in DOMAIN Children(d, o) |-> f[Children(d, o)[i]]]

LEMMA CopiedChildren ==
  ASSUME NEW d, NEW in, Good(d, in), NEW n \in in,
         NEW f \in [Subtree(d, n) -> Nodes \ in], IsInjective(f)
  PROVE  HasCopiedChildren(d, n, f, Cloned(d, n, f))
<1>. DEFINE e == Cloned(d, n, f)
            out == in \union Range(f)
            Image(m) == IF m = Nil THEN Nil ELSE f[m]
<1>1. IsForest(d, in) /\ IsForest(e, out) /\ IsClone(d, n, f, e)
  BY ClonedKeeps, CloneIs DEF Good
<1>2. /\ \A m \in Nodes \ Range(f) : e.next[m] = d.next[m]
      /\ \A m \in Parents \ Range(f) : e.first[m] = d.first[m]
      /\ \A o \in Below(d, n) : e.next[f[o]] = Image(d.next[o])
      /\ \A o \in Subtree(d, n) : e.first[f[o]] = Image(d.first[o])
  <2> HIDE DEF e
  <2> QED
    BY <1>1 DEF IsClone
<1>3. /\ Range(f) = {f[o] : o \in Subtree(d, n)}
      /\ \A o \in Subtree(d, n) : f[o] \in Nodes /\ f[o] \notin in
      /\ in \subseteq Nodes /\ n \in Subtree(d, n) /\ Subtree(d, n) \subseteq in
      /\ Nil \notin Nodes
  <2>1. Below(d, n) \subseteq in
    BY <1>1, BelowClosed
  <2>2. in \subseteq Nodes
    BY <1>1 DEF IsForest, Typed
  <2> QED
    BY <2>1, <2>2, StoreAssumption DEF Range, Subtree
<1> HIDE DEF e, out
<1>4. ASSUME NEW p \in Parents, p \notin Range(f)
      PROVE  Children(e, p) = Children(d, p)
  <2>1. e.first[p] = d.first[p]
    BY <1>2, <1>4
  <2>2. \A m \in in : d.parent[m] = p => e.next[m] = d.next[m]
    BY <1>2, <1>3
  <2> QED
    BY <1>1, <2>1, <2>2, SameChildren
<1>5. ASSUME NEW o \in Subtree(d, n)
      PROVE  Children(e, f[o]) = [i \in DOMAIN Children(d, o) |-> f[Children(d, o)[i]]]
  <2>. DEFINE s == Children(d, o)
              t == [i \in 1 .. Len(s) |-> f[s[i]]]
  <2>1. o \in Parents /\ o \in in /\ f[o] \in Parents
    BY <1>3 DEF Parents
  <2>2. /\ s \in Seq(Nodes) /\ Len(s) \in Nat
        /\ \A i \in 1 .. Len(s) : s[i] \in in /\ d.parent[s[i]] = o
        /\ \A i \in 1 .. Len(s) : d.next[s[i]] = IF i = Len(s) THEN Nil ELSE s[i + 1]
        /\ d.first[o] = IF Len(s) = 0 THEN Nil ELSE s[1]
    BY <1>1, <2>1, ChildrenFacts
  <2> HIDE DEF s
  <2>3. \A i \in 1 .. Len(s) : s[i] \in Below(d, n) /\ s[i] \in Subtree(d, n) /\ s[i] # Nil
    <3>1. \A m \in in : d.parent[m] \in Subtree(d, n) => m \in Below(d, n)
      BY <1>1, BelowComplete
    <3> QED
      BY <1>3, <2>2, <3>1 DEF Subtree
  <2>4. t \in Seq(Nodes) /\ Len(t) = Len(s) /\ \A i \in 1 .. Len(s) : t[i] = f[s[i]]
    BY <1>3, <2>2, <2>3
  <2> HIDE DEF t
  <2>5. e.first[f[o]] = IF Len(t) = 0 THEN Nil ELSE t[1]
    <3>1. Len(s) # 0 => 1 \in 1 .. Len(s)
      BY <2>2
    <3> QED
      BY <1>2, <2>2, <2>3, <2>4, <3>1
  <2>6. ASSUME NEW i \in 1 .. Len(t)
        PROVE  e.next[t[i]] = IF i = Len(t) THEN Nil ELSE t[i + 1]
    <3>1. i \in 1 .. Len(s) /\ (i # Len(s) => i + 1 \in 1 .. Len(s))
      BY <2>2, <2>4
    <3>2. e.next[t[i]] = Image(d.next[s[i]])
      BY <1>2, <2>3, <2>4, <3>1
    <3> QED
      BY <2>2, <2>3, <2>4, <3>1, <3>2
  <2>7. Children(e, f[o]) = t
    BY <1>1, <2>1, <2>4, <2>5, <2>6, TheseAreChildren
  <2>8. DOMAIN s = 1 .. Len(s)
    BY <2>2
  <2> QED
    BY <2>7, <2>8 DEF s, t
<1> QED
  BY <1>4, <1>5 DEF e, HasCopiedChildren

-----------------------------------------------------------------------------
(* What the abstract specification speaks of, in terms of the store. *)

(* The nodes inserted under some nodes are those whose parents they are.    *)
LEMMA InsertedIs ==
  ASSUME IsForest(doc, live), NEW P \in SUBSET Parents
  PROVE  Forest!Inserted(P) = {m \in live : doc.parent[m] \in P}
<1>. DEFINE kids == [p \in Parents |-> Children(doc, p)]
<1>1. \A q \in P : ToSet(kids[q]) = {m \in live : doc.parent[m] = q}
  BY ChildrenHaveParent
<1>2. Forest!Inserted(P) = UNION {ToSet(kids[q]) : q \in P}
  BY DEF Forest!Inserted, Forest!ToSet, ToSet
<1> HIDE DEF kids
<1> QED
  BY <1>1, <1>2

(* The nodes in use are the same. *)
LEMMA InUseIs ==
  ASSUME Good(doc, live)
  PROVE  Forest!InUse = live
<1>1. IsForest(doc, live) /\ ToSet(doc.unlinked) = RootsOf(doc, live)
  BY DEF Good, Listed
<1>2. Forest!Inserted(Parents) = {m \in live : doc.parent[m] \in Parents}
  BY <1>1, InsertedIs
<1>3. \A m \in live : doc.parent[m] \in Parents \union {Nil}
  BY <1>1 DEF IsForest, Typed, Parents
<1>4. Forest!InUse = ToSet(doc.unlinked) \union Forest!Inserted(Parents)
  BY DEF Forest!InUse, Forest!Parents, Parents
<1>5. Forest!InUse = RootsOf(doc, live) \union {m \in live : doc.parent[m] \in Parents}
  BY <1>1, <1>2, <1>4
<1> QED
  BY <1>3, <1>5 DEF RootsOf

(* And so is what is below a node, and the node. *)
LEMMA BelowIs ==
  ASSUME IsForest(doc, live), NEW n \in live
  PROVE  Forest!Below(n) = Subtree(doc, n)
<1>1. /\ live \subseteq Nodes /\ Below(doc, n) \subseteq live
      /\ doc.first[n] \in Below(doc, n) \union {Nil}
      /\ \A m \in Below(doc, n) : /\ doc.first[m] \in Below(doc, n) \union {Nil}
                                  /\ doc.next[m] \in Below(doc, n) \union {Nil}
  BY BelowClosed DEF ClosedIn, IsForest, Typed
<1>2. \A S \in SUBSET Nodes : Forest!Inserted(S) = {m \in live : doc.parent[m] \in S}
  BY InsertedIs DEF Parents
<1>3. Forest!Below(n) = {m \in Nodes : \A S \in SUBSET Nodes :
                           (n \in S /\ Forest!Inserted(S) \subseteq S) => m \in S}
  BY DEF Forest!Below
<1>4. ASSUME NEW m \in Forest!Below(n)
      PROVE  m \in Subtree(doc, n)
  <2>1. Subtree(doc, n) \in SUBSET Nodes /\ n \in Subtree(doc, n)
    BY <1>1 DEF Subtree
  <2>2. {k \in live : doc.parent[k] \in Subtree(doc, n)} \subseteq Subtree(doc, n)
    BY BelowComplete DEF Subtree
  <2> QED
    BY <1>2, <1>3, <2>1, <2>2
<1>5. ASSUME NEW m \in Subtree(doc, n), NEW S \in SUBSET Nodes,
             n \in S, {k \in live : doc.parent[k] \in S} \subseteq S
      PROVE  m \in S
  <2>. DEFINE T == {k \in Below(doc, n) : k \in S /\ doc.parent[k] \in S}
  <2>1. \A k \in live : doc.first[k] # Nil => doc.parent[doc.first[k]] = k
    BY DEF IsForest, Agree
  <2>2. \A k \in live : doc.next[k] # Nil => doc.parent[doc.next[k]] = doc.parent[k]
    BY DEF IsForest, Agree
  <2>3. doc.first[n] \in T \union {Nil}
    BY <1>1, <1>5, <2>1
  <2>4. \A k \in T \intersect Below(doc, n) :
          doc.first[k] \in T \union {Nil} /\ doc.next[k] \in T \union {Nil}
    BY <1>1, <1>5, <2>1, <2>2
  <2> HIDE DEF T
  <2>5. Below(doc, n) \subseteq T
    BY <2>3, <2>4, BelowLeast
  <2> QED
    BY <1>5, <2>5 DEF T, Subtree
<1>6. Subtree(doc, n) \subseteq Nodes
  BY <1>1 DEF Subtree
<1>7. \A m \in Subtree(doc, n) : m \in Forest!Below(n)
  BY <1>2, <1>3, <1>5, <1>6
<1> QED
  BY <1>4, <1>7

-----------------------------------------------------------------------------
(* The insertions. *)

(* f is d with n taken out of wherever it was, which gives e, and put there *)
(* as the k-th child of p, between b and a.                                 *)
PutAt(d, in, p, n, e, k, b, a, f) ==
  /\ e = InsertChildPreamble(d, n)
  /\ Gap(e, in, p, b, a)
  /\ k \in 1 .. Len(Children(e, p)) + 1
  /\ b = IF k = 1 THEN Nil ELSE Children(e, p)[k - 1]
  /\ f = LinkedBetween(e, p, b, n, a)

(* The children after any of them, and the roots. *)
Inserted(d, p, n, k, f) ==
  /\ \A q \in Parents : q # p => Children(f, q) = Forest!Drop(Children(d, q), n)
  /\ Children(f, p) = InsertAt(Forest!Drop(Children(d, p), n), k, n)
  /\ ToSet(f.unlinked) = ToSet(d.unlinked) \ {n}

(* Whatever links n at a place gives p those children. *)
LEMMA InsertedChildren ==
  ASSUME NEW d, NEW in, Good(d, in), NEW n \in in, NEW p \in in \union {Doc},
         p \notin Subtree(d, n), NEW e, NEW k, NEW b, NEW a, NEW f,
         PutAt(d, in, p, n, e, k, b, a, f)
  PROVE  Inserted(d, p, n, k, f)
<1>1. /\ Gap(e, in, p, b, a) /\ f = LinkedBetween(e, p, b, n, a)
      /\ k \in 1 .. Len(Children(e, p)) + 1
      /\ b = IF k = 1 THEN Nil ELSE Children(e, p)[k - 1]
      /\ e = InsertChildPreamble(d, n)
  BY DEF PutAt
<1>2. Readied(d, in, n, e) /\ IsForest(e, in) /\ e.parent[n] = Nil
  <2>1. Readied(d, in, n, InsertChildPreamble(d, n))
    BY PreambleReadies
  <2>2. Readied(d, in, n, e)
    BY <1>1, <2>1
  <2> QED
    BY <2>2 DEF Readied
<1>3. \A q \in Parents : Children(e, q) = Forest!Drop(Children(d, q), n)
  BY <1>1, PreambleDrops
<1>4. Good(f, in)
  BY <1>2, <1>1, LinkedKeeps
<1>5. p \in Parents
  BY DEF Good, IsForest, Typed, Parents
<1>6. IsForest(LinkedBetween(e, p, b, n, a), in)
  BY <1>1, <1>4 DEF Good
<1>7. /\ \A q \in Parents : q # p => Children(f, q) = Children(e, q)
      /\ Children(f, p) = InsertAt(Children(e, p), k, n)
  BY <1>2, <1>1, <1>6, LinkedInserts
<1>8. p \notin Subtree(e, n)
  BY <1>2 DEF Readied, Subtree
<1>9. RootsOf(f, in) = RootsOf(e, in) \ {n}
  BY <1>2, <1>1, <1>8, LinkedBetweenKeeps
<1>10. RootsOf(e, in) \ {n} = RootsOf(d, in) \ {n}
  BY <1>2 DEF Readied, RootsOf
<1>11. ToSet(f.unlinked) = RootsOf(f, in) /\ ToSet(d.unlinked) = RootsOf(d, in)
  BY <1>4 DEF Good, Listed
<1> QED
  BY <1>3, <1>5, <1>7, <1>9, <1>10, <1>11 DEF Inserted

(* A node's last child is the last of its children. *)
LEMMA LastChild ==
  ASSUME NEW e, NEW in, IsForest(e, in), NEW p \in in \union {Doc}
  PROVE  LET s == Children(e, p)
         IN  /\ s \in Seq(Nodes) /\ Len(s) \in Nat
             /\ e.last[p] = IF Len(s) = 0 THEN Nil ELSE s[Len(s)]
<1>. DEFINE s == Children(e, p)
<1>1. p \in Parents /\ p # Nil
  BY StoreAssumption DEF IsForest, Typed, Parents
<1>2. /\ s \in Seq(Nodes) /\ Len(s) \in Nat
      /\ \A i \in 1 .. Len(s) : s[i] \in in /\ e.parent[s[i]] = p
      /\ \A i \in 1 .. Len(s) : e.next[s[i]] = IF i = Len(s) THEN Nil ELSE s[i + 1]
      /\ e.first[p] = IF Len(s) = 0 THEN Nil ELSE s[1]
  BY <1>1, ChildrenFacts
<1> HIDE DEF s
<1>3. CASE Len(s) = 0
  BY <1>2, <1>3 DEF IsForest, Agree, s
<1>4. CASE Len(s) # 0
  <2>1. Len(s) \in 1 .. Len(s)
    BY <1>2, <1>4
  <2>2. s[Len(s)] \in in /\ e.parent[s[Len(s)]] = p /\ e.next[s[Len(s)]] = Nil
    BY <1>2, <2>1
  <2>3. e.last[p] = s[Len(s)]
    BY <1>1, <2>2 DEF IsForest, Agree
  <2> QED
    BY <1>2, <1>4, <2>3 DEF s
<1> QED
  BY <1>2, <1>3, <1>4 DEF s

(* InsertEndChild. *)
LEMMA EndInsertedChildren ==
  ASSUME NEW d, NEW in, Good(d, in), NEW n \in in, NEW p \in in \union {Doc},
         p \notin Subtree(d, n)
  PROVE  LET f == EndInserted(d, p, n)
             rest == Forest!Drop(Children(d, p), n)
         IN  /\ Inserted(d, p, n, Len(rest) + 1, f)
             /\ rest \in Seq(Nodes)
<1>. DEFINE e == InsertChildPreamble(d, n)
            s == Children(e, p)
            f == EndInserted(d, p, n)
<1>1. IsForest(e, in)
  BY PreambleReadies DEF Readied
<1>2. p \in Parents
  BY DEF Good, IsForest, Typed, Parents
<1>3. s = Forest!Drop(Children(d, p), n)
  BY <1>2, PreambleDrops
<1>4. f = LinkedBetween(e, p, e.last[p], n, Nil)
  BY DEF EndInserted
<1>5. e = InsertChildPreamble(d, n)
  BY DEF e
<1> HIDE DEF e, f
<1>6. s \in Seq(Nodes) /\ Len(s) \in Nat /\ e.last[p] = IF Len(s) = 0 THEN Nil ELSE s[Len(s)]
  BY <1>1, LastChild
<1> HIDE DEF s
<1>7. Gap(e, in, p, e.last[p], Nil)
  BY <1>1, GapAtEnd
<1>8. /\ Len(s) + 1 \in 1 .. Len(s) + 1 /\ (Len(s) + 1) - 1 = Len(s)
      /\ Len(s) + 1 = 1 <=> Len(s) = 0
  BY <1>6
<1>9. e.last[p] = IF Len(s) + 1 = 1 THEN Nil ELSE s[(Len(s) + 1) - 1]
  BY <1>6, <1>8
<1>. DEFINE k == Len(s) + 1
            b == e.last[p]
<1>10. PutAt(d, in, p, n, e, k, b, Nil, f)
  BY <1>5, <1>4, <1>7, <1>8, <1>9 DEF PutAt, s
<1> HIDE DEF k, b
<1>11. Inserted(d, p, n, k, f)
  BY <1>10, InsertedChildren
<1> QED
  BY <1>3, <1>6, <1>11 DEF f, k

(* InsertFirstChild. *)
LEMMA FirstInsertedChildren ==
  ASSUME NEW d, NEW in, Good(d, in), NEW n \in in, NEW p \in in \union {Doc},
         p \notin Subtree(d, n)
  PROVE  LET f == FirstInserted(d, p, n)
             rest == Forest!Drop(Children(d, p), n)
         IN  /\ Inserted(d, p, n, 1, f)
             /\ rest \in Seq(Nodes)
<1>. DEFINE e == InsertChildPreamble(d, n)
            s == Children(e, p)
            f == FirstInserted(d, p, n)
<1>1. IsForest(e, in)
  BY PreambleReadies DEF Readied
<1>2. p \in Parents
  BY DEF Good, IsForest, Typed, Parents
<1>3. s = Forest!Drop(Children(d, p), n)
  BY <1>2, PreambleDrops
<1>4. f = LinkedBetween(e, p, Nil, n, e.first[p])
  BY DEF FirstInserted
<1>5. e = InsertChildPreamble(d, n)
  BY DEF e
<1> HIDE DEF e, f
<1>6. s \in Seq(Nodes) /\ Len(s) \in Nat
  BY <1>1, LastChild
<1> HIDE DEF s
<1>7. Gap(e, in, p, Nil, e.first[p])
  BY <1>1, GapAtFront
<1>8. 1 \in 1 .. Len(s) + 1
  BY <1>6
<1>9. PutAt(d, in, p, n, e, 1, Nil, e.first[p], f)
  BY <1>5, <1>4, <1>7, <1>8 DEF PutAt, s
<1>10. Inserted(d, p, n, 1, f)
  BY <1>9, InsertedChildren
<1> QED
  BY <1>3, <1>6, <1>10 DEF f

(* InsertAfterChild, behind a child that is not the last.                   *)
LEMMA AfterInsertedChildren ==
  ASSUME NEW d, NEW in, Good(d, in), NEW n \in in, NEW p \in in \union {Doc},
         p \notin Subtree(d, n), NEW a \in in, a # n, d.parent[a] = p, ~FollowsNull(d, a, n),
         NEW i \in 1 .. Len(Forest!Drop(Children(d, p), n)),
         Forest!Drop(Children(d, p), n)[i] = a
  PROVE  LET f == AfterInserted(d, p, a, n)
             rest == Forest!Drop(Children(d, p), n)
         IN  /\ Inserted(d, p, n, i + 1, f)
<1>. DEFINE e == InsertChildPreamble(d, n)
            s == Children(e, p)
            f == AfterInserted(d, p, a, n)
<1>1. IsForest(e, in) /\ e.parent[a] = d.parent[a]
  BY PreambleReadies DEF Readied
<1>2. p \in Parents
  BY DEF Good, IsForest, Typed, Parents
<1>3. s = Forest!Drop(Children(d, p), n)
  BY <1>2, PreambleDrops
<1>4. f = LinkedBetween(e, p, a, n, e.next[a]) /\ e.next[a] # Nil
  BY DEF AfterInserted, FollowsNull
<1>5. e = InsertChildPreamble(d, n)
  BY DEF e
<1> HIDE DEF e, f
<1>6. s \in Seq(Nodes) /\ Len(s) \in Nat
  BY <1>1, LastChild
<1> HIDE DEF s
<1>7. Gap(e, in, p, a, e.next[a])
  BY <1>1, <1>4, GapBehind
<1>8. i + 1 \in 1 .. Len(s) + 1 /\ (i + 1) - 1 = i /\ i + 1 # 1
  BY <1>3, <1>6
<1>. DEFINE k == i + 1
<1>9. PutAt(d, in, p, n, e, k, a, e.next[a], f)
  BY <1>5, <1>3, <1>4, <1>7, <1>8 DEF PutAt, s
<1> HIDE DEF k
<1>10. Inserted(d, p, n, k, f)
  BY <1>9, InsertedChildren
<1> QED
  BY <1>10 DEF f, k

(* Behind the last child is at the end, whichever other child is taken out. *)
LEMMA LastStaysLast ==
  ASSUME NEW d, NEW in, IsForest(d, in), NEW n \in in, NEW p \in in \union {Doc},
         NEW a \in in, a # n, d.parent[a] = p, d.next[a] = Nil
  PROVE  LET rest == Forest!Drop(Children(d, p), n)
         IN  Len(rest) \in Nat \ {0} /\ rest[Len(rest)] = a
<1>. DEFINE s == Children(d, p)
            rest == Forest!Drop(s, n)
<1>1. p \in Parents
  BY DEF IsForest, Typed, Parents
<1>2. /\ s \in Seq(Nodes) /\ Len(s) \in Nat
      /\ \A i, j \in 1 .. Len(s) : s[i] = s[j] => i = j
      /\ \A i \in 1 .. Len(s) : s[i] \in in /\ d.parent[s[i]] = p
      /\ \A m \in in : d.parent[m] = p => \E i \in 1 .. Len(s) : s[i] = m
      /\ \A i \in 1 .. Len(s) : d.next[s[i]] = IF i = Len(s) THEN Nil ELSE s[i + 1]
  BY <1>1, ChildrenFacts
<1>3. ToSet(s) = {m \in in : d.parent[m] = p}
  BY <1>1, ChildrenHaveParent
<1>4. in \subseteq Nodes /\ Nil \notin in
  BY StoreAssumption DEF IsForest, Typed
<1> HIDE DEF s
<1>5. PICK h \in 1 .. Len(s) : s[h] = a
  BY <1>2
<1>6. h = Len(s)
  <2>1. CASE h # Len(s)
    <3>1. h + 1 \in 1 .. Len(s)
      BY <1>2, <2>1
    <3> QED
      BY <1>2, <1>4, <1>5, <2>1, <3>1
  <2> QED
    BY <2>1
<1>7. CASE n \notin ToSet(s)
  <2>1. rest = s
    BY <1>7, DropNothing
  <2> QED
    BY <1>2, <1>5, <1>6, <2>1 DEF s
<1>8. CASE n \in ToSet(s)
  <2>1. PICK k \in 1 .. Len(s) : s[k] = n
    BY <1>2, <1>3, <1>8
  <2>2. /\ rest \in Seq(Nodes) /\ Len(rest) = Len(s) - 1
        /\ \A i \in 1 .. Len(s) - 1 : rest[i] = IF i < k THEN s[i] ELSE s[i + 1]
    <3>1. s \in Seq(Nodes) /\ (\A i, j \in 1 .. Len(s) : s[i] = s[j] => i = j)
      BY <1>2
    <3> QED
      BY <2>1, <3>1, DropIs
  <2>3. k # Len(s)
    BY <1>5, <1>6, <2>1
  <2>4. Len(s) - 1 \in 1 .. Len(s) - 1 /\ ~(Len(s) - 1 < k) /\ (Len(s) - 1) + 1 = Len(s)
    BY <1>2, <2>3
  <2> HIDE DEF rest
  <2>5. rest[Len(rest)] = a /\ Len(rest) \in Nat \ {0}
    BY <1>5, <1>6, <2>2, <2>4
  <2> QED
    BY <2>5 DEF s, rest
<1> QED
  BY <1>7, <1>8

(* Inserting at either end of a sequence. *)
LEMMA InsertAtEnds ==
  ASSUME NEW s \in Seq(Nodes), NEW n \in Nodes
  PROVE  /\ InsertAt(s, Len(s) + 1, n) = Append(s, n)
         /\ InsertAt(s, 1, n) = <<n>> \o s
<1>1. Len(s) \in Nat /\ 1 \in 1 .. Len(s) + 1 /\ Len(s) + 1 \in 1 .. Len(s) + 1
  OBVIOUS
<1>2. InsertAt(s, Len(s) + 1, n) = Append(s, n)
  <2>1. /\ InsertAt(s, Len(s) + 1, n) \in Seq(Nodes)
        /\ Len(InsertAt(s, Len(s) + 1, n)) = Len(s) + 1
        /\ \A i \in 1 .. Len(s) + 1 : InsertAt(s, Len(s) + 1, n)[i]
             = IF i < Len(s) + 1 THEN s[i] ELSE IF i = Len(s) + 1 THEN n ELSE s[i - 1]
    BY <1>1, InsertAtIs
  <2>. DEFINE t == InsertAt(s, Len(s) + 1, n)
  <2> HIDE DEF t
  <2>2. t \in Seq(Nodes) /\ Len(t) = Len(s) + 1
        /\ \A i \in 1 .. Len(s) + 1 : t[i] = Append(s, n)[i]
    BY <1>1, <2>1 DEF t
  <2>3. Append(s, n) \in Seq(Nodes) /\ Len(Append(s, n)) = Len(s) + 1
    OBVIOUS
  <2>4. t = Append(s, n)
    BY <2>2, <2>3
  <2> QED
    BY <2>4 DEF t
<1>3. InsertAt(s, 1, n) = <<n>> \o s
  <2>1. /\ InsertAt(s, 1, n) \in Seq(Nodes)
        /\ Len(InsertAt(s, 1, n)) = Len(s) + 1
        /\ \A i \in 1 .. Len(s) + 1 : InsertAt(s, 1, n)[i]
             = IF i < 1 THEN s[i] ELSE IF i = 1 THEN n ELSE s[i - 1]
    BY <1>1, InsertAtIs
  <2>. DEFINE t == InsertAt(s, 1, n)
  <2> HIDE DEF t
  <2>2. t \in Seq(Nodes) /\ Len(t) = Len(s) + 1
        /\ \A i \in 1 .. Len(s) + 1 : t[i] = IF i = 1 THEN n ELSE s[i - 1]
    BY <1>1, <2>1 DEF t
  <2>3. <<n>> \o s \in Seq(Nodes) /\ Len(<<n>> \o s) = Len(s) + 1
        /\ \A i \in 1 .. Len(s) + 1 : (<<n>> \o s)[i] = IF i = 1 THEN n ELSE s[i - 1]
    BY <1>1
  <2>4. t = <<n>> \o s
    <3>. DEFINE u == <<n>> \o s
    <3>1. u \in Seq(Nodes) /\ Len(u) = Len(s) + 1
          /\ \A i \in 1 .. Len(s) + 1 : u[i] = IF i = 1 THEN n ELSE s[i - 1]
      BY <2>3
    <3> HIDE DEF u
    <3>2. t = u
      BY <2>2, <3>1
    <3> QED
      BY <3>2 DEF u
  <2> QED
    BY <2>4 DEF t
<1> QED
  BY <1>2, <1>3

(* The children of every node, as the abstract specification has them.      *)
LEMMA KidsAre ==
  ASSUME NEW p \in Parents
  PROVE  [q \in Parents |-> Children(doc, q)][p] = Children(doc, p)
  OBVIOUS

(* An insertion moves its node, with all below it, to its place. *)
LEMMA MoveIs ==
  ASSUME Good(doc, live), NEW n \in live, NEW p \in Parents,
         p \notin Subtree(doc, n), NEW k, Inserted(doc, p, n, k, doc')
  PROVE  Forest!Move(n, p, InsertAt(Forest!Drop(Children(doc, p), n), k, n))
<1>. DEFINE t == InsertAt(Forest!Drop(Children(doc, p), n), k, n)
            kids == [q \in Parents |-> Children(doc, q)]
            old == [q \in Parents |-> Forest!Drop(kids[q], n)]
            new == [q \in Parents |-> Children(doc', q)]
<1>1. p \notin Forest!Below(n)
  BY BelowIs DEF Good
<1>2. new = [old EXCEPT ![p] = t]
  <2>1. \A q \in Parents : q # p => new[q] = old[q]
    BY DEF Inserted
  <2>2. new[p] = t
    BY DEF Inserted
  <2>3. new = [q \in Parents |-> new[q]] /\ old = [q \in Parents |-> old[q]]
    OBVIOUS
  <2> HIDE DEF new, old, t
  <2> QED
    BY <2>1, <2>2, <2>3
<1>3. ToSet(doc'.unlinked) = ToSet(doc.unlinked) \ {n}
  BY DEF Inserted
<1> HIDE DEF t
<1>4. Forest!Move(n, p, t)
  BY <1>1, <1>2, <1>3 DEF Forest!Move, Forest!Detached, Forest!Parents, Parents
<1> QED
  BY <1>4 DEF t

(* InsertEndChild. *)
LEMMA PutsLast ==
  ASSUME StoreInv, NEW p \in Parents, NEW n \in Nodes, InsertEndChild(p, n)
  PROVE  Forest!PutLast(p, n)
<1>1. /\ Good(doc, live) /\ n \in live /\ p \in live \union {Doc} /\ p \notin Subtree(doc, n)
      /\ doc' = EndInserted(doc, p, n)
      /\ call' = <<"InsertEndChild", p, n>> /\ result' = n
  BY DEF StoreInv, InsertEndChild, MayInsert, Usable, Returned
<1>. DEFINE rest == Forest!Drop(Children(doc, p), n)
<1>2. Inserted(doc, p, n, Len(rest) + 1, doc') /\ rest \in Seq(Nodes)
  BY <1>1, EndInsertedChildren
<1>3. Forest!Move(n, p, InsertAt(rest, Len(rest) + 1, n))
  BY <1>1, <1>2, MoveIs
<1> HIDE DEF rest
<1>4. Forest!Move(n, p, Append(rest, n))
  BY <1>2, <1>3, InsertAtEnds
<1>5. n \in Forest!InUse
  BY <1>1, InUseIs
<1>6. Forest!PutLast(p, n)
  BY <1>1, <1>4, <1>5, KidsAre DEF Forest!PutLast, Forest!Said, rest
<1> QED
  BY <1>6

(* InsertFirstChild. *)
LEMMA PutsFirst ==
  ASSUME StoreInv, NEW p \in Parents, NEW n \in Nodes, InsertFirstChild(p, n)
  PROVE  Forest!PutFirst(p, n)
<1>1. /\ Good(doc, live) /\ n \in live /\ p \in live \union {Doc} /\ p \notin Subtree(doc, n)
      /\ doc' = FirstInserted(doc, p, n)
      /\ call' = <<"InsertFirstChild", p, n>> /\ result' = n
  BY DEF StoreInv, InsertFirstChild, MayInsert, Usable, Returned
<1>. DEFINE rest == Forest!Drop(Children(doc, p), n)
<1>2. Inserted(doc, p, n, 1, doc') /\ rest \in Seq(Nodes)
  BY <1>1, FirstInsertedChildren
<1>3. Forest!Move(n, p, InsertAt(rest, 1, n))
  BY <1>1, <1>2, MoveIs
<1> HIDE DEF rest
<1>4. Forest!Move(n, p, <<n>> \o rest)
  BY <1>2, <1>3, InsertAtEnds
<1>5. n \in Forest!InUse
  BY <1>1, InUseIs
<1>6. Forest!PutFirst(p, n)
  BY <1>1, <1>4, <1>5, KidsAre DEF Forest!PutFirst, Forest!Said, rest
<1> QED
  BY <1>6

(* NewElement, NewText and their like. *)
LEMMA AddsLoose ==
  ASSUME StoreInv, NEW n \in Nodes, New(n)
  PROVE  Forest!Add(n)
<1>1. /\ Good(doc, live) /\ n \notin live /\ doc' = Created(doc, n)
      /\ call' = <<"New">> /\ result' = n
  BY DEF StoreInv, New, Returned
<1>2. IsForest(doc, live) /\ doc \in Stores /\ doc.unlinked \in Seq(live) /\ IsInjective(doc.unlinked)
  BY <1>1 DEF Good, IsForest, Listed
<1>3. IsForest(doc', live \union {n})
  BY <1>1, CreatedKeeps DEF Good
<1>4. doc' \in Stores /\ SamePointers(doc, doc') /\ doc'.unlinked = Append(doc.unlinked, n)
  BY <1>1, <1>2, CreatedIs
<1>5. \A p \in Parents : Children(doc', p) = Children(doc, p)
  BY <1>2, <1>3, <1>4, SamePointersChildren
<1>6. ToSet(doc'.unlinked) = ToSet(doc.unlinked) \union {n}
  BY <1>1, <1>2, <1>4, AppendedTo
<1>7. n \notin Forest!InUse
  BY <1>1, InUseIs
<1> QED
  BY <1>1, <1>5, <1>6, <1>7 DEF Forest!Add, Forest!Said

(* InsertNewChildElement and its like. *)
LEMMA AddsUnder ==
  ASSUME StoreInv, NEW p \in Parents, NEW n \in Nodes, InsertNew(p, n)
  PROVE  Forest!AddUnder(p, n)
<1>. DEFINE c == Created(doc, n)
            in == live \union {n}
            s == Children(doc, p)
<1>1. /\ Good(doc, live) /\ n \notin live /\ p \in live /\ doc' = EndInserted(c, p, n)
      /\ call' = <<"InsertNew", p>> /\ result' = n
  BY DEF StoreInv, InsertNew, Returned
<1>2. /\ IsForest(doc, live) /\ doc \in Stores
      /\ doc.unlinked \in Seq(live) /\ IsInjective(doc.unlinked)
      /\ ToSet(doc.unlinked) = RootsOf(doc, live)
  BY <1>1 DEF Good, IsForest, Listed
<1>3. Good(c, in) /\ Below(c, n) = {}
  BY <1>1, CreatedKeeps
<1>4. c \in Stores /\ SamePointers(doc, c) /\ c.unlinked = Append(doc.unlinked, n)
  BY <1>2, CreatedIs
<1>5. ToSet(c.unlinked) = ToSet(doc.unlinked) \union {n}
  BY <1>1, <1>2, <1>4, AppendedTo
<1> HIDE DEF c
<1>6. \A q \in Parents : Children(c, q) = Children(doc, q)
  BY <1>2, <1>3, <1>4, SamePointersChildren DEF Good
<1>7. \A q \in Parents : n \notin ToSet(Children(doc, q))
  BY <1>1, <1>2, ChildrenHaveParent
<1>8. \A q \in Parents : Forest!Drop(Children(c, q), n) = Children(doc, q)
  BY <1>6, <1>7, DropNothing
<1>9. p \notin Subtree(c, n) /\ p \in in \union {Doc} /\ n \in in
  BY <1>1, <1>3 DEF Subtree
<1>. DEFINE rest == Forest!Drop(Children(c, p), n)
<1>10. Inserted(c, p, n, Len(rest) + 1, doc') /\ rest \in Seq(Nodes)
  <2> HIDE DEF in
  <2> QED
    BY <1>1, <1>3, <1>9, EndInsertedChildren
<1>11. rest = s
  BY <1>8
<1> HIDE DEF rest, s
<1>12. Children(doc', p) = Append(s, n)
  <2>1. Children(doc', p) = InsertAt(rest, Len(rest) + 1, n)
    BY <1>10 DEF Inserted, rest
  <2> QED
    BY <1>10, <1>11, <2>1, InsertAtEnds
<1>13. \A q \in Parents : q # p => Children(doc', q) = Children(doc, q)
  BY <1>8, <1>10 DEF Inserted
<1>14. ToSet(doc'.unlinked) = ToSet(doc.unlinked)
  <2>1. ToSet(doc'.unlinked) = ToSet(c.unlinked) \ {n}
    BY <1>10 DEF Inserted
  <2>2. n \notin ToSet(doc.unlinked)
    BY <1>1, <1>2 DEF RootsOf
  <2> QED
    BY <1>5, <2>1, <2>2
<1>15. n \notin Forest!InUse
  BY <1>1, InUseIs
<1>. DEFINE kids == [q \in Parents |-> Children(doc, q)]
            new == [q \in Parents |-> Children(doc', q)]
<1>16. new = [kids EXCEPT ![p] = Append(kids[p], n)]
  <2>1. new[p] = Append(kids[p], n) /\ \A q \in Parents : q # p => new[q] = kids[q]
    BY <1>12, <1>13 DEF s
  <2>2. new = [q \in Parents |-> new[q]] /\ kids = [q \in Parents |-> kids[q]]
    OBVIOUS
  <2> HIDE DEF new, kids
  <2> QED
    BY <2>1, <2>2
<1> QED
  BY <1>1, <1>14, <1>15, <1>16 DEF Forest!AddUnder, Forest!Said

(* The place behind a. *)
LEMMA AfterIs ==
  ASSUME NEW s, NEW a, NEW n, NEW i \in 1 .. Len(Forest!Drop(s, n)),
         Forest!Drop(s, n)[i] = a,
         \A j, k \in 1 .. Len(Forest!Drop(s, n)) :
           Forest!Drop(s, n)[j] = Forest!Drop(s, n)[k] => j = k
  PROVE  Forest!After(s, a, n) = InsertAt(Forest!Drop(s, n), i + 1, n)
<1>. DEFINE rest == Forest!Drop(s, n)
<1>1. (CHOOSE j \in 1 .. Len(rest) : rest[j] = a) = i
  OBVIOUS
<1> HIDE DEF rest
<1>2. Forest!After(s, a, n) = Forest!InsertAt(rest, (CHOOSE j \in 1 .. Len(rest) : rest[j] = a) + 1, n)
  BY DEF Forest!After, rest
<1>3. Forest!After(s, a, n) = Forest!InsertAt(rest, i + 1, n)
  BY <1>1, <1>2
<1> QED
  BY <1>3 DEF Forest!InsertAt, InsertAt, rest

(* rest has no node twice, and every other child of p is in it. *)
IsRest(rest, d, in, p, n) ==
  /\ rest \in Seq(Nodes) /\ Len(rest) \in Nat
  /\ \A j, k \in 1 .. Len(rest) : rest[j] = rest[k] => j = k
  /\ \A a \in in : a # n /\ d.parent[a] = p => \E i \in 1 .. Len(rest) : rest[i] = a

(* What the insertion looks for is there, once. *)
LEMMA RestFacts ==
  ASSUME NEW d, NEW in, Good(d, in), NEW n \in in, NEW p \in in \union {Doc}
  PROVE  IsRest(Forest!Drop(Children(d, p), n), d, in, p, n)
<1>. DEFINE e == InsertChildPreamble(d, n)
            rest == Forest!Drop(Children(d, p), n)
            s == Children(e, p)
<1>1. p \in Parents
  BY DEF Good, IsForest, Typed, Parents
<1>2. s = rest
  BY <1>1, PreambleDrops
<1>3. IsForest(e, in) /\ \A m \in in : m # n => e.parent[m] = d.parent[m]
  BY PreambleReadies DEF Readied
<1> HIDE DEF e
<1>4. /\ s \in Seq(Nodes) /\ Len(s) \in Nat
      /\ \A i, j \in 1 .. Len(s) : s[i] = s[j] => i = j
      /\ \A m \in in : e.parent[m] = p => \E i \in 1 .. Len(s) : s[i] = m
  BY <1>1, <1>3, ChildrenFacts
<1> HIDE DEF s, rest
<1> QED
  BY <1>2, <1>3, <1>4 DEF rest, IsRest

(* InsertAfterChild, whatever it finds; when it follows a null pointer no   *)
(* tree has changed yet.                                                    *)
LEMMA PutsAfter ==
  ASSUME StoreInv, NEW p \in Parents, NEW a \in Nodes, NEW n \in Nodes, InsertAfterChild(p, a, n)
  PROVE  Forest!PutAfter(p, a, n) \/ UNCHANGED Forest!vars
<1>. DEFINE s == Children(doc, p)
            rest == Forest!Drop(s, n)
<1>1. /\ Good(doc, live) /\ n \in live /\ a \in live /\ p \in live \union {Doc}
      /\ p \notin Subtree(doc, n)
  BY DEF StoreInv, InsertAfterChild, MayInsert, Usable
<1>2. IsForest(doc, live)
  BY <1>1 DEF Good
<1>3. a \in ToSet(s) <=> doc.parent[a] = p
  BY <1>1, <1>2, ChildrenHaveParent
<1>4. n \in Forest!InUse
  BY <1>1, InUseIs
<1>5. IsRest(rest, doc, live, p, n)
  BY <1>1, RestFacts
<1>6. /\ rest \in Seq(Nodes) /\ Len(rest) \in Nat
      /\ \A j, k \in 1 .. Len(rest) : rest[j] = rest[k] => j = k
      /\ \A m \in live : m # n /\ doc.parent[m] = p => \E i \in 1 .. Len(rest) : rest[i] = m
  <2> HIDE DEF rest
  <2> QED
    BY <1>5 DEF IsRest
<1>7. ASSUME NEW i \in 1 .. Len(rest), rest[i] = a
      PROVE  Forest!After(s, a, n) = InsertAt(rest, i + 1, n)
  BY <1>6, <1>7, AfterIs
<1> HIDE DEF s, rest
<1>8. ASSUME doc.parent[a] = p, a # n, Forest!Move(n, p, Forest!After(s, a, n)),
             call' = <<"InsertAfterChild", p, a, n>>, result' = n
      PROVE  Forest!PutAfter(p, a, n)
  <2>1. [q \in Parents |-> Children(doc, q)][p] = s
    BY KidsAre DEF s
  <2>2. a \in Forest!ToSet(s)
    BY <1>3, <1>8 DEF Forest!ToSet, ToSet
  <2>3. a \in Forest!ToSet(s) \ {n}
    BY <1>8, <2>2
  <2>4. Forest!Said(<<"InsertAfterChild", p, a, n>>, IF a \in Forest!ToSet(s) THEN n ELSE Nil)
    BY <1>8, <2>2 DEF Forest!Said
  <2> QED
    BY <1>4, <1>8, <2>1, <2>3, <2>4 DEF Forest!PutAfter
<1>9. ASSUME doc.parent[a] # p \/ a = n, doc' = doc,
             call' = <<"InsertAfterChild", p, a, n>>,
             result' = IF doc.parent[a] = p THEN n ELSE Nil
      PROVE  Forest!PutAfter(p, a, n)
  BY <1>3, <1>4, <1>9, KidsAre DEF Forest!PutAfter, Forest!Said, Forest!ToSet, ToSet, s
<1>10. CASE AfterStranger(p, a, n)
  BY <1>9, <1>10 DEF AfterStranger, Returned
<1>11. CASE AfterItself(p, a, n)
  BY <1>9, <1>11 DEF AfterItself, Returned
<1>12. CASE AfterLast(p, a, n)
  <2>1. /\ doc.parent[a] = p /\ a # n /\ doc.next[a] = Nil /\ doc' = EndInserted(doc, p, n)
        /\ call' = <<"InsertAfterChild", p, a, n>> /\ result' = n
    BY <1>12 DEF AfterLast, Returned
  <2>2. Inserted(doc, p, n, Len(rest) + 1, doc')
    BY <1>1, <2>1, EndInsertedChildren DEF rest, s
  <2>3. Len(rest) \in Nat \ {0} /\ rest[Len(rest)] = a
    BY <1>1, <1>2, <2>1, LastStaysLast DEF rest, s
  <2>4. Forest!Move(n, p, InsertAt(rest, Len(rest) + 1, n))
    BY <1>1, <2>2, MoveIs DEF rest, s
  <2>5. Len(rest) \in 1 .. Len(rest)
    BY <2>3
  <2>6. Forest!After(s, a, n) = InsertAt(rest, Len(rest) + 1, n)
    BY <1>7, <2>3, <2>5
  <2> QED
    BY <1>8, <2>1, <2>4, <2>6
<1>13. CASE AfterInner(p, a, n)
  <2>1. /\ doc.parent[a] = p /\ a # n /\ ~FollowsNull(doc, a, n)
        /\ doc' = AfterInserted(doc, p, a, n)
        /\ call' = <<"InsertAfterChild", p, a, n>> /\ result' = n
    BY <1>13 DEF AfterInner, Returned
  <2>2. PICK i \in 1 .. Len(rest) : rest[i] = a
    BY <1>1, <1>6, <2>1
  <2>3. Inserted(doc, p, n, i + 1, doc')
    BY <1>1, <2>1, <2>2, AfterInsertedChildren DEF rest, s
  <2>4. Forest!Move(n, p, InsertAt(rest, i + 1, n))
    BY <1>1, <2>3, MoveIs DEF rest, s
  <2>5. Forest!After(s, a, n) = InsertAt(rest, i + 1, n)
    BY <1>7, <2>2
  <2> QED
    BY <1>8, <2>1, <2>4, <2>5
<1>14. CASE AfterLastButOne(p, a, n)
  BY <1>14 DEF AfterLastButOne, Forest!vars
<1> QED
  BY <1>10, <1>11, <1>12, <1>13, <1>14 DEF InsertAfterChild

-----------------------------------------------------------------------------
(* The deletions. *)

(* The tree of a node goes, and the node from its parent's children.        *)
LEMMA GoesAlone ==
  ASSUME StoreInv, NEW n \in live,
         \A q \in Parents : Children(doc', q) = IF q \in Subtree(doc, n) THEN <<>>
                                                ELSE Forest!Drop(Children(doc, q), n),
         ToSet(doc'.unlinked) = ToSet(doc.unlinked) \ {n},
         \/ \E p \in Parents : /\ call' = <<"DeleteChild", p, n>> /\ result' = Nil
                               /\ doc.parent[n] = p
         \/ call' = <<"DeleteNode", n>> /\ result' = Nil
  PROVE  Forest!RemoveOne(n)
<1>1. Good(doc, live) /\ IsForest(doc, live)
  BY DEF StoreInv, Good
<1>2. Forest!Below(n) = Subtree(doc, n) /\ n \in Forest!InUse
  BY <1>1, BelowIs, InUseIs
<1>3. \A p \in Parents : doc.parent[n] = p => n \in ToSet(Children(doc, p))
  BY <1>1, ChildrenHaveParent
<1>4. [q \in Parents |-> Children(doc', q)]
        = [q \in Parents |-> IF q \in Forest!Below(n) THEN <<>>
                             ELSE Forest!Drop([m \in Parents |-> Children(doc, m)][q], n)]
  BY <1>2
<1>5. \/ \E p \in Parents : Forest!Said(<<"DeleteChild", p, n>>, Nil)
                             /\ n \in ToSet([m \in Parents |-> Children(doc, m)][p])
      \/ Forest!Said(<<"DeleteNode", n>>, Nil)
  BY <1>3 DEF Forest!Said
<1> QED
  BY <1>2, <1>4, <1>5 DEF Forest!RemoveOne, Forest!Parents, Parents, Forest!ToSet, ToSet

(* DeleteChild, and DeleteNode of a child. *)
LEMMA ChildGoes ==
  ASSUME StoreInv, NEW n \in live, doc.parent[n] # Nil, doc' = ChildRemoved(doc, n)
  PROVE  /\ \A q \in Parents : Children(doc', q) = IF q \in Subtree(doc, n) THEN <<>>
                                                   ELSE Forest!Drop(Children(doc, q), n)
         /\ ToSet(doc'.unlinked) = ToSet(doc.unlinked) \ {n}
<1>1. Good(doc, live) /\ ToSet(doc.unlinked) = RootsOf(doc, live)
  BY DEF StoreInv, Good, Listed
<1>2. doc'.unlinked = doc.unlinked
  BY <1>1, ChildRemovedKeeps
<1>3. n \notin ToSet(doc.unlinked)
  BY <1>1 DEF RootsOf
<1> QED
  BY <1>1, <1>2, <1>3, ChildRemovedChildren

(* DeleteNode of a root. *)
LEMMA RootGoes ==
  ASSUME StoreInv, NEW n \in live, doc.parent[n] = Nil, doc' = LooseRemoved(doc, n)
  PROVE  /\ \A q \in Parents : Children(doc', q) = IF q \in Subtree(doc, n) THEN <<>>
                                                   ELSE Forest!Drop(Children(doc, q), n)
         /\ ToSet(doc'.unlinked) = ToSet(doc.unlinked) \ {n}
<1>1. /\ Good(doc, live) /\ ToSet(doc.unlinked) = RootsOf(doc, live)
      /\ doc.unlinked \in Seq(live) /\ IsInjective(doc.unlinked)
  BY DEF StoreInv, Good, Listed
<1>2. doc'.unlinked = MarkInUse(doc.unlinked, n)
  BY <1>1, LooseRemovedKeeps
<1>3. n \in ToSet(doc.unlinked)
  BY <1>1 DEF RootsOf
<1>4. ToSet(MarkInUse(doc.unlinked, n)) = ToSet(doc.unlinked) \ {n}
  BY <1>1, <1>3, MarkInUseTakesOff
<1> QED
  BY <1>1, <1>2, <1>4, LooseRemovedChildren

(* DeleteChild. *)
LEMMA RemovesChild ==
  ASSUME StoreInv, NEW p \in Parents, NEW n \in Nodes, DeleteChild(p, n)
  PROVE  Forest!RemoveOne(n)
<1>1. /\ n \in live /\ doc.parent[n] = p /\ doc' = ChildRemoved(doc, n)
      /\ call' = <<"DeleteChild", p, n>> /\ result' = Nil
  BY DEF DeleteChild, Returned
<1>2. doc.parent[n] # Nil
  BY <1>1, StoreAssumption DEF Parents
<1> QED
  BY <1>1, <1>2, ChildGoes, GoesAlone

(* XMLDocument::DeleteNode. *)
LEMMA RemovesNode ==
  ASSUME StoreInv, NEW n \in Nodes, DeleteNode(n)
  PROVE  Forest!RemoveOne(n)
<1>1. /\ n \in live
      /\ doc' = IF doc.parent[n] # Nil THEN ChildRemoved(doc, n) ELSE LooseRemoved(doc, n)
      /\ call' = <<"DeleteNode", n>> /\ result' = Nil
  BY DEF DeleteNode, Returned
<1>2. CASE doc.parent[n] # Nil
  BY <1>1, <1>2, ChildGoes, GoesAlone
<1>3. CASE doc.parent[n] = Nil
  BY <1>1, <1>3, RootGoes, GoesAlone
<1> QED
  BY <1>2, <1>3

(* What is below p is the trees of its children. *)
LEMMA BelowIsTrees ==
  ASSUME NEW d, NEW in, IsForest(d, in), NEW p \in in \union {Doc}
  PROVE  UNION {Subtree(d, c) : c \in {m \in in : d.parent[m] = p}} = Below(d, p)
<1>. DEFINE kids == {m \in in : d.parent[m] = p}
            S == UNION {Subtree(d, c) : c \in kids}
<1>1. \A q \in in \union {Doc} : /\ Below(d, q) \subseteq in
                                 /\ d.first[q] \in Below(d, q) \union {Nil}
                                 /\ \A m \in Below(d, q) : /\ d.first[m] \in Below(d, q) \union {Nil}
                                                           /\ d.next[m] \in Below(d, q) \union {Nil}
  BY BelowClosed DEF ClosedIn
<1>2. kids \subseteq Below(d, p)
  BY BelowComplete DEF Subtree
<1>3. ASSUME NEW c \in kids
      PROVE  Subtree(d, c) \subseteq Below(d, p)
  <2>1. c \in in /\ c \in Below(d, p)
    BY <1>2
  <2>2. d.first[c] \in Below(d, p) \union {Nil}
    BY <1>1, <2>1
  <2>3. \A m \in Below(d, p) \intersect Below(d, c) :
          d.first[m] \in Below(d, p) \union {Nil} /\ d.next[m] \in Below(d, p) \union {Nil}
    BY <1>1
  <2>4. Below(d, c) \subseteq Below(d, p)
    BY <2>1, <2>2, <2>3, BelowLeast
  <2> QED
    BY <2>1, <2>4 DEF Subtree
<1>4. S \subseteq Below(d, p)
  BY <1>3
<1>5. \A c \in kids : Subtree(d, c) \subseteq S
  OBVIOUS
<1>6. p # Nil /\ d.first[p] \in kids \union {Nil}
  <2>1. p # Nil
    BY StoreAssumption DEF IsForest, Typed
  <2> QED
    BY <2>1 DEF IsForest, Typed, Agree
<1>7. \A c \in kids : d.next[c] \in kids \union {Nil}
  BY DEF IsForest, Typed, Agree
<1>8. ASSUME NEW c \in kids, NEW m \in Subtree(d, c)
      PROVE  d.first[m] \in S \union {Nil} /\ d.next[m] \in S \union {Nil}
  <2>1. CASE m = c
    <3>1. d.first[c] \in Below(d, c) \union {Nil}
      BY <1>1
    <3>2. d.next[c] \in S \union {Nil}
      BY <1>5, <1>7 DEF Subtree
    <3>3. Below(d, c) \subseteq S
      BY <1>5 DEF Subtree
    <3> QED
      BY <2>1, <3>1, <3>2, <3>3
  <2>2. CASE m \in Below(d, c)
    <3>1. d.first[m] \in Below(d, c) \union {Nil} /\ d.next[m] \in Below(d, c) \union {Nil}
      BY <1>1, <2>2
    <3>2. Below(d, c) \subseteq S
      BY <1>5 DEF Subtree
    <3> QED
      BY <3>1, <3>2
  <2> QED
    BY <2>1, <2>2 DEF Subtree
<1>9. d.first[p] \in S \union {Nil}
  BY <1>5, <1>6 DEF Subtree
<1>10. \A m \in S \intersect Below(d, p) :
         d.first[m] \in S \union {Nil} /\ d.next[m] \in S \union {Nil}
  BY <1>8
<1> HIDE DEF S
<1>11. Below(d, p) \subseteq S
  BY <1>9, <1>10, BelowLeast
<1> QED
  BY <1>4, <1>11 DEF S

(* DeleteChildren. *)
LEMMA RemovesChildren ==
  ASSUME StoreInv, NEW p \in Parents, DeleteChildren(p)
  PROVE  Forest!RemoveChildren(p)
<1>1. /\ Good(doc, live) /\ IsForest(doc, live) /\ p \in live \union {Doc}
      /\ doc' = ChildrenRemoved(doc, p)
      /\ call' = <<"DeleteChildren", p>> /\ result' = Nil
  BY DEF StoreInv, Good, DeleteChildren, Usable, Returned
<1>2. doc'.unlinked = doc.unlinked
  BY <1>1, ChildrenRemovedKeeps
<1>3. \A q \in Parents : Children(doc', q) = IF q \in Subtree(doc, p) THEN <<>> ELSE Children(doc, q)
  BY <1>1, ChildrenRemovedChildren
<1>. DEFINE gone == UNION {Forest!Below(c) : c \in Forest!ToSet([m \in Parents |-> Children(doc, m)][p])}
<1>4. gone \union {p} = Subtree(doc, p)
  <2>1. Forest!ToSet([m \in Parents |-> Children(doc, m)][p]) = {m \in live : doc.parent[m] = p}
    BY <1>1, ChildrenHaveParent DEF Forest!ToSet, ToSet
  <2>2. \A c \in live : Forest!Below(c) = Subtree(doc, c)
    BY <1>1, BelowIs
  <2>3. gone = UNION {Subtree(doc, c) : c \in {m \in live : doc.parent[m] = p}}
    BY <2>1, <2>2
  <2>4. gone = Below(doc, p)
    BY <1>1, <2>3, BelowIsTrees
  <2> QED
    BY <2>4 DEF Subtree
<1> HIDE DEF gone
<1>5. [q \in Parents |-> Children(doc', q)]
        = [q \in Parents |-> IF q \in gone \union {p} THEN <<>>
                             ELSE [m \in Parents |-> Children(doc, m)][q]]
  BY <1>3, <1>4
<1> QED
  BY <1>1, <1>2, <1>5 DEF Forest!RemoveChildren, Forest!Said, Forest!Parents, Parents, gone

(* Clear. *)
LEMMA RemovesAll ==
  ASSUME StoreInv, Clear
  PROVE  Forest!RemoveAll
<1>1. Good(doc, live) /\ call' = <<"Clear">> /\ result' = Nil
  BY DEF StoreInv, Clear, Returned
<1>2. IsForest(doc', {}) /\ ToSet(doc'.unlinked) = {}
  <2>1. Good(doc', {})
    BY <1>1, ClearedKeeps DEF Clear
  <2> QED
    BY <2>1 DEF Good, Listed, RootsOf
<1>3. \A q \in Parents : Children(doc', q) = <<>>
  BY <1>2, NoChildren
<1> QED
  BY <1>1, <1>2, <1>3 DEF Forest!RemoveAll, Forest!Said, Forest!Parents, Parents, Forest!ToSet, ToSet

-----------------------------------------------------------------------------
(* The copies, and the theorem. *)

(* XMLNode::DeepClone. *)
LEMMA Copies ==
  ASSUME StoreInv, NEW n \in Nodes, DeepClone(n)
  PROVE  Forest!Clone(n)
<1>1. /\ Good(doc, live) /\ IsForest(doc, live) /\ n \in live
      /\ doc.unlinked \in Seq(live) /\ IsInjective(doc.unlinked)
  BY DEF StoreInv, Good, Listed, DeepClone
<1>2. PICK f \in [Subtree(doc, n) -> Nodes \ live] :
        /\ IsInjective(f) /\ doc' = Cloned(doc, n, f)
        /\ call' = <<"DeepClone", n>> /\ result' = f[n]
  BY DEF DeepClone, Returned
<1>3. /\ \A p \in Parents : p \notin Range(f) => Children(doc', p) = Children(doc, p)
      /\ \A o \in Subtree(doc, n) :
           Children(doc', f[o]) = [i \in DOMAIN Children(doc, o) |-> f[Children(doc, o)[i]]]
  <2>. DEFINE e == Cloned(doc, n, f)
  <2>1. HasCopiedChildren(doc, n, f, e)
    BY <1>1, <1>2, CopiedChildren
  <2>2. doc' = e
    BY <1>2
  <2> HIDE DEF e
  <2> QED
    BY <2>1, <2>2 DEF HasCopiedChildren
<1>4. /\ Forest!Below(n) = Subtree(doc, n) /\ Forest!InUse = live
      /\ n \in Subtree(doc, n) /\ Subtree(doc, n) \subseteq live /\ live \subseteq Nodes
  <2>1. Below(doc, n) \subseteq live
    BY <1>1, BelowClosed
  <2> QED
    BY <1>1, <2>1, BelowIs, InUseIs DEF Subtree, IsForest, Typed
<1>5. /\ \A o, m \in Subtree(doc, n) : f[o] = f[m] => o = m
      /\ Range(f) = {f[o] : o \in Subtree(doc, n)}
  BY <1>2 DEF IsInjective, Range
<1>6. ToSet(doc'.unlinked) = ToSet(doc.unlinked) \union {f[n]}
  <2>1. doc'.unlinked = Append(doc.unlinked, f[n])
    BY <1>1, <1>2, CloneIs DEF IsClone
  <2>2. f[n] \notin live
    BY <1>4
  <2>. DEFINE c == f[n]
            list == doc.unlinked
  <2>3. list \in Seq(live) /\ IsInjective(list) /\ c \notin live
    BY <1>1, <2>2
  <2> HIDE DEF c, list
  <2>4. ToSet(Append(list, c)) = ToSet(list) \union {c}
    BY <2>3, AppendedTo
  <2> QED
    BY <2>1, <2>4 DEF c, list
<1>. DEFINE kids == [q \in Parents |-> Children(doc, q)]
            new == [q \in Parents |-> Children(doc', q)]
<1>7. ASSUME NEW p \in Parents
      PROVE  Children(doc', p)
               = IF \E m \in Subtree(doc, n) : f[m] = p
                 THEN LET m == CHOOSE m \in Subtree(doc, n) : f[m] = p
                      IN [i \in DOMAIN kids[m] |-> f[kids[m][i]]]
                 ELSE kids[p]
  <2>1. CASE ~ \E m \in Subtree(doc, n) : f[m] = p
    <3>1. p \notin Range(f)
      BY <1>5, <2>1
    <3> QED
      BY <1>3, <2>1, <3>1
  <2>2. CASE \E m \in Subtree(doc, n) : f[m] = p
    <3>. DEFINE m == CHOOSE m \in Subtree(doc, n) : f[m] = p
    <3>1. m \in Subtree(doc, n) /\ f[m] = p
      BY <2>2
    <3> HIDE DEF m
    <3>2. m \in Parents
      BY <1>4, <3>1 DEF Parents
    <3>3. Children(doc', p) = [i \in DOMAIN kids[m] |-> f[kids[m][i]]]
      BY <1>3, <3>1, <3>2
    <3> QED
      BY <2>2, <3>3 DEF m
  <2> QED
    BY <2>1, <2>2
<1>8. new = [p \in Parents |->
               IF \E m \in Forest!Below(n) : f[m] = p
               THEN LET m == CHOOSE m \in Forest!Below(n) : f[m] = p
                    IN [i \in DOMAIN kids[m] |-> f[kids[m][i]]]
               ELSE kids[p]]
  <2> HIDE DEF kids
  <2> QED
    BY <1>4, <1>7
<1>9. f \in [Forest!Below(n) -> Nodes \ Forest!InUse] /\ n \in Forest!InUse
  BY <1>1, <1>4
<1>10. Forest!IsInjective(f)
  BY <1>2 DEF Forest!IsInjective, IsInjective
<1> QED
  BY <1>2, <1>6, <1>8, <1>9, <1>10
     DEF Forest!Clone, Forest!Parents, Parents, Forest!ToSet, ToSet

(* A new document is an empty forest. *)
LEMMA BeginsEmpty ==
  ASSUME Init
  PROVE  Forest!Init
<1>1. /\ IsForest(doc, {}) /\ doc.unlinked = <<>>
      /\ call = <<"none">> /\ result = Nil
  <2>1. Good(doc, live) /\ live = {}
    BY InitIsSound DEF StoreInv, Init
  <2> QED
    BY <2>1 DEF Good, Init, Fresh
<1>2. \A q \in Parents : Children(doc, q) = <<>>
  BY <1>1, NoChildren
<1>3. Forest!ToSet(doc.unlinked) = {} /\ ToSet(doc.unlinked) = {}
  BY <1>1 DEF Forest!ToSet, ToSet
<1> QED
  BY <1>1, <1>2, <1>3 DEF Forest!Init, Forest!Parents, Parents

(* Every call is the abstract call of its name, or changes no tree. *)
LEMMA StepsAreAbstract ==
  ASSUME StoreInv, [Next]_vars
  PROVE  [Forest!Next]_(Forest!vars)
<1>0. Forest!Parents = Parents
  BY DEF Forest!Parents, Parents
<1>1. ASSUME NEW n \in Nodes, New(n) \/ DeleteNode(n) \/ DeepClone(n)
      PROVE  Forest!Next
  BY <1>1, AddsLoose, RemovesNode, Copies DEF Forest!Next
<1>2. ASSUME NEW p \in Parents, DeleteChildren(p)
      PROVE  Forest!Next
  BY <1>0, <1>2, RemovesChildren DEF Forest!Next
<1>3. ASSUME NEW p \in Parents, NEW n \in Nodes,
             InsertEndChild(p, n) \/ InsertFirstChild(p, n) \/ InsertNew(p, n)
      PROVE  Forest!Next
  <2>1. Forest!PutLast(p, n) \/ Forest!PutFirst(p, n) \/ Forest!AddUnder(p, n)
    BY <1>3, PutsLast, PutsFirst, AddsUnder
  <2> QED
    BY <1>0, <2>1 DEF Forest!Next
<1>4. ASSUME NEW p \in Parents, NEW n \in Nodes, DeleteChild(p, n)
      PROVE  Forest!Next
  BY <1>4, RemovesChild DEF Forest!Next
<1>5. ASSUME NEW p \in Parents, NEW a \in Nodes, NEW n \in Nodes, InsertAfterChild(p, a, n)
      PROVE  Forest!Next \/ UNCHANGED Forest!vars
  <2>1. CASE Forest!PutAfter(p, a, n)
    BY <1>0, <2>1 DEF Forest!Next
  <2> QED
    BY <1>5, <2>1, PutsAfter
<1>6. ASSUME Clear PROVE Forest!Next
  BY <1>6, RemovesAll DEF Forest!Next
<1>7. ASSUME UNCHANGED vars PROVE UNCHANGED Forest!vars
  BY <1>7 DEF vars, Forest!vars
<1> QED
  BY <1>1, <1>2, <1>3, <1>4, <1>5, <1>6, <1>7 DEF Next

(* Every call changes the trees as its name and comment in xml_helper.h     *)
(* say, returns what they say, and touches nothing else.                    *)
THEOREM ImplementsForestHolds == Spec => ImplementsForest
<1>1. Init => Forest!Init
  BY BeginsEmpty
<1>2. StoreInv /\ [Next]_vars => [Forest!Next]_(Forest!vars)
  BY StepsAreAbstract
<1> QED
  BY <1>1, <1>2, StoreIsSound, PTL DEF Spec, ImplementsForest, Forest!Spec
=============================================================================
