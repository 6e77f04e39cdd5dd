---------------------------- MODULE XmlTreeProofs ----------------------------
(***************************************************************************)
(* Proofs about XmlTree.  The steps that a call is made of are functions   *)
(* of a store, so the invariant is stated of any store d whose nodes in    *)
(* use are the set in: each step keeps it, and an action composes them.    *)
(***************************************************************************)
EXTENDS XmlTree, TLAPS, WellFoundedInduction

(* The inductive invariant of XmlTree.  The pointers are those of nodes,    *)
(* and the list holds the nodes in no tree, each once.                      *)
Stores ==
  [parent : [Nodes -> Parents \union {Nil}],
   prev   : [Nodes -> Nodes \union {Nil}],
   next   : [Nodes -> Nodes \union {Nil}],
   first  : [Parents -> Nodes \union {Nil}],
   last   : [Parents -> Nodes \union {Nil}],
   unlinked  : Seq(Nodes),
   untracked : Int]

Roots == {n \in live : doc.parent[n] = Nil}

ListsRoots == IsInjective(doc.unlinked) /\ ToSet(doc.unlinked) = Roots

(* The loops over _firstChild and _next come to every node: whatever holds  *)
(* the roots and, with a node, its first child and its next sibling, holds  *)
(* them all.  This rules out cycles of either pointer.                      *)
Rooted ==
  \A S \in SUBSET live :
    /\ Roots \subseteq S
    /\ doc.first[Doc] \in S \union {Nil}
    /\ \A m \in S : {doc.first[m], doc.next[m]} \subseteq S \union {Nil}
    => live \subseteq S

TreeInv ==
  /\ doc \in Stores
  /\ TreeTypeOK
  /\ LinksAgree
  /\ Rooted
  /\ ListsRoots
  /\ UntrackedIsUnlinked

-----------------------------------------------------------------------------

Typed(d, in) ==
  /\ in \subseteq Nodes
  /\ \A n \in in : d.parent[n] \in in \union {Doc, Nil}
  /\ \A n \in in : d.prev[n] \in in \union {Nil} /\ d.next[n] \in in \union {Nil}
  /\ \A p \in in \union {Doc} : d.first[p] \in in \union {Nil} /\ d.last[p] \in in \union {Nil}
  /\ \A n \in Nodes \ in :
       /\ d.parent[n] = Nil /\ d.prev[n] = Nil /\ d.next[n] = Nil
       /\ d.first[n] = Nil /\ d.last[n] = Nil

Agree(d, in) ==
  /\ \A n \in in :
       d.next[n] # Nil =>
         d.prev[d.next[n]] = n /\ d.parent[d.next[n]] = d.parent[n]
  /\ \A n \in in :
       d.prev[n] # Nil =>
         d.next[d.prev[n]] = n /\ d.parent[d.prev[n]] = d.parent[n]
  /\ \A n \in in : d.parent[n] = Nil => d.next[n] = Nil /\ d.prev[n] = Nil
  /\ \A n \in in :
       d.parent[n] # Nil => (d.next[n] = Nil <=> d.last[d.parent[n]] = n)
  /\ \A n \in in :
       d.parent[n] # Nil => (d.prev[n] = Nil <=> d.first[d.parent[n]] = n)
  /\ \A p \in in \union {Doc} : d.first[p] # Nil => d.parent[d.first[p]] = p
  /\ \A p \in in \union {Doc} : d.last[p] # Nil => d.parent[d.last[p]] = p
  /\ \A p \in in \union {Doc} : d.first[p] = Nil <=> d.last[p] = Nil

RootsOf(d, in) == {n \in in : d.parent[n] = Nil}

ClosedIn(d, S) ==
  \A m \in S : d.first[m] \in S \union {Nil} /\ d.next[m] \in S \union {Nil}

Reaches(d, in) ==
  \A S \in SUBSET in :
    /\ RootsOf(d, in) \subseteq S
    /\ d.first[Doc] \in S \union {Nil}
    /\ ClosedIn(d, S)
    => in \subseteq S

IsForest(d, in) == d \in Stores /\ Typed(d, in) /\ Agree(d, in) /\ Reaches(d, in)

Listed(d, in) ==
  /\ d.unlinked \in Seq(in)
  /\ IsInjective(d.unlinked)
  /\ ToSet(d.unlinked) = RootsOf(d, in)

-----------------------------------------------------------------------------
(* Naturals. *)

(* Every set of naturals has a least element. *)
LEMMA LeastNatural ==
  ASSUME NEW S \in SUBSET Nat, S # {}
  PROVE  \E n \in S : \A m \in S : n <= m
<1>1. IsWellFoundedOn(OpToRel(<, Nat), Nat)
  BY NatLessThanWellFounded
<1>2. PICK n \in S : \A m \in S : ~ (<<m, n>> \in OpToRel(<, Nat))
  BY <1>1, WFMin
<1>3. ASSUME NEW m \in S
      PROVE  n <= m
  <2>1. <<m, n>> \in Nat \X Nat
    OBVIOUS
  <2>2. ~ (m < n)
    BY <2>1, <1>2 DEF OpToRel
  <2> QED BY <2>2
<1> QED BY <1>3

(* Induction up to a bound. *)
LEMMA AllUpTo ==
  ASSUME NEW n \in Nat, NEW S, 0 \in S, \A k \in 0 .. n - 1 : k \in S => k + 1 \in S
  PROVE  0 .. n \subseteq S
<1>. DEFINE Bad == {k \in 0 .. n : k \notin S}
<1>1. SUFFICES ASSUME Bad # {} PROVE FALSE
  OBVIOUS
<1>2. PICK k \in Bad : \A m \in Bad : k <= m
  <2>1. Bad \in SUBSET Nat
    OBVIOUS
  <2> HIDE DEF Bad
  <2> QED
    BY <1>1, <2>1, LeastNatural
<1>3. k \in 0 .. n /\ k \notin S /\ k # 0
  BY <1>2
<1>4. k - 1 \in 0 .. n - 1 /\ k - 1 \in 0 .. n /\ ~(k <= k - 1) /\ (k - 1) + 1 = k
  BY <1>3
<1>5. k - 1 \in S
  BY <1>2, <1>4
<1> QED
  BY <1>3, <1>4, <1>5

-----------------------------------------------------------------------------
(* Below: what is reached from the first child. *)

(* A store's pointers are pointers. *)
LEMMA StoreTypes ==
  ASSUME NEW d \in Stores
  PROVE  /\ \A n \in Nodes : /\ d.parent[n] \in Parents \union {Nil}
                             /\ d.prev[n] \in Nodes \union {Nil}
                             /\ d.next[n] \in Nodes \union {Nil}
         /\ \A p \in Parents : /\ d.first[p] \in Nodes \union {Nil}
                               /\ d.last[p] \in Nodes \union {Nil}
         /\ d.unlinked \in Seq(Nodes)
         /\ d.untracked \in Int
  BY DEF Stores

(* What is reached from a node is the least closed set with that node.      *)
LEMMA ReachedLeast ==
  ASSUME NEW d \in Stores, NEW n \in Nodes, NEW S,
         n \in S,
         \A m \in S \intersect Nodes :
           d.first[m] \in S \union {Nil} /\ d.next[m] \in S \union {Nil}
  PROVE  Reached(d, n) \subseteq S
<1> DEFINE pointed == ({d.first[p] : p \in Parents} \union {d.next[m] : m \in Nodes}) \ {Nil}
           T == S \intersect ({n} \union pointed)
<1>1. T \in SUBSET ({n} \union pointed) /\ n \in T
  OBVIOUS
<1>2. pointed \subseteq Nodes
  BY StoreTypes DEF Parents
<1>3. ASSUME NEW m \in T
      PROVE  {d.first[m], d.next[m]} \subseteq T \union {Nil}
  <2>1. m \in S \intersect Nodes
    BY <1>2
  <2>2. d.first[m] \in pointed \union {Nil} /\ d.next[m] \in pointed \union {Nil}
    BY <2>1 DEF Parents
  <2> QED
    BY <2>1, <2>2
<1>4. \A m \in Reached(d, n) : m \in T
  BY <1>1, <1>3 DEF Reached
<1> QED
  BY <1>4

(* And it is closed itself. *)
LEMMA ReachedClosed ==
  ASSUME NEW d \in Stores, NEW n \in Nodes
  PROVE  /\ n \in Reached(d, n)
         /\ Reached(d, n) \subseteq Nodes
         /\ ClosedIn(d, Reached(d, n))
<1>1. n \in Reached(d, n)
  BY DEF Reached
<1>2. Reached(d, n) \subseteq Nodes
  BY DEF Reached
<1>3. ASSUME NEW m \in Reached(d, n), NEW x \in {d.first[m], d.next[m]}, x # Nil
      PROVE  x \in Reached(d, n)
  <2>1. m \in Nodes /\ x \in Nodes
    BY <1>2, <1>3, StoreTypes DEF Parents
  <2> QED
    BY <1>3, <2>1 DEF Reached
<1> QED
  BY <1>1, <1>2, <1>3 DEF ClosedIn
(* What is below q: nodes in use, with all their neighbours and children.   *)
LEMMA BelowClosed ==
  ASSUME NEW d, NEW in, IsForest(d, in), NEW q \in in \union {Doc}
  PROVE  /\ Below(d, q) \subseteq in
         /\ d.first[q] \in Below(d, q) \union {Nil}
         /\ ClosedIn(d, Below(d, q))
<1>. DEFINE B == Below(d, q)
<1>1. d \in Stores /\ Typed(d, in) /\ q \in Parents /\ in \subseteq Nodes
  BY DEF IsForest, Typed, Parents
<1>2. CASE d.first[q] = Nil
  BY <1>2 DEF Below, ClosedIn
<1>3. CASE d.first[q] # Nil
  <2>1. d.first[q] \in in /\ d.first[q] \in Nodes /\ B = Reached(d, d.first[q])
    BY <1>1, <1>3 DEF Below, Typed
  <2>2. \A m \in in \intersect Nodes :
          d.first[m] \in in \union {Nil} /\ d.next[m] \in in \union {Nil}
    BY <1>1 DEF Typed
  <2>3. Reached(d, d.first[q]) \subseteq in
    BY <1>1, <2>1, <2>2, ReachedLeast
  <2> QED
    BY <1>1, <2>1, <2>3, ReachedClosed
<1> QED
  BY <1>2, <1>3

(* The least closed set that has the first child. *)
LEMMA BelowLeast ==
  ASSUME NEW d, NEW in, IsForest(d, in), NEW q \in in \union {Doc}, NEW S,
         d.first[q] \in S \union {Nil},
         \A m \in S \intersect Below(d, q) :
           d.first[m] \in S \union {Nil} /\ d.next[m] \in S \union {Nil}
  PROVE  Below(d, q) \subseteq S
<1>. DEFINE B == Below(d, q)
            T == S \intersect B
<1>1. d \in Stores /\ Typed(d, in) /\ in \subseteq Nodes
  BY DEF IsForest, Typed
<1>2. CASE d.first[q] = Nil
  BY <1>2 DEF Below
<1>3. CASE d.first[q] # Nil
  <2>1. d.first[q] \in Nodes /\ B = Reached(d, d.first[q])
    BY <1>1, <1>3 DEF Below, Typed
  <2>2. d.first[q] \in T
    BY <1>3, BelowClosed
  <2>3. \A m \in T : d.first[m] \in B \union {Nil} /\ d.next[m] \in B \union {Nil}
    BY BelowClosed DEF ClosedIn
  <2>4. \A m \in T \intersect Nodes :
          d.first[m] \in T \union {Nil} /\ d.next[m] \in T \union {Nil}
    BY <2>3
  <2>5. Reached(d, d.first[q]) \subseteq T
    <3> HIDE DEF T
    <3> QED BY <1>1, <2>1, <2>2, <2>4, ReachedLeast
  <2> QED
    BY <2>1, <2>5
<1> QED
  BY <1>2, <1>3

(* Their parents and the siblings before them are below q, or q itself.     *)
LEMMA BelowLooksBack ==
  ASSUME NEW d, NEW in, IsForest(d, in), NEW q \in in \union {Doc}
  PROVE  /\ \A m \in Below(d, q) : d.parent[m] \in Subtree(d, q)
         /\ \A m \in Below(d, q) : d.prev[m] \in Below(d, q) \union {Nil}
<1>. DEFINE B == Below(d, q)
<1>0. Typed(d, in) /\ Agree(d, in) /\ Nil \notin in \union {Doc} /\ Subtree(d, q) = {q} \union B
  BY StoreAssumption DEF IsForest, Typed, Subtree
<1>1. B \subseteq in /\ d.first[q] \in B \union {Nil} /\ ClosedIn(d, B)
  BY BelowClosed
<1>2. \A m \in B : d.parent[m] \in {q} \union B
  <2> DEFINE W == {m \in B : d.parent[m] \in {q} \union B}
  <2>1. d.first[q] \in W \union {Nil}
    BY <1>0, <1>1 DEF Agree
  <2>2. ASSUME NEW m \in W
        PROVE  d.first[m] \in W \union {Nil} /\ d.next[m] \in W \union {Nil}
    <3>1. m \in in /\ d.first[m] \in B \union {Nil} /\ d.next[m] \in B \union {Nil}
      BY <1>1 DEF ClosedIn
    <3> QED
      BY <1>0, <3>1 DEF Agree
  <2>3. B \subseteq W
    BY <2>1, <2>2, BelowLeast
  <2> QED
    BY <2>3
<1>3. \A m \in B : d.prev[m] \in B \union {Nil}
  <2> DEFINE W == {m \in B : d.prev[m] \in B \union {Nil}}
  <2>1. d.first[q] \in W \union {Nil}
    BY <1>0, <1>1 DEF Agree
  <2>2. ASSUME NEW m \in W
        PROVE  d.first[m] \in W \union {Nil} /\ d.next[m] \in W \union {Nil}
    <3>1. m \in in /\ d.first[m] \in B \union {Nil} /\ d.next[m] \in B \union {Nil}
      BY <1>1 DEF ClosedIn
    <3> QED
      BY <1>0, <1>1, <3>1 DEF Agree
  <2>3. B \subseteq W
    BY <2>1, <2>2, BelowLeast
  <2> QED
    BY <2>3
<1> QED
  BY <1>0, <1>2, <1>3

(* A child of q, or of a node below q, is below q. *)
LEMMA BelowComplete ==
  ASSUME NEW d, NEW in, IsForest(d, in), NEW q \in in \union {Doc},
         NEW m \in in, d.parent[m] \in Subtree(d, q)
  PROVE  m \in Below(d, q)
<1>. DEFINE B == Below(d, q)
            S == {x \in in : d.parent[x] \in {q} \union B => x \in B}
<1>0. /\ Typed(d, in) /\ Agree(d, in) /\ Nil \notin in \union {Doc} /\ Reaches(d, in)
      /\ Subtree(d, q) = {q} \union B /\ Doc \notin in
  BY StoreAssumption DEF IsForest, Typed, Subtree
<1>1. B \subseteq in /\ d.first[q] \in B \union {Nil} /\ ClosedIn(d, B)
  BY BelowClosed
<1>2. RootsOf(d, in) \subseteq S
  BY <1>0, <1>1 DEF RootsOf
<1>3. d.first[Doc] \in S \union {Nil}
  BY <1>0, <1>1 DEF Agree, Typed
<1>4. ASSUME NEW x \in S
      PROVE  d.first[x] \in S \union {Nil} /\ d.next[x] \in S \union {Nil}
  <2>1. d.first[x] \in in \union {Nil} /\ d.next[x] \in in \union {Nil}
    BY <1>0 DEF Typed
  <2>2. x \in B => d.first[x] \in B \union {Nil} /\ d.next[x] \in B \union {Nil}
    BY <1>1 DEF ClosedIn
  <2>3. d.first[x] # Nil => d.parent[d.first[x]] = x
    BY <1>0 DEF Agree
  <2>4. d.next[x] # Nil => d.parent[d.next[x]] = d.parent[x]
    BY <1>0 DEF Agree
  <2> QED
    BY <1>1, <2>1, <2>2, <2>3, <2>4
<1>5. in \subseteq S
  <2> HIDE DEF S
  <2>1. S \in SUBSET in
    BY DEF S
  <2> QED
    BY <1>0, <1>2, <1>3, <1>4, <2>1 DEF Reaches, ClosedIn
<1> QED
  BY <1>0, <1>5

(* No node is below itself. *)
LEMMA NotBelowItself ==
  ASSUME NEW d, NEW in, IsForest(d, in), NEW q \in in \union {Doc}
  PROVE  q \notin Below(d, q)
<1>. DEFINE B == Below(d, q)
            S == {x \in in : d.parent[x] \notin {q} \union B}
<1>0. /\ Typed(d, in) /\ Agree(d, in) /\ Nil \notin in \union {Doc} /\ Reaches(d, in)
      /\ Subtree(d, q) = {q} \union B /\ Doc \notin in
  BY StoreAssumption DEF IsForest, Typed, Subtree
<1>1. B \subseteq in /\ \A m \in B : d.parent[m] \in {q} \union B
  BY <1>0, BelowClosed, BelowLooksBack
<1>2. SUFFICES ASSUME q \in B PROVE FALSE
  OBVIOUS
<1>3. q \in in /\ q # Doc /\ q \notin S
  BY <1>0, <1>1, <1>2
<1>4. RootsOf(d, in) \subseteq S
  BY <1>0, <1>1, <1>3 DEF RootsOf
<1>5. d.first[Doc] \in S \union {Nil}
  BY <1>0, <1>1, <1>3 DEF Agree, Typed
<1>6. ASSUME NEW x \in S
      PROVE  d.first[x] \in S \union {Nil} /\ d.next[x] \in S \union {Nil}
  <2>1. d.first[x] \in in \union {Nil} /\ d.next[x] \in in \union {Nil}
    BY <1>0 DEF Typed
  <2>2. x \notin B
    BY <1>1
  <2>3. d.first[x] # Nil => d.parent[d.first[x]] = x
    BY <1>0 DEF Agree
  <2>4. d.next[x] # Nil => d.parent[d.next[x]] = d.parent[x]
    BY <1>0 DEF Agree
  <2> QED
    BY <1>3, <2>1, <2>2, <2>3, <2>4
<1>7. in \subseteq S
  <2> HIDE DEF S
  <2>1. S \in SUBSET in
    BY DEF S
  <2> QED
    BY <1>0, <1>4, <1>5, <1>6, <2>1 DEF Reaches, ClosedIn
<1> QED
  BY <1>3, <1>7
-----------------------------------------------------------------------------
(* Unlink, pointer by pointer. *)

(* Each pointer after XMLNode::Unlink: the neighbours now point past c.     *)
LEMMA UnlinkIs ==
  ASSUME NEW d \in Stores, NEW c \in Nodes, d.parent[c] \in Parents
  PROVE  LET e == Unlink(d, c)
             p == d.parent[c]
         IN  /\ e \in Stores
             /\ \A m \in Nodes : e.parent[m] = IF m = c THEN Nil ELSE d.parent[m]
             /\ \A m \in Nodes : e.next[m] = IF m = c THEN Nil
                                             ELSE IF m = d.prev[c] THEN d.next[c]
                                             ELSE d.next[m]
             /\ \A m \in Nodes : e.prev[m] = IF m = c THEN Nil
                                             ELSE IF m = d.next[c] THEN d.prev[c]
                                             ELSE d.prev[m]
             /\ \A m \in Parents : e.first[m] = IF m = p /\ d.first[p] = c THEN d.next[c]
                                                ELSE d.first[m]
             /\ \A m \in Parents : e.last[m] = IF m = p /\ d.last[p] = c THEN d.prev[c]
                                               ELSE d.last[m]
             /\ e.unlinked = d.unlinked /\ e.untracked = d.untracked
<1>. DEFINE e == Unlink(d, c)
            p == d.parent[c]
            b == d.prev[c]
            a == d.next[c]
            nxt == [With(d.next, b, a) EXCEPT ![c] = Nil]
            prv == [With(d.prev, a, b) EXCEPT ![c] = Nil]
            par == [d.parent EXCEPT ![c] = Nil]
            fst == [d.first EXCEPT ![p] = IF @ = c THEN a ELSE @]
            lst == [d.last EXCEPT ![p] = IF @ = c THEN b ELSE @]
<1>0. /\ d.parent \in [Nodes -> Parents \union {Nil}]
      /\ d.prev \in [Nodes -> Nodes \union {Nil}]
      /\ d.next \in [Nodes -> Nodes \union {Nil}]
      /\ d.first \in [Parents -> Nodes \union {Nil}]
      /\ d.last \in [Parents -> Nodes \union {Nil}]
      /\ d.unlinked \in Seq(Nodes) /\ d.untracked \in Int
  BY DEF Stores
<1>1. a \in Nodes \union {Nil} /\ b \in Nodes \union {Nil} /\ Nil \notin Nodes
  BY <1>0, StoreAssumption
<1>2. /\ With(d.next, b, a) \in [Nodes -> Nodes \union {Nil}]
      /\ \A m \in Nodes : With(d.next, b, a)[m] = IF m = b THEN a ELSE d.next[m]
  BY <1>0, <1>1 DEF With
<1>3. /\ With(d.prev, a, b) \in [Nodes -> Nodes \union {Nil}]
      /\ \A m \in Nodes : With(d.prev, a, b)[m] = IF m = a THEN b ELSE d.prev[m]
  BY <1>0, <1>1 DEF With
<1>4. /\ nxt \in [Nodes -> Nodes \union {Nil}]
      /\ \A m \in Nodes : nxt[m] = IF m = c THEN Nil ELSE IF m = b THEN a ELSE d.next[m]
  <2> HIDE DEF a, b
  <2> QED BY <1>2
<1>5. /\ prv \in [Nodes -> Nodes \union {Nil}]
      /\ \A m \in Nodes : prv[m] = IF m = c THEN Nil ELSE IF m = a THEN b ELSE d.prev[m]
  <2> HIDE DEF a, b
  <2> QED BY <1>3
<1>6. /\ par \in [Nodes -> Parents \union {Nil}]
      /\ \A m \in Nodes : par[m] = IF m = c THEN Nil ELSE d.parent[m]
  BY <1>0
<1>7. /\ fst \in [Parents -> Nodes \union {Nil}]
      /\ \A m \in Parents : fst[m] = IF m = p /\ d.first[p] = c THEN a ELSE d.first[m]
  BY <1>0, <1>1
<1>8. /\ lst \in [Parents -> Nodes \union {Nil}]
      /\ \A m \in Parents : lst[m] = IF m = p /\ d.last[p] = c THEN b ELSE d.last[m]
  BY <1>0, <1>1
<1>9. /\ e.parent = par
      /\ e.prev = prv
      /\ e.next = nxt
      /\ e.first = fst
      /\ e.last = lst
      /\ e.unlinked = d.unlinked
      /\ e.untracked = d.untracked
  BY DEF Unlink, Stores
<1>10. e \in Stores
  BY <1>0, <1>4, <1>5, <1>6, <1>7, <1>8 DEF Unlink, Stores
<1> QED
  <2> HIDE DEF par, prv, nxt, fst, lst
  <2> QED BY <1>4, <1>5, <1>6, <1>7, <1>8, <1>9, <1>10
(* No node is its own sibling. *)
LEMMA NotNextToItself ==
  ASSUME NEW d, NEW in, IsForest(d, in), NEW c \in in
  PROVE  d.next[c] # c /\ d.prev[c] # c
<1>. DEFINE S == in \ {c}
<1>0. /\ Typed(d, in) /\ Agree(d, in) /\ Nil \notin in \union {Doc} /\ Reaches(d, in)
  BY StoreAssumption DEF IsForest, Typed
<1>1. SUFFICES ASSUME d.next[c] = c PROVE FALSE
  BY <1>0 DEF Agree
<1>2. d.prev[c] = c /\ d.parent[c] # Nil
  BY <1>0, <1>1 DEF Agree
<1>3. RootsOf(d, in) \subseteq S
  BY <1>2 DEF RootsOf
<1>4. \A q \in in \union {Doc} : d.first[q] \in S \union {Nil}
  BY <1>0, <1>2 DEF Agree, Typed
<1>5. \A m \in S : d.next[m] \in S \union {Nil}
  BY <1>0, <1>2 DEF Agree, Typed
<1>6. S \in SUBSET in /\ ClosedIn(d, S) /\ d.first[Doc] \in S \union {Nil}
  BY <1>4, <1>5 DEF ClosedIn
<1>7. in \subseteq S
  <2> HIDE DEF S
  <2> QED BY <1>0, <1>3, <1>6 DEF Reaches
<1> QED
  BY <1>7

(* Unlinking leaves pointers that agree. *)
LEMMA UnlinkAgrees ==
  ASSUME NEW d, NEW in, IsForest(d, in), NEW c \in in, d.parent[c] # Nil
  PROVE  /\ Unlink(d, c) \in Stores
         /\ Typed(Unlink(d, c), in)
         /\ Agree(Unlink(d, c), in)
<1>. DEFINE e == Unlink(d, c)
            p == d.parent[c]
            b == d.prev[c]
            a == d.next[c]
<1>0. /\ d \in Stores /\ Typed(d, in) /\ Agree(d, in) /\ c \in Nodes
      /\ Doc \notin Nodes /\ Nil \notin Nodes /\ Nil # Doc /\ in \subseteq Nodes
  BY StoreAssumption DEF IsForest, Typed
<1>1. p \in in \union {Doc} /\ p \in Parents
  BY <1>0 DEF Typed, Parents
<1>2. /\ e \in Stores
      /\ \A m \in Nodes : e.parent[m] = IF m = c THEN Nil ELSE d.parent[m]
      /\ \A m \in Nodes : e.next[m] = IF m = c THEN Nil ELSE IF m = b THEN a ELSE d.next[m]
      /\ \A m \in Nodes : e.prev[m] = IF m = c THEN Nil ELSE IF m = a THEN b ELSE d.prev[m]
      /\ \A m \in Parents : e.first[m] = IF m = p /\ d.first[p] = c THEN a ELSE d.first[m]
      /\ \A m \in Parents : e.last[m] = IF m = p /\ d.last[p] = c THEN b ELSE d.last[m]
  BY <1>0, <1>1, UnlinkIs
<1>3. a \in in \union {Nil} /\ b \in in \union {Nil}
  BY <1>0 DEF Typed
<1>4. Typed(e, in)
  <2> HIDE DEF e, a, b
  <2>1. \A n \in in : e.parent[n] \in in \union {Doc, Nil}
    BY <1>0, <1>2 DEF Typed
  <2>2. \A n \in in : e.prev[n] \in in \union {Nil} /\ e.next[n] \in in \union {Nil}
    BY <1>0, <1>2, <1>3 DEF Typed
  <2>3. \A q \in in \union {Doc} : e.first[q] \in in \union {Nil} /\ e.last[q] \in in \union {Nil}
    BY <1>0, <1>2, <1>3 DEF Typed, Parents
  <2>4. ASSUME NEW n \in Nodes \ in
        PROVE  /\ e.parent[n] = Nil /\ e.prev[n] = Nil /\ e.next[n] = Nil
               /\ e.first[n] = Nil /\ e.last[n] = Nil
    <3>1. n # c /\ n # a /\ n # b /\ n # p /\ n \in Parents
      BY <1>0, <1>1, <1>3 DEF Parents
    <3> QED
      BY <1>0, <1>2, <3>1 DEF Typed
  <2> QED
    BY <1>0, <2>1, <2>2, <2>3, <2>4 DEF Typed
<1>5. Agree(e, in)
  <2>0. /\ a # Nil => d.prev[a] = c /\ d.parent[a] = p
        /\ b # Nil => d.next[b] = c /\ d.parent[b] = p
        /\ a = Nil <=> d.last[p] = c
        /\ b = Nil <=> d.first[p] = c
        /\ a # c /\ b # c
        /\ p \in Parents
    <3>1. a # c /\ b # c
      BY NotNextToItself
    <3>2. a # Nil => d.prev[a] = c /\ d.parent[a] = p
      BY <1>0 DEF Agree
    <3>3. b # Nil => d.next[b] = c /\ d.parent[b] = p
      BY <1>0 DEF Agree
    <3>4. /\ a = Nil <=> d.last[p] = c
          /\ b = Nil <=> d.first[p] = c
      BY <1>0 DEF Agree
    <3> QED
      BY <1>1, <3>1, <3>2, <3>3, <3>4
  <2>00. in \subseteq Parents /\ Doc \in Parents
    BY <1>0 DEF Parents
  <2> HIDE DEF e, a, b, p
  <2>1. ASSUME NEW n \in in, e.next[n] # Nil
        PROVE  e.prev[e.next[n]] = n /\ e.parent[e.next[n]] = e.parent[n]
    <3>1. n # c /\ n \in Nodes
      BY <1>0, <1>2, <2>1
    <3>2. CASE n = b
      <4>1. e.next[n] = a /\ a \in Nodes /\ a # c
        BY <1>0, <1>2, <1>3, <2>0, <2>1, <3>1, <3>2
      <4>2. e.prev[a] = b /\ e.parent[a] = d.parent[a] /\ e.parent[b] = d.parent[b]
        BY <1>2, <3>1, <3>2, <4>1
      <4> QED
        BY <1>0, <2>0, <3>1, <3>2, <4>1, <4>2
    <3>3. CASE n # b
      <4>1. e.next[n] = d.next[n] /\ d.next[n] # Nil
        BY <1>2, <2>1, <3>1, <3>3
      <4>2. /\ d.prev[d.next[n]] = n /\ d.parent[d.next[n]] = d.parent[n]
            /\ d.next[n] \in Nodes
        BY <1>0, <4>1 DEF Agree, Typed
      <4>3. d.next[n] # c
        BY <3>3, <4>2 DEF b
      <4>4. d.next[n] # a
        BY <2>0, <3>1, <4>1, <4>2
      <4>5. e.prev[d.next[n]] = d.prev[d.next[n]]
        BY <1>2, <4>2, <4>3, <4>4
      <4>6. e.parent[d.next[n]] = d.parent[d.next[n]] /\ e.parent[n] = d.parent[n]
        BY <1>2, <3>1, <4>2, <4>3
      <4> QED
        BY <4>1, <4>2, <4>5, <4>6
    <3> QED
      BY <3>2, <3>3
  <2>2. ASSUME NEW n \in in, e.prev[n] # Nil
        PROVE  e.next[e.prev[n]] = n /\ e.parent[e.prev[n]] = e.parent[n]
    <3>1. n # c /\ n \in Nodes
      BY <1>0, <1>2, <2>2
    <3>2. CASE n = a
      <4>1. e.prev[n] = b /\ b \in Nodes /\ b # c
        BY <1>0, <1>2, <1>3, <2>0, <2>2, <3>1, <3>2
      <4>2. e.next[b] = a /\ e.parent[a] = d.parent[a] /\ e.parent[b] = d.parent[b]
        BY <1>2, <3>1, <3>2, <4>1
      <4> QED
        BY <1>0, <2>0, <3>1, <3>2, <4>1, <4>2
    <3>3. CASE n # a
      <4>1. e.prev[n] = d.prev[n] /\ d.prev[n] # Nil
        BY <1>2, <2>2, <3>1, <3>3
      <4>2. /\ d.next[d.prev[n]] = n /\ d.parent[d.prev[n]] = d.parent[n]
            /\ d.prev[n] \in Nodes
        BY <1>0, <4>1 DEF Agree, Typed
      <4>3. d.prev[n] # c
        BY <3>3, <4>2 DEF a
      <4>4. d.prev[n] # b
        BY <2>0, <3>1, <4>1, <4>2
      <4>5. e.next[d.prev[n]] = d.next[d.prev[n]]
        BY <1>2, <4>2, <4>3, <4>4
      <4>6. e.parent[d.prev[n]] = d.parent[d.prev[n]] /\ e.parent[n] = d.parent[n]
        BY <1>2, <3>1, <4>2, <4>3
      <4> QED
        BY <4>1, <4>2, <4>5, <4>6
    <3> QED
      BY <3>2, <3>3
  <2>3. \A n \in in : e.parent[n] = Nil => e.next[n] = Nil /\ e.prev[n] = Nil
    BY <1>0, <1>1, <1>2, <1>3, <2>0 DEF Agree, Typed, p
  <2>4. ASSUME NEW n \in in, e.parent[n] # Nil
        PROVE  e.next[n] = Nil <=> e.last[e.parent[n]] = n
    <3>1. n # c /\ e.parent[n] = d.parent[n] /\ d.parent[n] \in Parents /\ n \in Nodes
      BY <1>0, <1>2, <2>4, <2>00 DEF Typed
    <3>2. d.next[n] = Nil <=> d.last[d.parent[n]] = n
      BY <1>0, <3>1, <2>4 DEF Agree
    <3>3. CASE n = b
      BY <1>0, <1>2, <1>3, <2>0, <3>1, <3>2, <3>3
    <3>4. CASE n # b
      BY <1>0, <1>2, <1>3, <2>0, <3>1, <3>2, <3>4 DEF p, b, Agree, Typed
    <3> QED
      BY <3>3, <3>4
  <2>5. ASSUME NEW n \in in, e.parent[n] # Nil
        PROVE  e.prev[n] = Nil <=> e.first[e.parent[n]] = n
    <3>1. n # c /\ e.parent[n] = d.parent[n] /\ d.parent[n] \in Parents /\ n \in Nodes
      BY <1>0, <1>2, <2>5, <2>00 DEF Typed
    <3>2. d.prev[n] = Nil <=> d.first[d.parent[n]] = n
      BY <1>0, <3>1, <2>5 DEF Agree
    <3>3. CASE n = a
      BY <1>0, <1>2, <1>3, <2>0, <3>1, <3>2, <3>3
    <3>4. CASE n # a
      BY <1>0, <1>2, <1>3, <2>0, <3>1, <3>2, <3>4 DEF p, a, Agree, Typed
    <3> QED
      BY <3>3, <3>4
  <2>6. ASSUME NEW q \in in \union {Doc}, e.first[q] # Nil
        PROVE  e.parent[e.first[q]] = q
    <3>1. q \in Parents /\ d.first[q] \in in \union {Nil}
      BY <1>0, <2>00 DEF Typed
    <3>2. d.first[q] # Nil => d.parent[d.first[q]] = q
      BY <1>0 DEF Agree
    <3> QED
      BY <1>0, <1>2, <1>3, <2>0, <2>6, <3>1, <3>2 DEF p
  <2>7. ASSUME NEW q \in in \union {Doc}, e.last[q] # Nil
        PROVE  e.parent[e.last[q]] = q
    <3>1. q \in Parents /\ d.last[q] \in in \union {Nil}
      BY <1>0, <2>00 DEF Typed
    <3>2. d.last[q] # Nil => d.parent[d.last[q]] = q
      BY <1>0 DEF Agree
    <3> QED
      BY <1>0, <1>2, <1>3, <2>0, <2>7, <3>1, <3>2 DEF p
  <2>8. ASSUME NEW q \in in \union {Doc}
        PROVE  e.first[q] = Nil <=> e.last[q] = Nil
    <3>1. q \in Parents /\ (d.first[q] = Nil <=> d.last[q] = Nil)
      BY <1>0, <2>00 DEF Agree
    <3> QED
      BY <1>0, <1>2, <1>3, <2>0, <3>1
  <2> QED
    BY <2>1, <2>2, <2>3, <2>4, <2>5, <2>6, <2>7, <2>8 DEF Agree
<1> QED
  BY <1>2, <1>4, <1>5
(* An unlinked node and what was after it are still come to: the node is a  *)
(* root now, and the sibling before it, or its parent, points behind it.    *)
LEMMA UnlinkKeeps ==
  ASSUME NEW d, NEW in, IsForest(d, in), NEW c \in in, d.parent[c] # Nil
  PROVE  /\ IsForest(Unlink(d, c), in)
         /\ RootsOf(Unlink(d, c), in) = RootsOf(d, in) \union {c}
         /\ Unlink(d, c).unlinked = d.unlinked
         /\ Unlink(d, c).untracked = d.untracked
<1>. DEFINE e == Unlink(d, c)
            p == d.parent[c]
            b == d.prev[c]
            a == d.next[c]
<1>0. /\ d \in Stores /\ Typed(d, in) /\ Agree(d, in) /\ c \in Nodes /\ Reaches(d, in)
      /\ Doc \notin Nodes /\ Nil \notin Nodes /\ Nil # Doc /\ in \subseteq Nodes
  BY StoreAssumption DEF IsForest, Typed
<1>1. p \in in \union {Doc} /\ p \in Parents /\ in \subseteq Parents /\ Doc \in Parents
  BY <1>0 DEF Typed, Parents
<1>2. /\ \A m \in Nodes : e.parent[m] = IF m = c THEN Nil ELSE d.parent[m]
      /\ \A m \in Nodes : e.next[m] = IF m = c THEN Nil ELSE IF m = b THEN a ELSE d.next[m]
      /\ \A m \in Parents : e.first[m] = IF m = p /\ d.first[p] = c THEN a ELSE d.first[m]
      /\ e.unlinked = d.unlinked /\ e.untracked = d.untracked
  BY <1>0, <1>1, UnlinkIs
<1>3. a \in in \union {Nil} /\ b \in in \union {Nil} /\ a # c /\ b # c
  BY <1>0, NotNextToItself DEF Typed
<1>4. RootsOf(e, in) = RootsOf(d, in) \union {c}
  <2> HIDE DEF e
  <2> QED BY <1>0, <1>2 DEF RootsOf
<1>5. ASSUME NEW S \in SUBSET in,
             RootsOf(e, in) \subseteq S,
             e.first[Doc] \in S \union {Nil},
             ClosedIn(e, S)
      PROVE  in \subseteq S
  <2>. DEFINE q == IF b = Nil THEN p ELSE b
  <2> HIDE DEF e, a, b, p
  <2>1. c \in S /\ RootsOf(d, in) \subseteq S \ {c}
    BY <1>0, <1>4, <1>5 DEF RootsOf
  <2>2. \A m \in S : e.first[m] \in S \union {Nil} /\ e.next[m] \in S \union {Nil}
    BY <1>5 DEF ClosedIn
  <2>3. \A m \in in \union {Doc} : d.first[m] = c => m = p /\ b = Nil
    BY <1>0 DEF Agree, p, b
  <2>4. \A m \in in : d.next[m] = c => m = b
    BY <1>0 DEF Agree, b
  <2>5. q \in S \/ q = Doc
    <3> SUFFICES ASSUME q \notin S, q # Doc PROVE FALSE
      OBVIOUS
    <3>1. d.first[Doc] \in (S \ {c}) \union {Nil}
      BY <1>0, <1>1, <1>2, <1>5, <2>3
    <3>2. ASSUME NEW m \in S \ {c}
          PROVE  /\ d.first[m] \in (S \ {c}) \union {Nil}
                 /\ d.next[m] \in (S \ {c}) \union {Nil}
      <4>1. m \in in /\ m \in Parents /\ m \in Nodes /\ m # c /\ m # q
        BY <1>0, <1>1
      <4>2. d.first[m] # c /\ d.next[m] # c
        BY <1>0, <2>3, <2>4, <4>1
      <4>3. d.first[m] = e.first[m]
        BY <1>2, <4>1, <4>2
      <4>4. m # b
        BY <1>0, <4>1
      <4>5. d.next[m] = e.next[m]
        BY <1>2, <4>1, <4>4
      <4> QED
        BY <2>2, <4>2, <4>3, <4>5
    <3>3. S \ {c} \in SUBSET in /\ ClosedIn(d, S \ {c})
      BY <3>2 DEF ClosedIn
    <3> QED
      BY <1>0, <2>1, <3>1, <3>3 DEF Reaches
  <2>6. a \in S \union {Nil}
    <3>1. CASE b = Nil
      <4>1. d.first[p] = c
        BY <1>0, <3>1 DEF Agree, p, b
      <4> QED
        BY <1>1, <1>2, <1>5, <2>2, <2>5, <3>1, <4>1
    <3>2. CASE b # Nil
      <4>1. b \in Nodes /\ b # Doc /\ b \in S
        BY <1>0, <1>3, <2>5, <3>2
      <4> QED
        BY <1>2, <1>3, <2>2, <4>1
    <3> QED
      BY <3>1, <3>2
  <2>7. d.first[Doc] \in S \union {Nil}
    BY <1>0, <1>1, <1>2, <1>5, <2>1
  <2>8. ASSUME NEW m \in S
        PROVE  d.first[m] \in S \union {Nil} /\ d.next[m] \in S \union {Nil}
    <3>1. m \in in /\ m \in Parents /\ m \in Nodes
      BY <1>0, <1>1
    <3>2. d.first[m] \in S \union {Nil}
      BY <1>2, <2>1, <2>2, <3>1
    <3>3. m # c /\ m # b => d.next[m] = e.next[m]
      BY <1>2, <3>1
    <3>4. m = b => d.next[m] = c
      BY <1>0, <1>3, <3>1 DEF Agree, b
    <3>5. m = c => d.next[m] = a
      BY DEF a
    <3> QED
      BY <2>1, <2>2, <2>6, <3>2, <3>3, <3>4, <3>5
  <2> QED
    BY <1>0, <2>1, <2>7, <2>8 DEF Reaches, ClosedIn
<1>6. Reaches(e, in)
  <2> HIDE DEF e
  <2> QED BY <1>5 DEF Reaches
<1> QED
  BY <1>2, <1>4, <1>6, UnlinkAgrees DEF IsForest

(* What is below it stays below it. *)
LEMMA UnlinkKeepsBelow ==
  ASSUME NEW d, NEW in, IsForest(d, in), NEW c \in in, d.parent[c] # Nil
  PROVE  Below(Unlink(d, c), c) = Below(d, c)
<1>. DEFINE e == Unlink(d, c)
            p == d.parent[c]
            b == d.prev[c]
            a == d.next[c]
<1>0. /\ d \in Stores /\ Typed(d, in) /\ Agree(d, in) /\ c \in Nodes /\ IsForest(e, in)
      /\ Doc \notin Nodes /\ Nil \notin Nodes /\ Nil # Doc /\ in \subseteq Nodes
  BY StoreAssumption, UnlinkKeeps DEF IsForest, Typed
<1>1. p \in in \union {Doc} /\ p \in Parents /\ in \subseteq Parents
  BY <1>0 DEF Typed, Parents
<1>2. /\ \A m \in Nodes : e.parent[m] = IF m = c THEN Nil ELSE d.parent[m]
      /\ \A m \in Nodes : e.next[m] = IF m = c THEN Nil ELSE IF m = b THEN a ELSE d.next[m]
      /\ \A m \in Parents : e.first[m] = IF m = p /\ d.first[p] = c THEN a ELSE d.first[m]
  BY <1>0, <1>1, UnlinkIs
<1>3. p \notin Below(d, c) /\ p # c
  <2>1. c \notin Below(d, c)
    BY NotBelowItself
  <2> QED
    BY <2>1, BelowComplete DEF Subtree
<1>4. b # Nil => b \in in /\ b # c /\ d.parent[b] = p
  BY <1>0, NotNextToItself DEF Typed, Agree
<1>5. b \notin Below(d, c)
  BY <1>0, <1>1, <1>3, <1>4, BelowLooksBack, BelowClosed DEF Subtree
<1>6. ASSUME NEW m \in Below(d, c)
      PROVE  e.first[m] = d.first[m] /\ e.next[m] = d.next[m]
  <2>1. m \in in /\ m \in Nodes /\ m \in Parents /\ m # p /\ m # b /\ m # c
    BY <1>0, <1>1, <1>3, <1>5, NotBelowItself, BelowClosed
  <2> QED
    BY <1>2, <2>1
<1>7. e.first[c] = d.first[c]
  BY <1>0, <1>1, <1>2, <1>3
<1>8. Below(e, c) \subseteq Below(d, c)
  <2> HIDE DEF e
  <2>1. /\ d.first[c] \in Below(d, c) \union {Nil}
        /\ \A m \in Below(d, c) : d.first[m] \in Below(d, c) \union {Nil}
                                  /\ d.next[m] \in Below(d, c) \union {Nil}
    BY BelowClosed DEF ClosedIn
  <2> QED
    BY <1>0, <1>6, <1>7, <2>1, BelowLeast
<1>9. Below(d, c) \subseteq Below(e, c)
  <2> HIDE DEF e
  <2>1. /\ e.first[c] \in Below(e, c) \union {Nil}
        /\ \A m \in Below(e, c) : e.first[m] \in Below(e, c) \union {Nil}
                                  /\ e.next[m] \in Below(e, c) \union {Nil}
    BY <1>0, BelowClosed DEF ClosedIn
  <2> QED
    BY <1>6, <1>7, <2>1, BelowLeast
<1> QED
  BY <1>8, <1>9
-----------------------------------------------------------------------------
(* LinkedBetween, pointer by pointer. *)

(* b and a are neighbours among the children of p, or its ends. *)
Gap(d, in, p, b, a) ==
  /\ b \in in \union {Nil} /\ a \in in \union {Nil}
  /\ b = Nil => a = d.first[p]
  /\ b # Nil => d.parent[b] = p /\ d.next[b] = a
  /\ a = Nil => b = d.last[p]
  /\ a # Nil => d.parent[a] = p /\ d.prev[a] = b

(* e is d with n between b and a. *)
IsBetween(d, p, b, n, a, e) ==
  /\ e \in Stores
  /\ \A m \in Nodes : e.parent[m] = IF m = n THEN p ELSE d.parent[m]
  /\ \A m \in Nodes : e.next[m] = IF m = n THEN a ELSE IF m = b THEN n ELSE d.next[m]
  /\ \A m \in Nodes : e.prev[m] = IF m = n THEN b ELSE IF m = a THEN n ELSE d.prev[m]
  /\ \A m \in Parents : e.first[m] = IF m = p /\ b = Nil THEN n ELSE d.first[m]
  /\ \A m \in Parents : e.last[m] = IF m = p /\ a = Nil THEN n ELSE d.last[m]
  /\ e.unlinked = d.unlinked /\ e.untracked = d.untracked

(* Each pointer after an insertion between two neighbours. *)
LEMMA LinkedBetweenIs ==
  ASSUME NEW d \in Stores, NEW p \in Parents, NEW b \in Nodes \union {Nil},
         NEW n \in Nodes, NEW a \in Nodes \union {Nil}
  PROVE  IsBetween(d, p, b, n, a, LinkedBetween(d, p, b, n, a))
<1>. DEFINE e == LinkedBetween(d, p, b, n, a)
            nxt == [With(d.next, b, n) EXCEPT ![n] = a]
            prv == [With(d.prev, a, n) EXCEPT ![n] = b]
            par == [d.parent EXCEPT ![n] = p]
            fst == [d.first EXCEPT ![p] = IF b = Nil THEN n ELSE @]
            lst == [d.last EXCEPT ![p] = IF a = Nil THEN n ELSE @]
<1>0. /\ d.parent \in [Nodes -> Parents \union {Nil}]
      /\ d.prev \in [Nodes -> Nodes \union {Nil}]
      /\ d.next \in [Nodes -> Nodes \union {Nil}]
      /\ d.first \in [Parents -> Nodes \union {Nil}]
      /\ d.last \in [Parents -> Nodes \union {Nil}]
      /\ d.unlinked \in Seq(Nodes) /\ d.untracked \in Int
      /\ Nil \notin Nodes
  BY StoreAssumption DEF Stores
<1>1. /\ With(d.next, b, n) \in [Nodes -> Nodes \union {Nil}]
      /\ \A m \in Nodes : With(d.next, b, n)[m] = IF m = b THEN n ELSE d.next[m]
  BY <1>0 DEF With
<1>2. /\ With(d.prev, a, n) \in [Nodes -> Nodes \union {Nil}]
      /\ \A m \in Nodes : With(d.prev, a, n)[m] = IF m = a THEN n ELSE d.prev[m]
  BY <1>0 DEF With
<1>3. /\ nxt \in [Nodes -> Nodes \union {Nil}]
      /\ \A m \in Nodes : nxt[m] = IF m = n THEN a ELSE IF m = b THEN n ELSE d.next[m]
  BY <1>1
<1>4. /\ prv \in [Nodes -> Nodes \union {Nil}]
      /\ \A m \in Nodes : prv[m] = IF m = n THEN b ELSE IF m = a THEN n ELSE d.prev[m]
  BY <1>2
<1>5. /\ par \in [Nodes -> Parents \union {Nil}]
      /\ \A m \in Nodes : par[m] = IF m = n THEN p ELSE d.parent[m]
  BY <1>0
<1>6. /\ fst \in [Parents -> Nodes \union {Nil}]
      /\ \A m \in Parents : fst[m] = IF m = p /\ b = Nil THEN n ELSE d.first[m]
  BY <1>0
<1>7. /\ lst \in [Parents -> Nodes \union {Nil}]
      /\ \A m \in Parents : lst[m] = IF m = p /\ a = Nil THEN n ELSE d.last[m]
  BY <1>0
<1>8. /\ e.parent = par
      /\ e.prev = prv
      /\ e.next = nxt
      /\ e.first = fst
      /\ e.last = lst
      /\ e.unlinked = d.unlinked
      /\ e.untracked = d.untracked
  BY DEF LinkedBetween, Stores
<1>9. e \in Stores
  BY <1>0, <1>3, <1>4, <1>5, <1>6, <1>7 DEF LinkedBetween, Stores
<1> QED
  <2> HIDE DEF par, prv, nxt, fst, lst
  <2> QED BY <1>3, <1>4, <1>5, <1>6, <1>7, <1>8, <1>9 DEF IsBetween

(* Inserting a root between neighbours leaves pointers that agree.          *)
LEMMA LinkedBetweenAgrees ==
  ASSUME NEW d, NEW in, IsForest(d, in), NEW n \in in, d.parent[n] = Nil,
         NEW p \in in \union {Doc}, NEW b, NEW a, Gap(d, in, p, b, a)
  PROVE  /\ LinkedBetween(d, p, b, n, a) \in Stores
         /\ Typed(LinkedBetween(d, p, b, n, a), in)
         /\ Agree(LinkedBetween(d, p, b, n, a), in)
<1>. DEFINE e == LinkedBetween(d, p, b, n, a)
<1>0. /\ d \in Stores /\ Typed(d, in) /\ Agree(d, in) /\ n \in Nodes
      /\ Doc \notin Nodes /\ Nil \notin Nodes /\ Nil # Doc /\ in \subseteq Nodes
      /\ p \in Parents /\ in \subseteq Parents /\ Doc \in Parents
  BY StoreAssumption DEF IsForest, Typed, Parents
<1>1. /\ b \in in \union {Nil} /\ a \in in \union {Nil} /\ b # n /\ a # n
      /\ b = Nil => a = d.first[p]
      /\ b # Nil => d.parent[b] = p /\ d.next[b] = a
      /\ a = Nil => b = d.last[p]
      /\ a # Nil => d.parent[a] = p /\ d.prev[a] = b
      /\ d.next[n] = Nil /\ d.prev[n] = Nil
  BY <1>0 DEF Gap, Agree
<1>2. /\ e \in Stores
      /\ \A m \in Nodes : e.parent[m] = IF m = n THEN p ELSE d.parent[m]
      /\ \A m \in Nodes : e.next[m] = IF m = n THEN a ELSE IF m = b THEN n ELSE d.next[m]
      /\ \A m \in Nodes : e.prev[m] = IF m = n THEN b ELSE IF m = a THEN n ELSE d.prev[m]
      /\ \A m \in Parents : e.first[m] = IF m = p /\ b = Nil THEN n ELSE d.first[m]
      /\ \A m \in Parents : e.last[m] = IF m = p /\ a = Nil THEN n ELSE d.last[m]
  <2>1. b \in Nodes \union {Nil}
    BY <1>0, <1>1
  <2>2. a \in Nodes \union {Nil}
    BY <1>0, <1>1
  <2>3. IsBetween(d, p, b, n, a, e)
    BY <1>0, <2>1, <2>2, LinkedBetweenIs
  <2> QED
    BY <2>3 DEF IsBetween
<1>3. Typed(e, in)
  <2> HIDE DEF e
  <2>1. \A m \in in : e.parent[m] \in in \union {Doc, Nil}
    BY <1>0, <1>2 DEF Typed
  <2>2. \A m \in in : e.prev[m] \in in \union {Nil} /\ e.next[m] \in in \union {Nil}
    BY <1>0, <1>1, <1>2 DEF Typed
  <2>3. \A q \in in \union {Doc} : e.first[q] \in in \union {Nil} /\ e.last[q] \in in \union {Nil}
    BY <1>0, <1>1, <1>2 DEF Typed
  <2>4. ASSUME NEW m \in Nodes \ in
        PROVE  /\ e.parent[m] = Nil /\ e.prev[m] = Nil /\ e.next[m] = Nil
               /\ e.first[m] = Nil /\ e.last[m] = Nil
    <3>1. m # n /\ m # a /\ m # b /\ m # p /\ m \in Parents
      BY <1>0, <1>1 DEF Parents
    <3> QED
      BY <1>0, <1>2, <3>1 DEF Typed
  <2> QED
    BY <1>0, <2>1, <2>2, <2>3, <2>4 DEF Typed
<1>4. Agree(e, in)
  <2> HIDE DEF e
  <2>1. ASSUME NEW m \in in, e.next[m] # Nil
        PROVE  e.prev[e.next[m]] = m /\ e.parent[e.next[m]] = e.parent[m]
    <3>1. CASE m = n
      BY <1>0, <1>1, <1>2, <2>1, <3>1
    <3>2. CASE m = b
      BY <1>0, <1>1, <1>2, <2>1, <3>2
    <3>3. CASE m # n /\ m # b
      <4>1. e.next[m] = d.next[m] /\ d.next[m] \in Nodes /\ d.next[m] # Nil /\ m \in Nodes
        BY <1>0, <1>2, <2>1, <3>3 DEF Typed
      <4>2. d.prev[d.next[m]] = m /\ d.parent[d.next[m]] = d.parent[m]
        BY <1>0, <4>1 DEF Agree
      <4>3. d.next[m] # n /\ d.next[m] # a
        BY <1>0, <1>1, <3>3, <4>1, <4>2
      <4> QED
        BY <1>2, <3>3, <4>1, <4>2, <4>3
    <3> QED
      BY <3>1, <3>2, <3>3
  <2>2. ASSUME NEW m \in in, e.prev[m] # Nil
        PROVE  e.next[e.prev[m]] = m /\ e.parent[e.prev[m]] = e.parent[m]
    <3>1. CASE m = n
      BY <1>0, <1>1, <1>2, <2>2, <3>1
    <3>2. CASE m = a
      BY <1>0, <1>1, <1>2, <2>2, <3>2
    <3>3. CASE m # n /\ m # a
      <4>1. e.prev[m] = d.prev[m] /\ d.prev[m] \in Nodes /\ d.prev[m] # Nil /\ m \in Nodes
        BY <1>0, <1>2, <2>2, <3>3 DEF Typed
      <4>2. d.next[d.prev[m]] = m /\ d.parent[d.prev[m]] = d.parent[m]
        BY <1>0, <4>1 DEF Agree
      <4>3. d.prev[m] # n /\ d.prev[m] # b
        BY <1>0, <1>1, <3>3, <4>1, <4>2
      <4> QED
        BY <1>2, <3>3, <4>1, <4>2, <4>3
    <3> QED
      BY <3>1, <3>2, <3>3
  <2>3. ASSUME NEW m \in in, e.parent[m] = Nil
        PROVE  e.next[m] = Nil /\ e.prev[m] = Nil
    <3>1. m \in Nodes /\ m # n /\ d.parent[m] = Nil
      BY <1>0, <1>2, <2>3
    <3>2. m # a /\ m # b
      BY <1>0, <1>1, <3>1
    <3> QED
      BY <1>0, <1>2, <3>1, <3>2 DEF Agree
  <2>4. ASSUME NEW m \in in, e.parent[m] # Nil
        PROVE  e.next[m] = Nil <=> e.last[e.parent[m]] = m
    <3>1. CASE m = n
      <4>1. d.last[p] # n
        BY <1>0, <1>1 DEF Agree
      <4> QED
        BY <1>0, <1>1, <1>2, <3>1, <4>1
    <3>2. CASE m # n
      <4>1. m \in Nodes /\ e.parent[m] = d.parent[m] /\ d.parent[m] \in Parents
        BY <1>0, <1>2, <2>4, <3>2 DEF Typed
      <4>2. d.next[m] = Nil <=> d.last[d.parent[m]] = m
        BY <1>0, <2>4, <4>1 DEF Agree
      <4>3. CASE m = b
        BY <1>0, <1>1, <1>2, <3>2, <4>1, <4>2, <4>3
      <4>4. CASE m # b
        BY <1>0, <1>1, <1>2, <3>2, <4>1, <4>2, <4>4
      <4> QED
        BY <4>3, <4>4
    <3> QED
      BY <3>1, <3>2
  <2>5. ASSUME NEW m \in in, e.parent[m] # Nil
        PROVE  e.prev[m] = Nil <=> e.first[e.parent[m]] = m
    <3>1. CASE m = n
      <4>1. d.first[p] # n
        BY <1>0, <1>1 DEF Agree
      <4> QED
        BY <1>0, <1>1, <1>2, <3>1, <4>1
    <3>2. CASE m # n
      <4>1. m \in Nodes /\ e.parent[m] = d.parent[m] /\ d.parent[m] \in Parents
        BY <1>0, <1>2, <2>5, <3>2 DEF Typed
      <4>2. d.prev[m] = Nil <=> d.first[d.parent[m]] = m
        BY <1>0, <2>5, <4>1 DEF Agree
      <4>3. CASE m = a
        BY <1>0, <1>1, <1>2, <3>2, <4>1, <4>2, <4>3
      <4>4. CASE m # a
        BY <1>0, <1>1, <1>2, <3>2, <4>1, <4>2, <4>4
      <4> QED
        BY <4>3, <4>4
    <3> QED
      BY <3>1, <3>2
  <2>6. ASSUME NEW q \in in \union {Doc}
        PROVE  /\ e.first[q] # Nil => e.parent[e.first[q]] = q
               /\ e.last[q] # Nil => e.parent[e.last[q]] = q
    <3>1. /\ q \in Parents /\ d.first[q] \in in \union {Nil} /\ d.last[q] \in in \union {Nil}
          /\ d.first[q] # Nil => d.parent[d.first[q]] = q
          /\ d.last[q] # Nil => d.parent[d.last[q]] = q
          /\ q # Nil
      BY <1>0 DEF Typed, Agree
    <3> QED
      BY <1>0, <1>1, <1>2, <3>1
  <2>7. ASSUME NEW q \in in \union {Doc}
        PROVE  e.first[q] = Nil <=> e.last[q] = Nil
    <3>1. q \in Parents /\ (d.first[q] = Nil <=> d.last[q] = Nil)
      BY <1>0 DEF Agree
    <3> QED
      BY <1>0, <1>1, <1>2, <3>1
  <2> QED
    BY <2>1, <2>2, <2>3, <2>4, <2>5, <2>6, <2>7 DEF Agree
<1> QED
  BY <1>2, <1>3, <1>4
(* A root inserted outside of what is below it is come to from p, or from   *)
(* the sibling it follows.                                                  *)
LEMMA LinkedBetweenKeeps ==
  ASSUME NEW d, NEW in, IsForest(d, in), NEW n \in in, d.parent[n] = Nil,
         NEW p \in in \union {Doc}, p \notin Subtree(d, n),
         NEW b, NEW a, Gap(d, in, p, b, a)
  PROVE  /\ IsForest(LinkedBetween(d, p, b, n, a), in)
         /\ RootsOf(LinkedBetween(d, p, b, n, a), in) = RootsOf(d, in) \ {n}
         /\ LinkedBetween(d, p, b, n, a).unlinked = d.unlinked
         /\ LinkedBetween(d, p, b, n, a).untracked = d.untracked
<1>. DEFINE e == LinkedBetween(d, p, b, n, a)
            B == Below(d, n)
<1>0. /\ d \in Stores /\ Typed(d, in) /\ Agree(d, in) /\ n \in Nodes /\ Reaches(d, in)
      /\ Doc \notin Nodes /\ Nil \notin Nodes /\ Nil # Doc /\ in \subseteq Nodes
      /\ p \in Parents /\ in \subseteq Parents /\ Doc \in Parents /\ p # Nil
  BY StoreAssumption DEF IsForest, Typed, Parents
<1>1. /\ b \in in \union {Nil} /\ a \in in \union {Nil} /\ b # n /\ a # n
      /\ b = Nil => a = d.first[p]
      /\ b # Nil => d.parent[b] = p /\ d.next[b] = a
      /\ d.next[n] = Nil
  BY <1>0 DEF Gap, Agree
<1>2. /\ \A m \in Nodes : e.parent[m] = IF m = n THEN p ELSE d.parent[m]
      /\ \A m \in Nodes : e.next[m] = IF m = n THEN a ELSE IF m = b THEN n ELSE d.next[m]
      /\ \A m \in Parents : e.first[m] = IF m = p /\ b = Nil THEN n ELSE d.first[m]
      /\ e.unlinked = d.unlinked /\ e.untracked = d.untracked
  <2>1. b \in Nodes \union {Nil}
    BY <1>0, <1>1
  <2>2. a \in Nodes \union {Nil}
    BY <1>0, <1>1
  <2>3. IsBetween(d, p, b, n, a, e)
    BY <1>0, <2>1, <2>2, LinkedBetweenIs
  <2> QED
    BY <2>3 DEF IsBetween
<1>3. RootsOf(e, in) = RootsOf(d, in) \ {n}
  <2> HIDE DEF e
  <2> QED BY <1>0, <1>2 DEF RootsOf
<1>4. /\ B \subseteq in /\ d.first[n] \in B \union {Nil} /\ p # n /\ p \notin B
      /\ \A m \in B : d.first[m] \in B \union {Nil} /\ d.next[m] \in B \union {Nil}
      /\ \A m \in B : d.parent[m] \in {n} \union B
  BY BelowClosed, BelowLooksBack DEF ClosedIn, Subtree
<1>5. ASSUME NEW S \in SUBSET in,
             RootsOf(e, in) \subseteq S,
             e.first[Doc] \in S \union {Nil},
             ClosedIn(e, S)
      PROVE  in \subseteq S
  <2> HIDE DEF e, B
  <2>1. \A m \in S : e.first[m] \in S \union {Nil} /\ e.next[m] \in S \union {Nil}
    BY <1>5 DEF ClosedIn
  <2>2. RootsOf(d, in) \subseteq S \union {n}
    BY <1>3, <1>5
  <2>3. n \in S => a \in S \union {Nil}
    BY <1>0, <1>2, <2>1
  <2>4. d.first[Doc] \in S \union {Nil}
    BY <1>0, <1>1, <1>2, <1>5, <2>3
  <2>5. ASSUME NEW m \in S
        PROVE  d.first[m] \in S \union {Nil} /\ d.next[m] \in S \union {Nil}
    <3>1. m \in Nodes /\ m \in Parents
      BY <1>0
    <3>2. d.first[m] \in S \union {Nil}
      BY <1>0, <1>1, <1>2, <2>1, <2>3, <3>1
    <3>3. d.next[m] \in S \union {Nil}
      BY <1>0, <1>1, <1>2, <2>1, <2>3, <3>1
    <3> QED
      BY <3>2, <3>3
  <2>6. in \subseteq S \union {n} \union B
    <3>. DEFINE T == S \union {n} \union B
    <3>1. T \in SUBSET in /\ RootsOf(d, in) \subseteq T /\ d.first[Doc] \in T \union {Nil}
      BY <1>4, <2>2, <2>4
    <3>2. \A m \in T : d.first[m] \in T \union {Nil} /\ d.next[m] \in T \union {Nil}
      BY <1>1, <1>4, <2>5
    <3> QED
      <4> HIDE DEF T
      <4>1. in \subseteq T
        BY <1>0, <3>1, <3>2 DEF Reaches, ClosedIn
      <4> QED
        BY <4>1 DEF T
  <2>7. p \in S \/ p = Doc
    BY <1>4, <2>6
  <2>8. n \in S
    <3>1. CASE b = Nil
      <4>1. e.first[p] = n
        BY <1>0, <1>2, <3>1
      <4> QED
        BY <1>0, <1>5, <2>1, <2>7, <4>1
    <3>2. CASE b # Nil
      <4>1. b \in in /\ b \in Nodes /\ d.parent[b] = p
        BY <1>0, <1>1, <3>2
      <4>2. b \notin B
        BY <1>4, <4>1
      <4>3. b \in S
        BY <1>1, <2>6, <4>1, <4>2
      <4>4. e.next[b] = n
        BY <1>1, <1>2, <4>1
      <4> QED
        BY <1>0, <2>1, <4>3, <4>4
    <3> QED
      BY <3>1, <3>2
  <2> QED
    BY <1>0, <2>2, <2>4, <2>5, <2>8 DEF Reaches, ClosedIn
<1>6. Reaches(e, in)
  <2> HIDE DEF e
  <2> QED BY <1>5 DEF Reaches
<1> QED
  BY <1>2, <1>3, <1>6, LinkedBetweenAgrees DEF IsForest
-----------------------------------------------------------------------------
(* The list of unlinked nodes. *)

(* Taking an entry off the list leaves the others, each once. *)
LEMMA MarkInUseTakesOff ==
  ASSUME NEW S, NEW list \in Seq(S), IsInjective(list), NEW n \in ToSet(list)
  PROVE  /\ MarkInUse(list, n) \in Seq(S)
         /\ Len(MarkInUse(list, n)) = Len(list) - 1
         /\ IsInjective(MarkInUse(list, n))
         /\ ToSet(MarkInUse(list, n)) = ToSet(list) \ {n}
         /\ n = Last(list) => MarkInUse(list, n) = Front(list)
<1>. DEFINE N == Len(list)
            at == {i \in 1 .. N : list[i] = n}
<1>0. PICK k \in 1 .. N : list[k] = n
  BY DEF ToSet
<1>1. /\ N \in Nat \ {0} /\ DOMAIN list = 1 .. N
      /\ \A i \in 1 .. N : list[i] \in S
      /\ \A i, j \in 1 .. N : list[i] = list[j] => i = j
  BY <1>0 DEF IsInjective
<1>2. at = {k} /\ Min(at) = k
  BY <1>0, <1>1 DEF Min
<1>. DEFINE new == [list EXCEPT ![k] = Last(list)]
            r == MarkInUse(list, n)
<1>3. r = Front(new)
  BY <1>2 DEF MarkInUse
<1>4. /\ new \in Seq(S) /\ Len(new) = N
      /\ \A i \in 1 .. N : new[i] = IF i = k THEN list[N] ELSE list[i]
  BY <1>0, <1>1 DEF Last
<1>5. /\ r \in Seq(S) /\ Len(r) = N - 1
      /\ \A i \in 1 .. N - 1 : r[i] = IF i = k THEN list[N] ELSE list[i]
  <2> HIDE DEF new, r
  <2> QED BY <1>1, <1>3, <1>4 DEF Front
<1>6. IsInjective(r)
  <2> HIDE DEF r
  <2> QED BY <1>0, <1>1, <1>5 DEF IsInjective
<1>7. ToSet(r) \subseteq ToSet(list) \ {n}
  <2> HIDE DEF r
  <2>1. ASSUME NEW i \in 1 .. N - 1
        PROVE  r[i] \in ToSet(list) \ {n}
    BY <1>0, <1>1, <1>5 DEF ToSet
  <2> QED
    BY <1>1, <1>5, <2>1 DEF ToSet
<1>8. ToSet(list) \ {n} \subseteq ToSet(r)
  <2> HIDE DEF r
  <2>1. ASSUME NEW i \in 1 .. N, list[i] # n
        PROVE  list[i] \in ToSet(r)
    <3>1. i # k
      BY <1>0, <2>1
    <3>2. CASE i = N
      <4>0. k # N /\ k \in 1 .. N /\ N \in Nat
        BY <1>0, <1>1, <3>1, <3>2
      <4>00. k \in 1 .. N - 1
        <5> HIDE DEF N
        <5> QED BY ONLY <4>0
      <4>1. k \in 1 .. N - 1 /\ r[k] = list[i]
        BY <1>5, <3>2, <4>00
      <4> QED
        BY <1>1, <1>5, <4>1 DEF ToSet
    <3>3. CASE i # N
      <4>0. i \in 1 .. N /\ N \in Nat
        BY <1>1
      <4>00. i \in 1 .. N - 1
        <5> HIDE DEF N
        <5> QED BY ONLY <3>3, <4>0
      <4>1. i \in 1 .. N - 1 /\ r[i] = list[i]
        BY <1>5, <3>1, <4>00
      <4> QED
        BY <1>1, <1>5, <4>1 DEF ToSet
    <3> QED
      BY <3>2, <3>3
  <2> QED
    BY <1>1, <2>1 DEF ToSet
<1>9. ASSUME n = Last(list)
      PROVE  r = Front(list)
  <2>0. N \in 1 .. N /\ list[N] = n
    <3>1. list[N] = n
      BY <1>9 DEF Last
    <3>2. N \in Nat \ {0}
      BY <1>1
    <3> HIDE DEF N
    <3> QED BY <3>1, <3>2
  <2>1. k = N
    <3> HIDE DEF N
    <3> QED BY <1>0, <1>1, <2>0
  <2>2. \A i \in 1 .. N : new[i] = list[i]
    BY <1>1, <1>4, <2>1
  <2>3. new = list
    <3> HIDE DEF new
    <3> QED BY <1>1, <1>4, <2>2
  <2> QED
    BY <1>3, <2>3
<1>10. ToSet(r) = ToSet(list) \ {n}
  BY <1>7, <1>8
<1> QED
  BY <1>5, <1>6, <1>9, <1>10

(* What freeing does to the list when none, or one, of the nodes is on it.  *)
MarkedInUse(list, gone) ==
  FoldSet(LAMBDA m, rest : MarkInUse(rest, m), list, gone)

(* When none of them is on the list, the list stays. *)
LEMMA MarkNone ==
  ASSUME NEW list
  PROVE  MarkedInUse(list, {}) = list
<1>. DEFINE E(g) == [s \in SUBSET {} |->
                      IF s = {} THEN list
                      ELSE MarkInUse(g[s \ {CHOOSE x \in s : TRUE}], CHOOSE x \in s : TRUE)]
            it == CHOOSE g : g = E(g)
<1>1. MarkedInUse(list, {}) = it[{}]
  BY DEF MarkedInUse, FoldSet, MapThenFoldSet
<1>2. \E g : g = E(g)
  <2>1. [s \in SUBSET {} |-> list] = E([s \in SUBSET {} |-> list])
    OBVIOUS
  <2> QED
    BY <2>1
<1>3. it = E(it)
  <2> HIDE DEF E
  <2> QED BY <1>2
<1> QED
  BY <1>1, <1>3

(* When one of them is, it is taken off. *)
LEMMA MarkOne ==
  ASSUME NEW list, NEW n
  PROVE  MarkedInUse(list, {n}) = MarkInUse(list, n)
<1>. DEFINE E(g) == [s \in SUBSET {n} |->
                      IF s = {} THEN list
                      ELSE MarkInUse(g[s \ {CHOOSE x \in s : TRUE}], CHOOSE x \in s : TRUE)]
            it == CHOOSE g : g = E(g)
            h == [s \in SUBSET {n} |-> IF s = {} THEN list ELSE MarkInUse(list, n)]
<1>1. MarkedInUse(list, {n}) = it[{n}]
  BY DEF MarkedInUse, FoldSet, MapThenFoldSet
<1>2. \A s \in SUBSET {n} : s # {} =>
        s = {n} /\ (CHOOSE x \in s : TRUE) = n /\ s \ {CHOOSE x \in s : TRUE} = {}
  OBVIOUS
<1>3. h = E(h)
  <2>1. ASSUME NEW s \in SUBSET {n} PROVE h[s] = E(h)[s]
    BY <1>2
  <2> QED
    BY <2>1
<1>4. it = E(it)
  <2> HIDE DEF E, h
  <2> QED BY <1>3
<1>5. it[{}] = list
  BY <1>4
<1>6. it[{n}] = MarkInUse(it[{}], n)
  <2>1. {n} \in SUBSET {n} /\ {n} # {}
    OBVIOUS
  <2>2. (CHOOSE x \in {n} : TRUE) = n /\ {n} \ {n} = {}
    OBVIOUS
  <2> HIDE DEF it
  <2> QED BY <1>4, <2>1, <2>2
<1> QED
  BY <1>1, <1>5, <1>6
-----------------------------------------------------------------------------
(* The invariant of a store, and the nodes the pool counts as untracked     *)
(* beyond those on the list.                                                *)
Good(d, in) == IsForest(d, in) /\ Listed(d, in)

Lost(d) == d.untracked - Len(d.unlinked)

SamePointers(d, e) ==
  /\ e.parent = d.parent
  /\ e.prev = d.prev /\ e.next = d.next
  /\ e.first = d.first /\ e.last = d.last

(* The bookkeeping has no part in the shape of the trees. *)
LEMMA SamePointersKeep ==
  ASSUME NEW d, NEW in, IsForest(d, in), NEW e \in Stores, SamePointers(d, e)
  PROVE  /\ IsForest(e, in)
         /\ RootsOf(e, in) = RootsOf(d, in)
         /\ \A q : Below(e, q) = Below(d, q)
<1>1. Typed(e, in)
  BY DEF SamePointers, IsForest, Typed
<1>2. Agree(e, in)
  BY DEF SamePointers, IsForest, Agree
<1>3. RootsOf(e, in) = RootsOf(d, in)
  BY DEF SamePointers, RootsOf
<1>4. \A S : ClosedIn(e, S) <=> ClosedIn(d, S)
  BY DEF SamePointers, ClosedIn
<1>5. Reaches(e, in)
  BY <1>3, <1>4 DEF SamePointers, IsForest, Reaches
<1>6. \A q : Reached(e, q) = Reached(d, q)
  BY DEF SamePointers, Reached
<1>7. \A q : Below(e, q) = Below(d, q)
  BY <1>6 DEF SamePointers, Below
<1> QED
  BY <1>1, <1>2, <1>3, <1>5, <1>7 DEF IsForest

(* A new node is a tree of its own, on the list. *)
LEMMA CreatedIs ==
  ASSUME NEW d \in Stores, NEW n \in Nodes
  PROVE  /\ Created(d, n) \in Stores
         /\ SamePointers(d, Created(d, n))
         /\ Created(d, n).unlinked = Append(d.unlinked, n)
         /\ Created(d, n).untracked = d.untracked + 1
<1>1. SamePointers(d, Created(d, n))
  BY DEF Created, Stores, SamePointers
<1>2. /\ Created(d, n).unlinked = Append(d.unlinked, n)
      /\ Created(d, n).untracked = d.untracked + 1
  BY DEF Created, Stores
<1>3. Append(d.unlinked, n) \in Seq(Nodes) /\ d.untracked + 1 \in Int
  BY DEF Stores
<1>4. Created(d, n) \in Stores
  BY <1>3 DEF Created, Stores
<1> QED
  BY <1>1, <1>2, <1>4

(* Appending to the list what it cannot hold. *)
LEMMA AppendedTo ==
  ASSUME NEW S, NEW list \in Seq(S), IsInjective(list), NEW n, n \notin S
  PROVE  /\ Append(list, n) \in Seq(S \union {n})
         /\ IsInjective(Append(list, n))
         /\ ToSet(Append(list, n)) = ToSet(list) \union {n}
         /\ Len(Append(list, n)) = Len(list) + 1 /\ Len(list) \in Nat
<1>0. list \in Seq(S \union {n}) /\ n \in S \union {n}
  OBVIOUS
<1>1. /\ Len(Append(list, n)) = Len(list) + 1
      /\ \A i \in 1 .. Len(list) : list[i] \in S /\ Append(list, n)[i] = list[i]
      /\ Append(list, n)[Len(list) + 1] = n
      /\ DOMAIN Append(list, n) = 1 .. Len(list) + 1
      /\ DOMAIN list = 1 .. Len(list)
      /\ Len(list) \in Nat
  BY <1>0
<1>2. Append(list, n) \in Seq(S \union {n})
  BY <1>0
<1>3. IsInjective(Append(list, n))
  BY <1>1 DEF IsInjective
<1>4. ToSet(Append(list, n)) = ToSet(list) \union {n}
  <2>1. \A i \in 1 .. Len(list) + 1 : Append(list, n)[i] \in ToSet(list) \union {n}
    BY <1>1 DEF ToSet
  <2>2. \A i \in 1 .. Len(list) : list[i] \in ToSet(Append(list, n))
    BY <1>1 DEF ToSet
  <2>3. n \in ToSet(Append(list, n))
    BY <1>1 DEF ToSet
  <2> QED
    BY <1>1, <2>1, <2>2, <2>3 DEF ToSet
<1> QED
  BY <1>1, <1>2, <1>3, <1>4

(* So a store with a new node is as good as it was. *)
LEMMA CreatedKeeps ==
  ASSUME NEW d, NEW in, Good(d, in), NEW n \in Nodes \ in
  PROVE  /\ Good(Created(d, n), in \union {n})
         /\ Created(d, n).parent[n] = Nil
         /\ Below(Created(d, n), n) = {}
         /\ Lost(Created(d, n)) = Lost(d)
<1>. DEFINE e == Created(d, n)
            all == in \union {n}
<1>0. /\ d \in Stores /\ Typed(d, in) /\ Agree(d, in) /\ Reaches(d, in)
      /\ Nil \notin Nodes /\ in \subseteq Nodes /\ Doc \notin Nodes /\ Nil # Doc
      /\ Listed(d, in)
  BY StoreAssumption DEF Good, IsForest, Typed
<1>1. /\ e \in Stores
      /\ SamePointers(d, e)
      /\ e.unlinked = Append(d.unlinked, n)
      /\ e.untracked = d.untracked + 1
  BY <1>0, CreatedIs
<1> HIDE DEF e
<1>2. /\ d.parent[n] = Nil /\ d.prev[n] = Nil /\ d.next[n] = Nil
      /\ d.first[n] = Nil /\ d.last[n] = Nil
  BY <1>0 DEF Typed
<1>3. Typed(d, all)
  BY <1>0, <1>2 DEF Typed
<1>4. Agree(d, all)
  <2>1. \A p \in all \union {Doc} : p = n \/ p \in in \union {Doc}
    OBVIOUS
  <2> QED
    BY <1>0, <1>2, <2>1 DEF Agree
<1>5. RootsOf(d, all) = RootsOf(d, in) \union {n}
  BY <1>2 DEF RootsOf
<1>6. ASSUME NEW S \in SUBSET all,
             RootsOf(d, all) \subseteq S,
             d.first[Doc] \in S \union {Nil},
             ClosedIn(d, S)
      PROVE  all \subseteq S
  <2>. DEFINE T == S \ {n}
  <2>1. T \in SUBSET in /\ RootsOf(d, in) \subseteq T
    BY <1>5, <1>6 DEF RootsOf
  <2>2. d.first[Doc] \in T \union {Nil}
    BY <1>0, <1>6 DEF Typed
  <2>3. ClosedIn(d, T)
    BY <1>0, <1>6 DEF ClosedIn, Typed
  <2>4. in \subseteq T
    BY <1>0, <2>1, <2>2, <2>3 DEF Reaches
  <2> QED
    BY <1>5, <1>6, <2>4
<1>7. IsForest(d, all)
  BY <1>0, <1>3, <1>4, <1>6 DEF IsForest, Reaches
<1>8. IsForest(e, all) /\ RootsOf(e, all) = RootsOf(d, in) \union {n} /\ Below(e, n) = {}
  <2>1. Below(d, n) = {}
    BY <1>2 DEF Below
  <2> QED
    BY <1>1, <1>5, <1>7, <2>1, SamePointersKeep
<1>9. Listed(e, all)
  <2>1. d.unlinked \in Seq(in) /\ IsInjective(d.unlinked) /\ ToSet(d.unlinked) = RootsOf(d, in)
    BY <1>0 DEF Listed
  <2>2. /\ Append(d.unlinked, n) \in Seq(all) /\ IsInjective(Append(d.unlinked, n))
        /\ ToSet(Append(d.unlinked, n)) = ToSet(d.unlinked) \union {n}
    <3>1. n \notin in
      OBVIOUS
    <3> QED
      BY <2>1, <3>1, AppendedTo
  <2> QED
    BY <1>1, <1>8, <2>1, <2>2 DEF Listed
<1>10. Lost(e) = Lost(d)
  <2>1. Len(Append(d.unlinked, n)) = Len(d.unlinked) + 1 /\ Len(d.unlinked) \in Nat
    BY <1>0 DEF Stores
  <2>2. d.untracked \in Int
    BY <1>0 DEF Stores
  <2> QED
    BY <1>1, <2>1, <2>2 DEF Lost
<1> QED
  BY <1>1, <1>2, <1>8, <1>9, <1>10 DEF Good, SamePointers, e
-----------------------------------------------------------------------------
(* Insertion: the preamble, then the links. *)

(* After the preamble the node is a root that is on no list. *)
Readied(d, in, n, e) ==
  /\ IsForest(e, in)
  /\ e.parent[n] = Nil
  /\ Below(e, n) = Below(d, n)
  /\ \A m \in in : m # n => e.parent[m] = d.parent[m]
  /\ e.unlinked \in Seq(in)
  /\ IsInjective(e.unlinked)
  /\ ToSet(e.unlinked) = RootsOf(e, in) \ {n}
  /\ Lost(e) = Lost(d)

(* Putting a node to use changes the bookkeeping alone. *)
LEMMA TrackedIs ==
  ASSUME NEW d \in Stores, NEW list \in Seq(Nodes)
  PROVE  LET e == SetTracked([d EXCEPT !.unlinked = list])
         IN  /\ e \in Stores
             /\ SamePointers(d, e)
             /\ e.unlinked = list
             /\ e.untracked = d.untracked - 1
<1>. DEFINE e == SetTracked([d EXCEPT !.unlinked = list])
<1>1. SamePointers(d, e) /\ e.unlinked = list
  BY DEF SetTracked, Stores, SamePointers
<1>2. e.untracked = d.untracked - 1 /\ d.untracked - 1 \in Int
  BY DEF SetTracked, Stores
<1>3. e \in Stores
  BY <1>2 DEF SetTracked, Stores
<1> QED
  BY <1>1, <1>2, <1>3

(* InsertChildPreamble: unlinks a child, takes a root off the list.         *)
LEMMA PreambleReadies ==
  ASSUME NEW d, NEW in, Good(d, in), NEW n \in in
  PROVE  Readied(d, in, n, InsertChildPreamble(d, n))
<1>0. /\ IsForest(d, in) /\ d \in Stores /\ in \subseteq Nodes
      /\ d.unlinked \in Seq(in) /\ d.unlinked \in Seq(Nodes)
      /\ IsInjective(d.unlinked)
      /\ ToSet(d.unlinked) = RootsOf(d, in)
      /\ d.untracked \in Int /\ Len(d.unlinked) \in Nat
  BY StoreTypes DEF Good, Listed, IsForest, Typed
<1>1. CASE d.parent[n] # Nil
  <2>. DEFINE e == Unlink(d, n)
  <2>1. InsertChildPreamble(d, n) = e
    BY <1>1 DEF InsertChildPreamble
  <2>2. /\ IsForest(e, in)
        /\ RootsOf(e, in) = RootsOf(d, in) \union {n}
        /\ e.unlinked = d.unlinked /\ e.untracked = d.untracked
        /\ Below(e, n) = Below(d, n)
    BY <1>0, <1>1, UnlinkKeeps, UnlinkKeepsBelow
  <2>3. d.parent[n] \in Parents /\ n \in Nodes
    BY <1>0, <1>1 DEF IsForest, Typed, Parents
  <2>4. \A m \in Nodes : e.parent[m] = IF m = n THEN Nil ELSE d.parent[m]
    BY <1>0, <2>3, UnlinkIs
  <2>5. n \notin RootsOf(d, in)
    BY <1>1 DEF RootsOf
  <2>6. ToSet(e.unlinked) = RootsOf(e, in) \ {n} /\ Lost(e) = Lost(d)
    BY <1>0, <2>2, <2>5 DEF Lost
  <2> HIDE DEF e
  <2> QED
    BY <1>0, <2>1, <2>2, <2>3, <2>4, <2>6 DEF Readied
<1>2. CASE d.parent[n] = Nil
  <2>. DEFINE list == MarkInUse(d.unlinked, n)
              e == SetTracked([d EXCEPT !.unlinked = list])
  <2>1. InsertChildPreamble(d, n) = e
    BY <1>0, <1>2 DEF InsertChildPreamble, Stores
  <2>2. n \in ToSet(d.unlinked)
    BY <1>0, <1>2 DEF RootsOf
  <2>3. /\ list \in Seq(in) /\ list \in Seq(Nodes)
        /\ Len(list) = Len(d.unlinked) - 1
        /\ IsInjective(list)
        /\ ToSet(list) = ToSet(d.unlinked) \ {n}
    BY <1>0, <2>2, MarkInUseTakesOff
  <2> HIDE DEF list
  <2>4. /\ e \in Stores /\ SamePointers(d, e)
        /\ e.unlinked = list /\ e.untracked = d.untracked - 1
    BY <1>0, <2>3, TrackedIs
  <2> HIDE DEF e
  <2>5. IsForest(e, in) /\ RootsOf(e, in) = RootsOf(d, in) /\ Below(e, n) = Below(d, n)
    BY <1>0, <2>4, SamePointersKeep
  <2>6. Lost(e) = Lost(d)
    BY <1>0, <2>3, <2>4 DEF Lost
  <2>7. e.parent = d.parent
    BY <2>4 DEF SamePointers
  <2> QED
    BY <1>0, <1>2, <2>1, <2>3, <2>4, <2>5, <2>6, <2>7 DEF Readied
<1> QED
  BY <1>1, <1>2

(* Linking the readied node between neighbours completes the insertion.     *)
LEMMA LinkedKeeps ==
  ASSUME NEW d, NEW in, NEW n \in in, NEW e, Readied(d, in, n, e),
         NEW p \in in \union {Doc}, p \notin Subtree(d, n),
         NEW b, NEW a, Gap(e, in, p, b, a)
  PROVE  /\ Good(LinkedBetween(e, p, b, n, a), in)
         /\ Lost(LinkedBetween(e, p, b, n, a)) = Lost(d)
<1>. DEFINE g == LinkedBetween(e, p, b, n, a)
<1>1. /\ IsForest(e, in) /\ e.parent[n] = Nil /\ p \notin Subtree(e, n)
      /\ e.unlinked \in Seq(in) /\ IsInjective(e.unlinked)
      /\ ToSet(e.unlinked) = RootsOf(e, in) \ {n}
      /\ Lost(e) = Lost(d)
  BY DEF Readied, Subtree
<1>2. /\ IsForest(g, in)
      /\ RootsOf(g, in) = RootsOf(e, in) \ {n}
      /\ g.unlinked = e.unlinked /\ g.untracked = e.untracked
  BY <1>1, LinkedBetweenKeeps
<1> HIDE DEF g
<1> QED
  BY <1>1, <1>2 DEF Good, Listed, Lost, g

(* The ends of a node's children, and the place behind one of them. *)
LEMMA GapAtEnd ==
  ASSUME NEW e, NEW in, IsForest(e, in), NEW p \in in \union {Doc}
  PROVE  Gap(e, in, p, e.last[p], Nil)
<1>1. Typed(e, in) /\ Agree(e, in) /\ Nil \notin in \union {Doc}
  BY StoreAssumption DEF IsForest, Typed
<1>2. e.last[p] \in in \union {Nil}
  BY <1>1 DEF Typed
<1>3. e.last[p] = Nil => e.first[p] = Nil
  BY <1>1 DEF Agree
<1>4. e.last[p] # Nil => e.parent[e.last[p]] = p
  BY <1>1 DEF Agree
<1>5. e.last[p] # Nil => e.next[e.last[p]] = Nil
  BY <1>1, <1>2, <1>4 DEF Agree
<1> QED
  BY <1>2, <1>3, <1>4, <1>5 DEF Gap

(* In front of the first child. *)
LEMMA GapAtFront ==
  ASSUME NEW e, NEW in, IsForest(e, in), NEW p \in in \union {Doc}
  PROVE  Gap(e, in, p, Nil, e.first[p])
<1>1. Typed(e, in) /\ Agree(e, in) /\ Nil \notin in \union {Doc}
  BY StoreAssumption DEF IsForest, Typed
<1>2. e.first[p] \in in \union {Nil}
  BY <1>1 DEF Typed
<1>3. e.first[p] = Nil => e.last[p] = Nil
  BY <1>1 DEF Agree
<1>4. e.first[p] # Nil => e.parent[e.first[p]] = p
  BY <1>1 DEF Agree
<1>5. e.first[p] # Nil => e.prev[e.first[p]] = Nil
  BY <1>1, <1>2, <1>4 DEF Agree
<1> QED
  BY <1>2, <1>3, <1>4, <1>5 DEF Gap

(* Behind a child that is not the last. *)
LEMMA GapBehind ==
  ASSUME NEW e, NEW in, IsForest(e, in), NEW a \in in, NEW p \in in \union {Doc},
         e.parent[a] = p, e.next[a] # Nil
  PROVE  Gap(e, in, p, a, e.next[a])
<1>1. Typed(e, in) /\ Agree(e, in) /\ Nil \notin in \union {Doc}
  BY StoreAssumption DEF IsForest, Typed
<1>2. e.next[a] \in in
  BY <1>1 DEF Typed
<1>3. e.parent[e.next[a]] = p /\ e.prev[e.next[a]] = a
  BY <1>1 DEF Agree
<1> QED
  BY <1>1, <1>2, <1>3 DEF Gap

(* InsertEndChild keeps a good store good and loses no count. *)
LEMMA EndInsertedKeeps ==
  ASSUME NEW d, NEW in, Good(d, in), NEW n \in in,
         NEW p \in in \union {Doc}, p \notin Subtree(d, n)
  PROVE  Good(EndInserted(d, p, n), in) /\ Lost(EndInserted(d, p, n)) = Lost(d)
<1>. DEFINE e == InsertChildPreamble(d, n)
<1>1. Readied(d, in, n, e) /\ Gap(e, in, p, e.last[p], Nil)
  BY PreambleReadies, GapAtEnd DEF Readied
<1> HIDE DEF e
<1> QED
  BY <1>1, LinkedKeeps DEF EndInserted, e

(* InsertFirstChild likewise. *)
LEMMA FirstInsertedKeeps ==
  ASSUME NEW d, NEW in, Good(d, in), NEW n \in in,
         NEW p \in in \union {Doc}, p \notin Subtree(d, n)
  PROVE  Good(FirstInserted(d, p, n), in) /\ Lost(FirstInserted(d, p, n)) = Lost(d)
<1>. DEFINE e == InsertChildPreamble(d, n)
<1>1. Readied(d, in, n, e) /\ Gap(e, in, p, Nil, e.first[p])
  BY PreambleReadies, GapAtFront DEF Readied
<1> HIDE DEF e
<1> QED
  BY <1>1, LinkedKeeps DEF FirstInserted, e

(* InsertAfterChild likewise, where a next sibling is still there.          *)
LEMMA AfterInsertedKeeps ==
  ASSUME NEW d, NEW in, Good(d, in), NEW n \in in, NEW a \in in, a # n,
         NEW p \in in \union {Doc}, p \notin Subtree(d, n),
         d.parent[a] = p, ~FollowsNull(d, a, n)
  PROVE  Good(AfterInserted(d, p, a, n), in) /\ Lost(AfterInserted(d, p, a, n)) = Lost(d)
<1>. DEFINE e == InsertChildPreamble(d, n)
<1>1. Readied(d, in, n, e)
  BY PreambleReadies
<1>2. e.parent[a] = p /\ e.next[a] # Nil /\ IsForest(e, in)
  BY <1>1 DEF Readied, FollowsNull
<1>3. Gap(e, in, p, a, e.next[a])
  BY <1>2, GapBehind
<1> HIDE DEF e
<1> QED
  BY <1>1, <1>3, LinkedKeeps DEF AfterInserted, e
-----------------------------------------------------------------------------
(* Freeing: whole trees, or all that is below a node q.                     *)

(* The nodes gone are closed under all pointers but the way up to q, and    *)
(* no other node is a child of theirs or of q.                              *)
Removable(d, in, gone, q) ==
  /\ gone \subseteq in
  /\ q \in in \union {Doc, Nil} /\ q \notin gone
  /\ \A m \in gone : /\ d.first[m] \in gone \union {Nil}
                     /\ d.next[m] \in gone \union {Nil}
                     /\ d.prev[m] \in gone \union {Nil}
                     /\ d.parent[m] \in gone \union {q}
  /\ \A m \in in : d.parent[m] \in gone \union ({q} \ {Nil}) => m \in gone

(* e is d without them, and q without children. *)
IsWithout(d, gone, q, e) ==
  /\ e \in Stores
  /\ \A m \in Nodes : e.parent[m] = IF m \in gone THEN Nil ELSE d.parent[m]
  /\ \A m \in Nodes : e.prev[m] = IF m \in gone THEN Nil ELSE d.prev[m]
  /\ \A m \in Nodes : e.next[m] = IF m \in gone THEN Nil ELSE d.next[m]
  /\ \A m \in Parents : e.first[m] = IF m \in gone \union {q} THEN Nil ELSE d.first[m]
  /\ \A m \in Parents : e.last[m] = IF m \in gone \union {q} THEN Nil ELSE d.last[m]

(* What is left is sound, and its roots are the roots that are left.        *)
LEMMA WithoutKeeps ==
  ASSUME NEW d, NEW in, IsForest(d, in), NEW gone, NEW q, Removable(d, in, gone, q),
         NEW e, IsWithout(d, gone, q, e)
  PROVE  /\ IsForest(e, in \ gone)
         /\ RootsOf(e, in \ gone) = RootsOf(d, in) \ gone
<1>. DEFINE left == in \ gone
<1>0. /\ d \in Stores /\ Typed(d, in) /\ Agree(d, in) /\ Reaches(d, in)
      /\ Doc \notin Nodes /\ Nil \notin Nodes /\ Nil # Doc /\ in \subseteq Nodes
      /\ in \subseteq Parents /\ Doc \in Parents
  BY StoreAssumption DEF IsForest, Typed, Parents
<1>1. /\ gone \subseteq in /\ q \notin gone /\ Doc \notin gone /\ Nil \notin gone
      /\ \A m \in gone : /\ d.first[m] \in gone \union {Nil}
                         /\ d.next[m] \in gone \union {Nil}
                         /\ d.prev[m] \in gone \union {Nil}
                         /\ d.parent[m] \in gone \union {q}
      /\ \A m \in in : d.parent[m] \in gone \union ({q} \ {Nil}) => m \in gone
  BY <1>0 DEF Removable
<1>2. /\ e \in Stores
      /\ \A m \in left : /\ e.parent[m] = d.parent[m]
                         /\ e.prev[m] = d.prev[m]
                         /\ e.next[m] = d.next[m]
      /\ \A m \in left \union {Doc} :
           m # q => e.first[m] = d.first[m] /\ e.last[m] = d.last[m]
      /\ q \in left \union {Doc} => e.first[q] = Nil /\ e.last[q] = Nil
      /\ \A m \in gone : /\ e.parent[m] = Nil /\ e.prev[m] = Nil /\ e.next[m] = Nil
                         /\ e.first[m] = Nil /\ e.last[m] = Nil
      /\ \A m \in Nodes \ in :
           /\ e.parent[m] = Nil /\ e.prev[m] = Nil /\ e.next[m] = Nil
           /\ e.first[m] = Nil /\ e.last[m] = Nil
  <2>1. e \in Stores
    BY DEF IsWithout
  <2>2. ASSUME NEW m \in left
        PROVE  /\ e.parent[m] = d.parent[m] /\ e.prev[m] = d.prev[m]
               /\ e.next[m] = d.next[m]
    BY <1>0 DEF IsWithout
  <2>3. ASSUME NEW m \in left \union {Doc}
        PROVE  /\ m # q => e.first[m] = d.first[m] /\ e.last[m] = d.last[m]
               /\ m = q => e.first[m] = Nil /\ e.last[m] = Nil
    BY <1>0, <1>1 DEF IsWithout
  <2>4. ASSUME NEW m \in gone
        PROVE  /\ e.parent[m] = Nil /\ e.prev[m] = Nil /\ e.next[m] = Nil
               /\ e.first[m] = Nil /\ e.last[m] = Nil
    BY <1>0, <1>1 DEF IsWithout
  <2>5. ASSUME NEW m \in Nodes \ in
        PROVE  /\ e.parent[m] = Nil /\ e.prev[m] = Nil /\ e.next[m] = Nil
               /\ e.first[m] = Nil /\ e.last[m] = Nil
    <3>1. /\ d.parent[m] = Nil /\ d.prev[m] = Nil /\ d.next[m] = Nil
          /\ d.first[m] = Nil /\ d.last[m] = Nil /\ m \in Parents
      BY <1>0 DEF Typed, Parents
    <3> QED
      BY <3>1 DEF IsWithout
  <2> QED
    BY <2>1, <2>2, <2>3, <2>4, <2>5
<1>3. ASSUME NEW m \in left
      PROVE  /\ d.next[m] \in left \union {Nil} /\ d.prev[m] \in left \union {Nil}
             /\ d.parent[m] \in left \union {Doc, Nil}
             /\ d.parent[m] # Nil => d.parent[m] # q
  <2>1. /\ d.next[m] \in in \union {Nil} /\ d.prev[m] \in in \union {Nil}
        /\ d.parent[m] \in in \union {Doc, Nil}
    BY <1>0 DEF Typed
  <2>2. d.next[m] # Nil => d.prev[d.next[m]] = m
    BY <1>0 DEF Agree
  <2>3. d.prev[m] # Nil => d.next[d.prev[m]] = m
    BY <1>0 DEF Agree
  <2> QED
    BY <1>0, <1>1, <2>1, <2>2, <2>3
<1>4. ASSUME NEW r \in left \union {Doc}, r # q
      PROVE  d.first[r] \in left \union {Nil} /\ d.last[r] \in left \union {Nil}
  <2>1. d.first[r] \in in \union {Nil} /\ d.last[r] \in in \union {Nil}
    BY <1>0 DEF Typed
  <2>2. /\ d.first[r] # Nil => d.parent[d.first[r]] = r
        /\ d.last[r] # Nil => d.parent[d.last[r]] = r
    BY <1>0 DEF Agree
  <2> QED
    BY <1>0, <1>1, <1>4, <2>1, <2>2
<1>5. Typed(e, left)
  <2>1. \A n \in left : e.parent[n] \in left \union {Doc, Nil}
    BY <1>2, <1>3
  <2>2. \A n \in left : e.prev[n] \in left \union {Nil} /\ e.next[n] \in left \union {Nil}
    BY <1>2, <1>3
  <2>3. \A p \in left \union {Doc} :
          e.first[p] \in left \union {Nil} /\ e.last[p] \in left \union {Nil}
    BY <1>2, <1>4
  <2>4. \A n \in Nodes \ left : n \in gone \/ n \in Nodes \ in
    OBVIOUS
  <2> QED
    BY <1>0, <1>2, <2>1, <2>2, <2>3, <2>4 DEF Typed
<1>6. Agree(e, left)
  <2>1. ASSUME NEW n \in left
        PROVE  /\ e.next[n] # Nil =>
                    e.prev[e.next[n]] = n /\ e.parent[e.next[n]] = e.parent[n]
               /\ e.prev[n] # Nil =>
                    e.next[e.prev[n]] = n /\ e.parent[e.prev[n]] = e.parent[n]
    <3>1. e.next[n] = d.next[n] /\ e.prev[n] = d.prev[n] /\ e.parent[n] = d.parent[n]
      BY <1>2
    <3>2. /\ d.next[n] # Nil => d.prev[d.next[n]] = n /\ d.parent[d.next[n]] = d.parent[n]
          /\ d.prev[n] # Nil => d.next[d.prev[n]] = n /\ d.parent[d.prev[n]] = d.parent[n]
      BY <1>0 DEF Agree
    <3> QED
      BY <1>2, <1>3, <3>1, <3>2
  <2>2. \A n \in left : e.parent[n] = Nil => e.next[n] = Nil /\ e.prev[n] = Nil
    BY <1>0, <1>2 DEF Agree
  <2>3. ASSUME NEW n \in left, e.parent[n] # Nil
        PROVE  /\ e.next[n] = Nil <=> e.last[e.parent[n]] = n
               /\ e.prev[n] = Nil <=> e.first[e.parent[n]] = n
    <3>1. e.next[n] = d.next[n] /\ e.prev[n] = d.prev[n] /\ e.parent[n] = d.parent[n]
      BY <1>2
    <3>2. d.parent[n] \in left \union {Doc} /\ d.parent[n] # q
      BY <1>3, <2>3, <3>1
    <3>3. /\ d.next[n] = Nil <=> d.last[d.parent[n]] = n
          /\ d.prev[n] = Nil <=> d.first[d.parent[n]] = n
      BY <1>0, <2>3, <3>1 DEF Agree
    <3> QED
      BY <1>2, <3>1, <3>2, <3>3
  <2>4. ASSUME NEW r \in left \union {Doc}
        PROVE  /\ e.first[r] # Nil => e.parent[e.first[r]] = r
               /\ e.last[r] # Nil => e.parent[e.last[r]] = r
               /\ e.first[r] = Nil <=> e.last[r] = Nil
    <3>1. CASE r = q
      BY <1>2, <3>1
    <3>2. CASE r # q
      <4>1. /\ d.first[r] # Nil => d.parent[d.first[r]] = r
            /\ d.last[r] # Nil => d.parent[d.last[r]] = r
            /\ d.first[r] = Nil <=> d.last[r] = Nil
        BY <1>0 DEF Agree
      <4> QED
        BY <1>2, <1>4, <3>2, <4>1
    <3> QED
      BY <3>1, <3>2
  <2> QED
    BY <2>1, <2>2, <2>3, <2>4 DEF Agree
<1>7. RootsOf(e, left) = RootsOf(d, in) \ gone
  BY <1>2 DEF RootsOf
<1>8. ASSUME NEW S \in SUBSET left,
             RootsOf(e, left) \subseteq S,
             e.first[Doc] \in S \union {Nil},
             ClosedIn(e, S)
      PROVE  left \subseteq S
  <2>. DEFINE T == S \union gone
  <2>1. T \in SUBSET in /\ RootsOf(d, in) \subseteq T
    BY <1>1, <1>7, <1>8
  <2>2. \A r \in in \union {Doc} : r = q => d.first[r] \in gone \union {Nil}
    BY <1>0, <1>1 DEF Agree, Typed
  <2>3. d.first[Doc] \in T \union {Nil}
    BY <1>2, <1>8, <2>2
  <2>4. ASSUME NEW m \in T
        PROVE  d.first[m] \in T \union {Nil} /\ d.next[m] \in T \union {Nil}
    <3>1. CASE m \in gone
      BY <1>1, <3>1
    <3>2. CASE m \in S
      <4>1. m \in left /\ e.first[m] \in S \union {Nil} /\ e.next[m] \in S \union {Nil}
        BY <1>8, <3>2 DEF ClosedIn
      <4> QED
        BY <1>2, <2>2, <4>1
    <3> QED
      BY <3>1, <3>2
  <2>5. in \subseteq T
    <3> HIDE DEF T
    <3> QED BY <1>0, <2>1, <2>3, <2>4 DEF Reaches, ClosedIn
  <2> QED
    BY <2>5
<1>9. Reaches(e, left)
  <2> HIDE DEF left
  <2> QED BY <1>8 DEF Reaches
<1> QED
  BY <1>2, <1>5, <1>6, <1>7, <1>9 DEF IsForest

(* A whole tree can be removed, and all that is below a node.               *)
LEMMA TreeRemovable ==
  ASSUME NEW d, NEW in, IsForest(d, in), NEW c \in in, d.parent[c] = Nil
  PROVE  Removable(d, in, Subtree(d, c), Nil)
<1>. DEFINE B == Below(d, c)
<1>0. /\ Agree(d, in) /\ Nil \notin in \union {Doc} /\ Subtree(d, c) = {c} \union B
  BY StoreAssumption DEF IsForest, Typed, Subtree
<1>1. /\ B \subseteq in /\ d.first[c] \in B \union {Nil}
      /\ \A m \in B : d.first[m] \in B \union {Nil} /\ d.next[m] \in B \union {Nil}
      /\ \A m \in B : d.parent[m] \in {c} \union B /\ d.prev[m] \in B \union {Nil}
      /\ \A m \in in : d.parent[m] \in {c} \union B => m \in B
  BY <1>0, BelowClosed, BelowLooksBack, BelowComplete DEF ClosedIn
<1>2. d.next[c] = Nil /\ d.prev[c] = Nil
  BY <1>0 DEF Agree
<1> QED
  <2> HIDE DEF B
  <2> QED BY <1>0, <1>1, <1>2 DEF Removable

(* So can all that is below a node, which stays. *)
LEMMA BelowRemovable ==
  ASSUME NEW d, NEW in, IsForest(d, in), NEW q \in in \union {Doc}
  PROVE  Removable(d, in, Below(d, q), q)
<1>. DEFINE B == Below(d, q)
<1>1. /\ B \subseteq in /\ q \notin B
      /\ \A m \in B : d.first[m] \in B \union {Nil} /\ d.next[m] \in B \union {Nil}
      /\ \A m \in B : d.parent[m] \in {q} \union B /\ d.prev[m] \in B \union {Nil}
      /\ \A m \in in : d.parent[m] \in {q} \union B => m \in B
  BY BelowClosed, BelowLooksBack, BelowComplete, NotBelowItself DEF ClosedIn, Subtree
<1>2. \A m \in in : d.parent[m] \in B \union ({q} \ {Nil}) => m \in B
  BY <1>1
<1> QED
  BY <1>1, <1>2 DEF Removable

(* Each pointer after the destructors of the nodes gone. *)
LEMMA FreedIs ==
  ASSUME NEW d \in Stores, NEW gone \in SUBSET Nodes,
         MarkedInUse(d.unlinked, gone \intersect ToSet(d.unlinked)) \in Seq(Nodes)
  PROVE  /\ IsWithout(d, gone, Nil, Freed(d, gone))
         /\ Freed(d, gone).unlinked =
              MarkedInUse(d.unlinked, gone \intersect ToSet(d.unlinked))
         /\ Freed(d, gone).untracked = d.untracked
<1>. DEFINE e == Freed(d, gone)
            list == MarkedInUse(d.unlinked, gone \intersect ToSet(d.unlinked))
            Kept(ptr) == [m \in DOMAIN ptr |-> IF m \in gone THEN Nil ELSE ptr[m]]
<1>0. /\ d.parent \in [Nodes -> Parents \union {Nil}]
      /\ d.prev \in [Nodes -> Nodes \union {Nil}]
      /\ d.next \in [Nodes -> Nodes \union {Nil}]
      /\ d.first \in [Parents -> Nodes \union {Nil}]
      /\ d.last \in [Parents -> Nodes \union {Nil}]
      /\ d.unlinked \in Seq(Nodes) /\ d.untracked \in Int
      /\ Nil \notin Parents
  BY StoreAssumption DEF Stores, Parents
<1>1. e = [d EXCEPT !.parent = Kept(d.parent), !.prev = Kept(d.prev), !.next = Kept(d.next),
                    !.first = Kept(d.first), !.last = Kept(d.last), !.unlinked = list]
  BY DEF Freed, MarkedInUse
<1> HIDE DEF e, list
<1>2. /\ e.parent = Kept(d.parent) /\ e.prev = Kept(d.prev) /\ e.next = Kept(d.next)
      /\ e.first = Kept(d.first) /\ e.last = Kept(d.last)
      /\ e.unlinked = list /\ e.untracked = d.untracked
  BY <1>1 DEF Stores
<1>3. /\ Kept(d.parent) \in [Nodes -> Parents \union {Nil}]
      /\ Kept(d.prev) \in [Nodes -> Nodes \union {Nil}]
      /\ Kept(d.next) \in [Nodes -> Nodes \union {Nil}]
      /\ Kept(d.first) \in [Parents -> Nodes \union {Nil}]
      /\ Kept(d.last) \in [Parents -> Nodes \union {Nil}]
  BY <1>0
<1>4. e \in Stores
  <2> HIDE DEF Kept
  <2>1. list \in Seq(Nodes)
    BY DEF list
  <2> QED
    BY <1>1, <1>3, <2>1 DEF Stores
<1>5. /\ \A m \in Nodes : Kept(d.parent)[m] = IF m \in gone THEN Nil ELSE d.parent[m]
      /\ \A m \in Nodes : Kept(d.prev)[m] = IF m \in gone THEN Nil ELSE d.prev[m]
      /\ \A m \in Nodes : Kept(d.next)[m] = IF m \in gone THEN Nil ELSE d.next[m]
  BY <1>0
<1>6. /\ \A m \in Parents : Kept(d.first)[m] = IF m \in gone \union {Nil} THEN Nil ELSE d.first[m]
      /\ \A m \in Parents : Kept(d.last)[m] = IF m \in gone \union {Nil} THEN Nil ELSE d.last[m]
  BY <1>0
<1> HIDE DEF Kept
<1>7. IsWithout(d, gone, Nil, e)
  BY <1>2, <1>4, <1>5, <1>6 DEF IsWithout
<1> QED
  BY <1>2, <1>7 DEF e, list

(* Of a tree only the root is a root. *)
LEMMA OneRoot ==
  ASSUME NEW d, NEW in, IsForest(d, in), NEW q \in in \union {Doc}
  PROVE  Below(d, q) \intersect RootsOf(d, in) = {}
<1>1. Nil \notin in \union {Doc}
  BY StoreAssumption DEF IsForest, Typed
<1> QED
  BY <1>1, BelowLooksBack, BelowClosed DEF RootsOf, Subtree

(* XMLNode::DeleteNode of a loose tree: the pool goes on counting its root. *)
LEMMA DiscardKeeps ==
  ASSUME NEW d, NEW in, Good(d, in), NEW c \in in, d.parent[c] = Nil
  PROVE  LET e == Freed(d, Subtree(d, c))
         IN  /\ Good(e, in \ Subtree(d, c))
             /\ e.unlinked = MarkInUse(d.unlinked, c)
             /\ Lost(e) = Lost(d) + 1
             /\ IsWithout(d, Subtree(d, c), Nil, e)
<1>. DEFINE gone == Subtree(d, c)
            e == Freed(d, gone)
            list == MarkInUse(d.unlinked, c)
<1>0. /\ IsForest(d, in) /\ d \in Stores /\ in \subseteq Nodes
      /\ d.unlinked \in Seq(in) /\ d.unlinked \in Seq(Nodes) /\ IsInjective(d.unlinked)
      /\ ToSet(d.unlinked) = RootsOf(d, in)
      /\ d.untracked \in Int /\ Len(d.unlinked) \in Nat
  BY StoreTypes DEF Good, Listed, IsForest, Typed
<1>1. Removable(d, in, gone, Nil) /\ gone \in SUBSET Nodes
  BY <1>0, TreeRemovable DEF Removable
<1>2. gone \intersect ToSet(d.unlinked) = {c} /\ gone \intersect RootsOf(d, in) = {c}
  <2>1. c \in RootsOf(d, in)
    BY DEF RootsOf
  <2> QED
    BY <1>0, <2>1, OneRoot DEF Subtree
<1>3. MarkedInUse(d.unlinked, gone \intersect ToSet(d.unlinked)) = list
  BY <1>2, MarkOne
<1>4. /\ list \in Seq(in) /\ list \in Seq(Nodes)
      /\ Len(list) = Len(d.unlinked) - 1
      /\ IsInjective(list)
      /\ ToSet(list) = ToSet(d.unlinked) \ {c}
  <2>1. c \in ToSet(d.unlinked)
    BY <1>2
  <2> QED
    BY <1>0, <2>1, MarkInUseTakesOff
<1>5. IsWithout(d, gone, Nil, e) /\ e.unlinked = list /\ e.untracked = d.untracked
  BY <1>0, <1>1, <1>3, <1>4, FreedIs
<1> HIDE DEF e, list, gone
<1>6. IsForest(e, in \ gone) /\ RootsOf(e, in \ gone) = RootsOf(d, in) \ gone
  <2>1. IsForest(d, in) /\ Removable(d, in, gone, Nil) /\ IsWithout(d, gone, Nil, e)
    BY <1>0, <1>1, <1>5
  <2> QED
    BY ONLY <2>1, WithoutKeeps
<1>7. ToSet(list) = RootsOf(e, in \ gone)
  BY <1>0, <1>2, <1>4, <1>6
<1>8. list \in Seq(in \ gone)
  <2>1. \A i \in 1 .. Len(list) : list[i] \in in \ gone
    <3>1. \A i \in 1 .. Len(list) : list[i] \in ToSet(list)
      BY <1>4 DEF ToSet
    <3> QED
      BY <1>7, <3>1 DEF RootsOf
  <2> QED
    BY <1>4, <2>1
<1>9. Lost(e) = Lost(d) + 1
  BY <1>0, <1>4, <1>5 DEF Lost
<1> QED
  BY <1>4, <1>5, <1>6, <1>7, <1>8, <1>9 DEF Good, Listed, e, list, gone
(* XMLDocument::DeleteNode of a loose tree: its root is put to use first.   *)
LEMMA LooseRemovedKeeps ==
  ASSUME NEW d, NEW in, Good(d, in), NEW c \in in, d.parent[c] = Nil
  PROVE  /\ Good(LooseRemoved(d, c), in \ Subtree(d, c))
         /\ Lost(LooseRemoved(d, c)) = Lost(d)
         /\ LooseRemoved(d, c).unlinked = MarkInUse(d.unlinked, c)
         /\ IsWithout(d, Subtree(d, c), Nil, LooseRemoved(d, c))
<1>. DEFINE t == SetTracked(d)
            gone == Subtree(d, c)
            list == MarkInUse(d.unlinked, c)
<1>0. /\ IsForest(d, in) /\ d \in Stores /\ Listed(d, in)
      /\ d.untracked \in Int /\ Len(d.unlinked) \in Nat
  BY StoreTypes DEF Good, IsForest
<1>1. t \in Stores /\ SamePointers(d, t) /\ t.unlinked = d.unlinked
      /\ t.untracked = d.untracked - 1
  <2>1. d.untracked - 1 \in Int
    BY <1>0
  <2> QED
    BY <1>0, <2>1 DEF SetTracked, Stores, SamePointers
<1>2. IsForest(t, in) /\ RootsOf(t, in) = RootsOf(d, in) /\ Below(t, c) = Below(d, c)
  BY <1>0, <1>1, SamePointersKeep
<1>3. Good(t, in) /\ t.parent[c] = Nil
  BY <1>0, <1>1, <1>2 DEF Good, Listed, SamePointers
<1>4. Subtree(t, c) = gone /\ LooseRemoved(d, c) = Freed(t, gone)
  BY <1>2 DEF Subtree, LooseRemoved
<1>5. /\ Good(Freed(t, Subtree(t, c)), in \ Subtree(t, c))
      /\ Lost(Freed(t, Subtree(t, c))) = Lost(t) + 1
      /\ Freed(t, Subtree(t, c)).unlinked = MarkInUse(t.unlinked, c)
      /\ IsWithout(t, Subtree(t, c), Nil, Freed(t, Subtree(t, c)))
  BY <1>3, DiscardKeeps
<1>6. Lost(t) = Lost(d) - 1 /\ Lost(d) \in Int
  BY <1>0, <1>1 DEF Lost
<1>7. t.unlinked = d.unlinked
  BY <1>1
<1> HIDE DEF t, gone
<1>8. /\ Good(LooseRemoved(d, c), in \ gone) /\ Lost(LooseRemoved(d, c)) = Lost(d)
      /\ LooseRemoved(d, c).unlinked = MarkInUse(d.unlinked, c)
  BY <1>4, <1>5, <1>6, <1>7
<1>9. IsWithout(d, gone, Nil, LooseRemoved(d, c))
  <2>1. IsWithout(t, gone, Nil, LooseRemoved(d, c))
    BY <1>4, <1>5
  <2> QED
    BY <1>1, <2>1 DEF IsWithout, SamePointers
<1> QED
  BY <1>8, <1>9 DEF gone

(* Freeing nodes that are on no list, of which none is a root.              *)
LEMMA FreedKeeps ==
  ASSUME NEW d, NEW in, IsForest(d, in), NEW gone, NEW q, Removable(d, in, gone, q),
         gone \intersect ToSet(d.unlinked) = {},
         d.unlinked \in Seq(in), IsInjective(d.unlinked),
         ToSet(d.unlinked) = RootsOf(d, in) \ gone,
         NEW e, IsWithout(d, gone, q, e),
         e.unlinked = d.unlinked, e.untracked = d.untracked
  PROVE  Good(e, in \ gone) /\ Lost(e) = Lost(d)
<1>1. IsForest(e, in \ gone) /\ RootsOf(e, in \ gone) = RootsOf(d, in) \ gone
  <2>1. IsForest(d, in) /\ Removable(d, in, gone, q) /\ IsWithout(d, gone, q, e)
    OBVIOUS
  <2> QED
    BY ONLY <2>1, WithoutKeeps
<1>2. e.unlinked \in Seq(in \ gone)
  <2>1. \A i \in 1 .. Len(d.unlinked) : d.unlinked[i] \in ToSet(d.unlinked)
    BY DEF ToSet
  <2> QED
    BY <2>1
<1> QED
  BY <1>1, <1>2 DEF Good, Listed, Lost

(* DeleteChild: the subtree of a child goes, the count stays right.         *)
LEMMA ChildRemovedKeeps ==
  ASSUME NEW d, NEW in, Good(d, in), NEW c \in in, d.parent[c] # Nil
  PROVE  /\ Good(ChildRemoved(d, c), in \ Subtree(d, c))
         /\ Lost(ChildRemoved(d, c)) = Lost(d)
         /\ ChildRemoved(d, c).unlinked = d.unlinked
         /\ Removable(Unlink(d, c), in, Subtree(d, c), Nil)
         /\ IsWithout(Unlink(d, c), Subtree(d, c), Nil, ChildRemoved(d, c))
<1>. DEFINE u == Unlink(d, c)
            gone == Subtree(d, c)
            e == ChildRemoved(d, c)
<1>0. /\ IsForest(d, in) /\ d \in Stores /\ in \subseteq Nodes
      /\ d.unlinked \in Seq(in) /\ d.unlinked \in Seq(Nodes) /\ IsInjective(d.unlinked)
      /\ ToSet(d.unlinked) = RootsOf(d, in)
  BY StoreTypes DEF Good, Listed, IsForest, Typed
<1>1. /\ IsForest(u, in) /\ RootsOf(u, in) = RootsOf(d, in) \union {c}
      /\ u.unlinked = d.unlinked /\ u.untracked = d.untracked
      /\ u \in Stores
  BY <1>0, UnlinkKeeps DEF IsForest
<1>2. Subtree(u, c) = gone /\ e = Freed(u, gone)
  <2>1. Below(u, c) = Below(d, c)
    BY <1>0, UnlinkKeepsBelow
  <2> QED
    BY <2>1 DEF Subtree, ChildRemoved
<1>3. u.parent[c] = Nil
  BY <1>1 DEF RootsOf
<1>4. Removable(u, in, gone, Nil) /\ gone \in SUBSET Nodes
  <2>1. Removable(u, in, Subtree(u, c), Nil)
    BY <1>1, <1>3, TreeRemovable
  <2> QED
    BY <1>0, <1>2, <2>1 DEF Removable
<1>5. gone \intersect RootsOf(d, in) = {}
  <2>1. Below(d, c) \intersect RootsOf(d, in) = {}
    BY <1>0, OneRoot
  <2>2. c \notin RootsOf(d, in)
    BY DEF RootsOf
  <2> QED
    BY <2>1, <2>2 DEF Subtree
<1>6. gone \intersect ToSet(u.unlinked) = {}
  BY <1>0, <1>1, <1>5
<1>7. MarkedInUse(u.unlinked, gone \intersect ToSet(u.unlinked)) = d.unlinked
  <2>1. MarkedInUse(u.unlinked, {}) = u.unlinked
    BY MarkNone
  <2> QED
    BY <1>1, <1>6, <2>1
<1>8. IsWithout(u, gone, Nil, e) /\ e.unlinked = d.unlinked /\ e.untracked = d.untracked
  <2> HIDE DEF u, gone
  <2> QED BY <1>0, <1>1, <1>2, <1>4, <1>7, FreedIs
<1>9. c \in gone
  BY DEF Subtree
<1> HIDE DEF u, gone, e
<1>10. Good(e, in \ gone) /\ Lost(e) = Lost(u)
  <2>1. ToSet(u.unlinked) = RootsOf(u, in) \ gone
    BY <1>0, <1>1, <1>5, <1>9
  <2>2. u.unlinked \in Seq(in) /\ IsInjective(u.unlinked)
        /\ e.unlinked = u.unlinked /\ e.untracked = u.untracked
    BY <1>0, <1>1, <1>8
  <2>3. IsForest(u, in) /\ Removable(u, in, gone, Nil) /\ IsWithout(u, gone, Nil, e)
    BY <1>1, <1>4, <1>8
  <2> QED
    BY ONLY <1>6, <2>1, <2>2, <2>3, FreedKeeps
<1>11. Lost(u) = Lost(d)
  BY <1>1 DEF Lost
<1> QED
  BY <1>4, <1>8, <1>10, <1>11 DEF u, e, gone

(* DeleteChildren: all below p goes, and p has no children left.            *)
LEMMA ChildrenRemovedKeeps ==
  ASSUME NEW d, NEW in, Good(d, in), NEW p \in in \union {Doc}
  PROVE  /\ Good(ChildrenRemoved(d, p), in \ Below(d, p))
         /\ Lost(ChildrenRemoved(d, p)) = Lost(d)
         /\ ChildrenRemoved(d, p).unlinked = d.unlinked
         /\ ChildrenRemoved(d, p).first[p] = Nil
         /\ IsWithout(d, Below(d, p), p, ChildrenRemoved(d, p))
         /\ \A m \in Nodes : m \notin Below(d, p) =>
              ChildrenRemoved(d, p).next[m] = d.next[m]
         /\ \A m \in Nodes : m \notin Below(d, p) \union {p} =>
              ChildrenRemoved(d, p).first[m] = d.first[m]
<1>. DEFINE gone == Below(d, p)
            f == Freed(d, gone)
            e == ChildrenRemoved(d, p)
<1>0. /\ IsForest(d, in) /\ d \in Stores /\ in \subseteq Nodes
      /\ d.unlinked \in Seq(in) /\ d.unlinked \in Seq(Nodes) /\ IsInjective(d.unlinked)
      /\ ToSet(d.unlinked) = RootsOf(d, in)
      /\ p \in Parents /\ p # Nil
      /\ Nil \notin Parents
  BY StoreTypes, StoreAssumption DEF Good, Listed, IsForest, Typed, Parents
<1>1. Removable(d, in, gone, p) /\ gone \in SUBSET Nodes
  BY <1>0, BelowRemovable DEF Removable
<1>2. gone \intersect RootsOf(d, in) = {} /\ gone \intersect ToSet(d.unlinked) = {}
  BY <1>0, OneRoot
<1>3. MarkedInUse(d.unlinked, gone \intersect ToSet(d.unlinked)) = d.unlinked
  BY <1>2, MarkNone
<1>4. IsWithout(d, gone, Nil, f) /\ f.unlinked = d.unlinked /\ f.untracked = d.untracked
  <2> HIDE DEF gone
  <2> QED BY <1>0, <1>1, <1>3, FreedIs
<1>5. e = [f EXCEPT !.first[p] = Nil, !.last[p] = Nil]
  BY DEF ChildrenRemoved
<1> HIDE DEF e, f, gone
<1>6. /\ f.first \in [Parents -> Nodes \union {Nil}]
      /\ f.last \in [Parents -> Nodes \union {Nil}]
      /\ f \in Stores
  BY <1>4 DEF IsWithout, Stores
<1>7. /\ e.parent = f.parent /\ e.prev = f.prev /\ e.next = f.next
      /\ e.first = [f.first EXCEPT ![p] = Nil] /\ e.last = [f.last EXCEPT ![p] = Nil]
      /\ e.unlinked = f.unlinked /\ e.untracked = f.untracked
  BY <1>5, <1>6 DEF Stores
<1>8. e \in Stores
  <2>1. /\ [f.first EXCEPT ![p] = Nil] \in [Parents -> Nodes \union {Nil}]
        /\ [f.last EXCEPT ![p] = Nil] \in [Parents -> Nodes \union {Nil}]
    BY <1>0, <1>6
  <2> QED
    BY <1>5, <1>6, <2>1 DEF Stores
<1>9. IsWithout(d, gone, p, e)
  <2>1. \A m \in Parents : e.first[m] = IF m \in gone \union {p} THEN Nil ELSE d.first[m]
    BY <1>0, <1>4, <1>6, <1>7 DEF IsWithout
  <2>2. \A m \in Parents : e.last[m] = IF m \in gone \union {p} THEN Nil ELSE d.last[m]
    BY <1>0, <1>4, <1>6, <1>7 DEF IsWithout
  <2> QED
    BY <1>4, <1>7, <1>8, <2>1, <2>2 DEF IsWithout
<1>10. Good(e, in \ gone) /\ Lost(e) = Lost(d)
  <2>1. ToSet(d.unlinked) = RootsOf(d, in) \ gone
    BY <1>0, <1>2
  <2>2. e.unlinked = d.unlinked /\ e.untracked = d.untracked
    BY <1>4, <1>7
  <2>3. IsForest(d, in) /\ d.unlinked \in Seq(in) /\ IsInjective(d.unlinked)
    BY <1>0
  <2> QED
    BY ONLY <1>1, <1>2, <1>9, <2>1, <2>2, <2>3, FreedKeeps
<1>11. /\ e.unlinked = d.unlinked /\ e.first[p] = Nil
       /\ \A m \in Nodes : m \notin gone => e.next[m] = d.next[m]
       /\ \A m \in Nodes : m \notin gone \union {p} => e.first[m] = d.first[m]
  BY <1>0, <1>4, <1>7, <1>9 DEF IsWithout, Parents
<1> QED
  BY <1>9, <1>10, <1>11 DEF e, gone
(* Every node is in the document's tree or in that of a root.               *)
LEMMA AllOwned ==
  ASSUME NEW d, NEW in, Good(d, in)
  PROVE  in = (UNION {Subtree(d, n) : n \in ToSet(d.unlinked)}) \union Below(d, Doc)
<1>. DEFINE roots == ToSet(d.unlinked)
            gone == UNION {Subtree(d, n) : n \in roots}
            S == gone \union Below(d, Doc)
<1>0. /\ IsForest(d, in) /\ roots = RootsOf(d, in) /\ roots \subseteq in
      /\ Reaches(d, in) /\ Agree(d, in)
  BY DEF Good, IsForest, Listed, RootsOf
<1>1. ASSUME NEW n \in in \union {Doc}
      PROVE  /\ Below(d, n) \subseteq in
             /\ d.first[n] \in Below(d, n) \union {Nil}
             /\ \A m \in Below(d, n) : /\ d.first[m] \in Below(d, n) \union {Nil}
                                       /\ d.next[m] \in Below(d, n) \union {Nil}
  BY <1>0, BelowClosed DEF ClosedIn
<1>2. S \in SUBSET in
  <2>1. ASSUME NEW n \in roots
        PROVE  Subtree(d, n) \subseteq in
    BY <1>0, <1>1 DEF Subtree
  <2> QED
    BY <1>1, <2>1
<1>3. RootsOf(d, in) \subseteq S
  BY <1>0 DEF Subtree
<1>4. d.first[Doc] \in S \union {Nil}
  BY <1>1
<1>5. ASSUME NEW m \in S
      PROVE  d.first[m] \in S \union {Nil} /\ d.next[m] \in S \union {Nil}
  <2>1. CASE m \in Below(d, Doc)
    BY <1>1, <2>1
  <2>2. CASE m \in gone
    <3>1. PICK n \in roots : m \in Subtree(d, n)
      BY <2>2
    <3>2. Subtree(d, n) \subseteq S /\ n \in in
      BY <1>0
    <3>3. CASE m = n
      <4>1. d.next[n] = Nil
        BY <1>0, <3>2 DEF Agree, RootsOf
      <4>2. d.first[n] \in Subtree(d, n) \union {Nil}
        BY <1>1, <3>2 DEF Subtree
      <4> QED
        BY <3>2, <3>3, <4>1, <4>2
    <3>4. CASE m \in Below(d, n)
      <4>1. d.first[m] \in Subtree(d, n) \union {Nil} /\ d.next[m] \in Subtree(d, n) \union {Nil}
        BY <1>1, <3>2, <3>4 DEF Subtree
      <4> QED
        BY <3>2, <4>1
    <3> QED
      BY <3>1, <3>3, <3>4 DEF Subtree
  <2> QED
    BY <2>1, <2>2
<1> HIDE DEF S
<1>6. in \subseteq S
  BY <1>0, <1>2, <1>3, <1>4, <1>5 DEF Reaches, ClosedIn
<1> QED
  BY <1>2, <1>6 DEF S

(* XMLDocument::Clear leaves nothing. *)
LEMMA ClearedKeeps ==
  ASSUME NEW d, NEW in, Good(d, in)
  PROVE  LET gone == UNION {Subtree(d, n) : n \in ToSet(d.unlinked)}
             e == ChildrenRemoved(d, Doc)
             c == [Freed(e, gone) EXCEPT !.unlinked = <<>>,
                                         !.untracked = @ - Len(d.unlinked)]
         IN  /\ in \ (gone \union Subtree(d, Doc)) = {}
             /\ Good(c, {})
             /\ Lost(c) = Lost(d)
<1>. DEFINE gone == UNION {Subtree(d, n) : n \in ToSet(d.unlinked)}
            e == ChildrenRemoved(d, Doc)
            f == Freed(e, gone)
            c == [f EXCEPT !.unlinked = <<>>, !.untracked = @ - Len(d.unlinked)]
            list == MarkedInUse(e.unlinked, gone \intersect ToSet(e.unlinked))
            Kept(ptr) == [m \in DOMAIN ptr |-> IF m \in gone THEN Nil ELSE ptr[m]]
<1>0. /\ in = gone \union Below(d, Doc) /\ IsForest(d, in) /\ in \subseteq Nodes
      /\ Doc \notin Nodes /\ Nil \notin Parents
  BY AllOwned, StoreAssumption DEF Good, IsForest, Typed, Parents
<1>1. /\ Good(e, in \ Below(d, Doc)) /\ Lost(e) = Lost(d)
      /\ e.unlinked = d.unlinked /\ e.first[Doc] = Nil
  BY ChildrenRemovedKeeps
<1>2. f = [e EXCEPT !.parent = Kept(e.parent), !.prev = Kept(e.prev), !.next = Kept(e.next),
                    !.first = Kept(e.first), !.last = Kept(e.last), !.unlinked = list]
  BY DEF Freed, MarkedInUse
<1>3. in \ (gone \union Subtree(d, Doc)) = {}
  BY <1>0 DEF Subtree
<1> HIDE DEF e, gone, list
<1>4. e \in Stores /\ Typed(e, in \ Below(d, Doc)) /\ Agree(e, in \ Below(d, Doc))
  BY <1>1 DEF Good, IsForest
<1>5. /\ e.parent \in [Nodes -> Parents \union {Nil}]
      /\ e.prev \in [Nodes -> Nodes \union {Nil}]
      /\ e.next \in [Nodes -> Nodes \union {Nil}]
      /\ e.first \in [Parents -> Nodes \union {Nil}]
      /\ e.last \in [Parents -> Nodes \union {Nil}]
      /\ e.untracked \in Int
      /\ Len(d.unlinked) \in Nat
  <2>1. Len(d.unlinked) \in Nat
    BY <1>0, StoreTypes DEF IsForest
  <2> QED
    BY <1>4, <2>1 DEF Stores
<1>6. \A m \in Nodes \ gone :
        /\ e.parent[m] = Nil /\ e.prev[m] = Nil /\ e.next[m] = Nil
        /\ e.first[m] = Nil /\ e.last[m] = Nil
  BY <1>0, <1>4 DEF Typed
<1>7. e.first[Doc] = Nil /\ e.last[Doc] = Nil
  BY <1>1, <1>4 DEF Agree
<1>8. /\ Kept(e.parent) = [m \in Nodes |-> Nil]
      /\ Kept(e.prev) = [m \in Nodes |-> Nil]
      /\ Kept(e.next) = [m \in Nodes |-> Nil]
      /\ Kept(e.first) = [m \in Parents |-> Nil]
      /\ Kept(e.last) = [m \in Parents |-> Nil]
  BY <1>5, <1>6, <1>7 DEF Parents
<1> HIDE DEF f, Kept
<1>9. /\ c.parent = [m \in Nodes |-> Nil] /\ c.prev = [m \in Nodes |-> Nil]
      /\ c.next = [m \in Nodes |-> Nil]
      /\ c.first = [m \in Parents |-> Nil] /\ c.last = [m \in Parents |-> Nil]
      /\ c.unlinked = <<>> /\ c.untracked = e.untracked - Len(d.unlinked)
  BY <1>2, <1>4, <1>8 DEF Stores
<1>10. c \in Stores
  <2>1. /\ [m \in Nodes |-> Nil] \in [Nodes -> Parents \union {Nil}]
        /\ [m \in Nodes |-> Nil] \in [Nodes -> Nodes \union {Nil}]
        /\ [m \in Parents |-> Nil] \in [Parents -> Nodes \union {Nil}]
        /\ <<>> \in Seq(Nodes)
        /\ e.untracked - Len(d.unlinked) \in Int
    BY <1>5
  <2>. DEFINE g == [e EXCEPT !.parent = Kept(e.parent), !.prev = Kept(e.prev),
                             !.next = Kept(e.next), !.first = Kept(e.first),
                             !.last = Kept(e.last)]
              h == [g EXCEPT !.unlinked = <<>>]
  <2>2. g \in Stores
    BY <1>4, <1>8, <2>1 DEF Stores
  <2>3. f = [g EXCEPT !.unlinked = list] /\ f.untracked = e.untracked
    BY <1>2, <1>4 DEF Stores
  <2> HIDE DEF g
  <2>4. [f EXCEPT !.unlinked = <<>>] = h
    BY <2>2, <2>3 DEF Stores
  <2>5. h \in Stores
    BY <2>1, <2>2 DEF Stores
  <2> HIDE DEF h
  <2>6. c = [h EXCEPT !.untracked = e.untracked - Len(d.unlinked)]
    BY <2>3, <2>4
  <2> HIDE DEF c
  <2> QED
    BY <2>1, <2>5, <2>6 DEF Stores
<1> HIDE DEF c
<1>11. Typed(c, {}) /\ Agree(c, {}) /\ Reaches(c, {}) /\ RootsOf(c, {}) = {}
  BY <1>9 DEF Typed, Agree, Reaches, RootsOf, Parents
<1>12. Listed(c, {})
  <2>1. /\ <<>> \in Seq({}) /\ ToSet(<<>>) = {} /\ IsInjective(<<>>)
    BY DEF ToSet, IsInjective
  <2> QED
    BY <1>9, <1>11, <2>1 DEF Listed
<1>13. Lost(c) = Lost(d)
  BY <1>1, <1>5, <1>9 DEF Lost
<1> QED
  BY <1>3, <1>10, <1>11, <1>12, <1>13 DEF Good, IsForest, c, f, e, gone
-----------------------------------------------------------------------------
(* Copies. *)

(* e is d with the copies that f makes of n and all below it. *)
IsClone(d, n, f, e) ==
  LET Image(m) == IF m = Nil THEN Nil ELSE f[m]
  IN  /\ e \in Stores
      /\ \A m \in Nodes \ Range(f) :
           /\ e.parent[m] = d.parent[m] /\ e.prev[m] = d.prev[m]
           /\ e.next[m] = d.next[m]
      /\ \A m \in Parents \ Range(f) : e.first[m] = d.first[m] /\ e.last[m] = d.last[m]
      /\ e.parent[f[n]] = Nil /\ e.prev[f[n]] = Nil /\ e.next[f[n]] = Nil
      /\ \A o \in Below(d, n) :
           /\ e.parent[f[o]] = Image(d.parent[o])
           /\ e.prev[f[o]] = Image(d.prev[o])
           /\ e.next[f[o]] = Image(d.next[o])
      /\ \A o \in Subtree(d, n) :
           e.first[f[o]] = Image(d.first[o]) /\ e.last[f[o]] = Image(d.last[o])
      /\ e.unlinked = Append(d.unlinked, f[n])
      /\ e.untracked = d.untracked + 1

(* DeepClone: each pointer of a copy is the copy of that pointer.           *)
LEMMA CloneIs ==
  ASSUME NEW d, NEW in, IsForest(d, in), NEW n \in in,
         NEW f \in [Subtree(d, n) -> Nodes \ in], IsInjective(f)
  PROVE  IsClone(d, n, f, Cloned(d, n, f))
<1>. DEFINE old == Subtree(d, n)
            B == Below(d, n)
            new == Range(f)
            Origin(m) == CHOOSE o \in DOMAIN f : f[o] = m
            Image(m) == IF m = Nil THEN Nil ELSE f[m]
            Side(ptr) == [m \in Nodes |-> IF m = f[n] THEN Nil
                                          ELSE IF m \in new THEN Image(ptr[Origin(m)])
                                          ELSE ptr[m]]
            End(ptr) == [m \in Parents |-> IF m \in new THEN Image(ptr[Origin(m)])
                                           ELSE ptr[m]]
            e == [d EXCEPT !.parent = Side(d.parent), !.prev = Side(d.prev),
                           !.next = Side(d.next), !.first = End(d.first),
                           !.last = End(d.last)]
            c == Cloned(d, n, f)
<1>0. /\ d \in Stores /\ Typed(d, in) /\ Agree(d, in) /\ in \subseteq Nodes
      /\ Doc \notin Nodes /\ Nil \notin Parents /\ Nodes \subseteq Parents
      /\ old = {n} \union B /\ DOMAIN f = old
  BY StoreAssumption DEF IsForest, Typed, Parents, Subtree
<1>1. /\ n \notin B /\ B \subseteq in /\ old \subseteq in
      /\ \A o \in B : /\ d.parent[o] \in old
                      /\ d.prev[o] \in old \union {Nil} /\ d.next[o] \in old \union {Nil}
      /\ \A o \in old : d.first[o] \in old \union {Nil}
  BY <1>0, NotBelowItself, BelowClosed, BelowLooksBack DEF ClosedIn, Subtree
<1>2. \A o \in old : d.last[o] \in old \union {Nil}
  <2>1. \A o \in old : d.last[o] # Nil => d.last[o] \in in /\ d.parent[d.last[o]] = o
    BY <1>0, <1>1 DEF Typed, Agree
  <2> QED
    BY <1>0, <2>1, BelowComplete
<1>3. /\ \A o \in old : f[o] \in new /\ f[o] \in Nodes /\ f[o] \notin in
      /\ \A o \in old : Origin(f[o]) = o
      /\ new \subseteq Nodes
      /\ \A m \in new : Origin(m) \in old /\ f[Origin(m)] = m
      /\ \A o \in B : f[o] # f[n]
  <2>1. \A o1, o2 \in old : f[o1] = f[o2] => o1 = o2
    BY <1>0 DEF IsInjective
  <2>2. \A o \in old : f[o] \in new /\ f[o] \in Nodes /\ f[o] \notin in
    BY <1>0 DEF Range
  <2>3. ASSUME NEW m \in new
        PROVE  Origin(m) \in old /\ f[Origin(m)] = m /\ m \in Nodes
    BY <1>0 DEF Range
  <2>4. \A o \in old : Origin(f[o]) = o
    BY <2>1, <2>2, <2>3
  <2> QED
    BY <1>0, <1>1, <2>1, <2>2, <2>3, <2>4
<1>4. c = Created(e, f[n])
  BY DEF Cloned
<1> HIDE DEF new, Origin, c, old, B
<1>5. ASSUME NEW T, NEW ptr \in [Nodes -> T], Nil \in T, Nodes \subseteq T,
             \A o \in B : ptr[o] \in old \union {Nil}
      PROVE  /\ Side(ptr) \in [Nodes -> T]
             /\ Side(ptr)[f[n]] = Nil
             /\ \A o \in B : Side(ptr)[f[o]] = Image(ptr[o])
             /\ \A m \in Nodes \ new : Side(ptr)[m] = ptr[m]
  <2>1. \A m \in Nodes : Side(ptr)[m] = IF m = f[n] THEN Nil
                                        ELSE IF m \in new THEN Image(ptr[Origin(m)])
                                        ELSE ptr[m]
    OBVIOUS
  <2>2. \A o \in old : f[o] \in Nodes
    BY <1>3
  <2>3. \A m \in new : m # f[n] => Origin(m) \in B
    BY <1>0, <1>3
  <2>4. \A m \in Nodes : Side(ptr)[m] \in T
    BY <1>5, <2>1, <2>2, <2>3
  <2>5. Side(ptr) = [m \in Nodes |-> Side(ptr)[m]]
    OBVIOUS
  <2> HIDE DEF Side
  <2> QED
    BY <1>0, <1>3, <2>1, <2>4, <2>5
<1>6. ASSUME NEW ptr \in [Parents -> Nodes \union {Nil}],
             \A o \in old : ptr[o] \in old \union {Nil}
      PROVE  /\ End(ptr) \in [Parents -> Nodes \union {Nil}]
             /\ \A o \in old : End(ptr)[f[o]] = Image(ptr[o])
             /\ \A m \in Parents \ new : End(ptr)[m] = ptr[m]
  <2>1. \A m \in Parents : End(ptr)[m] = IF m \in new THEN Image(ptr[Origin(m)]) ELSE ptr[m]
    OBVIOUS
  <2>2. \A m \in Parents : End(ptr)[m] \in Nodes \union {Nil}
    BY <1>3, <1>6, <2>1
  <2>3. End(ptr) = [m \in Parents |-> End(ptr)[m]]
    OBVIOUS
  <2> HIDE DEF End
  <2> QED
    BY <1>0, <1>3, <2>1, <2>2, <2>3
<1>7. /\ d.parent \in [Nodes -> Parents \union {Nil}]
      /\ d.prev \in [Nodes -> Nodes \union {Nil}]
      /\ d.next \in [Nodes -> Nodes \union {Nil}]
      /\ d.first \in [Parents -> Nodes \union {Nil}]
      /\ d.last \in [Parents -> Nodes \union {Nil}]
  BY <1>0 DEF Stores
<1> HIDE DEF Side, End, Image
<1>8. /\ Side(d.parent) \in [Nodes -> Parents \union {Nil}]
      /\ Side(d.parent)[f[n]] = Nil
      /\ \A o \in B : Side(d.parent)[f[o]] = Image(d.parent[o])
      /\ \A m \in Nodes \ new : Side(d.parent)[m] = d.parent[m]
  <2>1. Nil \in Parents \union {Nil} /\ Nodes \subseteq Parents \union {Nil}
        /\ \A o \in B : d.parent[o] \in old \union {Nil}
    BY <1>0, <1>1
  <2> QED
    BY <1>5, <1>7, <2>1
<1>9. /\ Side(d.prev) \in [Nodes -> Nodes \union {Nil}]
      /\ Side(d.prev)[f[n]] = Nil
      /\ \A o \in B : Side(d.prev)[f[o]] = Image(d.prev[o])
      /\ \A m \in Nodes \ new : Side(d.prev)[m] = d.prev[m]
  <2>1. Nil \in Nodes \union {Nil} /\ Nodes \subseteq Nodes \union {Nil}
        /\ \A o \in B : d.prev[o] \in old \union {Nil}
    BY <1>0, <1>1
  <2> QED
    BY <1>5, <1>7, <2>1
<1>10. /\ Side(d.next) \in [Nodes -> Nodes \union {Nil}]
       /\ Side(d.next)[f[n]] = Nil
       /\ \A o \in B : Side(d.next)[f[o]] = Image(d.next[o])
       /\ \A m \in Nodes \ new : Side(d.next)[m] = d.next[m]
  <2>1. Nil \in Nodes \union {Nil} /\ Nodes \subseteq Nodes \union {Nil}
        /\ \A o \in B : d.next[o] \in old \union {Nil}
    BY <1>0, <1>1
  <2> QED
    BY <1>5, <1>7, <2>1
<1>11. /\ End(d.first) \in [Parents -> Nodes \union {Nil}]
       /\ \A o \in old : End(d.first)[f[o]] = Image(d.first[o])
       /\ \A m \in Parents \ new : End(d.first)[m] = d.first[m]
  BY <1>1, <1>6, <1>7
<1>12. /\ End(d.last) \in [Parents -> Nodes \union {Nil}]
       /\ \A o \in old : End(d.last)[f[o]] = Image(d.last[o])
       /\ \A m \in Parents \ new : End(d.last)[m] = d.last[m]
  BY <1>2, <1>6, <1>7
<1>13. e \in Stores
  BY <1>0, <1>8, <1>9, <1>10, <1>11, <1>12 DEF Stores
<1>14. /\ e.parent = Side(d.parent) /\ e.prev = Side(d.prev) /\ e.next = Side(d.next)
       /\ e.first = End(d.first) /\ e.last = End(d.last)
       /\ e.unlinked = d.unlinked /\ e.untracked = d.untracked
  BY <1>0 DEF Stores
<1> HIDE DEF e
<1>15. /\ c \in Stores /\ SamePointers(e, c)
       /\ c.unlinked = Append(d.unlinked, f[n]) /\ c.untracked = d.untracked + 1
  <2>1. f[n] \in Nodes
    BY <1>0, <1>3
  <2> QED
    BY <1>4, <1>13, <1>14, <2>1, CreatedIs
<1>16. IsClone(d, n, f, c)
  BY <1>8, <1>9, <1>10, <1>11, <1>12, <1>14, <1>15
     DEF IsClone, SamePointers, Image, old, B, new
<1> QED
  BY <1>16 DEF c

(* The copy is a tree of its own beside the others. *)
LEMMA ClonedKeeps ==
  ASSUME NEW d, NEW in, Good(d, in), NEW n \in in,
         NEW f \in [Subtree(d, n) -> Nodes \ in], IsInjective(f)
  PROVE  /\ Good(Cloned(d, n, f), in \union Range(f))
         /\ Lost(Cloned(d, n, f)) = Lost(d)
<1>. DEFINE old == Subtree(d, n)
            B == Below(d, n)
            new == Range(f)
            all == in \union new
            Image(m) == IF m = Nil THEN Nil ELSE f[m]
            e == Cloned(d, n, f)
<1>0. /\ IsForest(d, in) /\ d \in Stores /\ Typed(d, in) /\ Agree(d, in) /\ Reaches(d, in)
      /\ in \subseteq Nodes /\ Doc \notin Nodes /\ Nil \notin Nodes /\ Nil # Doc
      /\ Nodes \subseteq Parents /\ Doc \in Parents
      /\ old = {n} \union B /\ DOMAIN f = old /\ n \in old
  BY StoreAssumption DEF Good, IsForest, Typed, Parents, Subtree
<1>1. /\ n \notin B /\ B \subseteq in /\ old \subseteq in
      /\ \A o \in B : /\ d.parent[o] \in old
                      /\ d.prev[o] \in B \union {Nil} /\ d.next[o] \in B \union {Nil}
      /\ \A o \in old : d.first[o] \in B \union {Nil}
  BY <1>0, NotBelowItself, BelowClosed, BelowLooksBack DEF ClosedIn, Subtree
<1>2. \A o \in old : d.last[o] \in B \union {Nil}
  <2>1. \A o \in old : d.last[o] # Nil => d.last[o] \in in /\ d.parent[d.last[o]] = o
    BY <1>0, <1>1 DEF Typed, Agree
  <2> QED
    BY <1>0, <2>1, BelowComplete
<1>3. /\ \A o1, o2 \in old : f[o1] = f[o2] => o1 = o2
      /\ \A o \in old : f[o] \in new
      /\ \A m \in new : \E o \in old : m = f[o]
      /\ new \subseteq Nodes /\ new \intersect in = {}
  <2>1. \A o1, o2 \in old : f[o1] = f[o2] => o1 = o2
    BY <1>0 DEF IsInjective
  <2> QED
    BY <1>0, <2>1 DEF Range
<1>4. IsClone(d, n, f, e)
  BY <1>0, CloneIs
<1> HIDE DEF e, new
<1>5. /\ e \in Stores
      /\ \A m \in Nodes \ new :
           /\ e.parent[m] = d.parent[m] /\ e.prev[m] = d.prev[m] /\ e.next[m] = d.next[m]
           /\ e.first[m] = d.first[m] /\ e.last[m] = d.last[m]
      /\ e.first[Doc] = d.first[Doc] /\ e.last[Doc] = d.last[Doc]
      /\ e.parent[f[n]] = Nil /\ e.prev[f[n]] = Nil /\ e.next[f[n]] = Nil
      /\ \A o \in B :
           /\ e.parent[f[o]] = Image(d.parent[o])
           /\ e.prev[f[o]] = Image(d.prev[o])
           /\ e.next[f[o]] = Image(d.next[o])
      /\ \A o \in old :
           e.first[f[o]] = Image(d.first[o]) /\ e.last[f[o]] = Image(d.last[o])
      /\ e.unlinked = Append(d.unlinked, f[n])
      /\ e.untracked = d.untracked + 1
  BY <1>0, <1>3, <1>4 DEF IsClone, new
<1> HIDE DEF old, B
<1>6. ASSUME NEW o \in B
      PROVE  /\ e.parent[f[o]] = f[d.parent[o]] /\ f[d.parent[o]] \in new
             /\ d.prev[o] = Nil => e.prev[f[o]] = Nil
             /\ d.prev[o] # Nil => e.prev[f[o]] = f[d.prev[o]] /\ f[d.prev[o]] \in new
             /\ d.next[o] = Nil => e.next[f[o]] = Nil
             /\ d.next[o] # Nil => e.next[f[o]] = f[d.next[o]] /\ f[d.next[o]] \in new
  BY <1>0, <1>1, <1>3, <1>5
<1>7. ASSUME NEW o \in old
      PROVE  /\ d.first[o] = Nil => e.first[f[o]] = Nil
             /\ d.first[o] # Nil => e.first[f[o]] = f[d.first[o]] /\ f[d.first[o]] \in new
             /\ d.last[o] = Nil => e.last[f[o]] = Nil
             /\ d.last[o] # Nil => e.last[f[o]] = f[d.last[o]] /\ f[d.last[o]] \in new
  BY <1>0, <1>1, <1>2, <1>3, <1>5
<1>8. ASSUME NEW m \in new
      PROVE  \/ m = f[n]
             \/ \E o \in B : m = f[o]
  BY <1>0, <1>3
<1>9. \A m \in in : m \in Nodes \ new /\ m \notin new
  BY <1>0, <1>3
<1>10. Typed(e, all)
  <2>1. ASSUME NEW m \in all
        PROVE  /\ e.parent[m] \in all \union {Doc, Nil}
               /\ e.prev[m] \in all \union {Nil} /\ e.next[m] \in all \union {Nil}
               /\ e.first[m] \in all \union {Nil} /\ e.last[m] \in all \union {Nil}
    <3>1. CASE m \in in
      BY <1>0, <1>5, <1>9, <3>1 DEF Typed
    <3>2. CASE m = f[n]
      BY <1>0, <1>5, <1>7, <3>2
    <3>3. ASSUME NEW o \in B, m = f[o]
          PROVE  /\ e.parent[m] \in new
                 /\ e.prev[m] \in new \union {Nil} /\ e.next[m] \in new \union {Nil}
                 /\ e.first[m] \in new \union {Nil} /\ e.last[m] \in new \union {Nil}
      BY <1>0, <1>6, <1>7, <3>3
    <3> QED
      BY <1>8, <3>1, <3>2, <3>3
  <2>2. e.first[Doc] \in all \union {Nil} /\ e.last[Doc] \in all \union {Nil}
    BY <1>0, <1>5 DEF Typed
  <2>3. \A m \in Nodes \ all :
          /\ e.parent[m] = Nil /\ e.prev[m] = Nil /\ e.next[m] = Nil
          /\ e.first[m] = Nil /\ e.last[m] = Nil
    BY <1>0, <1>5 DEF Typed
  <2>4. all \subseteq Nodes
    BY <1>0, <1>3
  <2> HIDE DEF all
  <2> QED
    BY <2>1, <2>2, <2>3, <2>4 DEF Typed
<1>11. ASSUME NEW m \in in
       PROVE  /\ e.parent[m] = d.parent[m] /\ e.prev[m] = d.prev[m] /\ e.next[m] = d.next[m]
              /\ e.first[m] = d.first[m] /\ e.last[m] = d.last[m]
  BY <1>5, <1>9
<1>12. ASSUME NEW m \in in
       PROVE  /\ e.next[m] # Nil =>
                   e.prev[e.next[m]] = m /\ e.parent[e.next[m]] = e.parent[m]
              /\ e.prev[m] # Nil =>
                   e.next[e.prev[m]] = m /\ e.parent[e.prev[m]] = e.parent[m]
              /\ e.parent[m] = Nil => e.next[m] = Nil /\ e.prev[m] = Nil
              /\ e.parent[m] # Nil =>
                   /\ e.next[m] = Nil <=> e.last[e.parent[m]] = m
                   /\ e.prev[m] = Nil <=> e.first[e.parent[m]] = m
              /\ e.first[m] # Nil => e.parent[e.first[m]] = m
              /\ e.last[m] # Nil => e.parent[e.last[m]] = m
              /\ e.first[m] = Nil <=> e.last[m] = Nil
  <2>1. /\ d.next[m] \in in \union {Nil} /\ d.prev[m] \in in \union {Nil}
        /\ d.parent[m] \in in \union {Doc, Nil}
        /\ d.first[m] \in in \union {Nil} /\ d.last[m] \in in \union {Nil}
    BY <1>0 DEF Typed
  <2>2. /\ d.next[m] # Nil =>
              d.prev[d.next[m]] = m /\ d.parent[d.next[m]] = d.parent[m]
        /\ d.prev[m] # Nil =>
              d.next[d.prev[m]] = m /\ d.parent[d.prev[m]] = d.parent[m]
        /\ d.parent[m] = Nil => d.next[m] = Nil /\ d.prev[m] = Nil
        /\ d.parent[m] # Nil =>
              /\ d.next[m] = Nil <=> d.last[d.parent[m]] = m
              /\ d.prev[m] = Nil <=> d.first[d.parent[m]] = m
        /\ d.first[m] # Nil => d.parent[d.first[m]] = m
        /\ d.last[m] # Nil => d.parent[d.last[m]] = m
        /\ d.first[m] = Nil <=> d.last[m] = Nil
    BY <1>0 DEF Agree
  <2> QED
    BY <1>0, <1>5, <1>11, <2>1, <2>2
<1>13. ASSUME NEW o \in old
       PROVE  /\ e.first[f[o]] # Nil => e.parent[e.first[f[o]]] = f[o]
              /\ e.last[f[o]] # Nil => e.parent[e.last[f[o]]] = f[o]
              /\ e.first[f[o]] = Nil <=> e.last[f[o]] = Nil
  <2>1. /\ d.first[o] # Nil => d.first[o] \in B /\ d.parent[d.first[o]] = o
        /\ d.last[o] # Nil => d.last[o] \in B /\ d.parent[d.last[o]] = o
        /\ d.first[o] = Nil <=> d.last[o] = Nil
    BY <1>0, <1>1, <1>2 DEF Agree
  <2>2. \A m \in new : m # Nil
    BY <1>0, <1>3
  <2> QED
    BY <1>6, <1>7, <2>1, <2>2
<1>14. ASSUME NEW o \in B
       PROVE  /\ e.next[f[o]] # Nil =>
                   /\ e.prev[e.next[f[o]]] = f[o]
                   /\ e.parent[e.next[f[o]]] = e.parent[f[o]]
              /\ e.prev[f[o]] # Nil =>
                   /\ e.next[e.prev[f[o]]] = f[o]
                   /\ e.parent[e.prev[f[o]]] = e.parent[f[o]]
              /\ e.parent[f[o]] # Nil
              /\ e.next[f[o]] = Nil <=> e.last[e.parent[f[o]]] = f[o]
              /\ e.prev[f[o]] = Nil <=> e.first[e.parent[f[o]]] = f[o]
  <2>1. /\ d.next[o] # Nil =>
             d.next[o] \in B /\ d.prev[d.next[o]] = o /\ d.parent[d.next[o]] = d.parent[o]
        /\ d.prev[o] # Nil =>
             d.prev[o] \in B /\ d.next[d.prev[o]] = o /\ d.parent[d.prev[o]] = d.parent[o]
        /\ d.parent[o] \in old /\ d.parent[o] # Nil
        /\ d.next[o] = Nil <=> d.last[d.parent[o]] = o
        /\ d.prev[o] = Nil <=> d.first[d.parent[o]] = o
        /\ o # Nil /\ o \in old
    BY <1>0, <1>1 DEF Agree
  <2>2. \A m \in new : m # Nil
    BY <1>0, <1>3
  <2>3. /\ e.next[f[o]] # Nil =>
             /\ e.prev[e.next[f[o]]] = f[o]
             /\ e.parent[e.next[f[o]]] = e.parent[f[o]]
        /\ e.prev[f[o]] # Nil =>
             /\ e.next[e.prev[f[o]]] = f[o]
             /\ e.parent[e.prev[f[o]]] = e.parent[f[o]]
    BY <1>6, <2>1, <2>2
  <2>4. e.parent[f[o]] = f[d.parent[o]] /\ e.parent[f[o]] # Nil
    BY <1>6, <2>2
  <2>5. e.next[f[o]] = Nil <=> e.last[e.parent[f[o]]] = f[o]
    <3>1. e.last[f[d.parent[o]]] = f[o] <=> d.last[d.parent[o]] = o
      <4>1. d.last[d.parent[o]] # Nil => d.last[d.parent[o]] \in old
        BY <1>0, <1>2, <2>1
      <4>2. f[o] # Nil
        BY <1>3, <2>1, <2>2
      <4> QED
        BY <1>3, <1>7, <2>1, <4>1, <4>2
    <3> QED
      BY <1>6, <2>1, <2>2, <2>4, <3>1
  <2>6. e.prev[f[o]] = Nil <=> e.first[e.parent[f[o]]] = f[o]
    <3>1. e.first[f[d.parent[o]]] = f[o] <=> d.first[d.parent[o]] = o
      <4>1. d.first[d.parent[o]] # Nil => d.first[d.parent[o]] \in old
        BY <1>0, <1>1, <2>1
      <4>2. f[o] # Nil
        BY <1>3, <2>1, <2>2
      <4> QED
        BY <1>3, <1>7, <2>1, <4>1, <4>2
    <3> QED
      BY <1>6, <2>1, <2>2, <2>4, <3>1
  <2> QED
    BY <2>3, <2>4, <2>5, <2>6
<1>15. Agree(e, all)
  <2>1. ASSUME NEW m \in all
        PROVE  /\ e.next[m] # Nil =>
                    e.prev[e.next[m]] = m /\ e.parent[e.next[m]] = e.parent[m]
               /\ e.prev[m] # Nil =>
                    e.next[e.prev[m]] = m /\ e.parent[e.prev[m]] = e.parent[m]
               /\ e.parent[m] = Nil => e.next[m] = Nil /\ e.prev[m] = Nil
               /\ e.parent[m] # Nil =>
                    /\ e.next[m] = Nil <=> e.last[e.parent[m]] = m
                    /\ e.prev[m] = Nil <=> e.first[e.parent[m]] = m
               /\ e.first[m] # Nil => e.parent[e.first[m]] = m
               /\ e.last[m] # Nil => e.parent[e.last[m]] = m
               /\ e.first[m] = Nil <=> e.last[m] = Nil
    <3>1. CASE m \in in
      BY <1>12, <3>1
    <3>2. CASE m = f[n]
      BY <1>0, <1>5, <1>13, <3>2
    <3>3. ASSUME NEW o \in B, m = f[o]
          PROVE  /\ e.next[m] # Nil =>
                      e.prev[e.next[m]] = m /\ e.parent[e.next[m]] = e.parent[m]
                 /\ e.prev[m] # Nil =>
                      e.next[e.prev[m]] = m /\ e.parent[e.prev[m]] = e.parent[m]
                 /\ e.parent[m] = Nil => e.next[m] = Nil /\ e.prev[m] = Nil
                 /\ e.parent[m] # Nil =>
                      /\ e.next[m] = Nil <=> e.last[e.parent[m]] = m
                      /\ e.prev[m] = Nil <=> e.first[e.parent[m]] = m
                 /\ e.first[m] # Nil => e.parent[e.first[m]] = m
                 /\ e.last[m] # Nil => e.parent[e.last[m]] = m
                 /\ e.first[m] = Nil <=> e.last[m] = Nil
      <4>1. o \in old
        BY <1>0
      <4> QED
        BY <1>13, <1>14, <3>3, <4>1
    <3>4. m \in in \/ m = f[n] \/ \E o \in B : m = f[o]
      BY <1>8
    <3> QED
      BY <3>1, <3>2, <3>3, <3>4
  <2>2. /\ e.first[Doc] # Nil => e.parent[e.first[Doc]] = Doc
        /\ e.last[Doc] # Nil => e.parent[e.last[Doc]] = Doc
        /\ e.first[Doc] = Nil <=> e.last[Doc] = Nil
    <3>1. /\ d.first[Doc] \in in \union {Nil} /\ d.last[Doc] \in in \union {Nil}
      BY <1>0 DEF Typed
    <3>2. /\ d.first[Doc] # Nil => d.parent[d.first[Doc]] = Doc
          /\ d.last[Doc] # Nil => d.parent[d.last[Doc]] = Doc
          /\ d.first[Doc] = Nil <=> d.last[Doc] = Nil
      BY <1>0 DEF Agree
    <3> QED
      BY <1>5, <1>11, <3>1, <3>2
  <2> HIDE DEF all
  <2> QED
    BY <2>1, <2>2 DEF Agree
<1>16. RootsOf(e, all) = RootsOf(d, in) \union {f[n]}
  <2>1. ASSUME NEW m \in RootsOf(e, all)
        PROVE  m \in RootsOf(d, in) \union {f[n]}
    BY <1>8, <1>11, <1>14, <2>1 DEF RootsOf
  <2>2. ASSUME NEW m \in RootsOf(d, in) \union {f[n]}
        PROVE  m \in RootsOf(e, all)
    BY <1>0, <1>3, <1>5, <1>11, <2>2 DEF RootsOf
  <2> QED
    BY <2>1, <2>2
<1>17. ASSUME NEW S \in SUBSET all,
              RootsOf(e, all) \subseteq S,
              e.first[Doc] \in S \union {Nil},
              ClosedIn(e, S)
       PROVE  all \subseteq S
  <2>. DEFINE U == S \intersect in
              T == {m \in old : f[m] \in S}
  <2>1. RootsOf(d, in) \subseteq U /\ U \in SUBSET in
    BY <1>16, <1>17 DEF RootsOf
  <2>2. d.first[Doc] \in U \union {Nil}
    BY <1>0, <1>5, <1>17 DEF Typed
  <2>3. ClosedIn(d, U)
    BY <1>0, <1>11, <1>17 DEF Typed, ClosedIn
  <2>4. in \subseteq U
    <3> HIDE DEF U
    <3> QED BY <1>0, <2>1, <2>2, <2>3 DEF Reaches
  <2>5. ASSUME NEW m \in T
        PROVE  /\ d.first[m] \in T \union {Nil}
               /\ m \in B => d.next[m] \in T \union {Nil}
    <3>1. /\ e.first[f[m]] \in S \union {Nil} /\ e.next[f[m]] \in S \union {Nil}
          /\ m \in old
      BY <1>17 DEF ClosedIn
    <3>2. /\ d.first[m] \in B \union {Nil}
          /\ m \in B => d.next[m] \in B \union {Nil}
          /\ B \subseteq old
      BY <1>0, <1>1, <3>1
    <3>3. \A x \in new : x # Nil
      BY <1>0, <1>3
    <3> QED
      BY <1>6, <1>7, <3>1, <3>2, <3>3
  <2>6. n \in T
    BY <1>0, <1>16, <1>17
  <2>7. B \subseteq T
    <3>1. /\ d.first[n] \in T \union {Nil}
          /\ \A m \in T \intersect B :
               d.first[m] \in T \union {Nil} /\ d.next[m] \in T \union {Nil}
      BY <2>5, <2>6
    <3> HIDE DEF T
    <3> QED
      BY <1>0, <3>1, BelowLeast DEF B
  <2> QED
    BY <1>8, <1>16, <1>17, <2>4, <2>7
<1>18. IsForest(e, all)
  <2> HIDE DEF all
  <2> QED BY <1>5, <1>10, <1>15, <1>17 DEF IsForest, Reaches
<1>19. /\ Listed(e, all) /\ Lost(e) = Lost(d)
  <2>1. /\ d.unlinked \in Seq(in) /\ IsInjective(d.unlinked)
        /\ ToSet(d.unlinked) = RootsOf(d, in)
        /\ d.untracked \in Int
    BY <1>0, StoreTypes DEF Good, Listed
  <2>2. f[n] \notin in /\ f[n] \in new
    BY <1>0, <1>3
  <2>3. /\ Append(d.unlinked, f[n]) \in Seq(in \union {f[n]})
        /\ IsInjective(Append(d.unlinked, f[n]))
        /\ ToSet(Append(d.unlinked, f[n])) = ToSet(d.unlinked) \union {f[n]}
        /\ Len(Append(d.unlinked, f[n])) = Len(d.unlinked) + 1 /\ Len(d.unlinked) \in Nat
    BY <2>1, <2>2, AppendedTo
  <2>4. Append(d.unlinked, f[n]) \in Seq(all)
    BY <2>2, <2>3
  <2>5. e.unlinked = Append(d.unlinked, f[n]) /\ e.untracked = d.untracked + 1
    BY <1>5
  <2>6. Listed(e, all)
    BY <1>16, <2>1, <2>3, <2>4, <2>5 DEF Listed
  <2>7. Lost(e) = Lost(d)
    <3>1. Len(e.unlinked) = Len(d.unlinked) + 1
      <4>1. \A k : k = Append(d.unlinked, f[n]) => Len(k) = Len(Append(d.unlinked, f[n]))
        OBVIOUS
      <4>2. Len(e.unlinked) = Len(Append(d.unlinked, f[n]))
        BY ONLY <2>5, <4>1, Zenon
      <4>3. Len(Append(d.unlinked, f[n])) = Len(d.unlinked) + 1
        BY <2>3, Zenon
      <4> QED
        BY ONLY <4>2, <4>3, Zenon
    <3>. DEFINE x == e.untracked
                y == Len(e.unlinked)
                v == d.untracked
                w == Len(d.unlinked)
    <3>2. x = v + 1 /\ y = w + 1 /\ v \in Int /\ w \in Int
      <4>1. e.untracked = d.untracked + 1 /\ d.untracked \in Int
        BY <2>1, <2>5
      <4>2. Len(d.unlinked) \in Int
        BY <2>3
      <4> QED
        BY <3>1, <4>1, <4>2
    <3> HIDE DEF x, y, v, w
    <3>3. x - y = v - w
      BY ONLY <3>2
    <3> QED
      BY <3>3 DEF Lost, x, y, v, w
  <2> QED
    BY <2>6, <2>7
<1> QED
  BY <1>18, <1>19 DEF Good, e, new
-----------------------------------------------------------------------------
(* The calls keep the store sound, and the pool's count right. *)

(* The invariant: the store is good, and no node is counted twice or missed. *)
StoreInv == Good(doc, live) /\ Lost(doc) = 0 /\ crashed \in BOOLEAN

(* A new document has no nodes. *)
LEMMA InitIsSound == Init => StoreInv
<1>. SUFFICES ASSUME Init
              PROVE  StoreInv
  OBVIOUS
<1>1. /\ doc.parent = [n \in Nodes |-> Nil] /\ doc.prev = [n \in Nodes |-> Nil]
      /\ doc.next = [n \in Nodes |-> Nil]
      /\ doc.first = [p \in Parents |-> Nil] /\ doc.last = [p \in Parents |-> Nil]
      /\ doc.unlinked = <<>> /\ doc.untracked = 0
      /\ live = {} /\ crashed = FALSE
  BY DEF Init, Fresh
<1>2. doc \in Stores
  <2>1. /\ [m \in Nodes |-> Nil] \in [Nodes -> Parents \union {Nil}]
        /\ [m \in Nodes |-> Nil] \in [Nodes -> Nodes \union {Nil}]
        /\ [m \in Parents |-> Nil] \in [Parents -> Nodes \union {Nil}]
        /\ <<>> \in Seq(Nodes) /\ 0 \in Int
    OBVIOUS
  <2> QED
    BY <2>1 DEF Init, Fresh, Stores
<1>3. Typed(doc, {}) /\ Agree(doc, {}) /\ Reaches(doc, {}) /\ RootsOf(doc, {}) = {}
  BY <1>1 DEF Typed, Agree, Reaches, RootsOf, Parents
<1>4. Listed(doc, {})
  <2>1. /\ <<>> \in Seq({}) /\ ToSet(<<>>) = {} /\ IsInjective(<<>>)
    BY DEF ToSet, IsInjective
  <2> QED
    BY <1>1, <1>3, <2>1 DEF Listed
<1>5. Lost(doc) = 0
  <2>1. Len(<<>>) = 0
    OBVIOUS
  <2>2. doc.untracked = 0 /\ Len(doc.unlinked) = 0
    BY <1>1, <2>1, Zenon
  <2> QED
    BY ONLY <2>2 DEF Lost
<1> QED
  BY <1>1, <1>2, <1>3, <1>4, <1>5 DEF StoreInv, Good, IsForest

(* NewElement, NewText and their like keep it. *)
LEMMA NewKeeps ==
  ASSUME StoreInv, NEW n \in Nodes, New(n)
  PROVE  StoreInv'
  BY CreatedKeeps DEF StoreInv, New, Returned

(* InsertEndChild and InsertFirstChild keep it. *)
LEMMA InsertKeeps ==
  ASSUME StoreInv, NEW p, NEW n, InsertEndChild(p, n) \/ InsertFirstChild(p, n)
  PROVE  StoreInv'
  BY EndInsertedKeeps, FirstInsertedKeeps
     DEF StoreInv, InsertEndChild, InsertFirstChild, MayInsert, Usable, Returned

(* Every outcome of InsertAfterChild keeps it. *)
LEMMA InsertAfterKeeps ==
  ASSUME StoreInv, NEW p, NEW a, NEW n, InsertAfterChild(p, a, n)
  PROVE  StoreInv'
<1>. USE DEF StoreInv, Returned
<1>1. /\ a \in live /\ n \in live /\ p \in live \union {Doc} /\ p \notin Subtree(doc, n)
      /\ live' = live
  BY DEF InsertAfterChild, MayInsert, Usable
<1>2. CASE AfterStranger(p, a, n)
  BY <1>1, <1>2 DEF AfterStranger
<1>3. CASE AfterItself(p, a, n)
  BY <1>1, <1>3 DEF AfterItself
<1>4. CASE AfterLast(p, a, n)
  BY <1>1, <1>4, EndInsertedKeeps DEF AfterLast
<1>5. CASE AfterInner(p, a, n)
  BY <1>1, <1>5, AfterInsertedKeeps DEF AfterInner
<1>6. CASE AfterLastButOne(p, a, n)
  BY <1>1, <1>6 DEF AfterLastButOne
<1> QED
  BY <1>2, <1>3, <1>4, <1>5, <1>6 DEF InsertAfterChild

(* InsertNewChildElement and its like keep it. *)
LEMMA InsertNewKeeps ==
  ASSUME StoreInv, NEW p, NEW n \in Nodes, InsertNew(p, n)
  PROVE  StoreInv'
<1>. DEFINE c == Created(doc, n)
<1>1. /\ p \in live /\ n \in Nodes \ live /\ live' = live \union {n}
      /\ doc' = EndInserted(c, p, n) /\ crashed' = crashed
  BY DEF InsertNew, Returned
<1>2. /\ Good(c, live \union {n}) /\ Below(c, n) = {} /\ Lost(c) = 0
  BY <1>1, CreatedKeeps DEF StoreInv
<1>3. p \notin Subtree(c, n)
  BY <1>1, <1>2 DEF Subtree
<1> HIDE DEF c
<1>4. Good(EndInserted(c, p, n), live \union {n}) /\ Lost(EndInserted(c, p, n)) = Lost(c)
  BY <1>1, <1>2, <1>3, EndInsertedKeeps
<1> QED
  BY <1>1, <1>2, <1>4 DEF StoreInv

(* DeleteChild keeps it. *)
LEMMA DeleteChildKeeps ==
  ASSUME StoreInv, NEW p, NEW c, DeleteChild(p, c)
  PROVE  StoreInv'
<1>1. doc.parent[c] # Nil
  BY StoreAssumption DEF DeleteChild, Usable, StoreInv, Good, IsForest, Typed
<1> QED
  BY <1>1, ChildRemovedKeeps DEF StoreInv, DeleteChild, Returned

(* DeleteChildren keeps it. *)
LEMMA DeleteChildrenKeeps ==
  ASSUME StoreInv, NEW p, DeleteChildren(p)
  PROVE  StoreInv'
  BY ChildrenRemovedKeeps DEF StoreInv, DeleteChildren, Usable, Returned

(* XMLDocument::DeleteNode keeps it, of a child and of a root. *)
LEMMA DeleteNodeKeeps ==
  ASSUME StoreInv, NEW n, DeleteNode(n)
  PROVE  StoreInv'
<1>1. CASE doc.parent[n] # Nil
  BY <1>1, ChildRemovedKeeps DEF StoreInv, DeleteNode, Returned
<1>2. CASE doc.parent[n] = Nil
  BY <1>2, LooseRemovedKeeps DEF StoreInv, DeleteNode, Returned
<1> QED
  BY <1>1, <1>2

(* XMLDocument::Clear keeps it. *)
LEMMA ClearKeeps ==
  ASSUME StoreInv, Clear
  PROVE  StoreInv'
<1>. DEFINE gone == UNION {Subtree(doc, n) : n \in ToSet(doc.unlinked)}
            c == [Freed(ChildrenRemoved(doc, Doc), gone) EXCEPT
                    !.unlinked = <<>>, !.untracked = @ - Len(doc.unlinked)]
<1>1. doc' = c /\ live' = live \ (gone \union Subtree(doc, Doc)) /\ crashed' = crashed
  BY DEF Clear, Returned
<1>2. /\ live \ (gone \union Subtree(doc, Doc)) = {}
      /\ Good(c, {}) /\ Lost(c) = Lost(doc)
  BY ClearedKeeps DEF StoreInv
<1> HIDE DEF c
<1> QED
  BY <1>1, <1>2 DEF StoreInv

(* DeepClone keeps it. *)
LEMMA DeepCloneKeeps ==
  ASSUME StoreInv, NEW n, DeepClone(n)
  PROVE  StoreInv'
<1>1. PICK f \in [Subtree(doc, n) -> Nodes \ live] :
        /\ IsInjective(f)
        /\ doc' = Cloned(doc, n, f)
        /\ live' = live \union Range(f)
        /\ crashed' = crashed
  BY DEF DeepClone, Returned
<1>2. n \in live
  BY DEF DeepClone
<1> QED
  BY <1>1, <1>2, ClonedKeeps DEF StoreInv

(* No call breaks it. *)
LEMMA StepsKeepSound == StoreInv /\ [Next]_vars => StoreInv'
<1>. SUFFICES ASSUME StoreInv, [Next]_vars
              PROVE  StoreInv'
  OBVIOUS
<1>1. ASSUME NEW n \in Nodes, New(n) \/ DeleteNode(n) \/ DeepClone(n)
      PROVE  StoreInv'
  BY <1>1, NewKeeps, DeleteNodeKeeps, DeepCloneKeeps
<1>2. ASSUME NEW p \in Parents, DeleteChildren(p)
      PROVE  StoreInv'
  BY <1>2, DeleteChildrenKeeps
<1>3. ASSUME NEW p \in Parents, NEW n \in Nodes,
             \/ InsertEndChild(p, n)
             \/ InsertFirstChild(p, n)
             \/ InsertNew(p, n)
             \/ DeleteChild(p, n)
      PROVE  StoreInv'
  BY <1>3, InsertKeeps, InsertNewKeeps, DeleteChildKeeps
<1>4. ASSUME NEW p \in Parents, NEW a \in Nodes, NEW n \in Nodes, InsertAfterChild(p, a, n)
      PROVE  StoreInv'
  BY <1>4, InsertAfterKeeps
<1>5. CASE Clear
  BY <1>5, ClearKeeps
<1>6. CASE UNCHANGED vars
  BY <1>6 DEF vars, StoreInv
<1> QED
  BY <1>1, <1>2, <1>3, <1>4, <1>5, <1>6 DEF Next

(* So it holds after any sequence of calls. *)
LEMMA StoreIsSound == Spec => []StoreInv
<1>1. Init => StoreInv
  BY InitIsSound
<1>2. StoreInv /\ [Next]_vars => StoreInv'
  BY StepsKeepSound
<1> QED
  BY <1>1, <1>2, PTL DEF Spec

(* What that says in terms of the document: the pointers. *)
LEMMA GoodPoints ==
  ASSUME Good(doc, live)
  PROVE  /\ crashed \in BOOLEAN => TreeTypeOK
         /\ LinksAgree
<1>0. /\ doc \in Stores /\ Typed(doc, live) /\ Agree(doc, live) /\ Listed(doc, live)
      /\ live \subseteq Nodes /\ Usable = live \union {Doc}
  BY DEF Good, IsForest, Typed, Usable
<1>1. doc.untracked \in Int
  BY <1>0, StoreTypes
<1>2. /\ \A n \in live :
           /\ doc.parent[n] \in Usable \union {Nil}
           /\ {doc.prev[n], doc.next[n]} \subseteq live \union {Nil}
      /\ \A p \in Usable : {doc.first[p], doc.last[p]} \subseteq live \union {Nil}
      /\ \A n \in Nodes \ live :
           {doc.parent[n], doc.prev[n], doc.next[n], doc.first[n], doc.last[n]} = {Nil}
  BY <1>0 DEF Typed
<1>3. crashed \in BOOLEAN => TreeTypeOK
  BY <1>0, <1>1, <1>2 DEF TreeTypeOK, Listed
<1>4. LinksAgree
  BY <1>0 DEF Agree, LinksAgree
<1> QED
  BY <1>3, <1>4

(* And the nodes: each belongs to the document or to one root. *)
LEMMA GoodOwned ==
  ASSUME Good(doc, live)
  PROVE  NodesAreOwned
<1>. DEFINE roots == ToSet(doc.unlinked)
<1>1. /\ IsInjective(doc.unlinked)
      /\ roots = {n \in live : doc.parent[n] = Nil}
  BY DEF Good, Listed, RootsOf
<1>2. live = (UNION {Subtree(doc, r) : r \in roots}) \union Below(doc, Doc)
  BY AllOwned
<1>3. Doc \notin live
  BY StoreAssumption DEF Good, IsForest, Typed
<1>4. UNION {Subtree(doc, r) : r \in roots \union {Doc}}
        = (UNION {Subtree(doc, r) : r \in roots}) \union Subtree(doc, Doc)
  OBVIOUS
<1>5. live = (UNION {Subtree(doc, r) : r \in roots \union {Doc}}) \ {Doc}
  <2>1. Subtree(doc, Doc) = {Doc} \union Below(doc, Doc)
    BY DEF Subtree
  <2> QED
    BY <1>2, <1>3, <1>4, <2>1
<1> QED
  BY <1>1, <1>5 DEF NodesAreOwned

(* All that the invariant of XmlTree says. *)
LEMMA SoundIsTreeInv == StoreInv => TreeInv
<1>. SUFFICES ASSUME StoreInv
              PROVE  TreeInv
  OBVIOUS
<1>0. /\ doc \in Stores /\ Typed(doc, live) /\ Agree(doc, live) /\ Reaches(doc, live)
      /\ Listed(doc, live) /\ Lost(doc) = 0 /\ crashed \in BOOLEAN
      /\ live \subseteq Nodes /\ Usable = live \union {Doc}
      /\ RootsOf(doc, live) = Roots
  BY DEF StoreInv, Good, IsForest, Typed, Usable, RootsOf, Roots
<1>1. doc.untracked \in Int /\ Len(doc.unlinked) \in Nat
  BY <1>0, StoreTypes
<1>2. TreeTypeOK
  BY <1>0, GoodPoints DEF StoreInv
<1>3. LinksAgree
  BY GoodPoints DEF StoreInv
<1>4. Rooted
  <2>1. ASSUME NEW S \in SUBSET live, Roots \subseteq S, doc.first[Doc] \in S \union {Nil},
               \A m \in S : {doc.first[m], doc.next[m]} \subseteq S \union {Nil}
        PROVE  live \subseteq S
    BY <1>0, <2>1 DEF Reaches, ClosedIn
  <2> QED
    BY <2>1 DEF Rooted
<1>5. ListsRoots
  BY <1>0 DEF Listed, ListsRoots
<1>6. UntrackedIsUnlinked
  BY <1>0, <1>1 DEF Lost, UntrackedIsUnlinked
<1> QED
  BY <1>0, <1>2, <1>3, <1>4, <1>5, <1>6 DEF TreeInv

-----------------------------------------------------------------------------
(* The theorems: what every sequence of calls keeps. *)

(* After any sequence of calls the store is a forest: its pointers are those *)
(* of nodes in use and agree with one another, every node is come to from the *)
(* document or from a root, the list holds each root once, and the pool counts *)
(* as untracked as many nodes as the list holds.                            *)
THEOREM TreeInvariant == Spec => []TreeInv
  BY StoreIsSound, SoundIsTreeInv, PTL

(* Pointers lead to nodes in use, and memory not in use holds none.         *)
THEOREM TreeTypeCorrect == Spec => []TreeTypeOK
<1>1. TreeInv => TreeTypeOK
  BY DEF TreeInv
<1> QED
  BY <1>1, TreeInvariant, PTL

(* The five pointers of neighbouring nodes agree at all times, which is what *)
(* the assertions of Unlink and of the insertions rely on.                  *)
THEOREM LinksAgreeHolds == Spec => []LinksAgree
<1>1. TreeInv => LinksAgree
  BY DEF TreeInv
<1> QED
  BY <1>1, TreeInvariant, PTL

(* The pool counts as untracked exactly the nodes never put to use: the     *)
(* assertion at the end of Clear holds, whatever was done before.           *)
THEOREM UntrackedIsUnlinkedHolds == Spec => []UntrackedIsUnlinked
<1>1. TreeInv => UntrackedIsUnlinked
  BY DEF TreeInv
<1> QED
  BY <1>1, TreeInvariant, PTL

(* Every node in use is below the document or below exactly one entry of the *)
(* list of unlinked nodes: Clear frees each node once and leaks none.       *)
THEOREM NodesAreOwnedHolds == Spec => []NodesAreOwned
<1>1. StoreInv => NodesAreOwned
  BY GoodOwned DEF StoreInv
<1> QED
  BY <1>1, StoreIsSound, PTL
=============================================================================
