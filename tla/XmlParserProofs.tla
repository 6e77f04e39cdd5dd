--------------------------- MODULE XmlParserProofs ---------------------------
(***************************************************************************)
(* Proofs about XmlParser and XmlPrinter: what holds in the middle of a    *)
(* parse, after every way out of it, and while a document is saved.  What  *)
(* the calls do to the node store is taken from XmlTreeProofs.             *)
(***************************************************************************)
EXTENDS XmlPrinter, XmlTreeProofs

(* Appending an entry and taking it off again. *)
LEMMA LastTakenOff ==
  ASSUME NEW S, NEW list \in Seq(S), IsInjective(list), list # <<>>
  PROVE  /\ Last(list) \in ToSet(list)
         /\ MarkInUse(list, Last(list)) = Front(list)
         /\ Front(list) \in Seq(S) /\ Len(Front(list)) = Len(list) - 1
         /\ Len(list) \in Nat \ {0}
<1>1. Len(list) \in 1 .. Len(list) /\ Len(list) \in Nat \ {0}
  OBVIOUS
<1>2. Last(list) \in ToSet(list)
  BY <1>1 DEF Last, ToSet
<1>3. MarkInUse(list, Last(list)) = Front(list)
  BY <1>2, MarkInUseTakesOff
<1>4. Front(list) \in Seq(S) /\ Len(Front(list)) = Len(list) - 1
  BY <1>1, <1>2, <1>3, MarkInUseTakesOff
<1> QED
  BY <1>1, <1>2, <1>3, <1>4

(* The entry appended is the one taken off. *)
LEMMA AppendedTakenOff ==
  ASSUME NEW S, NEW list \in Seq(S), NEW n
  PROVE  Last(Append(list, n)) = n /\ Front(Append(list, n)) = list
  BY DEF Last, Front

(* A node that points nowhere leaves no trace in the pointers. *)
LEMMA LonerFreed ==
  ASSUME NEW d \in Stores, NEW n \in Nodes,
         d.parent[n] = Nil, d.prev[n] = Nil, d.next[n] = Nil,
         d.first[n] = Nil, d.last[n] = Nil
  PROVE  SamePointers(d, Freed(d, {n}))
<1>. DEFINE Kept(ptr) == [m \in DOMAIN ptr |-> IF m \in {n} THEN Nil ELSE ptr[m]]
            list == FoldSet(LAMBDA m, rest_ : MarkInUse(rest_, m), d.unlinked,
                            {n} \intersect ToSet(d.unlinked))
            e == Freed(d, {n})
<1>0. /\ d.parent \in [Nodes -> Parents \union {Nil}]
      /\ d.prev \in [Nodes -> Nodes \union {Nil}]
      /\ d.next \in [Nodes -> Nodes \union {Nil}]
      /\ d.first \in [Parents -> Nodes \union {Nil}]
      /\ d.last \in [Parents -> Nodes \union {Nil}]
  BY DEF Stores
<1>1. e = [d EXCEPT !.parent = Kept(d.parent), !.prev = Kept(d.prev), !.next = Kept(d.next),
                    !.first = Kept(d.first), !.last = Kept(d.last), !.unlinked = list]
  BY DEF Freed
<1> HIDE DEF e, list
<1>2. /\ e.parent = Kept(d.parent) /\ e.prev = Kept(d.prev) /\ e.next = Kept(d.next)
      /\ e.first = Kept(d.first) /\ e.last = Kept(d.last)
  BY <1>1 DEF Stores
<1>3. /\ Kept(d.parent) = d.parent /\ Kept(d.prev) = d.prev /\ Kept(d.next) = d.next
      /\ Kept(d.first) = d.first /\ Kept(d.last) = d.last
  BY <1>0
<1> QED
  BY <1>2, <1>3 DEF SamePointers, e

(* A node created and put to use and deleted again: the trees and the list  *)
(* are as they were.                                                        *)
LEMMA PassingNode ==
  ASSUME NEW d, NEW in, Good(d, in), NEW n \in Nodes \ in,
         NEW e, e = Discarded(Created(d, n), n) \/ e = LooseRemoved(Created(d, n), n)
  PROVE  /\ Good(e, in) /\ SamePointers(d, e) /\ e.unlinked = d.unlinked
         /\ Lost(e) = Lost(d) \/ Lost(e) = Lost(d) + 1
<1>. DEFINE c == Created(d, n)
            all == in \union {n}
<1>0. /\ d \in Stores /\ n \notin in /\ in \subseteq Nodes /\ d.unlinked \in Seq(in)
      /\ Typed(d, in) /\ IsInjective(d.unlinked)
  BY DEF Good, IsForest, Typed, Listed
<1>1. /\ Good(c, all) /\ c.parent[n] = Nil /\ Subtree(c, n) = {n} /\ Lost(c) = Lost(d)
  BY CreatedKeeps DEF Subtree
<1>2. /\ c \in Stores /\ SamePointers(d, c) /\ c.unlinked = Append(d.unlinked, n)
  BY <1>0, CreatedIs
<1>3. c.unlinked \in Seq(all) /\ IsInjective(c.unlinked) /\ c.unlinked # <<>>
      /\ Last(c.unlinked) = n /\ Front(c.unlinked) = d.unlinked
  <2>1. IsInjective(c.unlinked) /\ c.unlinked \in Seq(all)
    BY <1>1 DEF Good, Listed
  <2>2. Append(d.unlinked, n) # <<>>
    BY <1>0
  <2> QED
    BY <1>0, <1>2, <2>1, <2>2, AppendedTakenOff
<1>4. MarkInUse(c.unlinked, n) = d.unlinked
  BY <1>3, LastTakenOff
<1>5. all \ {n} = in
  BY <1>0
<1> HIDE DEF c, all
<1>6. n \in all
  BY DEF all
<1>7. /\ Good(Freed(c, Subtree(c, n)), all \ Subtree(c, n))
      /\ Freed(c, Subtree(c, n)).unlinked = MarkInUse(c.unlinked, n)
      /\ Lost(Freed(c, Subtree(c, n))) = Lost(c) + 1
  BY <1>1, <1>6, DiscardKeeps
<1>8. /\ Good(LooseRemoved(c, n), all \ Subtree(c, n))
      /\ LooseRemoved(c, n).unlinked = MarkInUse(c.unlinked, n)
      /\ Lost(LooseRemoved(c, n)) = Lost(c)
  BY <1>1, <1>6, LooseRemovedKeeps
<1>9. /\ c.parent[n] = Nil /\ c.prev[n] = Nil /\ c.next[n] = Nil
      /\ c.first[n] = Nil /\ c.last[n] = Nil
  BY <1>0, <1>2 DEF SamePointers, Typed
<1>10. CASE e = Discarded(c, n)
  <2>1. e = Freed(c, {n})
    BY <1>1, <1>10 DEF Discarded
  <2>2. SamePointers(c, e)
    BY <1>2, <1>9, <2>1, LonerFreed
  <2> QED
    BY <1>1, <1>2, <1>4, <1>5, <1>7, <2>1, <2>2 DEF SamePointers
<1>11. CASE e = LooseRemoved(c, n)
  <2>. DEFINE t == SetTracked(c)
  <2>1. t \in Stores /\ SamePointers(c, t)
    <3>1. c \in Stores /\ c.untracked - 1 \in Int
      BY <1>2, StoreTypes
    <3>2. t \in Stores
      BY <3>1 DEF SetTracked, Stores
    <3>3. SamePointers(c, t)
      BY <3>1 DEF SetTracked, Stores, SamePointers
    <3> QED
      BY <3>2, <3>3
  <2>2. e = Freed(t, {n})
    BY <1>1, <1>11 DEF LooseRemoved
  <2>3. SamePointers(t, e)
    <3>1. /\ t.parent[n] = Nil /\ t.prev[n] = Nil /\ t.next[n] = Nil
          /\ t.first[n] = Nil /\ t.last[n] = Nil
      BY <1>9, <2>1 DEF SamePointers
    <3> HIDE DEF t
    <3> QED
      BY <2>1, <2>2, <3>1, LonerFreed
  <2> HIDE DEF t
  <2> QED
    BY <1>1, <1>2, <1>4, <1>5, <1>8, <1>11, <2>1, <2>3 DEF SamePointers
<1> QED
  BY <1>10, <1>11 DEF c

(* e is d with n as the last child of p. *)
Appended(d, p, n, e) ==
  /\ \A m \in Nodes : e.next[m] = IF m = n THEN Nil ELSE IF m = d.last[p] THEN n ELSE d.next[m]
  /\ \A m \in Parents : e.first[m] = IF m = p /\ d.last[p] = Nil THEN n ELSE d.first[m]
  /\ \A m \in Parents : e.last[m] = IF m = p THEN n ELSE d.last[m]

(* Inserting the last entry of the list takes it off. *)
LEMMA LastInserted ==
  ASSUME NEW d, NEW in, Good(d, in), d.unlinked # <<>>,
         NEW p \in in \union {Doc}, p \notin Subtree(d, Last(d.unlinked))
  PROVE  /\ Good(EndInserted(d, p, Last(d.unlinked)), in)
         /\ EndInserted(d, p, Last(d.unlinked)).unlinked = Front(d.unlinked)
         /\ Lost(EndInserted(d, p, Last(d.unlinked))) = Lost(d)
         /\ Appended(d, p, Last(d.unlinked), EndInserted(d, p, Last(d.unlinked)))
<1>. DEFINE n == Last(d.unlinked)
            e == InsertChildPreamble(d, n)
<1>0. /\ d \in Stores /\ d.unlinked \in Seq(in) /\ IsInjective(d.unlinked)
      /\ ToSet(d.unlinked) = RootsOf(d, in) /\ in \subseteq Nodes
      /\ Nil \notin Nodes /\ p \in Parents
  BY StoreAssumption DEF Good, IsForest, Typed, Listed, Parents
<1>1. n \in in /\ d.parent[n] = Nil /\ MarkInUse(d.unlinked, n) = Front(d.unlinked)
      /\ Front(d.unlinked) \in Seq(in)
  BY <1>0, LastTakenOff DEF RootsOf
<1> HIDE DEF n
<1>2. Front(d.unlinked) \in Seq(Nodes)
  BY <1>0, <1>1
<1>3. e = SetTracked([d EXCEPT !.unlinked = Front(d.unlinked)])
  BY <1>1 DEF InsertChildPreamble
<1>4. e \in Stores /\ e.unlinked = Front(d.unlinked) /\ SamePointers(d, e)
  BY <1>0, <1>2, <1>3, TrackedIs
<1>5. e.last[p] \in Nodes \union {Nil} /\ Nil \in Nodes \union {Nil} /\ n \in Nodes
  BY <1>0, <1>1, <1>4, StoreTypes
<1> HIDE DEF e
<1>6. /\ LinkedBetween(e, p, e.last[p], n, Nil).unlinked = e.unlinked
      /\ Appended(d, p, n, LinkedBetween(e, p, e.last[p], n, Nil))
  <2>1. IsBetween(e, p, e.last[p], n, Nil, LinkedBetween(e, p, e.last[p], n, Nil))
    BY <1>0, <1>4, <1>5, LinkedBetweenIs
  <2>2. e.next = d.next /\ e.first = d.first /\ e.last = d.last
    BY <1>4 DEF SamePointers
  <2>3. \A m \in Nodes : m # Nil
    BY <1>0
  <2> QED
    BY <2>1, <2>2, <2>3 DEF IsBetween, Appended
<1>7. EndInserted(d, p, n).unlinked = Front(d.unlinked) /\ Appended(d, p, n, EndInserted(d, p, n))
  BY <1>4, <1>6 DEF EndInserted, e
<1>8. p \notin Subtree(d, n)
  BY DEF n
<1>9. Good(EndInserted(d, p, n), in) /\ Lost(EndInserted(d, p, n)) = Lost(d)
  BY <1>1, <1>8, EndInsertedKeeps
<1> QED
  BY <1>7, <1>9 DEF n

(* A node created and inserted. *)
LEMMA LeafInserted ==
  ASSUME NEW d, NEW in, Good(d, in), NEW n \in Nodes \ in, NEW p \in in \union {Doc}
  PROVE  /\ Good(EndInserted(Created(d, n), p, n), in \union {n})
         /\ EndInserted(Created(d, n), p, n).unlinked = d.unlinked
         /\ Lost(EndInserted(Created(d, n), p, n)) = Lost(d)
         /\ Appended(d, p, n, EndInserted(Created(d, n), p, n))
<1>. DEFINE c == Created(d, n)
            all == in \union {n}
<1>0. /\ d \in Stores /\ d.unlinked \in Seq(in) /\ Doc \notin Nodes
  BY StoreAssumption DEF Good, IsForest, Typed, Listed
<1>1. /\ Good(c, all) /\ Subtree(c, n) = {n} /\ Lost(c) = Lost(d)
  BY CreatedKeeps DEF Subtree
<1>2. c.unlinked = Append(d.unlinked, n) /\ SamePointers(d, c)
  BY <1>0, CreatedIs
<1>3. /\ Last(c.unlinked) = n /\ Front(c.unlinked) = d.unlinked /\ c.unlinked # <<>>
  <2>1. Append(d.unlinked, n) # <<>>
    BY <1>0
  <2> QED
    BY <1>0, <1>2, <2>1, AppendedTakenOff
<1>4. p \in all \union {Doc} /\ p \notin Subtree(c, n)
  BY <1>0, <1>1
<1> HIDE DEF c, all
<1>5. /\ Good(EndInserted(c, p, n), all) /\ EndInserted(c, p, n).unlinked = d.unlinked
      /\ Lost(EndInserted(c, p, n)) = Lost(c) /\ Appended(c, p, n, EndInserted(c, p, n))
  BY <1>1, <1>3, <1>4, LastInserted
<1>6. Appended(d, p, n, EndInserted(c, p, n))
  BY <1>2, <1>5 DEF Appended, SamePointers
<1> QED
  BY <1>1, <1>5, <1>6 DEF c, all

(* Deleting the last entry of the list takes it off. *)
LEMMA LastDiscarded ==
  ASSUME NEW d, NEW in, Good(d, in), d.unlinked # <<>>
  PROVE  LET n == Last(d.unlinked)
             e == Discarded(d, n)
         IN  /\ Good(e, in \ Subtree(d, n))
             /\ e.unlinked = Front(d.unlinked)
             /\ Lost(e) = Lost(d) + 1
             /\ IsWithout(d, Subtree(d, n), Nil, e)
<1>. DEFINE n == Last(d.unlinked)
            e == Discarded(d, n)
<1>0. /\ d.unlinked \in Seq(in) /\ IsInjective(d.unlinked)
      /\ ToSet(d.unlinked) = RootsOf(d, in)
  BY DEF Good, Listed
<1>1. n \in in /\ d.parent[n] = Nil /\ MarkInUse(d.unlinked, n) = Front(d.unlinked)
  BY <1>0, LastTakenOff DEF RootsOf
<1> HIDE DEF n
<1>2. /\ Good(Freed(d, Subtree(d, n)), in \ Subtree(d, n))
      /\ Freed(d, Subtree(d, n)).unlinked = MarkInUse(d.unlinked, n)
      /\ Lost(Freed(d, Subtree(d, n))) = Lost(d) + 1
      /\ IsWithout(d, Subtree(d, n), Nil, Freed(d, Subtree(d, n)))
  BY <1>1, DiscardKeeps
<1> QED
  BY <1>1, <1>2 DEF Discarded, n

(* An entry of the list is below no other one. *)
LEMMA EntriesApart ==
  ASSUME NEW d, NEW in, Good(d, in), NEW r \in ToSet(d.unlinked),
         NEW p \in ToSet(d.unlinked) \union {Doc}, p # r
  PROVE  p \in in \union {Doc} /\ p \notin Subtree(d, r)
<1>1. /\ IsForest(d, in) /\ ToSet(d.unlinked) = RootsOf(d, in) /\ in \subseteq Nodes
      /\ Doc \notin in
  BY StoreAssumption DEF Good, Listed, IsForest, Typed
<1>2. r \in in /\ p \in in \union {Doc}
  BY <1>1 DEF RootsOf
<1>3. Below(d, r) \subseteq in /\ Below(d, r) \intersect RootsOf(d, in) = {}
  BY <1>1, <1>2, BelowClosed, OneRoot
<1> QED
  BY <1>1, <1>2, <1>3 DEF Subtree
-----------------------------------------------------------------------------
(* Tokens and texts. *)

IsToken(t) ==
  /\ t = Tok(t.kind, t.name, t.attrs, t.fault)
  /\ t.kind \in Kinds /\ t.fault \in Faults

IsText(text) == \E S : text \in Seq(S) /\ \A t \in S : IsToken(t)

(* A text may be empty. *)
LEMMA EmptyText == IsText(<<>>)
<1>. DEFINE E == {}
<1>1. <<>> \in Seq(E) /\ \A t \in E : IsToken(t)
  OBVIOUS
<1> HIDE DEF E
<1> QED
  BY ONLY <1>1 DEF IsText

(* A token added to a text makes a longer one. *)
LEMMA TextExtended ==
  ASSUME NEW text, IsText(text), NEW t, IsToken(t)
  PROVE  IsText(Append(text, t)) /\ Append(text, t) # <<>>
<1>1. PICK S : text \in Seq(S) /\ \A u \in S : IsToken(u)
  BY DEF IsText
<1>. DEFINE T == S \union {t}
<1>2. text \in Seq(T) /\ t \in T
  BY <1>1
<1>3. \A u \in T : IsToken(u)
  BY <1>1
<1> HIDE DEF T
<1>4. Append(text, t) \in Seq(T)
  BY <1>2
<1>5. Append(text, t) # <<>>
  <2>1. Len(Append(text, t)) = Len(text) + 1 /\ Len(text) \in Nat
    BY <1>2
  <2>2. Len(<<>>) = 0
    OBVIOUS
  <2> QED
    BY <2>1, <2>2
<1>6. IsText(Append(text, t))
  BY ONLY <1>3, <1>4 DEF IsText
<1> QED
  BY <1>5, <1>6

(* What is left of a text without its first or its last token is one. *)
LEMMA TextShortened ==
  ASSUME NEW text, IsText(text), text # <<>>
  PROVE  /\ IsText(Front(text)) /\ IsToken(Last(text))
         /\ IsText(Tail(text)) /\ IsToken(Head(text))
<1>1. PICK S : text \in Seq(S) /\ \A u \in S : IsToken(u)
  BY DEF IsText
<1>2. Len(text) \in Nat \ {0}
  BY <1>1
<1>3. Front(text) \in Seq(S) /\ Last(text) \in S
  BY <1>1, <1>2 DEF Front, Last
<1>4. Tail(text) \in Seq(S) /\ Head(text) \in S
  BY <1>1, <1>2
<1> QED
  BY <1>1, <1>3, <1>4 DEF IsText

(* A token that is changed in part stays a token. *)
LEMMA TokenChanged ==
  ASSUME NEW t, IsToken(t), NEW name, NEW k \in Kinds
  PROVE  /\ IsToken([t EXCEPT !.name = name])
         /\ IsToken([t EXCEPT !.fault = "none"])
         /\ IsToken([t EXCEPT !.kind = k, !.fault = "none"])
<1>1. /\ t = [kind |-> t.kind, name |-> t.name, attrs |-> t.attrs, fault |-> t.fault]
      /\ t.kind \in Kinds /\ t.fault \in Faults /\ "none" \in Faults
  BY DEF IsToken, Tok, Faults
<1>. DEFINE tn == t.name
            ta == t.attrs
            tk == t.kind
            tf == t.fault
<1>2. t = [kind |-> tk, name |-> tn, attrs |-> ta, fault |-> tf]
  BY <1>1
<1>3. tk \in Kinds /\ tf \in Faults
  BY <1>1
<1> HIDE DEF tn, ta, tk, tf
<1>4. [t EXCEPT !.name = name] = [kind |-> tk, name |-> name, attrs |-> ta, fault |-> tf]
  BY <1>2
<1>5. [t EXCEPT !.fault = "none"] = [kind |-> tk, name |-> tn, attrs |-> ta, fault |-> "none"]
  BY <1>2
<1>6. [t EXCEPT !.kind = k, !.fault = "none"]
        = [kind |-> k, name |-> tn, attrs |-> ta, fault |-> "none"]
  <2>. DEFINE w == [t EXCEPT !.kind = k]
  <2>1. w = [kind |-> k, name |-> tn, attrs |-> ta, fault |-> tf]
    BY <1>2
  <2> HIDE DEF w
  <2>2. [w EXCEPT !.fault = "none"] = [kind |-> k, name |-> tn, attrs |-> ta, fault |-> "none"]
    BY <2>1
  <2> QED
    BY ONLY <2>2 DEF w
<1>7. ASSUME NEW a \in Kinds, NEW b, NEW c, NEW x \in Faults
      PROVE  IsToken([kind |-> a, name |-> b, attrs |-> c, fault |-> x])
  BY DEF IsToken, Tok
<1>8. IsToken([t EXCEPT !.name = name])
  BY <1>3, <1>4, <1>7
<1>9. IsToken([t EXCEPT !.fault = "none"])
  BY <1>1, <1>3, <1>5, <1>7
<1>10. IsToken([t EXCEPT !.kind = k, !.fault = "none"])
  BY <1>1, <1>6, <1>7
<1> QED
  BY <1>8, <1>9, <1>10

(* Printing a token makes a text of a text. *)
LEMMA TokenPut ==
  ASSUME NEW text, IsText(text), NEW t, IsToken(t)
  PROVE  IsText(Put(text, t)) /\ Put(text, t) # <<>>
<1>1. CASE text # <<>> /\ t.kind = "text" /\ Last(text).kind = "text"
  <2>. DEFINE name == Last(text).name \o t.name
              u == [t EXCEPT !.name = name]
  <2>1. "text" \in Kinds
    BY DEF Kinds
  <2>2. IsToken(u)
    <3> HIDE DEF name
    <3> QED
      BY <2>1, TokenChanged
  <2>3. IsText(Front(text))
    BY <1>1, TextShortened
  <2>4. Put(text, t) = Append(Front(text), u)
    BY <1>1 DEF Put
  <2> HIDE DEF u, name
  <2> QED
    BY <2>2, <2>3, <2>4, TextExtended
<1>2. CASE ~(text # <<>> /\ t.kind = "text" /\ Last(text).kind = "text")
  <2>1. Put(text, t) = Append(text, t)
    BY <1>2 DEF Put
  <2> QED
    BY <2>1, TextExtended
<1> QED
  BY <1>1, <1>2

(* So does changing what its last token is. *)
LEMMA LastRewritten ==
  ASSUME NEW text, IsText(text), text # <<>>, NEW k \in Kinds
  PROVE  /\ IsText(Append(Front(text), [Last(text) EXCEPT !.kind = k, !.fault = "none"]))
         /\ IsText(Append(Front(text), [Last(text) EXCEPT !.fault = "none"]))
<1>1. IsText(Front(text)) /\ IsToken(Last(text))
  BY TextShortened
<1>2. /\ IsToken([Last(text) EXCEPT !.kind = k, !.fault = "none"])
      /\ IsToken([Last(text) EXCEPT !.fault = "none"])
  BY <1>1, TokenChanged
<1> QED
  BY <1>1, <1>2, TextExtended
-----------------------------------------------------------------------------
(* The invariant. *)

(* Nodes in use have the token they were made from, the others none. *)
Valued(v, in) ==
  /\ v = [n \in Nodes |-> v[n]]
  /\ \A n \in Nodes \ in : v[n] = NoToken
  /\ \A n \in in : IsToken(v[n]) /\ v[n].kind # "close" /\ v[n].fault = "none"

(* The trees are sound; discarded nodes stay counted as untracked. *)
TreesAreSound == Good(doc, live) /\ Lost(doc) \in Nat /\ crashed \in BOOLEAN

(* The unlinked nodes are the frames, the depth counts them, and a text is  *)
(* read only below the limit and without an error.                          *)
FramesFollow ==
  /\ doc.unlinked = frames
  /\ phase \in {"idle", "reading", "failing", "ended", "printing"}
  /\ more \in BOOLEAN /\ via \in {"Parse", "LoadFile"}
  /\ phase \in {"idle", "ended", "printing"} => frames = <<>>
  /\ depth = IF phase \in {"idle", "printing"} THEN 0 ELSE Len(frames) + 1
  /\ depth <= MaxDepth
  /\ phase = "reading" => depth < MaxDepth /\ error = "none"

ValuesFollow == Valued(value, live)

(* What is to be read and what is printed are tokens, and a tag that was    *)
(* just opened is the last of them.                                         *)
TextsFollow == IsText(rest) /\ IsText(out) /\ (justOpened => out # <<>>)

DocumentInv == TreesAreSound /\ FramesFollow /\ ValuesFollow /\ TextsFollow

(* Without nodes there are no values. *)
LEMMA NoneValued == Valued([n \in Nodes |-> NoToken], {})
  BY DEF Valued

(* A node put to use gets its token. *)
LEMMA ValueGiven ==
  ASSUME NEW v, NEW in \in SUBSET Nodes, Valued(v, in), NEW n \in Nodes \ in,
         NEW t, IsToken(t), t.kind # "close", t.fault = "none"
  PROVE  Valued([v EXCEPT ![n] = t], in \union {n})
<1>. DEFINE w == [v EXCEPT ![n] = t]
<1>1. /\ v = [m \in Nodes |-> v[m]]
      /\ \A m \in Nodes \ in : v[m] = NoToken
      /\ \A m \in in : IsToken(v[m]) /\ v[m].kind # "close" /\ v[m].fault = "none"
  BY DEF Valued
<1>2. w = [m \in Nodes |-> IF m = n THEN t ELSE v[m]]
  BY <1>1
<1> HIDE DEF w
<1>3. w = [m \in Nodes |-> w[m]]
  BY <1>2
<1>4. \A m \in Nodes \ (in \union {n}) : w[m] = NoToken
  BY <1>1, <1>2
<1>5. ASSUME NEW m \in in \union {n}
      PROVE  IsToken(w[m]) /\ w[m].kind # "close" /\ w[m].fault = "none"
  <2>1. w[m] = t \/ (m \in in /\ w[m] = v[m])
    BY <1>2
  <2> QED
    BY <1>1, <2>1
<1>6. Valued(w, in \union {n})
  BY ONLY <1>3, <1>4, <1>5 DEF Valued
<1> QED
  BY <1>6 DEF w

(* Nodes that are freed lose theirs. *)
LEMMA ValuesTaken ==
  ASSUME NEW v, NEW in \in SUBSET Nodes, Valued(v, in), NEW gone
  PROVE  Valued([n \in Nodes |-> IF n \in gone THEN NoToken ELSE v[n]], in \ gone)
<1>. DEFINE w == [n \in Nodes |-> IF n \in gone THEN NoToken ELSE v[n]]
<1>1. /\ \A m \in Nodes \ in : v[m] = NoToken
      /\ \A m \in in : IsToken(v[m]) /\ v[m].kind # "close" /\ v[m].fault = "none"
  BY DEF Valued
<1>2. \A m \in Nodes : w[m] = IF m \in gone THEN NoToken ELSE v[m]
  OBVIOUS
<1>3. w = [m \in Nodes |-> w[m]]
  OBVIOUS
<1> HIDE DEF w
<1>4. \A m \in Nodes \ (in \ gone) : w[m] = NoToken
  BY <1>1, <1>2
<1>5. ASSUME NEW m \in in \ gone
      PROVE  IsToken(w[m]) /\ w[m].kind # "close" /\ w[m].fault = "none"
  BY <1>1, <1>2
<1>6. Valued(w, in \ gone)
  BY ONLY <1>3, <1>4, <1>5 DEF Valued
<1> QED
  BY <1>6 DEF w
(* A token without a failure has no fault. *)
LEMMA NoFault ==
  ASSUME NEW t, IsToken(t), NEW last, Failure(t, last) = "none"
  PROVE  t.fault = "none"
<1>1. t.kind \in Kinds /\ t.fault \in Faults
  BY DEF IsToken
<1>2. Unterminated[t.kind] # "none"
  BY <1>1 DEF Kinds, Unterminated
<1> QED
  BY <1>1, <1>2 DEF Failure, Faults

(* The tokens of the constants are tokens. *)
LEMMA TokenTypes ==
  /\ \A t \in TokenType : IsToken(t)
  /\ \A text \in Samples : IsText(text)
<1>1. ASSUME NEW t \in TokenType
      PROVE  IsToken(t)
  BY DEF TokenType, IsToken, Tok
<1>2. ASSUME NEW text \in Samples
      PROVE  IsText(text)
  <2>1. text \in Seq(TokenType)
    BY TokensAssumption
  <2> QED
    BY <1>1, <2>1 DEF IsText
<1> QED
  BY <1>1, <1>2

(* What one turn of the loop finds. *)
LEMMA Reading ==
  ASSUME DocumentInv, NEW tok \in Coming, NEW last \in BOOLEAN, Read(tok, last)
  PROVE  /\ IsToken(tok) /\ IsText(rest')
         /\ Unused \in Nodes \ live
         /\ phase = "reading" /\ error = "none" /\ depth = Len(frames) + 1
         /\ depth \in Nat /\ depth < MaxDepth
         /\ frames \in Seq(live) /\ IsInjective(frames) /\ ToSet(frames) = RootsOf(doc, live)
         /\ live \in SUBSET Nodes
         /\ more' \in BOOLEAN /\ via' = via /\ crashed' = crashed
<1>1. phase = "reading" /\ live # Nodes
  BY DEF Read
<1>2. IsToken(tok) /\ IsText(rest')
  <2>1. IsText(rest)
    BY DEF DocumentInv, TextsFollow
  <2>2. CASE rest # <<>>
    <3>1. tok = Head(rest) /\ rest' = Tail(rest)
      BY <2>2 DEF Coming, Read
    <3> QED
      BY <2>1, <2>2, <3>1, TextShortened
  <2>3. CASE rest = <<>>
    <3>1. tok \in TokenType /\ rest' = rest
      BY <2>3, TokensAssumption DEF Coming, Read
    <3> QED
      BY <2>1, <3>1, TokenTypes
  <2> QED
    BY <2>2, <2>3
<1>3. /\ live \in SUBSET Nodes
      /\ doc.unlinked \in Seq(live) /\ IsInjective(doc.unlinked)
      /\ ToSet(doc.unlinked) = RootsOf(doc, live)
  BY DEF DocumentInv, TreesAreSound, Good, IsForest, Typed, Listed
<1>4. Unused \in Nodes \ live
  BY <1>1, <1>3 DEF Unused
<1>5. /\ doc.unlinked = frames /\ error = "none" /\ depth = Len(frames) + 1 /\ depth < MaxDepth
  BY <1>1 DEF DocumentInv, FramesFollow
<1>6. frames \in Seq(live) /\ IsInjective(frames) /\ ToSet(frames) = RootsOf(doc, live)
  BY <1>3, <1>5
<1>7. Len(frames) \in Nat
  BY <1>6
<1>8. depth \in Nat
  BY <1>5, <1>7
<1>9. more' \in BOOLEAN /\ via' = via /\ crashed' = crashed
  BY DEF Read
<1> QED
  BY <1>1, <1>2, <1>3, <1>4, <1>5, <1>6, <1>8, <1>9

(* The innermost open element is a node in use, or there is none and it is  *)
(* the document.                                                            *)
LEMMA TopIs ==
  ASSUME DocumentInv
  PROVE  /\ Top \in live \union {Doc}
         /\ frames # <<>> => /\ Top = Last(doc.unlinked) /\ doc.unlinked # <<>>
                             /\ Top \in ToSet(doc.unlinked) /\ Top \in live
                             /\ Front(frames) \in Seq(live)
                             /\ Len(Front(frames)) = Len(frames) - 1
         /\ Len(frames) \in Nat
<1>1. /\ doc.unlinked \in Seq(live) /\ IsInjective(doc.unlinked)
      /\ ToSet(doc.unlinked) \subseteq live
      /\ doc.unlinked = frames
  BY DEF DocumentInv, TreesAreSound, FramesFollow, Good, Listed, RootsOf
<1>2. ASSUME frames # <<>>
      PROVE  /\ Top = Last(doc.unlinked) /\ doc.unlinked # <<>>
             /\ Top \in ToSet(doc.unlinked) /\ Top \in live
             /\ Front(frames) \in Seq(live)
             /\ Len(Front(frames)) = Len(frames) - 1
  <2>1. Top = Last(doc.unlinked)
    BY <1>1, <1>2 DEF Top
  <2>2. /\ Last(doc.unlinked) \in ToSet(doc.unlinked)
        /\ Front(doc.unlinked) \in Seq(live)
        /\ Len(Front(doc.unlinked)) = Len(doc.unlinked) - 1
    BY <1>1, <1>2, LastTakenOff
  <2> QED
    BY <1>1, <1>2, <2>1, <2>2
<1>3. Len(frames) \in Nat
  BY <1>1
<1> QED
  BY <1>2, <1>3 DEF Top
-----------------------------------------------------------------------------
(* Every step of a parse keeps it. *)

(* White space between tags. *)
LEMMA ReadBlankKeeps ==
  ASSUME DocumentInv, UNCHANGED printerVars, NEW tok \in Coming, NEW last \in BOOLEAN,
         ReadBlank(tok, last)
  PROVE  DocumentInv'
<1>0. Read(tok, last) /\ UNCHANGED <<doc, live, value, frames, depth, out, justOpened>>
  BY DEF ReadBlank, printerVars
<1>1. /\ IsText(rest') /\ more' \in BOOLEAN /\ via' = via /\ crashed' = crashed
      /\ phase = "reading" /\ depth = Len(frames) + 1 /\ depth < MaxDepth
      /\ error = "none" /\ depth \in Nat
  BY <1>0, Reading
<1>2. TreesAreSound'
  BY <1>0, <1>1 DEF DocumentInv, TreesAreSound
<1>3. FramesFollow'
  <2>1. \/ phase' = "failing"
        \/ phase' = "reading" /\ error' = error
    BY <1>1 DEF ReadBlank, Fails, GoesOn
  <2>2. depth <= MaxDepth
    BY <1>1, TokensAssumption
  <2> QED
    BY <1>0, <1>1, <2>1, <2>2 DEF DocumentInv, FramesFollow
<1>4. ValuesFollow' /\ TextsFollow'
  BY <1>0, <1>1 DEF DocumentInv, ValuesFollow, TextsFollow
<1> QED
  BY <1>2, <1>3, <1>4 DEF DocumentInv

(* A text, a comment or its like, or an element that ends in its own tag.   *)
LEMMA ReadLeafKeeps ==
  ASSUME DocumentInv, UNCHANGED printerVars, NEW tok \in Coming, NEW last \in BOOLEAN,
         ReadLeaf(tok, last)
  PROVE  DocumentInv'
<1>. DEFINE n == Unused
            bad == Failure(tok, last) # "none" \/ ~WellLocated(tok)
<1>0. /\ Read(tok, last) /\ UNCHANGED <<frames, depth, out, justOpened>>
      /\ tok.kind # "close"
      /\ doc' = IF bad THEN Discarded(Created(doc, n), n)
                ELSE EndInserted(Created(doc, n), Top, n)
      /\ live' = IF bad THEN live ELSE live \union {n}
      /\ value' = IF bad THEN value ELSE [value EXCEPT ![n] = tok]
      /\ IF bad THEN phase' = "failing" ELSE UNCHANGED <<error, phase>>
  BY DEF ReadLeaf, printerVars, Fails, GoesOn
<1>1. /\ IsToken(tok)
      /\ IsText(rest') /\ more' \in BOOLEAN /\ via' = via /\ crashed' = crashed
      /\ phase = "reading" /\ depth = Len(frames) + 1 /\ depth < MaxDepth
      /\ error = "none" /\ depth \in Nat
      /\ n \in Nodes \ live /\ live \in SUBSET Nodes
  BY <1>0, Reading
<1> HIDE DEF n, bad
<1>2. /\ Good(doc, live) /\ Lost(doc) \in Nat /\ crashed \in BOOLEAN
      /\ doc.unlinked = frames /\ Valued(value, live) /\ Top \in live \union {Doc}
  BY TopIs DEF DocumentInv, TreesAreSound, FramesFollow, ValuesFollow
<1>3. Good(doc', live') /\ doc'.unlinked = frames /\ Lost(doc') \in Nat
  <2>1. CASE bad
    <3>1. /\ Good(doc', live) /\ doc'.unlinked = doc.unlinked
          /\ Lost(doc') = Lost(doc) \/ Lost(doc') = Lost(doc) + 1
      BY <1>0, <1>1, <1>2, <2>1, PassingNode
    <3> QED
      BY <1>0, <1>2, <2>1, <3>1
  <2>2. CASE ~bad
    <3>1. /\ Good(doc', live \union {n}) /\ doc'.unlinked = doc.unlinked
          /\ Lost(doc') = Lost(doc)
      BY <1>0, <1>1, <1>2, <2>2, LeafInserted
    <3> QED
      BY <1>0, <1>2, <2>2, <3>1
  <2> QED
    BY <2>1, <2>2
<1>4. Valued(value', live')
  <2>1. CASE bad
    BY <1>0, <1>2, <2>1
  <2>2. CASE ~bad
    <3>1. tok.fault = "none"
      BY <1>1, <2>2, NoFault DEF bad
    <3>2. Valued([value EXCEPT ![n] = tok], live \union {n})
      BY <1>0, <1>1, <1>2, <3>1, ValueGiven
    <3> QED
      BY <1>0, <2>2, <3>2
  <2> QED
    BY <2>1, <2>2
<1>5. TreesAreSound'
  BY <1>1, <1>2, <1>3 DEF TreesAreSound
<1>6. FramesFollow'
  <2>1. phase' = "failing" \/ (phase' = "reading" /\ error' = error)
    BY <1>0, <1>1
  <2>2. depth <= MaxDepth
    BY <1>1, TokensAssumption
  <2> QED
    BY <1>0, <1>1, <1>3, <2>1, <2>2 DEF DocumentInv, FramesFollow
<1>7. ValuesFollow' /\ TextsFollow'
  BY <1>0, <1>1, <1>4 DEF DocumentInv, ValuesFollow, TextsFollow
<1> QED
  BY <1>5, <1>6, <1>7 DEF DocumentInv

(* A tag that opens an element which has no end. *)
LEMMA ReadVainOpenKeeps ==
  ASSUME DocumentInv, UNCHANGED printerVars, NEW tok \in Coming, NEW last \in BOOLEAN,
         ReadVainOpen(tok, last)
  PROVE  DocumentInv'
<1>. DEFINE n == Unused
<1>0. /\ Read(tok, last) /\ UNCHANGED <<live, value, frames, depth, out, justOpened>>
      /\ doc' = Discarded(Created(doc, n), n)
      /\ phase' = "failing"
  BY DEF ReadVainOpen, printerVars, Fails
<1>1. /\ IsText(rest') /\ more' \in BOOLEAN /\ via' = via /\ crashed' = crashed
      /\ depth = Len(frames) + 1 /\ depth < MaxDepth /\ depth \in Nat
      /\ n \in Nodes \ live
  BY <1>0, Reading
<1> HIDE DEF n
<1>2. /\ Good(doc, live) /\ Lost(doc) \in Nat /\ crashed \in BOOLEAN /\ doc.unlinked = frames
  BY DEF DocumentInv, TreesAreSound, FramesFollow
<1>3. /\ Good(doc', live) /\ doc'.unlinked = doc.unlinked
      /\ Lost(doc') = Lost(doc) \/ Lost(doc') = Lost(doc) + 1
  BY <1>0, <1>1, <1>2, PassingNode
<1>4. Lost(doc') \in Nat
  BY <1>2, <1>3
<1>5. TreesAreSound'
  BY <1>0, <1>1, <1>2, <1>3, <1>4 DEF TreesAreSound
<1>6. FramesFollow'
  <2>1. depth <= MaxDepth
    BY <1>1, TokensAssumption
  <2> QED
    BY <1>0, <1>1, <1>2, <1>3, <2>1 DEF DocumentInv, FramesFollow
<1>7. ValuesFollow' /\ TextsFollow'
  BY <1>0, <1>1 DEF DocumentInv, ValuesFollow, TextsFollow
<1> QED
  BY <1>5, <1>6, <1>7 DEF DocumentInv

(* A tag that opens an element: one frame more. *)
LEMMA ReadOpenKeeps ==
  ASSUME DocumentInv, UNCHANGED printerVars, NEW tok \in Coming, NEW last \in BOOLEAN,
         ReadOpen(tok, last)
  PROVE  DocumentInv'
<1>. DEFINE n == Unused
<1>0. /\ Read(tok, last) /\ UNCHANGED <<out, justOpened>>
      /\ tok.kind = "open" /\ Failure(tok, last) = "none"
      /\ doc' = Created(doc, n)
      /\ live' = live \union {n}
      /\ value' = [value EXCEPT ![n] = tok]
      /\ frames' = Append(frames, n)
      /\ depth' = depth + 1
      /\ IF depth' = MaxDepth THEN phase' = "failing" ELSE UNCHANGED <<error, phase>>
  BY DEF ReadOpen, printerVars, Fails, GoesOn, TooDeep
<1>1. /\ IsToken(tok)
      /\ IsText(rest') /\ more' \in BOOLEAN /\ via' = via /\ crashed' = crashed
      /\ phase = "reading" /\ depth = Len(frames) + 1 /\ depth < MaxDepth
      /\ error = "none" /\ depth \in Nat
      /\ n \in Nodes \ live /\ live \in SUBSET Nodes /\ frames \in Seq(live)
  BY <1>0, Reading
<1> HIDE DEF n
<1>2. /\ Good(doc, live) /\ Lost(doc) \in Nat /\ crashed \in BOOLEAN
      /\ doc.unlinked = frames /\ Valued(value, live) /\ doc \in Stores
  BY DEF DocumentInv, TreesAreSound, FramesFollow, ValuesFollow, Good, IsForest
<1>3. Good(doc', live') /\ Lost(doc') = Lost(doc)
  BY <1>0, <1>1, <1>2, CreatedKeeps
<1>4. doc'.unlinked = frames'
  BY <1>0, <1>1, <1>2, CreatedIs
<1>5. Valued(value', live')
  <2>1. tok.fault = "none" /\ tok.kind # "close"
    BY <1>0, <1>1, NoFault
  <2> QED
    BY <1>0, <1>1, <1>2, <2>1, ValueGiven
<1>6. TreesAreSound'
  BY <1>1, <1>2, <1>3 DEF TreesAreSound
<1>7. FramesFollow'
  <2>1. Len(frames') = Len(frames) + 1 /\ Len(frames) \in Nat
    BY <1>0, <1>1
  <2>2. phase' = "failing" \/ (phase' = "reading" /\ error' = error /\ depth' # MaxDepth)
    BY <1>0, <1>1
  <2>3. depth' = Len(frames') + 1 /\ depth' <= MaxDepth /\ (depth' # MaxDepth => depth' < MaxDepth)
    BY <1>0, <1>1, <2>1, TokensAssumption
  <2> QED
    BY <1>1, <1>4, <2>2, <2>3 DEF DocumentInv, FramesFollow
<1>8. ValuesFollow' /\ TextsFollow'
  BY <1>0, <1>1, <1>5 DEF DocumentInv, ValuesFollow, TextsFollow
<1> QED
  BY <1>6, <1>7, <1>8 DEF DocumentInv
(* What a closing tag does before names are compared leaves the trees alone. *)
LEMMA ClosingRead ==
  ASSUME DocumentInv, NEW tok \in Coming, NEW last \in BOOLEAN, ReadClose(tok, last),
         NEW d, d = IF Failure(tok, last) = "none"
                    THEN LooseRemoved(Created(doc, Unused), Unused)
                    ELSE Discarded(Created(doc, Unused), Unused)
  PROVE  /\ Good(d, live) /\ d.unlinked = frames /\ Lost(d) \in Nat
         /\ \A n : Subtree(d, n) = Subtree(doc, n)
<1>1. Read(tok, last)
  BY DEF ReadClose
<1>2. Unused \in Nodes \ live
  BY <1>1, Reading
<1>3. Good(doc, live) /\ Lost(doc) \in Nat /\ doc.unlinked = frames
  BY DEF DocumentInv, TreesAreSound, FramesFollow
<1>4. \/ d = Discarded(Created(doc, Unused), Unused)
      \/ d = LooseRemoved(Created(doc, Unused), Unused)
  OBVIOUS
<1>5. /\ Good(d, live) /\ SamePointers(doc, d) /\ d.unlinked = doc.unlinked
      /\ Lost(d) = Lost(doc) \/ Lost(d) = Lost(doc) + 1
  BY ONLY <1>2, <1>3, <1>4, PassingNode
<1>6. d \in Stores /\ IsForest(doc, live)
  BY <1>3, <1>5 DEF Good, IsForest
<1>7. \A n : Below(d, n) = Below(doc, n)
  BY <1>5, <1>6, SamePointersKeep
<1>8. \A n : Subtree(d, n) = Subtree(doc, n)
  BY <1>7 DEF Subtree
<1>9. Lost(d) \in Nat
  BY <1>3, <1>5
<1> QED
  BY <1>3, <1>5, <1>8, <1>9

(* The element around the innermost one is another one in use, or the       *)
(* document.                                                                *)
LEMMA ParentApart ==
  ASSUME NEW d, Good(d, live), d.unlinked = frames, frames # <<>>
  PROVE  /\ Last(d.unlinked) = Top
         /\ Parent \in live \union {Doc} /\ Parent \notin Subtree(d, Top)
<1>1. /\ frames \in Seq(live) /\ IsInjective(frames) /\ ToSet(frames) = RootsOf(d, live)
      /\ live \subseteq Nodes /\ Doc \notin Nodes
  BY StoreAssumption DEF Good, Listed, IsForest, Typed
<1>2. Top = Last(frames) /\ Top \in ToSet(frames) /\ Len(frames) \in Nat \ {0}
  BY <1>1, LastTakenOff DEF Top
<1>3. Parent \in ToSet(frames) \union {Doc} /\ Parent # Top
  <2>1. CASE Len(frames) < 2
    <3>1. Top \in live
      BY <1>1, <1>2 DEF RootsOf
    <3> QED
      BY <1>1, <2>1, <3>1 DEF Parent
  <2>2. CASE ~(Len(frames) < 2)
    <3>. DEFINE k == Len(frames)
    <3>1. k - 1 \in DOMAIN frames /\ k \in DOMAIN frames /\ k - 1 # k
      BY <1>1, <1>2, <2>2
    <3>2. Parent = frames[k - 1] /\ Top = frames[k]
      BY <1>2, <2>2 DEF Parent, Last
    <3>3. frames[k - 1] # frames[k]
      BY <1>1, <3>1 DEF IsInjective
    <3>4. frames[k - 1] \in ToSet(frames)
      BY <3>1 DEF ToSet
    <3> QED
      BY <3>2, <3>3, <3>4
  <2> QED
    BY <2>1, <2>2
<1> QED
  BY <1>2, <1>3, EntriesApart

(* A closing tag: the innermost element is inserted where it belongs, or    *)
(* deleted when the names differ; its frame is left either way.             *)
LEMMA ReadCloseKeeps ==
  ASSUME DocumentInv, UNCHANGED printerVars, NEW tok \in Coming, NEW last \in BOOLEAN,
         ReadClose(tok, last)
  PROVE  DocumentInv'
<1>. DEFINE d == IF Failure(tok, last) = "none"
                 THEN LooseRemoved(Created(doc, Unused), Unused)
                 ELSE Discarded(Created(doc, Unused), Unused)
<1>0. Read(tok, last) /\ UNCHANGED <<out, justOpened>>
  BY DEF ReadClose, printerVars
<1>1. /\ IsText(rest') /\ more' \in BOOLEAN /\ via' = via /\ crashed' = crashed
      /\ phase = "reading" /\ depth = Len(frames) + 1 /\ depth < MaxDepth
      /\ error = "none" /\ depth \in Nat /\ live \in SUBSET Nodes
  BY <1>0, Reading
<1>2. /\ Good(d, live) /\ d.unlinked = frames /\ Lost(d) \in Nat
      /\ \A n : Subtree(d, n) = Subtree(doc, n)
  BY ClosingRead
<1>3. \/ /\ doc' = d
         /\ \/ phase' = "failing"
            \/ phase' = "ended" /\ frames = <<>>
         /\ UNCHANGED <<live, value, frames, depth>>
      \/ /\ frames # <<>>
         /\ doc' = EndInserted(d, Parent, Top)
         /\ Leave
         /\ UNCHANGED <<live, value, error, phase>>
      \/ /\ frames # <<>>
         /\ doc' = Discarded(d, Top)
         /\ live' = live \ Subtree(doc, Top)
         /\ value' = Forgotten(Subtree(doc, Top))
         /\ Leave
         /\ phase' = "failing"
  BY DEF ReadClose, Fails, GoesOn
<1> HIDE DEF d
<1>4. TextsFollow' /\ crashed' \in BOOLEAN /\ more' \in BOOLEAN /\ via' \in {"Parse", "LoadFile"}
  BY <1>0, <1>1 DEF DocumentInv, TextsFollow, TreesAreSound, FramesFollow
<1>5. /\ Valued(value, live) /\ Len(frames) \in Nat /\ MaxDepth \in Nat
      /\ frames # <<>> => Len(Front(frames)) = Len(frames) - 1
  BY TopIs, TokensAssumption DEF DocumentInv, ValuesFollow
<1>6. CASE /\ doc' = d
           /\ \/ phase' = "failing"
              \/ phase' = "ended" /\ frames = <<>>
           /\ UNCHANGED <<live, value, frames, depth>>
  <2>1. TreesAreSound' /\ ValuesFollow'
    BY <1>2, <1>4, <1>5, <1>6 DEF TreesAreSound, ValuesFollow
  <2>2. depth <= MaxDepth
    BY <1>1, <1>5
  <2>3. FramesFollow'
    BY <1>1, <1>2, <1>4, <1>6, <2>2 DEF FramesFollow
  <2> QED
    BY <1>4, <2>1, <2>3 DEF DocumentInv
<1>7. ASSUME frames # <<>>, Leave, Good(doc', live'), doc'.unlinked = Front(frames),
             Lost(doc') \in Nat, Valued(value', live'),
             phase' = "failing" \/ (phase' = phase /\ error' = error)
      PROVE  DocumentInv'
  <2>1. TreesAreSound' /\ ValuesFollow'
    BY <1>4, <1>7 DEF TreesAreSound, ValuesFollow
  <2>2. /\ frames' = Front(frames) /\ depth' = Len(frames') + 1
        /\ depth' <= MaxDepth /\ depth' < MaxDepth
    BY <1>1, <1>5, <1>7 DEF Leave
  <2>3. FramesFollow'
    BY <1>1, <1>4, <1>7, <2>2 DEF FramesFollow
  <2> QED
    BY <1>4, <2>1, <2>3 DEF DocumentInv
<1>8. CASE /\ frames # <<>>
           /\ doc' = EndInserted(d, Parent, Top)
           /\ Leave
           /\ UNCHANGED <<live, value, error, phase>>
  <2>1. /\ Last(d.unlinked) = Top
        /\ Parent \in live \union {Doc} /\ Parent \notin Subtree(d, Top)
    BY <1>2, <1>8, ParentApart
  <2>2. /\ Good(EndInserted(d, Parent, Top), live)
        /\ EndInserted(d, Parent, Top).unlinked = Front(d.unlinked)
        /\ Lost(EndInserted(d, Parent, Top)) = Lost(d)
    BY <1>2, <1>8, <2>1, LastInserted
  <2> QED
    BY <1>2, <1>5, <1>7, <1>8, <2>2
<1>9. CASE /\ frames # <<>>
           /\ doc' = Discarded(d, Top)
           /\ live' = live \ Subtree(doc, Top)
           /\ value' = Forgotten(Subtree(doc, Top))
           /\ Leave
           /\ phase' = "failing"
  <2>1. Last(d.unlinked) = Top /\ Subtree(d, Top) = Subtree(doc, Top)
    BY <1>2, <1>9, ParentApart
  <2>2. /\ Good(doc', live') /\ doc'.unlinked = Front(frames) /\ Lost(doc') = Lost(d) + 1
    BY <1>2, <1>9, <2>1, LastDiscarded
  <2>3. Lost(doc') \in Nat
    BY <1>2, <2>2
  <2>4. Valued(value', live')
    BY <1>1, <1>5, <1>9, ValuesTaken DEF Forgotten
  <2> QED
    BY <1>7, <1>9, <2>2, <2>3, <2>4
<1> QED
  BY <1>3, <1>6, <1>8, <1>9

(* The end of the text. *)
LEMMA EndOfInputKeeps ==
  ASSUME DocumentInv, UNCHANGED printerVars, EndOfInput
  PROVE  DocumentInv'
<1>1. /\ UNCHANGED <<doc, live, crashed, value, rest, more, frames, depth, error, via>>
      /\ UNCHANGED <<out, justOpened>>
      /\ phase = "reading"
      /\ phase' = IF frames = <<>> THEN "ended" ELSE "failing"
  BY DEF EndOfInput, vars, printerVars
<1>2. FramesFollow'
  BY <1>1 DEF DocumentInv, FramesFollow
<1> QED
  BY <1>1, <1>2 DEF DocumentInv, TreesAreSound, ValuesFollow, TextsFollow

(* A frame that returns 0: its parent deletes the element. *)
LEMMA UnwindKeeps ==
  ASSUME DocumentInv, UNCHANGED printerVars, Unwind
  PROVE  DocumentInv'
<1>1. /\ UNCHANGED <<rest, more, via, phase, crashed, out, justOpened>>
      /\ phase = "failing" /\ frames # <<>>
      /\ doc' = Discarded(doc, Top)
      /\ live' = live \ Subtree(doc, Top)
      /\ value' = Forgotten(Subtree(doc, Top))
      /\ frames' = Front(frames) /\ depth' = depth - 1
  BY DEF Unwind, Leave, printerVars
<1>2. /\ Good(doc, live) /\ Lost(doc) \in Nat /\ crashed \in BOOLEAN
      /\ doc.unlinked = frames /\ Valued(value, live) /\ live \in SUBSET Nodes
      /\ depth = Len(frames) + 1 /\ depth <= MaxDepth /\ MaxDepth \in Nat
  BY <1>1, TokensAssumption
     DEF DocumentInv, TreesAreSound, FramesFollow, ValuesFollow, Good, IsForest, Typed
<1>3. /\ Top = Last(doc.unlinked) /\ doc.unlinked # <<>> /\ Len(frames) \in Nat
      /\ Len(Front(frames)) = Len(frames) - 1
  BY <1>1, TopIs
<1>4. /\ Good(doc', live') /\ doc'.unlinked = frames' /\ Lost(doc') = Lost(doc) + 1
  BY <1>1, <1>2, <1>3, LastDiscarded
<1>5. Lost(doc') \in Nat
  BY <1>2, <1>4
<1>6. Valued(value', live')
  BY <1>1, <1>2, ValuesTaken DEF Forgotten
<1>7. TreesAreSound' /\ ValuesFollow'
  BY <1>1, <1>2, <1>4, <1>5, <1>6 DEF TreesAreSound, ValuesFollow
<1>8. FramesFollow'
  <2>1. depth' = Len(frames') + 1 /\ depth' <= MaxDepth
    BY <1>1, <1>2, <1>3
  <2> QED
    BY <1>1, <1>4, <2>1 DEF DocumentInv, FramesFollow
<1> QED
  BY <1>1, <1>7, <1>8 DEF DocumentInv, TextsFollow

(* The end of the call, with or without cleaning up. *)
LEMMA FinishKeeps ==
  ASSUME DocumentInv, UNCHANGED printerVars, Finish
  PROVE  DocumentInv'
<1>1. /\ UNCHANGED <<rest, more, frames, error, via, crashed, out, justOpened>>
      /\ phase = "ended" \/ (phase = "failing" /\ frames = <<>>)
      /\ phase' = "idle" /\ depth' = depth - 1
  BY DEF Finish, printerVars
<1>2. /\ Good(doc, live) /\ Lost(doc) \in Nat /\ crashed \in BOOLEAN /\ doc \in Stores
      /\ doc.unlinked = frames /\ frames = <<>> /\ Valued(value, live)
      /\ depth = Len(frames) + 1 /\ Len(<<>>) = 0 /\ MaxDepth \in Nat
  BY <1>1, TokensAssumption
     DEF DocumentInv, TreesAreSound, FramesFollow, ValuesFollow, Good, IsForest
<1>3. Good(doc', live') /\ Lost(doc') \in Nat /\ doc'.unlinked = <<>> /\ Valued(value', live')
  <2>. DEFINE e == ChildrenRemoved(doc, Doc)
              g == CleanedUp(doc)
  <2>1. CASE error # "none" /\ via = "Parse"
    <3>1. doc' = g /\ live' = {} /\ value' = [n \in Nodes |-> NoToken]
      BY <2>1 DEF Finish
    <3>2. Good(e, live \ Below(doc, Doc)) /\ Lost(e) = Lost(doc) /\ e.unlinked = <<>>
      BY <1>2, ChildrenRemovedKeeps
    <3>3. live = Below(doc, Doc)
      <4>1. live = (UNION {Subtree(doc, n) : n \in ToSet(doc.unlinked)}) \union Below(doc, Doc)
        BY <1>2, AllOwned
      <4>2. ToSet(doc.unlinked) = {}
        BY <1>2 DEF ToSet
      <4> QED
        BY <4>1, <4>2
    <3>4. Good(e, {}) /\ e \in Stores
      BY <3>2, <3>3 DEF Good, IsForest
    <3>5. g = [e EXCEPT !.untracked = 0]
      BY DEF CleanedUp
    <3> HIDE DEF e, g
    <3>6. g \in Stores /\ SamePointers(e, g) /\ g.unlinked = <<>> /\ g.untracked = 0
      <4>1. g \in Stores
        BY <3>4, <3>5 DEF Stores
      <4>2. SamePointers(e, g)
        BY <3>4, <3>5 DEF Stores, SamePointers
      <4>3. g.unlinked = <<>> /\ g.untracked = 0
        BY <3>2, <3>4, <3>5 DEF Stores
      <4> QED
        BY <4>1, <4>2, <4>3
    <3>7. IsForest(g, {}) /\ RootsOf(g, {}) = RootsOf(e, {})
      BY <3>4, <3>6, SamePointersKeep DEF Good
    <3>8. Listed(g, {})
      BY <3>2, <3>4, <3>6, <3>7 DEF Good, Listed
    <3>9. Lost(g) = 0
      <4>1. g.untracked = 0 /\ Len(g.unlinked) = 0
        BY <1>2, <3>6, Zenon
      <4> QED
        BY ONLY <4>1 DEF Lost
    <3> QED
      BY <3>1, <3>6, <3>7, <3>8, <3>9, NoneValued DEF Good
  <2>2. CASE ~(error # "none" /\ via = "Parse")
    <3>1. UNCHANGED <<doc, live, value>>
      BY <2>2 DEF Finish
    <3> QED
      BY <1>2, <3>1
  <2> QED
    BY <2>1, <2>2
<1>4. TreesAreSound' /\ ValuesFollow'
  BY <1>1, <1>2, <1>3 DEF TreesAreSound, ValuesFollow
<1>5. FramesFollow'
  <2>1. depth' = 0 /\ depth' <= MaxDepth
    BY <1>1, <1>2
  <2> QED
    BY <1>1, <1>2, <1>3, <2>1 DEF DocumentInv, FramesFollow
<1> QED
  BY <1>1, <1>4, <1>5 DEF DocumentInv, TextsFollow
-----------------------------------------------------------------------------
(* So does every other call, and every step of the printer. *)

(* What Clear leaves. *)
LEMMA ClearLeaves ==
  ASSUME TreesAreSound, Clear
  PROVE  /\ Good(doc', live') /\ Lost(doc') \in Nat /\ doc'.unlinked = <<>>
         /\ live' = {} /\ crashed' \in BOOLEAN
<1>. DEFINE gone == UNION {Subtree(doc, n) : n \in ToSet(doc.unlinked)}
            c == [Freed(ChildrenRemoved(doc, Doc), gone) EXCEPT
                    !.unlinked = <<>>, !.untracked = @ - Len(doc.unlinked)]
<1>1. doc' = c /\ live' = live \ (gone \union Subtree(doc, Doc)) /\ crashed' = crashed
  BY DEF Clear, Returned
<1>2. /\ live \ (gone \union Subtree(doc, Doc)) = {}
      /\ Good(c, {}) /\ Lost(c) = Lost(doc)
  BY ClearedKeeps DEF TreesAreSound
<1> HIDE DEF c
<1>3. Good(doc', {}) /\ live' = {}
  BY <1>1, <1>2
<1>4. doc'.unlinked = <<>>
  <2>1. doc'.unlinked \in Seq({})
    BY <1>3 DEF Good, Listed
  <2> QED
    BY <2>1
<1> QED
  BY <1>1, <1>2, <1>3, <1>4 DEF TreesAreSound

(* The beginning of a call that loads a text. *)
LEMMA BeginKeeps ==
  ASSUME DocumentInv, NEW v \in {"Parse", "LoadFile"}, NEW who, NEW text, IsText(text),
         Begin(v, who, text), IsText(out'), justOpened' => out' # <<>>
  PROVE  DocumentInv'
<1>1. /\ Good(doc', live') /\ Lost(doc') \in Nat /\ doc'.unlinked = <<>>
      /\ live' = {} /\ crashed' \in BOOLEAN
  BY ClearLeaves DEF DocumentInv, Begin
<1>2. /\ value' = [n \in Nodes |-> NoToken] /\ via' = v /\ rest' = text /\ frames' = <<>>
      /\ more' \in BOOLEAN
      /\ \/ phase' = "reading" /\ depth' = 1 /\ error' = "none"
         \/ phase' = "idle" /\ depth' = 0
  BY DEF Begin
<1>3. TreesAreSound'
  BY <1>1 DEF TreesAreSound
<1>4. FramesFollow'
  <2>1. Len(<<>>) + 1 = 1 /\ 0 <= MaxDepth /\ 1 < MaxDepth /\ 1 <= MaxDepth
    BY TokensAssumption
  <2> QED
    BY <1>1, <1>2, <2>1 DEF FramesFollow
<1>5. ValuesFollow' /\ TextsFollow'
  BY <1>1, <1>2, NoneValued DEF ValuesFollow, TextsFollow
<1> QED
  BY <1>3, <1>4, <1>5 DEF DocumentInv

(* LoadFile of a file that cannot be read. *)
LEMMA LoadFileFailsKeeps ==
  ASSUME DocumentInv, NEW why, LoadFileFails(why), UNCHANGED justOpened,
         IsText(out'), justOpened' => out' # <<>>
  PROVE  DocumentInv'
<1>1. /\ Good(doc', live') /\ Lost(doc') \in Nat /\ doc'.unlinked = <<>>
      /\ live' = {} /\ crashed' \in BOOLEAN
  BY ClearLeaves DEF DocumentInv, LoadFileFails
<1>2. /\ value' = [n \in Nodes |-> NoToken] /\ rest' = <<>> /\ depth' = 0
      /\ phase = "idle" /\ UNCHANGED <<more, frames, via, phase>>
  BY DEF LoadFileFails
<1>3. TreesAreSound'
  BY <1>1 DEF TreesAreSound
<1>4. FramesFollow'
  <2>1. 0 <= MaxDepth
    BY TokensAssumption
  <2> QED
    BY <1>1, <1>2, <2>1 DEF DocumentInv, FramesFollow
<1>5. ValuesFollow' /\ TextsFollow'
  BY <1>1, <1>2, NoneValued, EmptyText DEF ValuesFollow, TextsFollow
<1> QED
  BY <1>3, <1>4, <1>5 DEF DocumentInv

(* The client deletes a node: between calls every node is in a tree. *)
LEMMA ClientDeletesKeeps ==
  ASSUME DocumentInv, NEW n, ClientDeletes(n), IsText(out'), justOpened' => out' # <<>>
  PROVE  DocumentInv'
<1>1. /\ phase = "idle" /\ n \in live
      /\ doc' = IF doc.parent[n] # Nil THEN ChildRemoved(doc, n) ELSE LooseRemoved(doc, n)
      /\ live' = live \ Subtree(doc, n)
      /\ value' = Forgotten(Subtree(doc, n))
      /\ rest' = <<>>
      /\ UNCHANGED <<crashed, more, frames, depth, error, via, phase>>
  BY DEF ClientDeletes, DeleteNode, Returned
<1>2. /\ Good(doc, live) /\ Lost(doc) \in Nat /\ crashed \in BOOLEAN
      /\ doc.unlinked = frames /\ frames = <<>> /\ Valued(value, live) /\ live \in SUBSET Nodes
  BY <1>1 DEF DocumentInv, TreesAreSound, FramesFollow, ValuesFollow, Good, IsForest, Typed
<1>3. doc.parent[n] # Nil
  <2>1. RootsOf(doc, live) = {}
    BY <1>2 DEF Good, Listed, ToSet
  <2> QED
    BY <1>1, <2>1 DEF RootsOf
<1>4. Good(doc', live') /\ Lost(doc') = Lost(doc) /\ doc'.unlinked = doc.unlinked
  BY <1>1, <1>2, <1>3, ChildRemovedKeeps
<1>5. Valued(value', live')
  BY <1>1, <1>2, ValuesTaken DEF Forgotten
<1>6. TreesAreSound' /\ ValuesFollow'
  BY <1>1, <1>2, <1>4, <1>5 DEF TreesAreSound, ValuesFollow
<1>7. FramesFollow'
  BY <1>1, <1>4 DEF DocumentInv, FramesFollow
<1> QED
  BY <1>1, <1>6, <1>7, EmptyText DEF DocumentInv, TextsFollow

(* SaveFile of the whole document. *)
LEMMA SaveKeeps ==
  ASSUME DocumentInv, NEW c, Save(c)
  PROVE  DocumentInv'
<1>1. /\ UNCHANGED <<doc, live, crashed, value, rest, more, frames, depth, via>>
      /\ phase = "idle" /\ phase' = "printing" /\ out' = <<>> /\ justOpened' = FALSE
  BY DEF Save, vars
<1>2. FramesFollow'
  BY <1>1 DEF DocumentInv, FramesFollow
<1> QED
  BY <1>1, <1>2, EmptyText DEF DocumentInv, TreesAreSound, ValuesFollow, TextsFollow

(* SaveFile that cannot open its file. *)
LEMMA SaveFailsKeeps ==
  ASSUME DocumentInv, SaveFails, IsText(out'), justOpened' => out' # <<>>
  PROVE  DocumentInv'
<1>1. /\ UNCHANGED <<doc, live, crashed, value, more, frames, depth, via, phase>>
      /\ phase = "idle" /\ rest' = <<>>
  BY DEF SaveFails, vars
<1>2. FramesFollow'
  BY <1>1 DEF DocumentInv, FramesFollow
<1> QED
  BY <1>1, <1>2, EmptyText DEF DocumentInv, TreesAreSound, ValuesFollow, TextsFollow

(* What a step of the printer must do to keep it. *)
LEMMA VisitKeeps ==
  ASSUME DocumentInv, UNCHANGED parseVars, IsText(out'), justOpened' => out' # <<>>
  PROVE  DocumentInv'
  BY DEF DocumentInv, TreesAreSound, FramesFollow, ValuesFollow, TextsFollow,
         parseVars, vars, parserVars
(* Line breaks keep what is printed a text. *)
LEMMA LineKept ==
  ASSUME NEW text, IsText(text), NEW wanted
  PROVE  IsText(OnNewLine(text, wanted))
<1>1. IsToken(WhiteSpace)
  BY DEF IsToken, WhiteSpace, Tok, Kinds, Faults
<1>2. IsText(Put(text, WhiteSpace))
  BY <1>1, TokenPut
<1> QED
  BY <1>2 DEF OnNewLine

(* So does the end of a tag that was just opened. *)
LEMMA SealedKept ==
  ASSUME TextsFollow
  PROVE  IsText(Sealed(out))
<1>1. "closed" \in Kinds
  BY DEF Kinds
<1> QED
  BY <1>1, LastRewritten DEF TextsFollow, Sealed

(* A visit prints a token. *)
LEMMA PrintingKeeps ==
  ASSUME DocumentInv, NEW n \in Nodes,
         EnterElement(n) \/ ExitElement(n) \/ VisitText(n) \/ VisitOther(n)
  PROVE  DocumentInv'
<1>1. TextsFollow /\ ValuesFollow
  BY DEF DocumentInv
<1>2. UNCHANGED parseVars
  BY DEF EnterElement, ExitElement, VisitText, VisitOther, Visiting
<1>3. value[n].kind \in Kinds => IsToken(value[n])
  <2>1. "none" \notin Kinds
    BY DEF Kinds
  <2>2. NoToken.kind = "none"
    BY DEF NoToken, Tok
  <2> QED
    BY <1>1, <2>1, <2>2 DEF ValuesFollow, Valued
<1>4. IsText(out') /\ (justOpened' => out' # <<>>)
  <2>1. CASE EnterElement(n)
    <3>. DEFINE t == Tok("open", value[n].name, value[n].attrs, "unterminated")
                text == OnNewLine(Sealed(out), textDepth < 0 /\ ~isFirst)
    <3>1. IsToken(t)
      BY DEF IsToken, Tok, Kinds, Faults
    <3>2. IsText(text)
      BY <1>1, SealedKept, LineKept
    <3>3. out' = Put(text, t)
      BY <2>1 DEF EnterElement
    <3> HIDE DEF t, text
    <3> QED
      BY <3>1, <3>2, <3>3, TokenPut
  <2>2. CASE ExitElement(n)
    <3>. DEFINE closed == Append(Front(out), [Last(out) EXCEPT !.kind = "closed",
                                                               !.fault = "none"])
                t == Tok("close", Last(names), <<>>, "none")
                text == OnNewLine(out, textDepth < 0)
                tag == IF justOpened THEN closed ELSE Put(text, t)
    <3>1. justOpened => IsText(closed)
      <4>1. "closed" \in Kinds
        BY DEF Kinds
      <4> QED
        BY <1>1, <4>1, LastRewritten DEF TextsFollow
    <3>2. IsToken(t)
      BY DEF IsToken, Tok, Kinds, Faults
    <3>3. IsText(text)
      BY <1>1, LineKept DEF TextsFollow
    <3>4. out' = OnNewLine(tag, indent' = 0) /\ justOpened' = FALSE
      BY <2>2 DEF ExitElement
    <3> HIDE DEF closed, t, text
    <3>5. IsText(tag)
      BY <3>1, <3>2, <3>3, TokenPut
    <3> HIDE DEF tag
    <3> QED
      BY <3>4, <3>5, LineKept
  <2>3. CASE VisitText(n)
    <3>1. IsToken(value[n])
      BY <1>3, <2>3 DEF VisitText, Kinds
    <3>2. out' = Put(Sealed(out), value[n]) /\ justOpened' = FALSE
      BY <2>3 DEF VisitText
    <3> QED
      BY <1>1, <3>1, <3>2, SealedKept, TokenPut
  <2>4. CASE VisitOther(n)
    <3>. DEFINE text == OnNewLine(Sealed(out), textDepth < 0 /\ ~isFirst)
    <3>1. IsToken(value[n])
      BY <1>3, <2>4 DEF VisitOther, Kinds
    <3>2. out' = Put(text, value[n]) /\ justOpened' = FALSE
      BY <2>4 DEF VisitOther
    <3>3. IsText(text)
      BY <1>1, SealedKept, LineKept
    <3> HIDE DEF text
    <3> QED
      BY <3>1, <3>2, <3>3, TokenPut
  <2> QED
    BY <2>1, <2>2, <2>3, <2>4
<1> QED
  BY <1>2, <1>4, VisitKeeps

(* Printing over. *)
LEMMA PrintedKeeps ==
  ASSUME DocumentInv, Printed
  PROVE  DocumentInv'
<1>1. /\ UNCHANGED <<doc, live, crashed, value, rest, more, frames, depth, error, via>>
      /\ UNCHANGED <<out, justOpened>>
      /\ phase = "printing" /\ phase' = "idle"
  BY DEF Printed, vars, printerVars
<1>2. FramesFollow'
  BY <1>1 DEF DocumentInv, FramesFollow
<1> QED
  BY <1>1, <1>2 DEF DocumentInv, TreesAreSound, ValuesFollow, TextsFollow

(* Between calls no tag lacks its end. *)
TagsEnd == justOpened => phase = "printing" /\ at # <<Doc, "out">>

(* No step breaks that. *)
LEMMA TagsEndKept ==
  ASSUME TagsEnd, DocumentNext \/ UNCHANGED allVars
  PROVE  TagsEnd'
<1>1. CASE Client
  BY <1>1 DEF Client, Begin, LoadFileFails, ClientDeletes, SaveFails, TagsEnd
<1>2. CASE ParseStep /\ UNCHANGED printerVars
  <2>1. phase \in {"reading", "failing", "ended"}
    BY <1>2 DEF ParseStep, ReadToken, ReadBlank, ReadLeaf, ReadVainOpen, ReadOpen, ReadClose,
                Read, EndOfInput, Unwind, Finish
  <2> QED
    BY <1>2, <2>1 DEF TagsEnd, printerVars
<1>3. ASSUME NEW n \in Nodes, EnterElement(n) \/ ExitElement(n) \/ VisitText(n) \/ VisitOther(n)
      PROVE  TagsEnd'
  <2>1. CASE EnterElement(n)
    <3>1. at' = <<n, "out">> \/ \E m : at' = <<m, "in">>
      BY <2>1 DEF EnterElement, Inside
    <3>2. phase' = "printing" /\ n # Doc
      BY <2>1, StoreAssumption DEF EnterElement, Visiting, parseVars, parserVars
    <3> QED
      BY <3>1, <3>2 DEF TagsEnd
  <2>2. CASE ~EnterElement(n)
    BY <1>3, <2>2 DEF ExitElement, VisitText, VisitOther, TagsEnd
  <2> QED
    BY <2>1, <2>2
<1>4. CASE Printed
  BY <1>4 DEF Printed, TagsEnd, printerVars
<1>5. CASE \E c \in BOOLEAN : Save(c)
  BY <1>5 DEF Save, TagsEnd
<1>6. CASE \E v \in {"Parse", "LoadFile"} : Reload(v)
  BY <1>6 DEF Reload, Begin, TagsEnd, printerVars
<1>7. CASE UNCHANGED allVars
  BY <1>7 DEF TagsEnd, allVars, parseVars, parserVars, printerVars
<1> QED
  BY <1>1, <1>2, <1>3, <1>4, <1>5, <1>6, <1>7 DEF DocumentNext, Step, PrintStep
-----------------------------------------------------------------------------
(* A document that was just made. *)
LEMMA InitHolds == PrintInit => DocumentInv /\ TagsEnd
<1>. SUFFICES ASSUME PrintInit
              PROVE  DocumentInv /\ TagsEnd
  OBVIOUS
<1>1. /\ Init /\ value = [n \in Nodes |-> NoToken] /\ rest = <<>> /\ more = FALSE
      /\ frames = <<>> /\ depth = 0 /\ via = "Parse" /\ phase = "idle"
      /\ out = <<>> /\ justOpened = FALSE
  BY DEF PrintInit, ParseInit
<1>2. doc.unlinked = <<>> /\ live = {}
  BY <1>1 DEF Init, Fresh
<1>3. TreesAreSound
  <2>1. StoreInv
    BY <1>1, InitIsSound
  <2> QED
    BY <2>1 DEF StoreInv, TreesAreSound
<1>4. FramesFollow
  <2>1. 0 <= MaxDepth
    BY TokensAssumption
  <2> QED
    BY <1>1, <1>2, <2>1 DEF FramesFollow
<1>5. ValuesFollow
  BY <1>1, <1>2, NoneValued DEF ValuesFollow
<1>6. TextsFollow /\ TagsEnd
  BY <1>1, EmptyText DEF TextsFollow, TagsEnd
<1> QED
  BY <1>3, <1>4, <1>5, <1>6 DEF DocumentInv

(* No call and no step of one breaks it. *)
LEMMA StepHolds ==
  DocumentInv /\ TagsEnd /\ [DocumentNext]_allVars => DocumentInv' /\ TagsEnd'
<1>. SUFFICES ASSUME DocumentInv, TagsEnd, [DocumentNext]_allVars
              PROVE  DocumentInv' /\ TagsEnd'
  OBVIOUS
<1>1. TagsEnd'
  BY TagsEndKept
<1>2. ASSUME Client
      PROVE  DocumentInv'
  <2>1. out' = <<>> /\ justOpened' = justOpened /\ phase = "idle"
    BY <1>2 DEF Client, Begin, LoadFileFails, ClientDeletes, SaveFails
  <2>2. IsText(out') /\ (justOpened' => out' # <<>>)
    BY <2>1, EmptyText DEF TagsEnd
  <2>3. ASSUME NEW v \in {"Parse", "LoadFile"}, Begin(v, "client", <<>>)
        PROVE  DocumentInv'
    BY <2>2, <2>3, EmptyText, BeginKeeps
  <2>4. ASSUME NEW v \in {"Parse", "LoadFile"}, NEW text \in Samples \union {<<>>},
               Begin(v, "sample", text)
        PROVE  DocumentInv'
    <3>1. IsText(text)
      BY EmptyText, TokenTypes
    <3> QED
      BY <2>2, <2>4, <3>1, BeginKeeps
  <2>5. ASSUME NEW why, LoadFileFails(why)
        PROVE  DocumentInv'
    BY <2>1, <2>2, <2>5, LoadFileFailsKeeps
  <2>6. ASSUME NEW n \in Nodes, ClientDeletes(n)
        PROVE  DocumentInv'
    BY <2>2, <2>6, ClientDeletesKeeps
  <2>7. ASSUME SaveFails
        PROVE  DocumentInv'
    BY <2>2, <2>7, SaveFailsKeeps
  <2> QED
    BY <1>2, <2>3, <2>4, <2>5, <2>6, <2>7 DEF Client
<1>3. ASSUME ParseStep, UNCHANGED printerVars
      PROVE  DocumentInv'
  <2>1. ASSUME NEW tok \in Coming, NEW last \in BOOLEAN, ReadToken(tok, last)
        PROVE  DocumentInv'
    BY <1>3, <2>1, ReadBlankKeeps, ReadLeafKeeps, ReadVainOpenKeeps, ReadOpenKeeps,
       ReadCloseKeeps DEF ReadToken
  <2> QED
    BY <1>3, <2>1, EndOfInputKeeps, UnwindKeeps, FinishKeeps DEF ParseStep
<1>4. ASSUME PrintStep
      PROVE  DocumentInv'
  BY <1>4, PrintingKeeps DEF PrintStep
<1>5. ASSUME Printed
      PROVE  DocumentInv'
  BY <1>5, PrintedKeeps
<1>6. ASSUME NEW c, Save(c)
      PROVE  DocumentInv'
  BY <1>6, SaveKeeps
<1>7. ASSUME NEW v \in {"Parse", "LoadFile"}, Reload(v)
      PROVE  DocumentInv'
  <2>1. Begin(v, "saved", out) /\ out' = out /\ justOpened' = justOpened
    BY <1>7 DEF Reload, printerVars
  <2>2. IsText(out) /\ (justOpened => out # <<>>)
    BY DEF DocumentInv, TextsFollow
  <2> QED
    BY <2>1, <2>2, BeginKeeps
<1>8. ASSUME UNCHANGED allVars
      PROVE  DocumentInv'
  <2>1. UNCHANGED parseVars /\ UNCHANGED <<out, justOpened>>
    BY <1>8 DEF allVars, printerVars
  <2> QED
    BY <2>1, VisitKeeps DEF DocumentInv, TextsFollow
<1>9. DocumentInv'
  BY <1>2, <1>3, <1>4, <1>5, <1>6, <1>7, <1>8 DEF DocumentNext, Step
<1> QED
  BY <1>1, <1>9

(* So it holds at any moment. *)
LEMMA DocumentIsSound == DocumentSpec => [](DocumentInv /\ TagsEnd)
<1>1. PrintInit => DocumentInv /\ TagsEnd
  BY InitHolds
<1>2. (DocumentInv /\ TagsEnd) /\ [DocumentNext]_allVars => (DocumentInv /\ TagsEnd)'
  BY StepHolds
<1> QED
  BY <1>1, <1>2, PTL DEF DocumentSpec

-----------------------------------------------------------------------------
(* The theorems. *)

(* Whatever is loaded, changed and saved, in the middle of a parse and after *)
(* every way out of it, nothing points to memory the pools took back, every *)
(* node in use has the token it was made from, and the depth stays within   *)
(* its limit.                                                               *)
THEOREM ParserTypeCorrect == DocumentSpec => []ParserTypeOK
<1>1. DocumentInv => ParserTypeOK
  <2>. SUFFICES ASSUME DocumentInv
                PROVE  ParserTypeOK
    OBVIOUS
  <2>1. TreeTypeOK
    BY GoodPoints DEF DocumentInv, TreesAreSound
  <2>2. live \subseteq Nodes
    BY DEF DocumentInv, TreesAreSound, Good, IsForest, Typed
  <2>3. /\ \A n \in Nodes \ live : value[n] = NoToken
        /\ \A n \in live : /\ value[n].kind \in Kinds
                           /\ value[n].kind # "close" /\ value[n].fault = "none"
    BY DEF DocumentInv, ValuesFollow, Valued, IsToken
  <2>4. \A n \in live : value[n] # NoToken
    <3>1. NoToken.kind = "none" /\ "none" \notin Kinds
      BY DEF NoToken, Tok, Kinds
    <3> QED
      BY <2>3, <3>1
  <2>5. depth \in 0 .. MaxDepth
    <3>1. Len(frames) \in Nat
      BY TopIs
    <3>2. /\ depth = IF phase \in {"idle", "printing"} THEN 0 ELSE Len(frames) + 1
          /\ depth <= MaxDepth
      BY DEF DocumentInv, FramesFollow
    <3>3. depth = 0 \/ depth = Len(frames) + 1
      BY <3>2
    <3> QED
      BY <3>1, <3>2, <3>3, TokensAssumption
  <2>6. /\ phase \in {"idle", "reading", "failing", "ended", "printing"}
        /\ more \in BOOLEAN /\ via \in {"Parse", "LoadFile"}
    BY DEF DocumentInv, FramesFollow
  <2>7. \A n \in Nodes : value[n] = NoToken <=> n \notin live
    BY <2>2, <2>3, <2>4
  <2>8. \A n \in live : value[n].kind \in Kinds \ {"close"} /\ value[n].fault = "none"
    BY <2>3
  <2> QED
    BY <2>1, <2>5, <2>6, <2>7, <2>8 DEF ParserTypeOK
<1> QED
  BY <1>1, DocumentIsSound, PTL

(* The nodes outside the tree are at any moment the elements whose content  *)
(* is being read, innermost last, the depth counts their frames, and between *)
(* calls there are none: no way out of a parse leaks a node, frees one twice *)
(* or leaves a level behind, for any text, any depth and any number of calls. *)
THEOREM OnlyPendingUnlinkedHolds == DocumentSpec => []OnlyPendingUnlinked
<1>1. DocumentInv => OnlyPendingUnlinked
  <2>. SUFFICES ASSUME DocumentInv
                PROVE  OnlyPendingUnlinked
    OBVIOUS
  <2>1. NodesAreOwned
    BY GoodOwned DEF DocumentInv, TreesAreSound
  <2>2. doc.untracked >= Len(doc.unlinked)
    <3>1. doc \in Stores
      BY DEF DocumentInv, TreesAreSound, Good, IsForest
    <3>2. doc.untracked \in Int /\ Len(doc.unlinked) \in Nat
      BY <3>1, StoreTypes
    <3>3. doc.untracked - Len(doc.unlinked) \in Nat
      BY DEF DocumentInv, TreesAreSound, Lost
    <3> QED
      BY ONLY <3>2, <3>3
  <2> QED
    BY <2>1, <2>2 DEF DocumentInv, FramesFollow, OnlyPendingUnlinked
<1> QED
  BY <1>1, DocumentIsSound, PTL

(* The five pointers of neighbouring nodes agree in the middle of a parse    *)
(* and after it, too.                                                       *)
THEOREM LinksAgreeInParses == DocumentSpec => []LinksAgree
<1>1. DocumentInv => LinksAgree
  BY GoodPoints DEF DocumentInv, TreesAreSound
<1> QED
  BY <1>1, DocumentIsSound, PTL

(* The first error found is the one that is reported: the frames it passes  *)
(* on its way out, and the cleaning up, leave it.                           *)
THEOREM FirstErrorStaysHolds == DocumentSpec => FirstErrorStays
<1>1. ASSUME DocumentInv, [DocumentNext]_allVars
      PROVE  [(phase \in {"reading", "failing"} /\ error # "none") => error' = error]_parseVars
  <2>. SUFFICES ASSUME phase \in {"reading", "failing"}, error # "none"
                PROVE  error' = error
    OBVIOUS
  <2>1. phase = "failing"
    BY <1>1 DEF DocumentInv, FramesFollow
  <2>2. ~Client /\ ~PrintStep /\ ~Printed /\ ~(\E c \in BOOLEAN : Save(c))
        /\ ~(\E v \in {"Parse", "LoadFile"} : Reload(v))
    BY <2>1 DEF Client, Begin, LoadFileFails, ClientDeletes, SaveFails, PrintStep, EnterElement,
                ExitElement, VisitText, VisitOther, Visiting, Printed, Save, Reload
  <2>3. CASE ParseStep
    <3>1. Unwind \/ Finish
      BY <2>1, <2>3 DEF ParseStep, ReadToken, ReadBlank, ReadLeaf, ReadVainOpen, ReadOpen,
                        ReadClose, Read, EndOfInput
    <3> QED
      BY <3>1 DEF Unwind, Finish, Reported
  <2>4. CASE UNCHANGED allVars
    BY <2>4 DEF allVars, parseVars, parserVars
  <2> QED
    BY <1>1, <2>2, <2>3, <2>4 DEF DocumentNext, Step
<1> QED
  BY <1>1, DocumentIsSound, PTL DEF DocumentSpec, FirstErrorStays
=============================================================================
