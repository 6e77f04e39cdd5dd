------------------------------- MODULE XmlTree -------------------------------
(***************************************************************************)
(* The node store of an XMLDocument (xml_helper.h, xml_helper.cpp): the    *)
(* five pointers of every node, the document's list of unlinked nodes, and *)
(* the pool's count of nodes not yet put to use, under every call that     *)
(* creates, inserts, moves, copies or deletes nodes.  One pool stands for  *)
(* the three that hold nodes; a node's kind, name and text are left out.   *)
(***************************************************************************)
EXTENDS Integers, FiniteSets, FiniteSetsExt, SequencesExt

CONSTANTS Nodes,     \* the memory of the pools, as nodes
          Doc,       \* the document, which is a node but never a child
          Nil        \* the null pointer

ASSUME StoreAssumption == Doc \notin Nodes /\ Nil \notin Nodes \union {Doc}
ASSUME MemoryAssumption == IsFiniteSet(Nodes)

VARIABLES doc,       \* the pointers and the document's bookkeeping
          live,      \* nodes allocated and not freed
          call,      \* the last call and its arguments
          result,    \* the pointer it returned
          crashed    \* has a null pointer been followed?

vars == <<doc, live, call, result, crashed>>

Parents == Nodes \union {Doc}
Usable == live \union {Doc}

Fresh ==
  [parent |-> [n \in Nodes |-> Nil],
   prev   |-> [n \in Nodes |-> Nil],
   next   |-> [n \in Nodes |-> Nil],
   first  |-> [p \in Parents |-> Nil],
   last   |-> [p \in Parents |-> Nil],
   unlinked  |-> <<>>,
   untracked |-> 0]

Init ==
  /\ doc = Fresh
  /\ live = {}
  /\ call = <<"none">>
  /\ result = Nil
  /\ crashed = FALSE

-----------------------------------------------------------------------------
(* The private steps that the calls are made of, as functions of the store. *)

(* The pointer p now has the value to, the others theirs; a null pointer    *)
(* is not written through.                                                  *)
With(ptr, p, to) == IF p = Nil THEN ptr ELSE [ptr EXCEPT ![p] = to]

Unlink(d, c) ==
  LET p == d.parent[c]
      before == d.prev[c]
      after == d.next[c]
  IN [d EXCEPT !.first[p]  = IF @ = c THEN after ELSE @,
               !.last[p]   = IF @ = c THEN before ELSE @,
               !.next      = [With(@, before, after) EXCEPT ![c] = Nil],
               !.prev      = [With(@, after, before) EXCEPT ![c] = Nil],
               !.parent[c] = Nil]

(* DynArray::SwapRemove of the first entry that is n. *)
MarkInUse(list, n) ==
  LET at == {i \in 1 .. Len(list) : list[i] = n}
  IN IF at = {} THEN list
     ELSE Front([list EXCEPT ![Min(at)] = Last(list)])

SetTracked(d) == [d EXCEPT !.untracked = @ - 1]

(* Mutant: an inserted node stays on the list of unlinked nodes. *)
BadPreamble(d, n) ==
  IF d.parent[n] # Nil THEN Unlink(d, n) ELSE SetTracked(d)

InsertChildPreamble(d, n) ==
  IF d.parent[n] # Nil THEN Unlink(d, n)
  ELSE SetTracked([d EXCEPT !.unlinked = MarkInUse(@, n)])

(* Mutant: the neighbour behind is not told of the new node. *)
BadLinkedBetween(d, p, before, n, after) ==
  [d EXCEPT !.next      = [With(@, before, n) EXCEPT ![n] = after],
            !.prev[n]   = before,
            !.first[p]  = IF before = Nil THEN n ELSE @,
            !.last[p]   = IF after = Nil THEN n ELSE @,
            !.parent[n] = p]

(* The pointers of an insertion between two neighbours, either of them Nil; *)
(* what is not written here is Nil already, since n was unlinked.           *)
LinkedBetween(d, p, before, n, after) ==
  [d EXCEPT !.next      = [With(@, before, n) EXCEPT ![n] = after],
            !.prev      = [With(@, after, n) EXCEPT ![n] = before],
            !.first[p]  = IF before = Nil THEN n ELSE @,
            !.last[p]   = IF after = Nil THEN n ELSE @,
            !.parent[n] = p]

EndInserted(d, p, n) ==
  LET e == InsertChildPreamble(d, n) IN LinkedBetween(e, p, e.last[p], n, Nil)

FirstInserted(d, p, n) ==
  LET e == InsertChildPreamble(d, n) IN LinkedBetween(e, p, Nil, n, e.first[p])

(* Mutant: links addThis on the other side of afterThis. *)
BadAfterInserted(d, p, a, n) ==
  LET e == InsertChildPreamble(d, n) IN LinkedBetween(e, p, e.prev[a], n, a)

AfterInserted(d, p, a, n) ==
  LET e == InsertChildPreamble(d, n) IN LinkedBetween(e, p, a, n, e.next[a])

(* afterThis->_next is read again after the preamble may have changed it. *)
FollowsNull(d, a, n) == InsertChildPreamble(d, n).next[a] = Nil

Created(d, n) ==
  [d EXCEPT !.unlinked = Append(@, n), !.untracked = @ + 1]

(* The nodes that the loops over _firstChild and _next come to from n. *)
Reached(d, n) ==
  LET Closed(S) == \A m \in S : {d.first[m], d.next[m]} \subseteq S \union {Nil}
      pointed == ({d.first[p] : p \in Parents} \union {d.next[m] : m \in Nodes}) \ {Nil}
      around == {S \in SUBSET ({n} \union pointed) : n \in S /\ Closed(S)}
  IN {m \in Nodes : \A S \in around : m \in S}

Below(d, n) == IF d.first[n] = Nil THEN {} ELSE Reached(d, d.first[n])

Subtree(d, n) == {n} \union Below(d, n)

(* Mutant: a freed node stays on the list of unlinked nodes. *)
BadFreed(d, gone) ==
  LET Kept(ptr) == [m \in DOMAIN ptr |-> IF m \in gone THEN Nil ELSE ptr[m]]
  IN [d EXCEPT !.parent = Kept(@), !.prev = Kept(@), !.next = Kept(@),
               !.first = Kept(@), !.last = Kept(@)]

(* Nodes whose destructors have run: each was unlinked and marked in use    *)
(* first, which concerns those on the list, and its memory keeps nothing.   *)
Freed(d, gone) ==
  LET Kept(ptr) == [m \in DOMAIN ptr |-> IF m \in gone THEN Nil ELSE ptr[m]]
  IN [d EXCEPT !.parent = Kept(@), !.prev = Kept(@), !.next = Kept(@),
               !.first = Kept(@), !.last = Kept(@),
               !.unlinked = FoldSet(LAMBDA m, list : MarkInUse(list, m), @,
                                    gone \intersect ToSet(@))]

ChildRemoved(d, c) == LET e == Unlink(d, c) IN Freed(e, Subtree(e, c))

(* DeleteChild of the first child until there is none. *)
ChildrenRemoved(d, p) ==
  [Freed(d, Below(d, p)) EXCEPT !.first[p] = Nil, !.last[p] = Nil]

(* Mutant: the pool keeps counting the node as untracked. *)
BadLooseRemoved(d, n) == Freed(d, Subtree(d, n))

LooseRemoved(d, n) == Freed(SetTracked(d), Subtree(d, n))

(* A copy of n and all below it, f giving each its new node: of those all   *)
(* but the copy of n were appended to their parent's copy, which took them  *)
(* off the list of unlinked nodes again.                                    *)
Cloned(d, n, f) ==
  LET new == Range(f)
      Origin(m) == CHOOSE o \in DOMAIN f : f[o] = m
      Image(m) == IF m = Nil THEN Nil ELSE f[m]
      Side(ptr) == [m \in Nodes |-> IF m = f[n] THEN Nil
                                    ELSE IF m \in new THEN Image(ptr[Origin(m)])
                                    ELSE ptr[m]]
      End(ptr) == [m \in Parents |-> IF m \in new THEN Image(ptr[Origin(m)])
                                     ELSE ptr[m]]
  IN Created([d EXCEPT !.parent = Side(@), !.prev = Side(@), !.next = Side(@),
                       !.first = End(@), !.last = End(@)], f[n])

-----------------------------------------------------------------------------
Returned(what, answer) ==
  /\ call' = what
  /\ result' = answer
  /\ crashed' = crashed

(* NewElement, NewText, NewComment, NewDeclaration, NewUnknown. *)
New(n) ==
  /\ n \notin live
  /\ doc' = Created(doc, n)
  /\ live' = live \union {n}
  /\ Returned(<<"New">>, n)

(* A client never inserts a node under itself: the code does not look, and  *)
(* would make a cycle.                                                      *)
MayInsert(p, n) == n \in live /\ p \in Usable /\ p \notin Subtree(doc, n)

InsertEndChild(p, n) ==
  /\ MayInsert(p, n)
  /\ doc' = EndInserted(doc, p, n)
  /\ live' = live
  /\ Returned(<<"InsertEndChild", p, n>>, n)

InsertFirstChild(p, n) ==
  /\ MayInsert(p, n)
  /\ doc' = FirstInserted(doc, p, n)
  /\ live' = live
  /\ Returned(<<"InsertFirstChild", p, n>>, n)

AfterStranger(p, a, n) ==
  /\ doc.parent[a] # p
  /\ doc' = doc
  /\ Returned(<<"InsertAfterChild", p, a, n>>, Nil)

AfterItself(p, a, n) ==
  /\ doc.parent[a] = p
  /\ a = n
  /\ doc' = doc
  /\ Returned(<<"InsertAfterChild", p, a, n>>, n)

AfterLast(p, a, n) ==
  /\ doc.parent[a] = p
  /\ a # n
  /\ doc.next[a] = Nil
  /\ doc' = EndInserted(doc, p, n)
  /\ Returned(<<"InsertAfterChild", p, a, n>>, n)

AfterInner(p, a, n) ==
  /\ doc.parent[a] = p
  /\ a # n
  /\ doc.next[a] # Nil
  /\ ~FollowsNull(doc, a, n)
  /\ doc' = AfterInserted(doc, p, a, n)
  /\ Returned(<<"InsertAfterChild", p, a, n>>, n)

(* addThis was the last child and follows afterThis: unlinking it leaves no *)
(* next child whose _prev could be set.  The process ends.                  *)
AfterLastButOne(p, a, n) ==
  /\ doc.parent[a] = p
  /\ a # n
  /\ doc.next[a] # Nil
  /\ FollowsNull(doc, a, n)
  /\ crashed' = TRUE
  /\ UNCHANGED <<doc, call, result>>

InsertAfterChild(p, a, n) ==
  /\ a \in live
  /\ MayInsert(p, n)
  /\ live' = live
  /\ \/ AfterStranger(p, a, n)
     \/ AfterItself(p, a, n)
     \/ AfterLast(p, a, n)
     \/ AfterInner(p, a, n)
     \/ AfterLastButOne(p, a, n)

(* InsertNewChildElement, InsertNewText and their like. *)
InsertNew(p, n) ==
  /\ p \in live
  /\ n \notin live
  /\ doc' = EndInserted(Created(doc, n), p, n)
  /\ live' = live \union {n}
  /\ Returned(<<"InsertNew", p>>, n)

DeleteChild(p, c) ==
  /\ c \in live
  /\ p \in Usable
  /\ doc.parent[c] = p
  /\ doc' = ChildRemoved(doc, c)
  /\ live' = live \ Subtree(doc, c)
  /\ Returned(<<"DeleteChild", p, c>>, Nil)

DeleteChildren(p) ==
  /\ p \in Usable
  /\ doc' = ChildrenRemoved(doc, p)
  /\ live' = live \ Below(doc, p)
  /\ Returned(<<"DeleteChildren", p>>, Nil)

(* XMLDocument::DeleteNode. *)
DeleteNode(n) ==
  /\ n \in live
  /\ doc' = IF doc.parent[n] # Nil THEN ChildRemoved(doc, n) ELSE LooseRemoved(doc, n)
  /\ live' = live \ Subtree(doc, n)
  /\ Returned(<<"DeleteNode", n>>, Nil)

(* The document's children, then DeleteNode(_unlinked[0]) until the list is *)
(* empty; each call takes its own entry off the list.                       *)
Clear ==
  LET roots == ToSet(doc.unlinked)
      gone == UNION {Subtree(doc, n) : n \in roots}
      e == ChildrenRemoved(doc, Doc)
  IN /\ doc' = [Freed(e, gone) EXCEPT !.unlinked = <<>>,
                                      !.untracked = @ - Len(doc.unlinked)]
     /\ live' = live \ (gone \union Subtree(doc, Doc))
     /\ Returned(<<"Clear">>, Nil)

(* XMLNode::DeepClone. *)
DeepClone(n) ==
  /\ n \in live
  /\ \E f \in [Subtree(doc, n) -> Nodes \ live] :
       /\ IsInjective(f)
       /\ doc' = Cloned(doc, n, f)
       /\ live' = live \union Range(f)
       /\ Returned(<<"DeepClone", n>>, f[n])

Next ==
  /\ ~crashed
  /\ \/ \E n \in Nodes : New(n) \/ DeleteNode(n) \/ DeepClone(n)
     \/ \E p \in Parents : DeleteChildren(p)
     \/ \E p \in Parents, n \in Nodes :
          \/ InsertEndChild(p, n)
          \/ InsertFirstChild(p, n)
          \/ InsertNew(p, n)
          \/ DeleteChild(p, n)
     \/ \E p \in Parents, a, n \in Nodes : InsertAfterChild(p, a, n)
     \/ Clear

Spec == Init /\ [][Next]_vars

-----------------------------------------------------------------------------
(* Pointers lead to nodes in use, and memory not in use holds none.         *)
TreeTypeOK ==
  /\ live \subseteq Nodes
  /\ \A n \in live :
       /\ doc.parent[n] \in Usable \union {Nil}
       /\ {doc.prev[n], doc.next[n]} \subseteq live \union {Nil}
  /\ \A p \in Usable : {doc.first[p], doc.last[p]} \subseteq live \union {Nil}
  /\ \A n \in Nodes \ live :
       {doc.parent[n], doc.prev[n], doc.next[n], doc.first[n], doc.last[n]} = {Nil}
  /\ doc.unlinked \in Seq(live)
  /\ doc.untracked \in Int
  /\ crashed \in BOOLEAN

(* The five pointers of neighbouring nodes agree: a sibling's way back is   *)
(* the way there, the first and the last child are the ends of the chain,   *)
(* and all of a chain has the same parent.  This is what the assertions in  *)
(* Unlink and the insertions rely on.                                       *)
LinksAgree ==
  /\ \A n \in live :
       /\ doc.next[n] # Nil =>
            doc.prev[doc.next[n]] = n /\ doc.parent[doc.next[n]] = doc.parent[n]
       /\ doc.prev[n] # Nil =>
            doc.next[doc.prev[n]] = n /\ doc.parent[doc.prev[n]] = doc.parent[n]
       /\ doc.parent[n] = Nil => doc.next[n] = Nil /\ doc.prev[n] = Nil
       /\ doc.parent[n] # Nil =>
            /\ doc.next[n] = Nil <=> doc.last[doc.parent[n]] = n
            /\ doc.prev[n] = Nil <=> doc.first[doc.parent[n]] = n
  /\ \A p \in Usable :
       /\ doc.first[p] # Nil => doc.parent[doc.first[p]] = p
       /\ doc.last[p] # Nil => doc.parent[doc.last[p]] = p
       /\ doc.first[p] = Nil <=> doc.last[p] = Nil

(* A node in use belongs to the document or is below exactly one entry of   *)
(* the list of unlinked nodes, so Clear frees each node once and leaks none. *)
NodesAreOwned ==
  /\ IsInjective(doc.unlinked)
  /\ ToSet(doc.unlinked) = {n \in live : doc.parent[n] = Nil}
  /\ live = (UNION {Subtree(doc, r) : r \in ToSet(doc.unlinked) \union {Doc}}) \ {Doc}

(* The pool counts as untracked exactly the nodes that were never put to    *)
(* use: the assertion at the end of Clear, at any moment.                   *)
UntrackedIsUnlinked == doc.untracked = Len(doc.unlinked)

-----------------------------------------------------------------------------
(* The children of p in order, read along _next. *)
Children(d, p) ==
  LET nth[i \in 1 .. Cardinality(Nodes)] ==
        IF i = 1 THEN d.first[p]
        ELSE IF nth[i - 1] = Nil THEN Nil ELSE d.next[nth[i - 1]]
      count == Cardinality({i \in 1 .. Cardinality(Nodes) : nth[i] # Nil})
  IN [i \in 1 .. count |-> nth[i]]

Forest == INSTANCE OrderedForest
            WITH kids  <- [p \in Parents |-> Children(doc, p)],
                 loose <- ToSet(doc.unlinked)

(* Every call changes the trees as its name and comment in xml_helper.h     *)
(* say, returns what they say, and touches nothing else.                    *)
ImplementsForest == Forest!Spec

(* InsertAfterChild moves a child that is already in the tree, wherever it  *)
(* was (the comment on its declaration), without following a null pointer.  *)
NoNullDereference == ~crashed
=============================================================================
