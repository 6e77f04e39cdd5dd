---------------------------- MODULE OrderedForest ----------------------------
(***************************************************************************)
(* What the node operations of an XMLDocument promise, as xml_helper.h     *)
(* words them: the nodes in use form ordered trees, one of them the        *)
(* document and the others loose; an insertion puts its node, with all     *)
(* below it, at the place it names, and takes it from where it was.        *)
(***************************************************************************)
EXTENDS FiniteSets, SequencesExt

CONSTANTS Nodes,     \* every node that can be in use
          Doc,       \* the document
          Nil

VARIABLES kids,      \* the children of every node, in order
          loose,     \* nodes in use that no one has inserted yet
          call,      \* the last operation and its arguments
          result     \* what it returned

vars == <<kids, loose, call, result>>

Parents == Nodes \union {Doc}

Init ==
  /\ kids = [p \in Parents |-> <<>>]
  /\ loose = {}
  /\ call = <<"none">>
  /\ result = Nil

Inserted(p) == UNION {ToSet(kids[q]) : q \in p}
InUse == loose \union Inserted(Parents)

(* n and all below it: what every set with n and its members' children has. *)
Below(n) ==
  {m \in Nodes : \A S \in SUBSET Nodes : (n \in S /\ Inserted(S) \subseteq S) => m \in S}

(* seq, in which n occurs at most once, without n. *)
Drop(seq, n) ==
  IF n \in ToSet(seq) THEN RemoveAt(seq, CHOOSE i \in 1 .. Len(seq) : seq[i] = n) ELSE seq

Detached(n) == [p \in Parents |-> Drop(kids[p], n)]

Said(what, answer) == call' = what /\ result' = answer

Move(n, p, newKids) ==
  /\ p \notin Below(n)
  /\ kids' = [Detached(n) EXCEPT ![p] = newKids]
  /\ loose' = loose \ {n}

PutLast(p, n) ==
  /\ Said(<<"InsertEndChild", p, n>>, n)
  /\ n \in InUse
  /\ Move(n, p, Append(Drop(kids[p], n), n))

PutFirst(p, n) ==
  /\ Said(<<"InsertFirstChild", p, n>>, n)
  /\ n \in InUse
  /\ Move(n, p, <<n>> \o Drop(kids[p], n))

After(seq, a, n) ==
  LET rest == Drop(seq, n)
      i == CHOOSE j \in 1 .. Len(rest) : rest[j] = a
  IN InsertAt(rest, i + 1, n)

PutAfter(p, a, n) ==
  /\ Said(<<"InsertAfterChild", p, a, n>>, IF a \in ToSet(kids[p]) THEN n ELSE Nil)
  /\ n \in InUse
  /\ IF a \in ToSet(kids[p]) \ {n} THEN Move(n, p, After(kids[p], a, n))
     ELSE UNCHANGED <<kids, loose>>

Add(n) ==
  /\ Said(<<"New">>, n)
  /\ n \notin InUse
  /\ loose' = loose \union {n}
  /\ kids' = kids

AddUnder(p, n) ==
  /\ Said(<<"InsertNew", p>>, n)
  /\ n \notin InUse
  /\ kids' = [kids EXCEPT ![p] = Append(@, n)]
  /\ loose' = loose

RemoveOne(n) ==
  /\ \/ \E p \in Parents : Said(<<"DeleteChild", p, n>>, Nil) /\ n \in ToSet(kids[p])
     \/ Said(<<"DeleteNode", n>>, Nil)
  /\ n \in InUse
  /\ kids' = [p \in Parents |-> IF p \in Below(n) THEN <<>> ELSE Drop(kids[p], n)]
  /\ loose' = loose \ {n}

RemoveChildren(p) ==
  LET gone == UNION {Below(c) : c \in ToSet(kids[p])}
  IN /\ Said(<<"DeleteChildren", p>>, Nil)
     /\ kids' = [q \in Parents |-> IF q \in gone \union {p} THEN <<>> ELSE kids[q]]
     /\ loose' = loose

RemoveAll ==
  /\ Said(<<"Clear">>, Nil)
  /\ kids' = [p \in Parents |-> <<>>]
  /\ loose' = {}

(* A loose tree of new nodes of the same shape. *)
Clone(n) ==
  /\ call' = <<"DeepClone", n>>
  /\ n \in InUse
  /\ \E f \in [Below(n) -> Nodes \ InUse] :
       /\ result' = f[n]
       /\ IsInjective(f)
       /\ kids' = [p \in Parents |->
                     IF \E m \in Below(n) : f[m] = p
                     THEN LET m == CHOOSE m \in Below(n) : f[m] = p
                          IN [i \in DOMAIN kids[m] |-> f[kids[m][i]]]
                     ELSE kids[p]]
       /\ loose' = loose \union {f[n]}

Next ==
  \/ \E n \in Nodes : Add(n) \/ RemoveOne(n) \/ Clone(n)
  \/ \E p \in Parents : RemoveChildren(p)
  \/ \E p \in Parents, n \in Nodes : PutLast(p, n) \/ PutFirst(p, n) \/ AddUnder(p, n)
  \/ \E p \in Parents, a, n \in Nodes : PutAfter(p, a, n)
  \/ RemoveAll

Spec == Init /\ [][Next]_vars
=============================================================================
