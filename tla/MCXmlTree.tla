----------------------------- MODULE MCXmlTree -----------------------------
(* The nodes of a pool are alike until a call tells them apart. *)
EXTENDS XmlTree, TLC

Symmetry == Permutations(Nodes)
=============================================================================
