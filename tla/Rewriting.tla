----------------------------- MODULE Rewriting -----------------------------
(***************************************************************************)
(* Loops that read a sequence from its front, take some cells at a time    *)
(* and write others for them.                                              *)
(***************************************************************************)
EXTENDS Naturals, Sequences

(* For each cell, what is written for it and for the cells behind it, when  *)
(* items[i] is what the loop does at cell i.                                *)
Rest(items) ==
  LET from[i \in 1 .. Len(items) + 1] ==
        IF i = Len(items) + 1 THEN <<>>
        ELSE items[i].gives \o from[i + items[i].takes]
  IN from

Rewritten(items) == Rest(items)[1]
=============================================================================
