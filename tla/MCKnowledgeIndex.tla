-------------------------- MODULE MCKnowledgeIndex --------------------------
EXTENDS KnowledgeIndex

(* Version 1 takes two upserts, version 2 is shorter. *)
MCSize == <<2, 1>>

Symmetry ==
  Permutations(Tenants) \cup Permutations(Documents) \cup Permutations(Jobs)
=============================================================================
