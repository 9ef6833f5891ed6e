------------------------- MODULE MC_WorkspacePatches -------------------------
(* Texts other than the empty one, files, proposals and clients are not    *)
(* told apart by the specification.                                        *)
EXTENDS WorkspacePatches, TLC

CONSTANT Written  \* the texts other than the empty one

Texts == Written \cup {Empty}

Symmetry ==
  Permutations(Written) \cup Permutations(File) \cup Permutations(Client)
    \cup Permutations(Proposal)
=============================================================================
