------------------------------ MODULE BlockTree ------------------------------
(***************************************************************************)
(* The blocks there are for a node that chooses among chains: a fixed tree *)
(* with genesis at its root.  Head is about the chain head of the node,    *)
(* Forks about the heads that its peers report.                            *)
(***************************************************************************)
CONSTANTS Blocks,
          Genesis,
          NoBlock       \* None, and the parent of genesis
=============================================================================
