----------------------------- MODULE MCMerkleTrie -----------------------------
(***************************************************************************)
(* Keys of three bits.  One trie holds 000, 001 and 110:                   *)
(*   top -0-> ext (0) -> mid -0-> x, -1-> y;  top -1-> z (path 10).        *)
(* Another has one leaf, for 110; a third starts with an extension.  x and *)
(* y are small, and x2 is a small leaf of another trie.  odd is no node of *)
(* any trie.                                                               *)
(***************************************************************************)
EXTENDS MerkleTrie, TLC

MCLeaf(path, v) == [type |-> "leaf", path |-> path, value |-> v]
MCBranch(a, b) == [type |-> "branch", child |-> 0 :> a @@ 1 :> b, value |-> "none"]
MCHash(n) == [form |-> "hash", node |-> n]
MCRaw(n) == [form |-> "raw", node |-> n]

MCDecoded ==
  [top |-> MCBranch(MCHash("ext"), MCHash("z")),
   ext |-> [type |-> "extension", path |-> <<0>>, next |-> MCHash("mid")],
   mid |-> MCBranch(MCRaw("x"), MCRaw("y")),
   x |-> MCLeaf(<<>>, "v0"),
   y |-> MCLeaf(<<>>, "v1"),
   z |-> MCLeaf(<<1, 0>>, "v6"),
   only |-> MCLeaf(<<1, 1, 0>>, "w6"),
   head |-> [type |-> "extension", path |-> <<0, 0>>, next |-> MCHash("fork")],
   fork |-> MCBranch(NULL, MCRaw("x2")),
   x2 |-> MCLeaf(<<>>, "u1"),
   odd |-> [type |-> "unknownPrefix"],
   rlp |-> [type |-> "string"]]

MCNodes == DOMAIN MCDecoded
MCInTrie == MCNodes \ {"odd", "rlp"}
MCKeys == {<<0, 0, 0>>, <<0, 0, 1>>, <<0, 1, 1>>, <<1, 1, 0>>, <<1, 0, 0>>}
MCProofs == UNION {[1 .. m -> MCNodes] : m \in 0 .. 3}
            \cup {<<"top", "ext", "mid", n>> : n \in MCNodes}

RECURSIVE MCHolds(_, _)
MCHolds(n, k) ==
  LET d == MCDecoded[n]
      Below(id, rest) == IF id = NULL THEN "none" ELSE MCHolds(id.node, rest)
  IN  CASE d.type = "leaf" -> IF k = d.path THEN d.value ELSE "none"
        [] d.type = "branch" ->
             IF k = <<>> THEN d.value ELSE Below(d.child[k[1]], Tail(k))
        [] d.type = "extension" ->
             IF IsPrefix(d.path, k) THEN Below(d.next, SubSeq(k, Len(d.path) + 1, Len(k)))
                                    ELSE "none"

MCHeight(n) == CASE n \in {"top", "only", "head"} -> 3 [] n \in {"ext", "z"} -> 2
                 [] n \in {"mid", "fork"} -> 1 [] n \in {"x", "y", "x2"} -> 0
=============================================================================
