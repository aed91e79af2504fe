---------------------------- MODULE MCSyncQueue ----------------------------
(* Instances of SyncQueue for TLC. *)
EXTENDS SyncQueueInv, TLC

CONSTANTS s1, stock, title, w1, w2, t1, t2, r1, r2, r3, r4, inventory, product,
          StockVersions, TitleVersions

MCStoreOf == [k \in Keys |-> s1]
MCOpOf == [k \in Keys |-> IF k = stock THEN inventory ELSE product]
MCPriorities == (inventory :> {0}) @@ (product :> {1})
MCMaxVersion == [k \in Keys |-> IF k = stock THEN StockVersions ELSE TitleVersions]

Symmetry == Permutations(Rows) \cup Permutations(Workers) \cup Permutations(Savers)
=============================================================================
