---------------------------- MODULE MCChatReplay ----------------------------
(***************************************************************************)
(* Instances of ChatReplay: one tab has all rooms open, or every tab has   *)
(* the same one.  Tabs, rooms and counters are interchangeable.            *)
(***************************************************************************)
EXTENDS ChatReplay

MCLayouts == {[t \in Tabs |-> IF t = u THEN Keys ELSE {}] : u \in Tabs}
             \cup {[t \in Tabs |-> {k}] : k \in Keys}

Symmetry == Permutations(Tabs) \cup Permutations(Keys) \cup Permutations(Ctrs)
=============================================================================
