--------------------------- MODULE NativeScriptTrees ---------------------------
\* What is said of a native script as it is written, a tree: when it holds, to the
\* ledger, whose signature it names, and how deep its scripts are. A script of the tree is
\* told by the path that leads to it.
EXTENDS NativeScripts, SequencesExt

Sub(s, path) == FoldLeft(LAMBDA script, i : script.subs[i], s, path)
Holds(s, signed, interval) ==
  LET holds[path \in Seq(Nat)] ==
        LET sub == Sub(s, path)
            held == {i \in DOMAIN sub.subs : holds[Append(path, i)]}
        IN CASE sub.kind = "key" -> sub.arg \in signed
             [] sub.kind = "all" -> held = DOMAIN sub.subs
             [] sub.kind = "any" -> held # {}
             [] sub.kind = "nOfK" -> Cardinality(held) >= sub.arg
             [] sub.kind = "start" -> interval.start # NoBound /\ interval.start >= sub.arg
             [] sub.kind = "expiry" -> interval.end # NoBound /\ interval.end <= sub.arg
  IN holds[<<>>]
KeysOf(s) ==
  LET keys[path \in Seq(Nat)] ==
        LET sub == Sub(s, path)
        IN (IF sub.kind = "key" THEN {sub.arg} ELSE {}) \cup (UNION {keys[Append(path, i)] : i \in DOMAIN sub.subs})
  IN keys[<<>>]
\* In pre-order.
DepthsOf(s) ==
  LET depths[path \in Seq(Nat)] ==
        FoldLeft(LAMBDA list, i : list \o depths[Append(path, i)], <<Len(path)>>,
                 [i \in DOMAIN Sub(s, path).subs |-> i])
  IN depths[<<>>]
================================================================================
