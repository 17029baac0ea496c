----------------------------- MODULE NativeScripts -----------------------------
\* src/src/native_script.rs, the questions the validator asks of a native script that
\* was read into its flat form: a pre-order array of nodes, and for each the index
\* just past its subtree.
EXTENDS Integers, Sequences, FiniteSets

Lists == {"all", "any", "nOfK"}
\* The direct children of i: the next one starts where the last one's subtree ends.
Children(flat, i) ==
  LET from[c \in Nat] == IF c >= flat.ends[i] THEN {} ELSE {c} \cup from[flat.ends[c]]
  IN from[i + 1]
\* evaluate: children are judged before their parents, each once. An absent bound
\* of the validity interval is NoBound, and holds nothing.
NoBound == -1
ExpiryHolds(slot, interval) == interval.end # NoBound /\ interval.end <= slot
Evaluate(flat, signed, interval) ==
  LET holds[i \in 1..Len(flat.nodes)] ==
        LET node == flat.nodes[i] IN
        CASE node.kind = "key" -> node.arg \in signed
          [] node.kind = "all" -> \A c \in Children(flat, i) : holds[c]
          [] node.kind = "any" -> \E c \in Children(flat, i) : holds[c]
          [] node.kind = "nOfK" -> Cardinality({c \in Children(flat, i) : holds[c]}) >= node.arg
          [] node.kind = "start" -> interval.start # NoBound /\ node.arg <= interval.start
          [] node.kind = "expiry" -> ExpiryHolds(node.arg, interval)
  IN holds[1]
KeyHashes(flat) == {flat.nodes[i].arg : i \in {j \in 1..Len(flat.nodes) : flat.nodes[j].kind = "key"}}

\* to_csl_json writes one opening per script and closes a list when the walk
\* reaches its end: how many lists are open when the script i is written.
OpenAt(flat, i) == {j \in 1..(i - 1) : flat.nodes[j].kind \in Lists /\ flat.ends[j] > i}
=============================================================================
