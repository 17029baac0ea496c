--------------------------- MODULE NativeScriptReader ---------------------------
\* src/src/native_script.rs: a native script read without recursion into a
\* pre-order array (NativeScripts).
\*
\* The reader is a state machine over the items of the encoding: one action reads
\* one script's header, one lets the innermost open list take its next sub-script,
\* one closes a list that has them all. A script and its encoding are chosen in
\* Init, with the encodings that must be refused (cut short, or followed by more).
EXTENDS NativeScriptTrees

CONSTANTS
  ScriptTrees,  \* the scripts read: [kind, arg, subs], nested
  Styles        \* how an encoding writes its arrays: [indefinite, open, tagged]

VARIABLES
  script,   \* the script the bytes encode
  spoilt,   \* what is wrong with the bytes: "nothing", "cut" or "followed"
  items,    \* the CBOR items still to read
  nodes,    \* the scripts read, in pre-order
  ends,     \* the index past each one's subtree
  open,     \* the lists being read, the innermost last
  reading   \* "script", "list", "ok" or "error"

vars == <<script, spoilt, items, nodes, ends, open, reading>>

Item(type, arg) == [type |-> type, arg |-> arg]
Break == Item("break", 0)
Indefinite == -1

\* What the writer puts out for a script: the kinds by their CDDL number, every
\* array definite or indefinite, the list of sub-scripts tagged 258 or not. The
\* style of a level differs from the one above it.
Kind == [key |-> 0, all |-> 1, any |-> 2, nOfK |-> 3, start |-> 4, expiry |-> 5]
Opens(indefinite, size) == <<Item("array", IF indefinite THEN Indefinite ELSE size)>>
Closes(indefinite) == IF indefinite THEN <<Break>> ELSE <<>>

RECURSIVE Encoding(_, _, _), Encodings(_, _, _)
Encodings(subs, style, below) ==
  IF subs = <<>> THEN <<>>
  ELSE Encoding(Head(subs), style, below) \o Encodings(Tail(subs), style, below)
Encoding(s, style, below) ==
  Opens(style.indefinite, IF s.kind = "nOfK" THEN 3 ELSE 2)
  \o <<Item("uint", Kind[s.kind])>>
  \o (IF s.kind = "key" THEN <<Item("bytes", s.arg)>>
      ELSE IF s.kind \in {"all", "any"} THEN <<>> ELSE <<Item("uint", s.arg)>>)
  \o (IF s.kind \in Lists
      THEN (IF style.tagged THEN <<Item("tag", 258)>> ELSE <<>>)
           \o Opens(style.open, Len(s.subs)) \o Encodings(s.subs, below, style)
           \o Closes(style.open)
      ELSE <<>>)
  \o Closes(style.indefinite)

Init == /\ script \in ScriptTrees
        /\ spoilt \in {"nothing", "cut", "followed"}
        /\ \E style, below \in Styles :
             LET bytes == Encoding(script, style, below)
             IN items = CASE spoilt = "nothing" -> bytes
                          [] spoilt = "cut" -> SubSeq(bytes, 1, Len(bytes) - 1)
                          [] spoilt = "followed" -> bytes \o <<Break>>
        /\ nodes = <<>> /\ ends = <<>> /\ open = <<>>
        /\ reading = "script"

NextIs(rest, type) == rest # <<>> /\ Head(rest).type = type

\* The break that closes an indefinite script array.
CloseScript(rest, indefinite) == IF indefinite THEN Tail(rest) ELSE rest
ScriptCloses(rest, indefinite) == indefinite => NextIs(rest, "break")

Fail == reading' = "error" /\ UNCHANGED <<script, spoilt, items, nodes, ends, open>>

\* One turn of the outer loop: the array and its kind, the kind's argument, and
\* either the opening of the list or the break of a script that has none.
HeaderRead(k) == /\ NextIs(items, "array")
                 /\ Len(items) >= 2 /\ items[2] = Item("uint", Kind[k])
                 /\ items[1].arg \in {Indefinite, IF k = "nOfK" THEN 3 ELSE 2}
ArgRead(k) == IF k \in {"all", "any"} THEN TRUE
              ELSE Len(items) >= 3 /\ items[3].type = IF k = "key" THEN "bytes" ELSE "uint"
AfterArg(k) == SubSeq(items, IF k \in {"all", "any"} THEN 3 ELSE 4, Len(items))
AfterTag(rest) == IF NextIs(rest, "tag") /\ Head(rest).arg = 258 THEN Tail(rest) ELSE rest
Reads(k) ==
  /\ HeaderRead(k) /\ ArgRead(k)
  /\ IF k \in Lists THEN NextIs(AfterTag(AfterArg(k)), "array")
     ELSE ScriptCloses(AfterArg(k), items[1].arg = Indefinite)

ReadScript ==
  /\ reading = "script"
  /\ \E k \in DOMAIN Kind :
       /\ Reads(k)
       /\ nodes' = Append(nodes, [kind |-> k, arg |-> IF k \in {"all", "any"} THEN 0 ELSE items[3].arg])
       /\ ends' = Append(ends, Len(nodes) + 2)
       /\ LET rest == AfterTag(AfterArg(k))
              indefinite == items[1].arg = Indefinite
          IN IF k \in Lists
             THEN /\ items' = Tail(rest)
                  /\ open' = Append(open, [index |-> Len(nodes) + 1, remaining |-> Head(rest).arg,
                                           indefinite |-> indefinite])
             ELSE items' = CloseScript(AfterArg(k), indefinite) /\ UNCHANGED open
  /\ reading' = "list"
  /\ UNCHANGED <<script, spoilt>>

ReadScriptFails == reading = "script" /\ (~\E k \in DOMAIN Kind : Reads(k)) /\ Fail

\* The innermost open list: it expects another sub-script, or it has them all.
Top == open[Len(open)]
Expects == IF Top.remaining = Indefinite THEN ~NextIs(items, "break") ELSE Top.remaining > 0
TakeNext == /\ reading = "list" /\ open # <<>> /\ Expects
            /\ Top.remaining = Indefinite => items # <<>>
            /\ open' = IF Top.remaining = Indefinite THEN open
                       ELSE [open EXCEPT ![Len(open)].remaining = @ - 1]
            /\ reading' = "script"
            /\ UNCHANGED <<script, spoilt, items, nodes, ends>>
AfterList == IF Top.remaining = Indefinite THEN Tail(items) ELSE items
\* Slip: a list that is done leaves its end where the header put it.
Finished_AtHeader(e) == e
Finished(e) == [e EXCEPT ![Top.index] = Len(nodes) + 1]
CloseList == /\ reading = "list" /\ open # <<>> /\ ~Expects
             /\ ScriptCloses(AfterList, Top.indefinite)
             /\ items' = CloseScript(AfterList, Top.indefinite)
             /\ ends' = Finished(ends)
             /\ open' = SubSeq(open, 1, Len(open) - 1)
             /\ UNCHANGED <<script, spoilt, nodes, reading>>
ListFails == /\ reading = "list" /\ open # <<>>
             /\ IF Expects THEN Top.remaining = Indefinite /\ items = <<>>
                ELSE ~ScriptCloses(AfterList, Top.indefinite)
             /\ Fail

\* Every list is closed: the bytes must end here too.
ReadingOver == /\ reading = "list" /\ open = <<>>
               /\ reading' = IF items = <<>> THEN "ok" ELSE "error"
               /\ UNCHANGED <<script, spoilt, items, nodes, ends, open>>

Next == \/ ReadScript \/ ReadScriptFails \/ TakeNext \/ CloseList \/ ListFails \/ ReadingOver
Spec == Init /\ [][Next]_vars

Flat == [nodes |-> nodes, ends |-> ends]
Signers == SUBSET KeysOf(script)
Intervals == [start : {NoBound, 4, 5}, end : {NoBound, 6, 7}]

\* Only a whole encoding is read, and the array read is the script: whoever signed,
\* in whatever interval, it holds when the ledger's recursive reading of the script
\* does; it names the same keys, and each script is as deep in the array's lists as
\* it is in the script (read_script, evaluate, key_hashes, to_csl_json).
ScriptReadBack ==
  /\ reading = "ok" => spoilt = "nothing"
  /\ reading = "error" => spoilt # "nothing"
  /\ reading = "ok" =>
       /\ KeyHashes(Flat) = KeysOf(script)
       /\ [i \in DOMAIN nodes |-> Cardinality(OpenAt(Flat, i))] = DepthsOf(script)
       /\ \A signed \in Signers, interval \in Intervals :
            Evaluate(Flat, signed, interval) <=> Holds(script, signed, interval)
=============================================================================
