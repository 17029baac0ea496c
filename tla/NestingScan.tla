------------------------------ MODULE NestingScan ------------------------------
\* How deep a document nests and how many items it has, by one pass over its headers
\* (limits.rs): what the bounds on nesting go by, before any walk of the document.
\*
\* An offset counts from zero. An optional value is a sequence of one or none: a header
\* that can be read, the argument of one that has a length.
EXTENDS CborTree, FiniteSetsExt

CONSTANT MaxFollowed  \* MAX_FOLLOWED_EMBEDDINGS
Unlimited == 100000

\* ---- headers: read_header, read_be ----

ArgWidth(minor) == CASE minor < 24 \/ minor = 31 -> 0 [] minor = 24 -> 1 [] minor = 25 -> 2 [] minor = 26 -> 4 [] minor = 27 -> 8
\* An argument of more than two bytes stands for any that is longer than a document here.
Sized(raw) == IF Len(raw) > 2 THEN Unlimited ELSE Number(raw)
ArgOf(minor, raw) == IF minor = 31 THEN <<>> ELSE IF raw = <<>> THEN <<minor>> ELSE <<Sized(Trimmed(raw))>>
HeadAt(b, at) ==
  LET minor == b[at + 1] % 32
      next == at + 1 + ArgWidth(minor)
  IN IF at >= Len(b) \/ minor \in 28..30 \/ next > Len(b) THEN <<>>
     ELSE <<[major |-> b[at + 1] \div 32, arg |-> ArgOf(minor, SubSeq(b, at + 2, next)), next |-> next]>>
IsBreak(b, at) == at < Len(b) /\ b[at + 1] = 255
IsTag(h, number) == h # <<>> /\ h[1].major = 6 /\ h[1].arg = <<number>>

\* ---- scan_cbor_shape ----

\* A container that is open: the items it has yet to take, none until a break; whether
\* they are a level deeper; whether it is tag 24; the level and the chunks of a byte string
\* there that is open.
NoFrame == [remaining |-> <<>>, nests |-> TRUE, embeds |-> FALSE, splice |-> <<>>]
Innermost(frames) == IF frames = <<>> THEN NoFrame ELSE Last(frames)
Levels(frame) == IF frame.nests THEN 1 ELSE 0
\* Slip: the level is not given back.
Left_KeepsLevel(s) == [s EXCEPT !.frames = Front(@)]
Left(s) == [s EXCEPT !.frames = Front(@), !.depth = @ - Levels(Last(s.frames))]
Pushed(s, remaining, nests, embeds, splice) ==
  [s EXCEPT !.frames = Append(@, [remaining |-> remaining, nests |-> nests, embeds |-> embeds, splice |-> splice]),
            !.depth = @ + IF nests THEN 1 ELSE 0]
PastCeiling(s) == [s EXCEPT !.over = TRUE]
RECURSIVE WithoutFilled(_)
WithoutFilled(s) == IF s.frames # <<>> /\ Last(s.frames).remaining = <<0>> THEN WithoutFilled(Left(s)) ELSE s

\* Slip: what an open byte string carries is forgotten with its break.
AfterBreak_Forgotten(s, follow) == [Left(s) EXCEPT !.at = @ + 1]
AfterBreak(s, follow) ==
  LET splice == Last(s.frames).splice
      found == IF follow /\ splice # <<>> THEN {[level |-> splice[1].level, start |-> -1, data |-> splice[1].data]} ELSE {}
  IN [Left(s) EXCEPT !.at = @ + 1, !.found = @ \cup found]
\* An item takes its place in the container around it.
SlotTaken(s) ==
  LET top == Innermost(s.frames) IN
  [s EXCEPT !.deepest = IF s.depth > @ THEN s.depth ELSE @,
            !.frames = IF top.remaining = <<>> THEN @
                       ELSE Append(Front(@), [top EXCEPT !.remaining = <<top.remaining[1] - 1>>])]
ItemCounted(s, most) == IF s.items + 1 > most THEN PastCeiling([s EXCEPT !.items = @ + 1]) ELSE [s EXCEPT !.items = @ + 1]
\* A string of a definite length: a payload, a chunk of one, or neither.
StringTaken(b, s, top, h, follow) ==
  LET end == h.next + h.arg[1]
      data == SubSeq(b, h.next + 1, end)
      taken == [s EXCEPT !.at = end]
  IN IF end > Len(b) THEN PastCeiling(s)
     ELSE IF follow /\ top.embeds /\ h.major = 2
     THEN [taken EXCEPT !.found = @ \cup {[level |-> s.depth, start |-> h.next, data |-> data]}]
     ELSE IF follow /\ ~top.nests /\ h.major = 2 /\ top.splice # <<>>
     THEN [taken EXCEPT !.frames = Append(Front(@), [top EXCEPT !.splice = <<[@[1] EXCEPT !.data = @ \o data]>>])]
     ELSE taken
HeaderTaken(b, s, top, h, follow) ==
  LET at == [s EXCEPT !.at = h.next] IN
  CASE h.major \in {2, 3} /\ h.arg # <<>> -> StringTaken(b, s, top, h, follow)
    [] h.major \in {2, 3} /\ h.arg = <<>> ->
         Pushed(at, <<>>, FALSE, FALSE,
                IF follow /\ top.embeds /\ h.major = 2 THEN <<[level |-> s.depth, data |-> <<>>]>> ELSE <<>>)
    [] h.major \in {4, 5} /\ h.arg = <<0>> -> at
    [] h.major = 4 /\ h.arg # <<0>> -> Pushed(at, h.arg, TRUE, FALSE, <<>>)
    [] h.major = 5 /\ h.arg # <<0>> -> Pushed(at, IF h.arg = <<>> THEN <<>> ELSE <<2 * h.arg[1]>>, TRUE, FALSE, <<>>)
    [] h.major = 6 -> Pushed(at, <<1>>, TRUE, h.arg = <<24>>, <<>>)
    [] OTHER -> at
\* One item, of what encloses it: a subtree left out is one item.
HeaderWithin(b, s, top, h, follow) == IF s.over THEN s ELSE HeaderTaken(b, s, top, h, follow)
HeaderScanned(b, s, top, h, most, follow) ==
  IF h = <<>> THEN PastCeiling(s)
  ELSE HeaderWithin(b, IF top.nests /\ h[1].major # 6 THEN ItemCounted(s, most) ELSE s, top, h[1], follow)
LeftOut(s, most, ends) == [ItemCounted(s, most) EXCEPT !.at = Max(ends)]
ItemScanned(b, s, top, depths, most, follow, skip) ==
  IF s.deepest > depths THEN PastCeiling(s)
  ELSE IF top.nests /\ \E r \in skip : r.start = s.at THEN LeftOut(s, most, {r.end : r \in {r \in skip : r.start = s.at}})
  ELSE HeaderScanned(b, s, top, HeadAt(b, s.at), most, follow)
RECURSIVE ScanFrom(_, _, _, _, _, _)
Scanned(b, s, depths, most, follow, skip) ==
  IF s.over \/ s.at >= Len(b) \/ (IsBreak(b, s.at) /\ (s.frames = <<>> \/ Last(s.frames).remaining # <<>>)) THEN s
  ELSE ScanFrom(b, IF IsBreak(b, s.at) THEN AfterBreak(s, follow)
                   ELSE ItemScanned(b, SlotTaken(s), Innermost(s.frames), depths, most, follow, skip),
                depths, most, follow, skip)
ScanFrom(b, s, depths, most, follow, skip) == Scanned(b, WithoutFilled(s), depths, most, follow, skip)
\* The ceilings a scan stops past, whether it notes payloads, the subtrees it leaves out.
ScanShape(b, depths, most, follow, skip) ==
  ScanFrom(b, [at |-> 0, frames |-> <<>>, depth |-> 0, deepest |-> 0, items |-> 0, found |-> {}, over |-> FALSE],
           depths, most, follow, skip)
\* cbor_nesting_depth_capped, cbor_item_count_capped.
DepthOf(b, ceiling) == ScanShape(b, ceiling, Unlimited, FALSE, {}).deepest
ItemCount(b, ceiling) == ScanShape(b, Unlimited, ceiling, FALSE, {}).items
================================================================================
