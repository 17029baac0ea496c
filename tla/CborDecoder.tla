------------------------------- MODULE CborDecoder -------------------------------
\* The decoder of CBOR documents (decoder.rs): one header at a time, the open containers
\* on a stack, the positions of every item and the deviations from deterministic encoding
\* noted as items close, and what was read kept in the error when the document ends early.
EXTENDS CborTree

CONSTANTS
  MaxNesting,  \* MAX_CBOR_DECODE_NESTING_DEPTH
  ReadChunk    \* READ_CHUNK

VARIABLES bytes, offset, path, stack, string, done, outcome
decoderVars == <<bytes, offset, path, stack, string, done, outcome>>

\* ---- headers ----

Stop(kind, at, end) == [stop |-> kind, at |-> at, end |-> end]
Failed(r) == "stop" \in DOMAIN r
\* ciborium's pull: the title byte, then the bytes of its argument. What was read stays
\* read when the rest is missing or makes no header.
Widths == 24 :> 1 @@ 25 :> 2 @@ 26 :> 4 @@ 27 :> 8
Pull(at) ==
  LET major == bytes[at + 1] \div 32
      minor == bytes[at + 1] % 32
      width == IF minor \in DOMAIN Widths THEN Widths[minor] ELSE 0
      argument == IF width = 0 THEN <<minor>> ELSE SubSeq(bytes, at + 2, at + 1 + width)
  IN IF at >= Len(bytes) THEN Stop("unexpected_eof", at, at)
     ELSE IF minor \in 28..30 THEN Stop("invalid_syntax", at, at + 1)
     ELSE IF at + 1 + width > Len(bytes) THEN Stop("unexpected_eof", at, at + 1)
     ELSE IF minor = 31 /\ major \in {0, 1, 6} THEN Stop("invalid_syntax", at, at + 1)
     ELSE [major |-> major, more |-> minor = 31, width |-> width, raw |-> argument,
           arg |-> Trimmed(argument), end |-> at + 1 + width]
\* read_exact: whole chunks before the one that is short are read.
Content(at, length) ==
  LET left == Len(bytes) - at
  IN IF length <= left THEN [data |-> SubSeq(bytes, at + 1, at + length), end |-> at + length]
     ELSE Stop("unexpected_eof", at, at + (left \div ReadChunk) * ReadChunk)
\* String::from_utf8: of the bytes used here, all but one are characters.
Utf8(data) == \A i \in DOMAIN data : data[i] # 255

\* ---- the stack of open containers ----

\* Open: a map's key is held, with where it ends, until its value is there.
Frame(kind, start, head, len) ==
  [kind |-> kind, start |-> start, head |-> head, len |-> len, items |-> <<>>,
   keys |-> <<>>, keyStart |-> head, key |-> <<>>, tag |-> <<>>]
\* Slip: a key that is there is dropped with the value that is not.
Unwound_KeyLost(frames, at, end, innermost) ==
  LET partial[level \in 0..Len(frames)] ==
        IF level = Len(frames) THEN innermost
        ELSE LET f == frames[level + 1]
                 inner == partial[level + 1]
                 items == IF f.kind = "map"
                          THEN IF inner = <<>> THEN f.items
                               ELSE Append(f.items, OpenEntry(IF f.key # <<>> THEN <<f.key[1].node>> ELSE inner,
                                                              IF f.key # <<>> THEN inner ELSE <<>>,
                                                              IF f.key # <<>> THEN "value" ELSE "key"))
                          ELSE f.items \o inner
             IN <<IF f.kind = "tag" THEN TagNode(f.tag, f.start, f.head, end, items, {}, FALSE)
               ELSE Node(f.kind, f.start, f.head, end, items, {}, FALSE)>>
  IN partial[0]
\* unwind: the partial tree, from the innermost container out. A container that stopped
\* between two items has no path below it.
Unwound(frames, at, end, innermost) ==
  LET partial[level \in 0..Len(frames)] ==
        IF level = Len(frames) THEN innermost
        ELSE LET f == frames[level + 1]
                 inner == partial[level + 1]
                 items == CASE f.kind = "map" ->
                                 IF f.key # <<>> THEN Append(f.items, OpenEntry(<<f.key[1].node>>, inner, "value"))
                                 ELSE IF at > level THEN Append(f.items, OpenEntry(inner, <<>>, "key"))
                                 ELSE f.items
                            [] OTHER -> f.items \o inner
             IN <<IF f.kind = "tag" THEN TagNode(f.tag, f.start, f.head, end, items, {}, FALSE)
               ELSE Node(f.kind, f.start, f.head, end, items, {}, FALSE)>>
  IN partial[0]
Fail(kind, at, segs, frames, end, innermost, level) ==
  /\ outcome' = <<[kind |-> kind, offset |-> at, path |-> segs,
                   partial |-> Unwound(frames, level, end, innermost)]>>
  /\ offset' = end
  /\ UNCHANGED <<bytes, path, stack, string, done>>

Top == stack[Len(stack)]
\* Slip: the break of an open container is not counted to it.
Closed_AtBreak(f, end) ==
  Node(f.kind, f.start, f.head, IF f.len = <<>> THEN end - 1 ELSE end, f.items,
       OpenOdd(f.len) \cup KeyOdd(f.keys), TRUE)
Closed(f, end) ==
  CASE f.kind = "array" -> Node("array", f.start, f.head, end, f.items, OpenOdd(f.len), TRUE)
    [] f.kind = "map" -> Node("map", f.start, f.head, end, f.items, OpenOdd(f.len) \cup KeyOdd(f.keys), TRUE)
\* Slip: items are counted from one.
NextSegment_FromOne(f) == IF f.kind = "map" THEN <<"key", Len(f.items)>> ELSE <<"item", Len(f.items) + 1>>
NextSegment(f) == IF f.kind = "map" THEN <<"key", Len(f.items)>> ELSE <<"item", Len(f.items)>>
\* advance, next_index, consume_break, over the frame of a container that frames hold below
\* it, path being the container's own: on to the next item, or the container is an item.
Continue(f, frames, at, segs) ==
  LET ended == IF f.len # <<>> THEN Len(f.items) >= f.len[1] ELSE at < Len(bytes) /\ bytes[at + 1] = 255
      broken == [f EXCEPT !.items = Append(@, BreakAt(at))]
  IN IF f.len = <<>> /\ at >= Len(bytes)
     THEN Fail("unexpected_eof", at, segs, Append(frames, f), at, <<>>, Len(segs))
     ELSE IF ended
     THEN LET end == IF f.len = <<>> THEN at + 1 ELSE at
          IN /\ done' = <<Closed(IF f.len = <<>> THEN broken ELSE f, end)>>
             /\ offset' = end /\ stack' = frames /\ path' = segs /\ UNCHANGED <<bytes, string, outcome>>
     ELSE /\ stack' = Append(frames, [f EXCEPT !.keyStart = at]) /\ path' = Append(segs, NextSegment(f))
          /\ offset' = at /\ done' = <<>> /\ UNCHANGED <<bytes, string, outcome>>

\* ---- decode_item, decode_header ----

Reading == outcome = <<>> /\ done = <<>> /\ string = <<>>
Readable == Reading /\ Len(path) <= MaxNesting
Header == Pull(offset)
Deliver(node) ==
  done' = <<node>> /\ offset' = node.end /\ UNCHANGED <<bytes, path, stack, string, outcome>>
FailHere(kind, at, end) == Fail(kind, at, path, stack, end, <<>>, Len(path))

TooDeep == Reading /\ Len(path) > MaxNesting /\ FailHere("nesting_too_deep", offset, offset)
Unreadable == Readable /\ Failed(Header) /\ FailHere(Header.stop, Header.at, Header.end)
\* positive_type_name, negative_value, negative_type_name: a negative number has the type of
\* its width, or "Int" when it does not fit it. One past 64 bits is a JSON number all the
\* same (Number::from_i128): int_not_representable is never the error.
SignedType(head) ==
  LET n == IF head.width = 0 THEN 1 ELSE head.width IN IF FitsSigned(head.arg, n) THEN "nint" ELSE "wide"
TakeInteger ==
  /\ Readable /\ ~Failed(Header) /\ Header.major \in {0, 1}
  /\ IF Header.major = 0 THEN Deliver(Scalar("uint", offset, Header.end, Header.arg, IntOdd(Header)))
     ELSE Deliver(Scalar(SignedType(Header), offset, Header.end, Header.arg, IntOdd(Header)))
\* Bool, Null, Undefined, Simple; floats; a break that ends nothing.
TakeSimple ==
  /\ Readable /\ ~Failed(Header) /\ Header.major = 7
  /\ IF Header.more THEN FailHere("unexpected_break", offset, Header.end)
     ELSE IF Header.width < 2 THEN Deliver(Scalar("simple", offset, Header.end, Header.arg, {}))
     ELSE IF ~Finite(Header.raw) THEN FailHere("non_finite_float", offset, Header.end)
     ELSE Deliver(Scalar("float", offset, Header.end, Header.raw, FloatOdd(Header.raw)))
StringType(major) == IF major = 2 THEN "bytes" ELSE "text"
TakeString ==
  /\ Readable /\ ~Failed(Header) /\ Header.major \in {2, 3} /\ ~Header.more
  /\ LET body == Content(Header.end, Number(Header.arg)) IN
     IF Failed(body) THEN FailHere(body.stop, body.at, body.end)
     ELSE IF Header.major = 3 /\ ~Utf8(body.data) THEN FailHere("invalid_utf8", offset, body.end)
     ELSE Deliver(Scalar(StringType(Header.major), offset, body.end, body.data, {}))
OpenContainer ==
  /\ Readable /\ ~Failed(Header) /\ Header.major \in {4, 5}
  /\ LET len == IF Header.more THEN <<>> ELSE <<Number(Header.arg)>>
         kind == IF Header.major = 4 THEN "array" ELSE "map"
     IN Continue(Frame(kind, offset, Header.end, len), stack, Header.end, path)
OpenTag ==
  /\ Readable /\ ~Failed(Header) /\ Header.major = 6
  /\ stack' = Append(stack, [Frame("tag", offset, Header.end, <<>>) EXCEPT !.tag = Header.arg])
  /\ path' = Append(path, <<"inner">>) /\ offset' = Header.end
  /\ UNCHANGED <<bytes, string, done, outcome>>

\* ---- decode_indefinite_chunks ----

OpenString ==
  /\ Readable /\ ~Failed(Header) /\ Header.major \in {2, 3} /\ Header.more
  /\ string' = <<[type |-> StringType(Header.major), start |-> offset, head |-> Header.end, chunks |-> <<>>]>>
  /\ offset' = Header.end /\ UNCHANGED <<bytes, path, stack, done, outcome>>
InString == outcome = <<>> /\ string # <<>>
Chunks(end, odd, whole) ==
  Node(ChunkedType(string[1].type), string[1].start, string[1].head, end, string[1].chunks, odd, whole)
\* The path names the chunk; what there is of the string is innermost in the tree.
FailString(kind, at, end) ==
  Fail(kind, at, Append(path, <<"chunk", Len(string[1].chunks)>>), stack, end, <<Chunks(end, {}, FALSE)>>, Len(path))
TakeChunk ==
  /\ InString
  /\ LET body == Content(Header.end, Number(Header.arg)) IN
     IF Failed(Header) THEN FailString(Header.stop, Header.at, Header.end)
     ELSE IF Header.major = 7 /\ Header.more
     THEN /\ done' = <<[Chunks(Header.end, {"IndefiniteLength"}, TRUE) EXCEPT !.items = Append(@, BreakAt(offset))]>>
          /\ string' = <<>> /\ offset' = Header.end /\ UNCHANGED <<bytes, path, stack, outcome>>
     ELSE IF Header.major \notin {2, 3} \/ Header.more \/ StringType(Header.major) # string[1].type
     THEN FailString("invalid_chunk", offset, Header.end)
     ELSE IF Failed(body) THEN FailString(body.stop, body.at, body.end)
     ELSE IF Header.major = 3 /\ ~Utf8(body.data) THEN FailString("invalid_utf8", offset, body.end)
     ELSE /\ string' = <<[string[1] EXCEPT !.chunks =
                Append(@, Scalar(string[1].type, offset, body.end, body.data, {}))]>>
          /\ offset' = body.end /\ UNCHANGED <<bytes, path, stack, done, outcome>>

\* ---- an item is complete ----

Attaching == outcome = <<>> /\ done # <<>> /\ stack # <<>>
Outer == SubSeq(stack, 1, Len(stack) - 1)
Above == SubSeq(path, 1, Len(path) - 1)
AttachItem ==
  /\ Attaching /\ Top.kind = "array"
  /\ Continue([Top EXCEPT !.items = Append(@, done[1])], Outer, offset, Above)
AttachKey ==
  /\ Attaching /\ Top.kind = "map" /\ Top.key = <<>>
  /\ stack' = Append(Outer, [Top EXCEPT !.key = <<[node |-> done[1], end |-> offset]>>])
  /\ path' = Append(Above, <<"value", Len(Top.items)>>) /\ done' = <<>>
  /\ UNCHANGED <<bytes, offset, string, outcome>>
AttachValue ==
  /\ Attaching /\ Top.kind = "map" /\ Top.key # <<>>
  /\ Continue([Top EXCEPT !.items = Append(@, Entry(Top.key[1].node, done[1])), !.key = <<>>,
                         !.keys = Append(@, SubSeq(bytes, Top.keyStart + 1, Top.key[1].end))],
             Outer, offset, Above)
CloseTag ==
  /\ Attaching /\ Top.kind = "tag"
  /\ done' = <<TagNode(Top.tag, Top.start, Top.head, offset, done, BignumOdd(Number(Top.tag), done[1]), TRUE)>>
  /\ stack' = Outer /\ path' = Above /\ UNCHANGED <<bytes, offset, string, outcome>>
\* decode_cbor_to_value: the root, with nothing after it.
Finish ==
  /\ outcome = <<>> /\ done # <<>> /\ stack = <<>>
  /\ outcome' = IF offset = Len(bytes) THEN done
                ELSE <<[kind |-> "trailing_data", offset |-> offset, path |-> <<>>, partial |-> done]>>
  /\ UNCHANGED <<bytes, offset, path, stack, string, done>>

DecodeInit ==
  /\ bytes \in Seq(0..255) /\ offset = 0 /\ path = <<>> /\ stack = <<>> /\ string = <<>> /\ done = <<>> /\ outcome = <<>>
DecodeNext ==
  \/ TooDeep \/ Unreadable \/ TakeInteger \/ TakeSimple \/ TakeString \/ OpenContainer \/ OpenTag
  \/ OpenString \/ TakeChunk \/ AttachItem \/ AttachKey \/ AttachValue \/ CloseTag \/ Finish
=================================================================================
