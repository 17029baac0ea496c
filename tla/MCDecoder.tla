-------------------------------- MODULE MCDecoder --------------------------------
\* Documents of every kind of item, written as they should be and otherwise, whole, cut
\* short, followed by another byte, or with a byte spoilt.
EXTENDS CborDecoder, CborDocuments

Eight(b) == [i \in 1..8 |-> b]
Numbers == {Uint(<<>>, 0), Uint(<<23>>, 0), Uint(<<23>>, 1), Uint(<<24>>, 1), Uint(<<24>>, 2), Uint(<<1, 0>>, 2),
  Uint(<<1, 0>>, 4), Uint(<<1, 0, 0>>, 4), Uint(<<1, 0, 0, 0, 0>>, 8), Uint(Eight(255), 8), Negative(<<>>, 0),
  Negative(<<127>>, 1), Negative(<<128>>, 1), Negative(<<128>>, 2), Negative(<<128, 0>>, 2), Negative(Eight(127), 8),
  Negative(<<128>> \o [i \in 1..7 |-> 0], 8), Negative(Eight(255), 8)}
Floats == {Float(r) : r \in {
  <<0, 0>>, <<60, 0>>, <<63, 128, 0, 0>>, <<63, 128, 32, 0>>, <<63, 128, 16, 0>>, <<128, 0, 0, 0>>,
  <<56, 128, 0, 0>>, <<51, 128, 0, 0>>, <<51, 0, 0, 0>>, <<51, 192, 0, 0>>, <<56, 0, 32, 0>>, <<56, 127, 192, 0>>,
  <<71, 127, 224, 0>>, <<71, 128, 0, 0>>, <<0, 0, 0, 1>>,
  <<0, 0, 0, 0, 0, 0, 0, 0>>, <<63, 240, 0, 0, 0, 0, 0, 0>>, <<63, 240, 0, 0, 32, 0, 0, 0>>,
  <<63, 240, 0, 0, 16, 0, 0, 0>>, <<71, 224, 0, 0, 0, 0, 0, 0>>, <<71, 240, 0, 0, 0, 0, 0, 0>>,
  <<54, 160, 0, 0, 0, 0, 0, 0>>, <<54, 144, 0, 0, 0, 0, 0, 0>>, <<54, 176, 0, 0, 0, 0, 0, 0>>,
  <<54, 184, 0, 0, 0, 0, 0, 0>>, <<55, 255, 255, 0, 0, 0, 0, 0>>}}
Bignums == {Tag(n, Bytes(d, 0)) : n \in {2, 3, 4}, d \in {<<>>, <<1>>, <<0, 1>>, <<1>> \o Eight(0), Eight(255), <<0>> \o Eight(1)}}
Strings == {Bytes(<<>>, 0), Bytes(<<1, 2, 3>>, 1), Text(<<97>>, 0), Chunked("bytes", <<Bytes(<<1>>, 0), Bytes(<<2, 3>>, 0)>>),
  Chunked("text", <<>>), Chunked("text", <<Text(<<97>>, 0)>>)}
Unit == Uint(<<1>>, 0)
KeyPool == {Unit, Uint(<<1>>, 1), Uint(<<2>>, 0), Text(<<97>>, 0), Chunked("text", <<Text(<<97>>, 0)>>), Array(<<Unit>>, 0)}
Lengths == {0, Indefinite}
Flat == {Unit, Text(<<97>>, 0), Chunked("bytes", <<Bytes(<<1>>, 0)>>), Array(<<>>, Indefinite), Array(<<Unit>>, 0)}
ContainerItems == {Array(s, w) : s \in {<<>>} \cup {<<a>> : a \in Flat} \cup {<<a, b>> : a, b \in Flat}, w \in Lengths}
  \cup {Map(s, w) : s \in {<<>>} \cup {<<<<k, v>>>> : k \in KeyPool, v \in Flat}, w \in Lengths}
  \cup {Map(<<<<k, Unit>>, <<l, v>>, <<m, Unit>>>>, w) : k, l, m \in KeyPool, v \in {Unit}, w \in {0}}
Deeper == {Array(<<Unit, c>>, w) : c \in {Map(<<<<Array(<<Unit>>, Indefinite), Tag(5, Array(<<Unit>>, 0))>>>>, 0),
    Map(<<<<Unit, Chunked("text", <<Text(<<97>>, 0)>>)>>, <<Array(<<>>, 0), Unit>>>>, Indefinite),
    Tag(5, Tag(6, Unit)), Tag(5, Tag(6, Array(<<Unit>>, 0))),
    Map(<<<<Map(<<<<Unit, Unit>>>>, Indefinite), Unit>>>>, 0),
    Map(<<<<Unit, Array(<<Unit, Tag(5, Unit)>>, 0)>>>>, Indefinite)}, w \in Lengths}
Documents == Numbers \cup Floats \cup Bignums \cup Strings \cup {Simple(n) : n \in 20..23} \cup ContainerItems \cup Deeper

\* A document, and where it is damaged: what is before that is as it was.
Spoilt(b, at, with) == [b EXCEPT ![at] = with]
Damages(item) ==
  LET b == Encoded(item) IN
  {[bytes |-> b, upTo |-> Len(b)], [bytes |-> Append(b, 0), upTo |-> Len(b)]}
  \cup {[bytes |-> SubSeq(b, 1, n), upTo |-> n] : n \in 0..(Len(b) - 1)}
  \cup (IF item \in Deeper \cup Strings THEN {[bytes |-> Spoilt(b, n, x), upTo |-> n - 1] : n \in 1..Len(b), x \in {28, 64, 130, 255}} ELSE {})

VARIABLE written
DocumentInit == \E item \in Documents : \E d \in Damages(item) :
  /\ written = [item |-> item, upTo |-> d.upTo] /\ bytes = d.bytes /\ DecodeInit
DocumentNext == DecodeNext /\ UNCHANGED written
DocumentSpec == DocumentInit /\ [][DocumentNext]_<<decoderVars, written>>

Ended == outcome # <<>>
Rejected == "partial" \in DOMAIN outcome[1]
Undamaged == bytes = Encoded(written.item)

\* A document that is sound and not nested too deep is decoded to its end, whatever its
\* numbers, and shows the items it was written from: kinds, values, the
\* order of entries, and the byte span of every item, key and value, whether its container
\* was closed by a break, by its count or by a tag's item; and the decoder notes exactly the
\* oddities by which it departs from the deterministic encoding: a head or float longer than
\* needed, an indefinite length, a map out of order or with a key twice, a bignum that fits a
\* head or starts with a zero (decoder.rs, decode_item).
DecodedAsWritten ==
  Ended /\ Undamaged /\ ~(Rejected /\ outcome[1].kind = "nesting_too_deep") =>
    /\ ~Rejected
    /\ Plainly(outcome[1]) = ItemTree(written.item, 0)
    /\ OddOf(outcome[1]) = Deviations(written.item)
Read(node, upTo) == {Plainly(n) : n \in {x \in AllNodes(node) : WholeItem(x) /\ x.end <= upTo}}
KeptWhole(partial, upTo) == IF partial = <<>> THEN {} ELSE Read(partial[1], upTo)
StillOpen(partial, at) == LET node == PathTo(partial, at) IN node # <<>> /\ ~WholeItem(node[1])
\* The error of a document that ends early or is spoilt keeps every item that was read whole
\* before that point, where it was, in the containers then open; and its path leads through
\* those to an item that was not finished: an editor that follows it never lands on a
\* sound item (decoder.rs, unwind).
ErrorKeepsWhatWasRead ==
  Ended /\ Rejected =>
    LET partial == outcome[1].partial
        at == outcome[1].path
        upTo == IF outcome[1].kind = "nesting_too_deep" /\ outcome[1].offset < written.upTo
                THEN outcome[1].offset ELSE written.upTo
    IN /\ KeptWhole(partial, upTo) = Read(ItemTree(written.item, 0), upTo)
       /\ outcome[1].kind # "trailing_data" =>
            /\ \A n \in 0..(Len(at) - 1) : StillOpen(partial, SubSeq(at, 1, n))
            /\ PathTo(partial, at) = <<>> \/ StillOpen(partial, at)
================================================================================
