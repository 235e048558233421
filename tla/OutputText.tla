----------------------------- MODULE OutputText -----------------------------
(***************************************************************************)
(* Text of one output stream as output_queries.py sees it: a sequence of   *)
(* characters, each one or more UTF-8 bytes wide, in lines.  Character and *)
(* line indices count from 0, as they do there.  The two characters of a   *)
(* Windows line end are one character of the model.                        *)
(***************************************************************************)
EXTENDS Integers, Sequences, FiniteSets, SequencesExt

CONSTANTS
  Chars,
  Width,   \* bytes of a character in UTF-8
  Lower,   \* the characters that str.lower puts in its place
  Breaks   \* the characters that end a line

ASSUME TextAssumption ==
  /\ Width \in [Chars -> 1 .. 4]
  /\ DOMAIN Lower = Chars /\ \A c \in Chars : Lower[c] \in Seq(Chars) /\ Lower[c] # <<>>
  /\ Breaks \subseteq Chars

\* Slices stop at the end of the text.
Slice(text, from, to) == SubSeq(text, from + 1, Min({to, Len(text)}))

BytesBefore(text, i) ==
  LET size[n \in 0 .. Len(text)] == IF n = 0 THEN 0 ELSE size[n - 1] + Width[text[n]]
  IN size[Min({i, Len(text)})]
Bytes(text) == BytesBefore(text, Len(text))

Reaches_Exclusive(end, offset) == end < offset \* mutant
Reaches(end, offset) == end <= offset

\* The character that holds the byte at offset, or the end of the text.
CharIndex(text, offset) == Cardinality({i \in DOMAIN text : Reaches(BytesBefore(text, i), offset)})

LowerText(text) == FlattenSeq([i \in DOMAIN text |-> Lower[text[i]]])

\* The longest prefix and the longest suffix of whole characters in limit bytes;
\* a suffix is given by the number of characters before it.
TakePrefix(text, limit) == SubSeq(text, 1, Cardinality({i \in DOMAIN text : BytesBefore(text, i) <= limit}))
SuffixFrom(text, limit) == Min({i \in 0 .. Len(text) : Bytes(text) - BytesBefore(text, i) <= limit})

LineEnds(text) == {i \in DOMAIN text : text[i] \in Breaks \/ i = Len(text)}
LineCount(text) == Cardinality(LineEnds(text))

\* The line of a character; what is behind the text belongs to the last line.
LineIndex(text, i) == Min({Cardinality({j \in LineEnds(text) : j <= i}), Max({LineCount(text) - 1, 0})})
StartOfLine(text, line) ==
  CHOOSE i \in LineEnds(text) \cup {0} : Cardinality({j \in LineEnds(text) : j <= i}) = line
LinesOf(text, first, behind) == Slice(text, StartOfLine(text, first), StartOfLine(text, behind))

LineRange(text, from, to) ==
  [start_line |-> LineIndex(text, from) + 1, end_line |-> LineIndex(text, Max({from, to - 1})) + 1]

\* str.find; -1 when there is no occurrence.
Find(text, needle, from) ==
  LET starts == {i \in from .. Len(text) - Len(needle) : Slice(text, i, i + Len(needle)) = needle}
  IN IF starts = {} THEN -1 ELSE Min(starts)

\* The characters that lie between two byte offsets as a whole.
RangeText(text, start, end) ==
  LET within == {i \in DOMAIN text : BytesBefore(text, i - 1) >= start /\ BytesBefore(text, i) <= end}
  IN IF within = {}
       THEN LET at == IF end <= start THEN start ELSE Min({start, Bytes(text)})
            IN [text |-> <<>>, start |-> at, end |-> at]
       ELSE [text |-> Slice(text, Min(within) - 1, Max(within)),
             start |-> BytesBefore(text, Min(within) - 1), end |-> BytesBefore(text, Max(within))]

\* split_utf8_chunks: the characters are added to the last chunk while they fit.
FitsChunk_Any(chunk, c, limit) == Bytes(chunk) <= limit \* mutant
FitsChunk(chunk, c, limit) == Bytes(chunk) + Width[c] <= limit

AddToChunks(chunks, c, limit) ==
  IF chunks # <<>> /\ FitsChunk(Last(chunks), c, limit)
    THEN Front(chunks) \o <<Append(Last(chunks), c)>>
    ELSE Append(chunks, <<c>>)

SplitChunks(text, limit) ==
  LET chunks[n \in 0 .. Len(text)] ==
        IF n = 0 THEN <<>> ELSE AddToChunks(chunks[n - 1], text[n], limit)
  IN chunks[Len(text)]
=============================================================================
