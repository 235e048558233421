--------------------------- MODULE RetainedOutput ---------------------------
(***************************************************************************)
(* The retained output of one stream of an execution: chunks are inserted  *)
(* by ledger ingestion while a caller pages through them and queries them  *)
(* (database.py, output_queries.py).  A page and a query are two           *)
(* transactions each, and chunks may be committed between the two.         *)
(*                                                                         *)
(* Row n of the stream is the chunk with sequence n: _bulk_insert_output   *)
(* numbers from the greatest sequence on, under the lock of the device.    *)
(***************************************************************************)
EXTENDS OutputText

CONSTANTS
  Outputs,        \* texts of output_chunk records
  Queries,        \* searches: query, case_sensitive, context_lines, limit_matches
  Tails,          \* lines
  Ranges,         \* <<start_byte, end_byte>>
  ChunkBytes,     \* limit of split_utf8_chunks
  PageEvents,     \* rows read for a page
  PageLimits,     \* limit_bytes
  ScanEvents,     \* MAX_QUERY_SCAN_EVENTS
  ScanBytes,      \* MAX_QUERY_SCAN_BYTES
  ResponseBytes,  \* MAX_RESPONSE_CONTENT_BYTES
  MaxRows         \* bound of the model

ASSUME LimitAssumption ==
  /\ ChunkBytes \in Nat \ {0} /\ \A c \in Chars : Width[c] <= ChunkBytes
  /\ PageLimits \subseteq Nat /\ \A limit \in PageLimits : limit >= ChunkBytes
  /\ PageEvents \in Nat \ {0} /\ ScanEvents \in Nat \ {0}
  /\ ScanBytes \in Nat /\ ResponseBytes \in Nat
  /\ Outputs \subseteq Seq(Chars)
  /\ \A r \in Ranges : r[1] \in Nat /\ r[2] \in Nat /\ r[1] < r[2]
  /\ \A q \in Queries :
       /\ q.query \in Seq(Chars) /\ q.query # <<>>
       /\ q.limit_matches \in Nat \ {0} /\ q.context_lines \in Nat
  /\ Tails \subseteq Nat \ {0}

VARIABLES
  stream,    \* the rows
  ended,     \* the execution is terminal
  cursor,    \* of the caller that pages
  pages,     \* the text it has been given
  page,      \* the page under way, after its first transaction
  reading,   \* it has not been told that there is no more
  request,   \* the query under way
  answer,    \* the last answer to a query
  found      \* the ranges found by a search and its continuations

pager == <<cursor, pages, page, reading>>
queries == <<request, answer, found>>
vars == <<stream, ended, pager, queries>>

Nothing == [kind |-> "none"]

\* A record with the fields of both (@@ of TLC is unknown to the proof system).
With(r, s) ==
  [f \in DOMAIN r \cup DOMAIN s |-> IF f \in DOMAIN r THEN r[f] ELSE s[f]]

TextOf(rows) == FlattenSeq(rows)

-----------------------------------------------------------------------------
(* Ingestion.                                                              *)

\* The status of the execution is not looked at: output that is committed late is
\* retained too.
Ingest(text) ==
  LET rows == stream \o SplitChunks(text, ChunkBytes) IN
    /\ Len(rows) <= MaxRows
    /\ stream' = rows
    /\ UNCHANGED <<ended, pager, queries>>

EndExecution ==
  /\ ~ended
  /\ ended' = TRUE
  /\ UNCHANGED <<stream, pager, queries>>

-----------------------------------------------------------------------------
(* Pages.                                                                  *)

FitsPage_Strictly(bytes, limit) == bytes < limit \* mutant
FitsPage(bytes, limit) == bytes <= limit

\* The last row of the longest run of rows that fits.
LastFitting(after, limit) ==
  Max({n \in after .. Min({Len(stream), after + PageEvents}) :
         FitsPage(Bytes(TextOf(SubSeq(stream, after + 1, n))), limit)})

CursorAt_Behind(last) == Min({last + 1, Len(stream)}) \* mutant
CursorAt(last) == last

PageAfter(after, limit) ==
  [kind |-> "page", text |-> TextOf(SubSeq(stream, after + 1, LastFitting(after, limit))),
   next |-> CursorAt(LastFitting(after, limit)), ended |-> ended]

HasMore(next) == Len(stream) > next

\* The caller knows whether the execution was terminal before it asked.
ReadPage(limit) ==
  /\ reading /\ page = Nothing
  /\ page' = PageAfter(cursor, limit)
  /\ UNCHANGED <<stream, ended, cursor, pages, reading, queries>>

FinishPage ==
  /\ page # Nothing
  /\ pages' = pages \o page.text
  /\ cursor' = page.next
  /\ reading' = (HasMore(page.next) \/ ~page.ended)
  /\ page' = Nothing
  /\ UNCHANGED <<stream, ended, queries>>

-----------------------------------------------------------------------------
(* Snapshots: the high water first, the rows up to it later.               *)

\* get_execution_output_scan_events reads one row more than may be scanned.
RowsUpTo_All(highWater) == SubSeq(stream, 1, Min({Len(stream), ScanEvents + 1})) \* mutant
RowsUpTo(highWater) == SubSeq(stream, 1, Min({highWater, ScanEvents + 1}))

\* The first row is scanned whatever its size.
Snapshot(highWater) ==
  LET rows == RowsUpTo(highWater)
      scanned == Max({n \in 0 .. Min({Len(rows), ScanEvents}) :
                        n <= 1 \/ Bytes(TextOf(SubSeq(rows, 1, n))) <= ScanBytes})
  IN [high_water |-> highWater, scanned |-> scanned, text |-> TextOf(SubSeq(rows, 1, scanned)),
      partial |-> scanned < Len(rows) \/ highWater > scanned]

Answering(snapshot, result) ==
  answer' = With([request |-> request, high_water |-> snapshot.high_water,
                  scanned |-> snapshot.scanned, partial |-> snapshot.partial], result)

Ask(r) ==
  /\ request = Nothing
  /\ request' = With(r, [high_water |-> Len(stream)])
  /\ answer' = Nothing
  /\ UNCHANGED <<stream, ended, pager>>

Answered == request' = Nothing /\ UNCHANGED <<stream, ended, pager>>

-----------------------------------------------------------------------------
(* Search.                                                                 *)

\* A match with the lines around it, cut to what is left of the response.
AddMatch(progress, q, text, from, to) ==
  LET lines == LineRange(text, from, to)
      before == LinesOf(text, Max({0, lines.start_line - 1 - q.context_lines}), lines.start_line - 1)
      after == LinesOf(text, lines.end_line, Min({LineCount(text), lines.end_line + q.context_lines}))
      keptBefore == TakePrefix(before, ResponseBytes - progress.bytes)
      bytes == progress.bytes + Bytes(keptBefore)
      kept == TakePrefix(Slice(text, from, to), ResponseBytes - bytes)
      keptAfter == TakePrefix(after, ResponseBytes - bytes - Bytes(kept))
      shortened == \/ progress.shortened \/ keptBefore # before
                   \/ kept # Slice(text, from, to) \/ keptAfter # after
  IN [bytes |-> bytes + Bytes(kept) + Bytes(keptAfter), shortened |-> shortened,
      matches |-> Append(progress.matches,
        [start |-> BytesBefore(text, from), end |-> BytesBefore(text, to), text |-> kept,
         lines |-> lines, before |-> keptBefore, after |-> keptAfter, shortened |-> shortened])]

ResumeAt_Overlapping(from, to) == from + 1 \* mutant
ResumeAt(from, to) == IF to > from THEN to ELSE from + 1

Search(q, text, after) ==
  LET haystack == IF q.case_sensitive THEN text ELSE LowerText(text)
      needle == IF q.case_sensitive THEN q.query ELSE LowerText(q.query)
      progress[n \in 0 .. q.limit_matches] ==
        IF n = 0 THEN [matches |-> <<>>, bytes |-> 0, shortened |-> FALSE, from |-> CharIndex(text, after)]
        ELSE LET last == progress[n - 1]
                 at == Find(haystack, needle, last.from)
             IN IF at < 0 THEN last
                ELSE With(AddMatch(last, q, text, at, at + Len(needle)),
                          [from |-> ResumeAt(at, at + Len(needle))])
      result == progress[q.limit_matches]
      more == Find(haystack, needle, result.from)
  IN [matches |-> result.matches, shortened |-> result.shortened,
      next |-> IF more < 0 THEN -1 ELSE BytesBefore(text, more)]

AskSearch(q) == Ask([kind |-> "search", query |-> q, after |-> 0]) /\ found' = <<>>

\* next_after_byte is given back as after_byte.
AskForMore ==
  /\ answer # Nothing /\ answer.request.kind = "search" /\ answer.next >= 0
  /\ Ask([kind |-> "search", query |-> answer.request.query, after |-> answer.next])
  /\ UNCHANGED found

AnswerSearch ==
  /\ request.kind = "search"
  /\ LET snapshot == Snapshot(request.high_water)
         result == Search(request.query, snapshot.text, request.after)
     IN /\ Answering(snapshot, result)
        /\ found' = found \o [n \in DOMAIN result.matches |->
                                <<result.matches[n].start, result.matches[n].end>>]
  /\ Answered

-----------------------------------------------------------------------------
(* Tail and range.                                                         *)

AskTail(lines) == Ask([kind |-> "tail", lines |-> lines]) /\ found' = <<>>

StartByte_Selected(selected, removed) == selected \* mutant
StartByte(selected, removed) == selected + removed

LastLines(lines, text) ==
  LET first == Max({0, LineCount(text) - lines})
      selected == LinesOf(text, first, LineCount(text))
      removed == SuffixFrom(selected, ResponseBytes)
  IN [text |-> Slice(selected, removed, Len(selected)), shortened |-> removed > 0,
      start |-> StartByte(BytesBefore(text, StartOfLine(text, first)), BytesBefore(selected, removed)),
      end |-> Bytes(text),
      lines |-> [start_line |-> first + 1, end_line |-> Max({1, LineCount(text)})]]

AnswerTail ==
  /\ request.kind = "tail"
  /\ LET snapshot == Snapshot(request.high_water)
     IN Answering(snapshot, LastLines(request.lines, snapshot.text))
  /\ Answered /\ UNCHANGED found

AskRange(r) == Ask([kind |-> "range", start |-> r[1], end |-> r[2]]) /\ found' = <<>>

ByteRange(start, end, text) ==
  LET range == RangeText(text, start, end)
      kept == TakePrefix(range.text, ResponseBytes)
  IN [text |-> kept, shortened |-> kept # range.text, start |-> range.start,
      end |-> IF kept # range.text THEN range.start + Bytes(kept) ELSE range.end,
      lines |-> LineRange(text, CharIndex(text, range.start), CharIndex(text, range.end))]

AnswerRange ==
  /\ request.kind = "range"
  /\ LET snapshot == Snapshot(request.high_water)
     IN Answering(snapshot, ByteRange(request.start, request.end, snapshot.text))
  /\ Answered /\ UNCHANGED found

-----------------------------------------------------------------------------

Init ==
  /\ stream = <<>> /\ ended = FALSE
  /\ cursor = 0 /\ pages = <<>> /\ page = Nothing /\ reading = TRUE
  /\ request = Nothing /\ answer = Nothing /\ found = <<>>

Ingestion == EndExecution \/ \E text \in Outputs : Ingest(text)
Paging == FinishPage \/ \E limit \in PageLimits : ReadPage(limit)

Querying ==
  \/ \E q \in Queries : AskSearch(q)
  \/ \E lines \in Tails : AskTail(lines)
  \/ \E r \in Ranges : AskRange(r)
  \/ AskForMore \/ AnswerSearch \/ AnswerTail \/ AnswerRange

Next == Ingestion \/ Paging \/ Querying

Spec == Init /\ [][Next]_vars

\* A caller that goes on paging.
FairSpec == Spec /\ WF_vars(Paging)

-----------------------------------------------------------------------------
(* Properties.                                                             *)

\* Every row respects byte_count > 0 AND byte_count <= 8192, the constraint of
\* the table (database.py:137): an insert that broke it would fail for ever.
TypeOK ==
  /\ \A n \in DOMAIN stream : stream[n] \in Seq(Chars) /\ Bytes(stream[n]) \in 1 .. ChunkBytes
  /\ ended \in BOOLEAN /\ reading \in BOOLEAN
  /\ cursor \in 0 .. Len(stream)
  /\ pages \in Seq(Chars)
  /\ page = Nothing \/ page.next \in cursor .. Len(stream)
  /\ request = Nothing \/ request.high_water \in 0 .. Len(stream)
  /\ answer = Nothing \/ answer.scanned \in 0 .. Len(stream)

\* The pages join to the output up to the cursor: nothing is left out or given
\* twice, whatever is committed between the two transactions of a page.
PagesCoverOnce == pages = TextOf(SubSeq(stream, 1, cursor))

\* A caller that pages on until the execution has ended and nothing more is there
\* stops then, and what was retained at any time before that is in its pages, the
\* rows that were committed between the transactions of its last page included.
\* Output that is committed only after the caller stopped is not promised to it.
PagesEnd ==
  /\ ended ~> ~reading
  /\ \A n \in 1 .. MaxRows : reading /\ Len(stream) >= n ~> cursor >= n

Region == TextOf(SubSeq(stream, 1, answer.scanned))
LineAt(text, byte) == 1 + Cardinality({i \in DOMAIN text : text[i] \in Breaks /\ BytesBefore(text, i) <= byte})

\* Byte offsets and line numbers that an answer gives stay true of the stream
\* while it grows: they lead back to the very text they came with.
PositionIsTrue(item) ==
  item.text # <<>> =>
  LET text == TextOf(stream) IN
    /\ \E i, j \in 0 .. Len(text) :
         /\ BytesBefore(text, i) = item.start /\ BytesBefore(text, j) = item.end
         /\ item.text = Slice(text, i, j)
    /\ ~item.shortened =>
         /\ item.lines.start_line = LineAt(text, item.start)
         /\ item.lines.end_line = LineAt(text, item.end - 1)
PositionsStayTrue ==
  answer # Nothing =>
    IF answer.request.kind = "search"
      THEN \A n \in DOMAIN answer.matches :
             answer.matches[n].shortened \/ PositionIsTrue(answer.matches[n])
      ELSE PositionIsTrue(answer)

Occurs(q, text, i) ==
  /\ i + Len(q.query) <= Len(text)
  /\ \A n \in DOMAIN q.query :
       LET c == text[i + n]  d == q.query[n]
       IN IF q.case_sensitive THEN c = d ELSE Lower[c] = Lower[d]

\* A search and its continuations find every occurrence once, from left to
\* right and without overlaps, up to the next one or the end of the region,
\* also when the output grows between them.
SearchFindsAll ==
  answer # Nothing /\ answer.request.kind = "search" =>
    LET q == answer.request.query
        matched[i \in 0 .. Len(Region)] ==
          Occurs(q, Region, i) /\ \A j \in 0 .. i - 1 : matched[j] => j + Len(q.query) <= i
        expected == {<<BytesBefore(Region, i), BytesBefore(Region, i + Len(q.query))>> :
                       i \in {j \in 0 .. Len(Region) :
                                matched[j] /\ (answer.next < 0 \/ BytesBefore(Region, j) < answer.next)}}
    IN Range(found) = expected /\ Len(found) = Cardinality(expected)

\* An answer that is neither partial nor truncated is the whole answer.
AnswersAreWhole ==
  answer # Nothing =>
    /\ ~answer.partial => answer.scanned = answer.high_water
    /\ ~answer.shortened /\ answer.request.kind = "tail" =>
         /\ answer.end = Bytes(Region)
         /\ LineCount(answer.text) = Min({answer.request.lines, LineCount(Region)})
    /\ ~answer.shortened /\ answer.request.kind = "range" =>
         \A i \in DOMAIN Region :
           /\ BytesBefore(Region, i - 1) >= answer.request.start
           /\ BytesBefore(Region, i) <= answer.request.end
           => BytesBefore(Region, i - 1) >= answer.start /\ BytesBefore(Region, i) <= answer.end

\* "Match and range positions are stable UTF-8 byte offsets within one execution
\* stream" (docs/investigations.md:99-101): the text at a match is the query, up
\* to case when the search ignores it.
MatchesAreTheQuery ==
  answer # Nothing /\ answer.request.kind = "search" =>
    \A n \in DOMAIN answer.matches : ~answer.matches[n].shortened =>
      LowerText(answer.matches[n].text) = LowerText(answer.request.query.query)
=============================================================================
