------------------------ MODULE MaintainerCacheReads ------------------------
(***************************************************************************)
(* A request that MaintainerCacheService.getData serves while              *)
(* prefetchSystem rewrites the same files.  The reader takes no lock: the  *)
(* summary, the blob map and every blob are read at different times.       *)
(***************************************************************************)
EXTENDS MaintainerCache

CONSTANT Dates  \* bound: the dates that a request may ask for

\* The dates before the first sample are left out: they are before every summary.
ASSUME DatesAssumption == /\ Dates \subseteq Int
                          /\ \A date \in Dates : fromMins(1) <= date

VARIABLE reader \* one request: its range, what it has read, its outcome

varsReads == <<vars, reader>>

NoRequest == [at |-> "idle"]
Pending == reader.at \in {"summary", "map", "chunks"}

\* quiet and sound are history: whether no file of the key changed since the
\* request came, and whether the key was never broken since.
Request(k, from, to) ==
    /\ alive /\ CacheConfigured
    /\ ~Pending
    /\ reader' = [at    |-> IF meta[k] = None THEN "miss" ELSE "summary",
                  key   |-> k, from |-> from, to |-> to,
                  entry |-> None, map |-> None, chunk |-> 0, rows |-> <<>>,
                  quiet |-> ~Working(k), sound |-> k \notin tainted]
    /\ UNCHANGED vars

Reading(phase) == alive /\ reader.at = phase

\* A hit depends on the start of the range only.
GetSummary ==
    /\ Reading("summary")
    /\ LET entry == meta[reader.key]
       IN reader' = IF entry = Torn
                    THEN [reader EXCEPT !.at = "error"]
                    ELSE IF fromMins(entry.from) <= reader.from
                    THEN [reader EXCEPT !.at = "map", !.entry = entry]
                    ELSE [reader EXCEPT !.at = "miss"]
    /\ UNCHANGED vars

GetMap == /\ Reading("map")
          /\ reader' = IF map[reader.key] \in {None, Torn}
                       THEN [reader EXCEPT !.at = "error"]
                       ELSE [reader EXCEPT !.at = "chunks", !.map = map[reader.key]]
          /\ UNCHANGED vars

\* The chunks of the map read before that are still to be opened.
Remaining == {i \in Needed(reader.map, reader.from, reader.to) : i >= reader.chunk}

\* Mutation: a blob that cannot be read is passed over.
GetChunkLenient ==
    /\ Reading("chunks")
    /\ Remaining # {}
    /\ LET i == Min(Remaining)
           rows == blob[reader.key][i]
       IN reader' = IF rows \in {None, Torn}
                    THEN [reader EXCEPT !.chunk = i + 1]
                    ELSE [reader EXCEPT
                            !.chunk = i + 1,
                            !.rows = @ \o FromChunk(rows, reader.map[i],
                                                    reader.from, reader.to)]
    /\ UNCHANGED vars

GetChunk == /\ Reading("chunks")
            /\ Remaining # {}
            /\ LET i == Min(Remaining)
                   rows == blob[reader.key][i]
               IN reader' = IF rows \in {None, Torn}
                            THEN [reader EXCEPT !.at = "error"]
                            ELSE [reader EXCEPT
                                    !.chunk = i + 1,
                                    !.rows = @ \o FromChunk(rows, reader.map[i],
                                                            reader.from, reader.to)]
            /\ UNCHANGED vars

Respond == /\ Reading("chunks")
           /\ Remaining = {}
           /\ reader' = [reader EXCEPT !.at = "hit"]
           /\ UNCHANGED vars

ReaderStep == \/ \E k \in Key, from, to \in Dates : from <= to /\ Request(k, from, to)
              \/ GetSummary
              \/ GetMap
              \/ GetChunk
              \/ Respond

SameFiles(k) == /\ meta'[k] = meta[k]
                /\ map'[k] = map[k]
                /\ blob'[k] = blob[k]

\* A step of the writer, seen by the request in progress; one that is answered is
\* over.
WriterStep == /\ Next
              /\ reader' = IF ~alive' \/ ~Pending THEN NoRequest
                           ELSE [reader EXCEPT
                                   !.quiet = @ /\ SameFiles(reader.key),
                                   !.sound = @ /\ reader.key \notin tainted']

InitReads == Init /\ reader = NoRequest

NextReads == ReaderStep \/ WriterStep

SpecReads == InitReads /\ [][NextReads]_varsReads

-----------------------------------------------------------------------------
(* Properties.                                                             *)

Finished(outcome) == reader.at = outcome /\ reader.sound

\* The first and the last sample that a range may return: the first not before it
\* and the last not after it, or the ones its ends are rounded to.  A chunk that
\* has only the latter is not opened.
FirstOf(range) == {toMins(range.from), (range.from + 2) \div 3}
LastOf(range) == {toMins(range.to), range.to \div 3}

\* A request during which the files did not change, from a start not before the
\* current range start, is answered without an error, and a hit returns the rows
\* of the range up to the end of the summary: each once, in order, none outside.
QuietReadsAreExact ==
    /\ Finished("error") => ~reader.quiet
    /\ Finished("hit") /\ reader.quiet /\ reader.from >= fromMins(day)
       => \E first \in FirstOf(reader), last \in LastOf(reader) :
             reader.rows = Rows(first, Min({last, reader.entry.to}), reader.entry.var)

\* While the range start does not change, a request that races with prefetchSystem
\* fails, or returns rows of other variants than its summary, or rows without a
\* hole from the start of the range to at least the end that the summary promised:
\* an old map over new blobs loses no row and repeats none.
RacingReadsHaveNoHoles ==
    /\ Finished("hit")
    /\ day = 1
    /\ \A i \in DOMAIN reader.rows : reader.rows[i].v = reader.entry.var
    => \E first \in FirstOf(reader),
          last \in Min({reader.to \div 3, reader.entry.to}) .. MaxTime :
          reader.rows = Rows(first, last, reader.entry.var)
=============================================================================
