--------------------------- MODULE MaintainerCache ---------------------------
(***************************************************************************)
(* MaintainerCacheService for one storage system: prefetchSystem, started  *)
(* by the initial precache and by every 'updated' event, guarded by        *)
(* systemLocks, and the files it keeps for each precachable metric: the    *)
(* data in *.blob chunks, blobmap.json and meta.json.                      *)
(*                                                                         *)
(* Time is counted in samples (minutes), Dates in thirds of a minute.  A   *)
(* row is a sample taken with some variants.  Files are rewritten in       *)
(* place: a file that is being written, or whose writing was cut short, is *)
(* Torn.                                                                   *)
(***************************************************************************)
EXTENDS Integers, Sequences, SequencesExt, FiniteSetsExt

CONSTANTS NKeys,      \* number of precachable metrics, processed in order
          Prefetch,   \* bound: concurrent calls of prefetchSystem
          Initial,    \* the call made by precache
          Variants,   \* what recommendVariants may answer
          MaxTime,    \* bound: last sample
          LastDay,    \* bound: last range start
          MaxBlobs,   \* bound: blobs of one metric
          ChunkSize,  \* rows of one blob
          MaxIncidents,    \* bound: failures, crashes, changes of variants
          CacheConfigured, \* getCachePath() is set
          None,       \* no file, no value
          Torn        \* a file whose contents are incomplete

Key == 1 .. NKeys
Time == 1 .. MaxTime

ASSUME CacheAssumption == /\ NKeys \in Nat \ {0}
                          /\ Initial \in Prefetch
                          /\ MaxTime \in Nat \ {0}
                          /\ LastDay \in Time
                          /\ MaxBlobs \in Nat \ {0}
                          /\ ChunkSize \in Nat \ {0}
                          /\ MaxIncidents \in Nat
                          /\ CacheConfigured \in BOOLEAN
                          /\ None \notin Variants

\* No file and a torn file are told from the files that hold something.
ASSUME MarksAssumption ==
    \A mark \in {None, Torn} :
        /\ mark \notin [from : Time, to : Time, var : Variants]
        /\ mark \notin Seq([t : Int, v : Variants])
        /\ \A n \in 1 .. MaxBlobs : mark \notin [0 .. n - 1 -> [from : Time, to : Time]]

VARIABLES
    alive,      \* the backend process is running
    subscribed, \* the handler of 'updated' is registered
    lock,       \* systemLocks[system]
    call,       \* the calls of prefetchSystem and their local variables
    meta, map, blob, \* the files of each key
    day,        \* environment: prefferedRangeStart now
    avail,      \* environment: last sample of the maintainer, 0 for none
    variants,   \* environment: what recommendVariants answers now
    incidents,  \* incidents so far
    tainted     \* history: keys left broken, or refilled from a broken state

process == <<alive, subscribed, lock, call>>
files == <<meta, map, blob>>
world == <<day, avail, variants>>
vars == <<process, files, world, incidents, tainted>>

\* Phases in which the files of a key are being replaced.
Replacing == {"unlink", "blob", "blobEnd", "map", "mapEnd", "summary", "summaryEnd"}
Critical == {"vmws", "look", "fetch"} \cup Replacing
Phase == {"idle", "status", "rejected"} \cup Critical

BlobId == 0 .. MaxBlobs - 1

-----------------------------------------------------------------------------
(* Rows, chunks and the blob map.                                          *)

Row(t, v) == [t |-> t, v |-> v]
Rows(from, to, v) == [i \in 1 .. (IF to < from THEN 0 ELSE to - from + 1)
                        |-> Row(from + i - 1, v)]

NumChunks(rows) == (Len(rows) + ChunkSize - 1) \div ChunkSize
Chunk(rows, i) == SubSeq(rows, i * ChunkSize + 1, Min({(i + 1) * ChunkSize, Len(rows)}))

\* blobmap.json: the first and the last sample of every chunk.
ChunkMap(rows) == [i \in 0 .. NumChunks(rows) - 1 |->
                     [from |-> Chunk(rows, i)[1].t,
                      to   |-> Last(Chunk(rows, i)).t]]

\* A Date is finer than a minute: it is counted in thirds of one, so that
\* rounding it to a minute goes up, down or neither way.
fromMins(t) == 3 * t
toMins(date) == (date + 1) \div 3

\* The chunks that readFromBlob opens for a range of dates.
Needed(m, from, to) ==
    {i \in DOMAIN m : to >= fromMins(m[i].from) /\ from <= fromMins(m[i].to)}

\* filter: the rows of a range, in their order.
Within(rows, from, to) ==
    LET kept[i \in 0 .. Len(rows)] ==
            IF i = 0 THEN <<>>
            ELSE IF from <= rows[i].t /\ rows[i].t <= to
            THEN Append(kept[i - 1], rows[i])
            ELSE kept[i - 1]
    IN kept[Len(rows)]

\* Mutation: only a chunk that exceeds the range on both sides is filtered.
FromChunkBoth(rows, c, from, to) ==
    IF to < fromMins(c.to) /\ from > fromMins(c.from)
    THEN Within(rows, toMins(from), toMins(to))
    ELSE rows

\* A chunk that the map places inside the range is taken as it is, any other is
\* cut to the rounded range.
FromChunk(rows, c, from, to) ==
    IF to < fromMins(c.to) \/ from > fromMins(c.from)
    THEN Within(rows, toMins(from), toMins(to))
    ELSE rows

CanRead(m, b, from, to) == /\ m \notin {None, Torn}
                           /\ \A i \in Needed(m, from, to) : b[i] \notin {None, Torn}

ReadRows(m, b, from, to) ==
    FlattenSeq([j \in 1 .. MaxBlobs |->
        IF j - 1 \in Needed(m, from, to)
        THEN FromChunk(b[j - 1], m[j - 1], from, to)
        ELSE <<>>])

-----------------------------------------------------------------------------
(* A call: where it stands, the metric it is at, its rangeStart, the last  *)
(* sample it saw (avail), the variants it saw, whether it keeps no cached  *)
(* row, the rows it has gathered and the index of the blob it writes next. *)

NewCall(at, from) == [at |-> at, key |-> 1, start |-> from, until |-> 0,
                      using |-> None, fresh |-> FALSE, data |-> <<>>, next |-> 0]
Idle == NewCall("idle", 1)

Calls(initial, from) ==
    [p \in Prefetch |-> IF initial /\ p = Initial THEN NewCall("status", from) ELSE Idle]

Init == /\ alive = TRUE
        /\ lock = FALSE
        /\ \E initial \in {CacheConfigured, FALSE} :
              /\ call = Calls(initial, 1)
              /\ subscribed = ~initial
        /\ meta = [k \in Key |-> None]
        /\ map = [k \in Key |-> None]
        /\ blob = [k \in Key |-> [i \in BlobId |-> None]]
        /\ day = 1
        /\ avail = 0
        /\ variants \in Variants
        /\ incidents = 0
        /\ tainted = {}

Incident == /\ incidents < MaxIncidents
            /\ incidents' = incidents + 1

At(p, phase) == alive /\ call[p].at = phase

Goto(p, phase) == call' = [call EXCEPT ![p].at = phase]

\* return: the locals are gone; the initial call lets precache go on.
Return(p) == /\ call' = [call EXCEPT ![p] = Idle]
             /\ subscribed' = TRUE

\* Mutation: the lock is not released at the end.
ContinueLocked(p) == IF call[p].key < NKeys
                     THEN /\ call' = [call EXCEPT ![p] = [NewCall("look", call[p].start)
                                                    EXCEPT !.key = call[p].key + 1]]
                          /\ UNCHANGED <<lock, subscribed>>
                     ELSE Return(p) /\ UNCHANGED lock

\* continue: the next metric, or the end of the call, which releases the lock.
Continue(p) == IF call[p].key < NKeys
               THEN /\ call' = [call EXCEPT ![p] = [NewCall("look", call[p].start)
                                                    EXCEPT !.key = call[p].key + 1]]
                    /\ UNCHANGED <<lock, subscribed>>
               ELSE /\ Return(p)
                    /\ lock' = FALSE

Working(k) == \E p \in Prefetch : call[p].at \in Replacing /\ call[p].key = k

\* The process dies; what it was writing stays as it is on the disk.
Die == /\ alive' = FALSE
       /\ lock' = FALSE
       /\ subscribed' = FALSE
       /\ call' = [p \in Prefetch |-> Idle]
       /\ tainted' = tainted \cup {k \in Key : Working(k)}

-----------------------------------------------------------------------------
(* One call of prefetchSystem, from one await to the next.                 *)

\* on('updated') for a system of type hp.
Updated(p) == /\ At(p, "idle")
              /\ subscribed
              /\ call' = [call EXCEPT ![p] = NewCall("status", day)]
              /\ UNCHANGED <<alive, subscribed, lock, files, world, incidents, tainted>>

\* Mutation: the lock is taken without a test.
EnterUntested(p) == /\ At(p, "status")
                    /\ lock' = TRUE
                    /\ Goto(p, "vmws")
                    /\ UNCHANGED <<alive, subscribed, files, world, incidents, tainted>>

\* getStatus answers; the lock is tested and taken without a pause.
Enter(p) == /\ At(p, "status")
            /\ ~lock
            /\ lock' = TRUE
            /\ Goto(p, "vmws")
            /\ UNCHANGED <<alive, subscribed, files, world, incidents, tainted>>

\* Another call holds the lock: this one returns, and its event is dropped.
Locked(p) == /\ At(p, "status")
             /\ lock
             /\ Return(p)
             /\ UNCHANGED <<alive, lock, files, world, incidents, tainted>>

\* The maintainer is unavailable.
Skip(p) == /\ At(p, "status")
           /\ Incident
           /\ Return(p)
           /\ UNCHANGED <<alive, lock, files, world, tainted>>

GotVmws(p) == /\ At(p, "vmws")
              /\ Goto(p, "look")
              /\ UNCHANGED <<alive, subscribed, lock, files, world, incidents, tainted>>

\* getVmws or mkdir throws, outside of try, or there is no cache path to join:
\* the call is rejected with the lock held.  precache swallows the rejection of
\* the initial call; that of a call made by the event handler ends the process.
Rejected(p) == /\ At(p, "vmws") \/ At(p, "look")
               /\ \/ Incident
                  \/ At(p, "look") /\ ~CacheConfigured /\ UNCHANGED incidents
               /\ IF subscribed
                  THEN Die
                  ELSE /\ Goto(p, "rejected")
                       /\ subscribed' = TRUE
                       /\ UNCHANGED <<alive, lock, tainted>>
               /\ UNCHANGED <<files, world>>

\* The metric has no samples, none in scope, or none that is not cached.
NothingNew(p) == LET entry == meta[call[p].key]
                 IN \/ avail = 0
                    \/ call[p].start > avail
                    \/ entry # None /\ entry.to >= avail

\* getRanges answers and the summary is read.
Look(p) == /\ At(p, "look")
           /\ CacheConfigured
           /\ meta[call[p].key] # Torn
           /\ IF NothingNew(p)
              THEN Continue(p)
              ELSE /\ call' = [call EXCEPT ![p].at = "fetch", ![p].until = avail]
                   /\ UNCHANGED <<lock, subscribed>>
           /\ UNCHANGED <<alive, files, world, incidents, tainted>>

\* A torn summary does not parse: the metric is given up for this time.
LookTorn(p) == /\ At(p, "look")
               /\ CacheConfigured
               /\ meta[call[p].key] = Torn
               /\ Continue(p)
               /\ UNCHANGED <<alive, files, world, incidents, tainted>>

\* A request made for the metric fails.
RequestFails(p) == /\ At(p, "look") \/ At(p, "fetch")
                   /\ CacheConfigured
                   /\ Incident
                   /\ Continue(p)
                   /\ UNCHANGED <<alive, files, world, tainted>>

\* The cached rows are kept if they were taken with the same variants.
Reuse(p) == LET entry == meta[call[p].key] IN entry # None /\ entry.var = variants

Readable(p) == LET k == call[p].key
               IN CanRead(map[k], blob[k], fromMins(call[p].start), fromMins(meta[k].to))

\* Mutation: the last cached sample is requested again.
FetchFromLast(p) == IF Reuse(p) THEN Max({call[p].start, meta[call[p].key].to})
                                ELSE call[p].start

\* The first sample to request, and the cached rows before it.
FetchFrom(p) == IF Reuse(p) THEN Max({call[p].start, meta[call[p].key].to + 1})
                            ELSE call[p].start
Cached(p) == LET k == call[p].key
             IN IF Reuse(p)
                THEN ReadRows(map[k], blob[k], fromMins(call[p].start), fromMins(meta[k].to))
                ELSE <<>>

\* recommendVariants, readFromBlob of the cached rows and getData of the rest.
Fetch(p) == /\ At(p, "fetch")
            /\ Reuse(p) => Readable(p)
            /\ call' = [call EXCEPT
                          ![p].using = variants,
                          ![p].fresh = ~Reuse(p),
                          ![p].data = Cached(p) \o Rows(FetchFrom(p), call[p].until,
                                                        variants),
                          ![p].at = "unlink"]
            /\ UNCHANGED <<alive, subscribed, lock, files, world, incidents, tainted>>

\* readFromBlob throws: a file it needs is missing or torn.
FetchUnreadable(p) == /\ At(p, "fetch")
                      /\ Reuse(p)
                      /\ ~Readable(p)
                      /\ Continue(p)
                      /\ UNCHANGED <<alive, files, world, incidents, tainted>>

-----------------------------------------------------------------------------
(* The files of the metric are replaced.                                   *)

WriteBlob(p, i, contents) == blob' = [blob EXCEPT ![call[p].key][i] = contents]
WriteMap(p, contents) == map' = [map EXCEPT ![call[p].key] = contents]
WriteSummary(p, contents) == meta' = [meta EXCEPT ![call[p].key] = contents]

\* The old blobs are unlinked concurrently, in any order.
Unlink(p, i) == /\ At(p, "unlink")
                /\ blob[call[p].key][i] # None
                /\ WriteBlob(p, i, None)
                /\ UNCHANGED <<process, meta, map, world, incidents, tainted>>

AllUnlinked(p) == /\ At(p, "unlink")
                  /\ \A i \in BlobId : blob[call[p].key][i] = None
                  /\ Goto(p, "blob")
                  /\ UNCHANGED <<alive, subscribed, lock, files, world, incidents, tainted>>

\* writeFile truncates the file it opens, then fills it.
OpenBlob(p) == /\ At(p, "blob")
               /\ call[p].next < NumChunks(call[p].data)
               /\ call[p].next \in BlobId
               /\ WriteBlob(p, call[p].next, Torn)
               /\ Goto(p, "blobEnd")
               /\ UNCHANGED <<alive, subscribed, lock, meta, map, world, incidents, tainted>>

FillBlob(p) == /\ At(p, "blobEnd")
               /\ WriteBlob(p, call[p].next, Chunk(call[p].data, call[p].next))
               /\ call' = [call EXCEPT ![p].next = call[p].next + 1, ![p].at = "blob"]
               /\ UNCHANGED <<alive, subscribed, lock, meta, map, world, incidents, tainted>>

OpenMap(p) == /\ At(p, "blob")
              /\ call[p].next = NumChunks(call[p].data)
              /\ WriteMap(p, Torn)
              /\ Goto(p, "mapEnd")
              /\ UNCHANGED <<alive, subscribed, lock, meta, blob, world, incidents, tainted>>

FillMap(p) == /\ At(p, "mapEnd")
              /\ WriteMap(p, ChunkMap(call[p].data))
              /\ Goto(p, "summary")
              /\ UNCHANGED <<alive, subscribed, lock, meta, blob, world, incidents, tainted>>

OpenSummary(p) == /\ At(p, "summary")
                  /\ WriteSummary(p, Torn)
                  /\ Goto(p, "summaryEnd")
                  /\ UNCHANGED <<alive, subscribed, lock, map, blob, world, incidents, tainted>>

FillSummary(p) ==
    /\ At(p, "summaryEnd")
    /\ WriteSummary(p, [from |-> call[p].start, to |-> call[p].until,
                        var |-> call[p].using])
    /\ tainted' = IF call[p].fresh THEN tainted \ {call[p].key} ELSE tainted
    /\ Continue(p)
    /\ UNCHANGED <<alive, map, blob, world, incidents>>

\* A file operation fails half way: the metric is given up as it is.
WriteFails(p) == /\ alive
                 /\ call[p].at \in Replacing
                 /\ Incident
                 /\ tainted' = tainted \cup {call[p].key}
                 /\ Continue(p)
                 /\ UNCHANGED <<alive, files, world>>

-----------------------------------------------------------------------------
(* The environment.                                                        *)

ProcessDies == /\ alive
               /\ Incident
               /\ Die
               /\ UNCHANGED <<files, world>>

Restart == /\ ~alive
           /\ alive' = TRUE
           /\ \E initial \in {CacheConfigured, FALSE} :
                 /\ call' = Calls(initial, day)
                 /\ subscribed' = ~initial
           /\ UNCHANGED <<lock, files, world, incidents, tainted>>

NewSample == /\ avail < MaxTime
             /\ avail' = avail + 1
             /\ UNCHANGED <<process, files, day, variants, incidents, tainted>>

\* prefferedRangeStart moves on at midnight.
NewDay == /\ day < LastDay
          /\ day' = day + 1
          /\ UNCHANGED <<process, files, avail, variants, incidents, tainted>>

NewVariants == /\ \E v \in Variants \ {variants} : variants' = v
               /\ Incident
               /\ UNCHANGED <<process, files, day, avail, tainted>>

WriteStep(p) == \/ \E i \in BlobId : Unlink(p, i)
                \/ AllUnlinked(p)
                \/ OpenBlob(p)
                \/ FillBlob(p)
                \/ OpenMap(p)
                \/ FillMap(p)
                \/ OpenSummary(p)
                \/ FillSummary(p)
                \/ WriteFails(p)

CallStep(p) == \/ Enter(p)
               \/ Locked(p)
               \/ Skip(p)
               \/ GotVmws(p)
               \/ Rejected(p)
               \/ Look(p)
               \/ LookTorn(p)
               \/ RequestFails(p)
               \/ Fetch(p)
               \/ FetchUnreadable(p)
               \/ WriteStep(p)

Next == \/ \E p \in Prefetch : Updated(p) \/ CallStep(p)
        \/ ProcessDies
        \/ Restart
        \/ NewSample
        \/ NewDay
        \/ NewVariants

Spec == Init /\ [][Next]_vars

\* Every await ends, the service manager restarts the process, and the
\* maintainer goes on announcing updates.
Fairness == /\ \A p \in Prefetch : WF_vars(CallStep(p))
            /\ WF_vars(\E p \in Prefetch : Updated(p))
            /\ WF_vars(Restart)

FairSpec == Spec /\ Fairness

-----------------------------------------------------------------------------
(* Properties.                                                             *)

FileOr(S) == S \cup {None, Torn}

CallRecord == [at : Phase, key : Key, start : Time, until : 0 .. MaxTime,
               using : Variants \cup {None}, fresh : BOOLEAN,
               data : Seq([t : Time, v : Variants]), next : Nat]

TypeOK == /\ {alive, subscribed, lock} \subseteq BOOLEAN
          /\ call \in [Prefetch -> CallRecord]
          /\ meta \in [Key -> FileOr([from : Time, to : Time, var : Variants])]
          /\ day \in Time
          /\ avail \in 0 .. MaxTime
          /\ variants \in Variants
          /\ incidents \in 0 .. MaxIncidents
          /\ tainted \in SUBSET Key

\* Calls that have passed the test of the lock and have not released it.
Owns(p) == call[p].at \in Critical \cup {"rejected"}

\* The lock is held by exactly one call: the one past the test, or the initial
\* call that was rejected with it.  So no two calls ever replace files at once,
\* and the lock is free when no call is past the test.
LockHasOneOwner == /\ \A p, q \in Prefetch : Owns(p) /\ Owns(q) => p = q
                   /\ lock <=> \E p \in Prefetch : Owns(p)

Contents(k) == ReadRows(map[k], blob[k], fromMins(1), fromMins(MaxTime))

\* A key that no call is replacing, and that no failure left broken, holds the
\* rows its summary tells of: taken with the variants of the summary, each once
\* and in order, without a hole up to its end, from a start not after the
\* current range start; and the blob map tells the truth about every blob.
FilesAgree ==
    \A k \in Key :
        ~Working(k) /\ k \notin tainted /\ meta[k] # None
        => /\ CanRead(map[k], blob[k], fromMins(1), fromMins(MaxTime))
           /\ \E lo \in meta[k].from .. day :
                 Contents(k) = Rows(lo, meta[k].to, meta[k].var)
           /\ map[k] = ChunkMap(Contents(k))

\* While 'updated' events keep coming, every metric is cached up to the last
\* available sample in the end, unless a failure broke the files of a summary
\* already written, or the rejected initial call kept the lock.
CatchesUp ==
    \A k \in Key : <>[](\/ call[Initial].at = "rejected"
                        \/ k \in tainted /\ meta[k] # None
                        \/ day > avail
                        \/ meta[k] \notin {None, Torn} /\ meta[k].to = avail)
=============================================================================
