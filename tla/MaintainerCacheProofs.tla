------------------------ MODULE MaintainerCacheProofs ------------------------
(***************************************************************************)
(* Proofs about the cache of a storage system, for any number of calls,    *)
(* metrics, samples, variants and failures, and any size of a blob: that   *)
(* systemLocks excludes concurrent prefetches, that the files of a metric  *)
(* which nobody replaces and no failure broke hold the rows that their     *)
(* summary tells of, and what a request that reads them without the lock   *)
(* may be answered, while they stay as they are and while they are         *)
(* replaced.                                                               *)
(***************************************************************************)
EXTENDS MaintainerCacheReads, SequenceTheorems, NaturalsInduction, WellFoundedInduction, TLAPS

-----------------------------------------------------------------------------
(* The lock.                                                               *)

\* What the argument needs of the types: each call stands in some phase.
CallsStand == /\ DOMAIN call = Prefetch
              /\ \A p \in Prefetch : /\ "at" \in DOMAIN call[p]
                                     /\ call[p].at \in Phase

\* A dead process holds nothing, so that a restarted one begins with the lock free.
DeadHoldsNothing == ~alive => ~lock

IInv == CallsStand /\ LockHasOneOwner /\ DeadHoldsNothing

(* Every step of prefetchSystem moves one call to another phase.           *)

Moves(p, phase) == /\ DOMAIN call' = Prefetch
                   /\ \A q \in Prefetch : q # p => call'[q] = call[q]
                   /\ "at" \in DOMAIN call'[p]
                   /\ call'[p].at = phase

\* Goto moves the call and leaves the others alone.
LEMMA GotoMoves == ASSUME CallsStand, NEW p \in Prefetch, NEW phase, Goto(p, phase)
                   PROVE  Moves(p, phase)
  BY DEF CallsStand, Goto, Moves

\* Return moves the call to idle.
LEMMA ReturnMoves == ASSUME CallsStand, NEW p \in Prefetch, Return(p)
                     PROVE  Moves(p, "idle")
  BY DEF CallsStand, Return, Idle, NewCall, Moves

\* Continue keeps the call past the lock, or ends it and frees the lock.
LEMMA ContinueMoves == ASSUME CallsStand, NEW p \in Prefetch, Continue(p)
                       PROVE  \/ Moves(p, "look") /\ UNCHANGED lock
                              \/ Moves(p, "idle") /\ ~lock'
<1>1. CASE call[p].key < NKeys
  BY <1>1 DEF CallsStand, Continue, NewCall, Moves
<1>2. CASE ~(call[p].key < NKeys)
  BY <1>2, ReturnMoves DEF Continue
<1> QED
  BY <1>1, <1>2

\* A call that is past the test of the lock and stays past it.
LEMMA OwnerStays == ASSUME IInv, NEW p \in Prefetch, NEW phase \in Critical \cup {"rejected"},
                           Owns(p), Moves(p, phase), UNCHANGED <<alive, lock>>
                    PROVE  IInv'
<1>1. CallsStand'
  BY DEF IInv, CallsStand, Moves, Phase
<1>2. \A q \in Prefetch : Owns(q)' <=> Owns(q)
  BY DEF Moves, Owns
<1> QED
  BY <1>1, <1>2 DEF IInv, LockHasOneOwner, DeadHoldsNothing

\* The owner of the lock ends and frees it.
LEMMA OwnerLeaves == ASSUME IInv, NEW p \in Prefetch, Owns(p), Moves(p, "idle"), ~lock'
                     PROVE  IInv'
<1>1. CallsStand'
  BY DEF IInv, CallsStand, Moves, Phase
<1>2. \A q \in Prefetch : ~Owns(q)'
  BY DEF IInv, LockHasOneOwner, Moves, Owns, Critical, Replacing
<1> QED
  BY <1>1, <1>2 DEF IInv, LockHasOneOwner, DeadHoldsNothing

\* A call that has not passed the test of the lock moves, without passing it.
LEMMA OutsiderMoves == ASSUME IInv, NEW p \in Prefetch, NEW phase \in {"idle", "status"},
                              ~Owns(p), Moves(p, phase), UNCHANGED <<alive, lock>>
                       PROVE  IInv'
<1>1. CallsStand'
  BY DEF IInv, CallsStand, Moves, Phase
<1>2. \A q \in Prefetch : Owns(q)' <=> Owns(q)
  BY DEF Moves, Owns, Critical, Replacing
<1> QED
  BY <1>1, <1>2 DEF IInv, LockHasOneOwner, DeadHoldsNothing

\* The death of the process ends every call and frees the lock.
LEMMA DeathClears == ASSUME Die PROVE IInv'
  BY DEF Die, IInv, CallsStand, LockHasOneOwner, DeadHoldsNothing, Idle, NewCall,
         Owns, Phase, Critical, Replacing

\* The owner moves on, through continue or past it.
LEMMA OwnerContinues == ASSUME IInv, NEW p \in Prefetch, Owns(p), Continue(p),
                               UNCHANGED alive
                        PROVE  IInv'
<1>1. CASE Moves(p, "look") /\ UNCHANGED lock
  BY <1>1, OwnerStays DEF Critical
<1>2. CASE Moves(p, "idle") /\ ~lock'
  BY <1>2, OwnerLeaves
<1> QED
  BY <1>1, <1>2, ContinueMoves DEF IInv

\* The steps that replace the files of a metric leave the lock with its owner.
LEMMA WriteStepKeeps == ASSUME IInv, NEW p \in Prefetch, WriteStep(p)
                        PROVE  IInv'
<1>1. Owns(p)
  BY DEF WriteStep, Unlink, AllUnlinked, OpenBlob, FillBlob, OpenMap, FillMap,
         OpenSummary, FillSummary, WriteFails, At, Owns, Critical, Replacing
<1>2. ASSUME NEW i \in BlobId, Unlink(p, i)
      PROVE  IInv'
  BY <1>2 DEF Unlink, process, IInv, CallsStand, LockHasOneOwner, DeadHoldsNothing, Owns
<1>3. CASE AllUnlinked(p) \/ OpenBlob(p) \/ OpenMap(p) \/ FillMap(p) \/ OpenSummary(p)
  <2>1. PICK phase \in Replacing : Goto(p, phase) /\ UNCHANGED <<alive, lock>>
    BY <1>3 DEF AllUnlinked, OpenBlob, OpenMap, FillMap, OpenSummary, Replacing
  <2> QED
    BY <1>1, <2>1, GotoMoves, OwnerStays DEF IInv, Critical
<1>4. CASE FillBlob(p)
  <2>1. Moves(p, "blob") /\ UNCHANGED <<alive, lock>>
    BY <1>4 DEF FillBlob, IInv, CallsStand, Moves
  <2> QED
    BY <1>1, <2>1, OwnerStays DEF Critical, Replacing
<1>5. CASE FillSummary(p) \/ WriteFails(p)
  BY <1>1, <1>5, OwnerContinues DEF FillSummary, WriteFails
<1> QED
  BY <1>2, <1>3, <1>4, <1>5 DEF WriteStep

\* The lock is free when the process starts.
LEMMA LockBegins == Init => IInv
<1> SUFFICES ASSUME Init PROVE IInv
  OBVIOUS
<1>1. PICK initial \in BOOLEAN : call = Calls(initial, 1)
  BY CacheAssumption DEF Init
<1>2. \A p \in Prefetch : call[p].at \in {"idle", "status"}
  BY <1>1 DEF Calls, Idle, NewCall
<1>3. CallsStand
  BY <1>1, <1>2 DEF CallsStand, Calls, Idle, NewCall, Phase
<1> QED
  BY <1>2, <1>3 DEF Init, IInv, LockHasOneOwner, DeadHoldsNothing, Owns, Critical,
                    Replacing

\* Every step leaves the lock with its owner.
LEMMA LockKept == IInv /\ [Next]_vars => IInv'
<1> SUFFICES ASSUME IInv, [Next]_vars PROVE IInv'
  OBVIOUS
<1>1. CASE UNCHANGED process
  BY <1>1 DEF process, IInv, CallsStand, LockHasOneOwner, DeadHoldsNothing, Owns
<1>2. ASSUME NEW p \in Prefetch, Updated(p)
      PROVE  IInv'
  <2>1. Moves(p, "status") /\ UNCHANGED <<alive, lock>>
    BY <1>2 DEF Updated, NewCall, IInv, CallsStand, Moves
  <2>2. ~Owns(p)
    BY <1>2 DEF Updated, At, Owns, Critical, Replacing
  <2> QED
    BY <2>1, <2>2, OutsiderMoves
<1>3. ASSUME NEW p \in Prefetch, CallStep(p)
      PROVE  IInv'
  <2>1. CASE Enter(p)
    <3>1. Moves(p, "vmws")
      BY <2>1, GotoMoves DEF Enter, IInv
    <3>2. CallsStand'
      BY <3>1 DEF IInv, CallsStand, Moves, Phase, Critical
    <3>3. \A q \in Prefetch : Owns(q)' <=> q = p
      BY <2>1, <3>1 DEF Enter, IInv, LockHasOneOwner, Moves, Owns, Critical
    <3> QED
      BY <2>1, <3>2, <3>3 DEF Enter, At, IInv, LockHasOneOwner, DeadHoldsNothing
  <2>2. CASE Locked(p) \/ Skip(p)
    <3>1. ~Owns(p)
      BY <2>2 DEF Locked, Skip, At, Owns, Critical, Replacing
    <3> QED
      BY <2>2, <3>1, ReturnMoves, OutsiderMoves DEF Locked, Skip, IInv
  <2>3. CASE GotVmws(p)
    <3>1. Owns(p)
      BY <2>3 DEF GotVmws, At, Owns, Critical
    <3> QED
      BY <2>3, <3>1, GotoMoves, OwnerStays DEF GotVmws, IInv, Critical
  <2>4. CASE Rejected(p)
    <3>1. Owns(p)
      BY <2>4 DEF Rejected, At, Owns, Critical
    <3>2. CASE subscribed
      BY <2>4, <3>2, DeathClears DEF Rejected
    <3>3. CASE ~subscribed
      BY <2>4, <3>1, <3>3, GotoMoves, OwnerStays DEF Rejected, IInv
    <3> QED
      BY <3>2, <3>3
  <2>5. CASE Look(p)
    <3>1. Owns(p)
      BY <2>5 DEF Look, At, Owns, Critical
    <3>2. CASE NothingNew(p)
      BY <2>5, <3>1, <3>2, OwnerContinues DEF Look
    <3>3. CASE ~NothingNew(p)
      <4>1. Moves(p, "fetch") /\ UNCHANGED <<alive, lock>>
        BY <2>5, <3>3 DEF Look, IInv, CallsStand, Moves
      <4> QED
        BY <3>1, <4>1, OwnerStays DEF Critical
    <3> QED
      BY <3>2, <3>3
  <2>6. CASE LookTorn(p) \/ RequestFails(p) \/ FetchUnreadable(p)
    <3>1. Owns(p)
      BY <2>6 DEF LookTorn, RequestFails, FetchUnreadable, At, Owns, Critical
    <3> QED
      BY <2>6, <3>1, OwnerContinues DEF LookTorn, RequestFails, FetchUnreadable
  <2>7. CASE Fetch(p)
    <3>1. Owns(p)
      BY <2>7 DEF Fetch, At, Owns, Critical
    <3>2. Moves(p, "unlink") /\ UNCHANGED <<alive, lock>>
      BY <2>7 DEF Fetch, IInv, CallsStand, Moves
    <3> QED
      BY <3>1, <3>2, OwnerStays DEF Critical, Replacing
  <2> QED
    BY <1>3, <2>1, <2>2, <2>3, <2>4, <2>5, <2>6, <2>7, WriteStepKeeps DEF CallStep
<1>4. CASE ProcessDies
  BY <1>4, DeathClears DEF ProcessDies
<1>5. CASE Restart
  <2>1. PICK initial \in BOOLEAN : call' = Calls(initial, day)
    BY <1>5, CacheAssumption DEF Restart
  <2>2. \A p \in Prefetch : call'[p].at \in {"idle", "status"}
    BY <2>1 DEF Calls, Idle, NewCall
  <2>3. CallsStand'
    BY <2>1, <2>2 DEF CallsStand, Calls, Idle, NewCall, Phase
  <2> QED
    BY <1>5, <2>2, <2>3 DEF Restart, IInv, LockHasOneOwner, DeadHoldsNothing, Owns,
                            Critical, Replacing
<1> QED
  BY <1>1, <1>2, <1>3, <1>4, <1>5 DEF Next, NewSample, NewDay, NewVariants, vars

\* At every moment the lock is held by exactly the call of prefetchSystem that
\* is past the test, so no two calls replace the files of a metric at once.
THEOREM LockExcludes == Spec => []LockHasOneOwner
<1>1. IInv => LockHasOneOwner
  BY DEF IInv
<1> QED
  BY <1>1, LockBegins, LockKept, PTL DEF Spec

-----------------------------------------------------------------------------
(* Rows.                                                                   *)

\* s holds the n rows that begin with sample a.
Run(s, a, n, v) == /\ s \in Seq({Row(x, v) : x \in Int})
                   /\ Len(s) = n
                   /\ \A i \in 1 .. n : s[i] = Row(a + i - 1, v)

\* The number of samples from a to b.
Span(a, b) == IF b < a THEN 0 ELSE b - a + 1

\* Rows are such a run.
LEMMA RunOfRows ==
  ASSUME NEW a \in Int, NEW b \in Int, NEW v
  PROVE  Run(Rows(a, b, v), a, Span(a, b), v) /\ Span(a, b) \in Nat
<1>0. Span(a, b) \in Nat
  BY DEF Span
<1>1. PICK n \in Nat : n = Span(a, b)
  BY <1>0
<1>2. Rows(a, b, v) = [i \in 1 .. n |-> Row(a + i - 1, v)]
  BY <1>1 DEF Rows, Span
<1>3. \A i \in 1 .. n : Row(a + i - 1, v) \in {Row(x, v) : x \in Int}
  OBVIOUS
<1> QED
  BY <1>1, <1>2, <1>3 DEF Run

\* There is one run of each start and length.
LEMMA RunUnique ==
  ASSUME NEW s, NEW u, NEW a \in Int, NEW n \in Nat, NEW v, Run(s, a, n, v), Run(u, a, n, v)
  PROVE  s = u
<1> DEFINE S == {Row(x, v) : x \in Int}
<1>1. s \in Seq(S) /\ u \in Seq(S) /\ Len(s) = n /\ Len(u) = n /\ \A i \in 1 .. n : s[i] = u[i]
  BY DEF Run
<1> HIDE DEF S
<1> QED
  BY <1>1, SeqEqual

\* A run is the rows of its samples.
LEMMA RunIsRows ==
  ASSUME NEW s, NEW a \in Int, NEW b \in Int, NEW v, Run(s, a, Span(a, b), v)
  PROVE  s = Rows(a, b, v)
<1>1. PICK n : n = Span(a, b)
  OBVIOUS
<1>2. Run(Rows(a, b, v), a, n, v) /\ n \in Nat
  BY <1>1, RunOfRows
<1>3. Run(s, a, n, v)
  BY <1>1
<1> HIDE DEF Rows, Run
<1> QED
  BY <1>2, <1>3, RunUnique

\* Two runs that meet are one.
LEMMA RunConcat ==
  ASSUME NEW s, NEW u, NEW a \in Int, NEW m \in Nat, NEW n \in Nat, NEW v,
         Run(s, a, m, v), Run(u, a + m, n, v)
  PROVE  Run(s \o u, a, m + n, v)
<1> DEFINE S == {Row(x, v) : x \in Int}
<1>1. s \in Seq(S) /\ Len(s) = m /\ \A i \in 1 .. m : s[i] = Row(a + i - 1, v)
  BY DEF Run
<1>2. u \in Seq(S) /\ Len(u) = n /\ \A i \in 1 .. n : u[i] = Row((a + m) + i - 1, v)
  BY DEF Run
<1> HIDE DEF S
<1>3. /\ s \o u \in Seq(S) /\ Len(s \o u) = m + n
      /\ \A i \in 1 .. (m + n) : (s \o u)[i] = IF i <= m THEN s[i] ELSE u[i - m]
  BY <1>1, <1>2, ConcatProperties
<1>4. ASSUME NEW i \in 1 .. (m + n)
      PROVE  (s \o u)[i] = Row(a + i - 1, v)
  <2>1. CASE i <= m
    <3>1. i \in 1 .. m
      BY <2>1
    <3>2. (s \o u)[i] = s[i]
      BY <1>3, <2>1
    <3> QED
      BY <1>1, <3>1, <3>2
  <2>2. CASE ~(i <= m)
    <3>1. i - m \in 1 .. n /\ (a + m) + (i - m) - 1 = a + i - 1
      BY <2>2
    <3>2. (s \o u)[i] = u[i - m]
      BY <1>3, <2>2
    <3>3. u[i - m] = Row((a + m) + (i - m) - 1, v)
      BY <1>2, <3>1
    <3> QED
      BY <3>1, <3>2, <3>3
  <2> QED
    BY <2>1, <2>2
<1> QED
  BY <1>3, <1>4 DEF Run, S

\* A run with the next row is a run.
LEMMA RunAppend ==
  ASSUME NEW s, NEW a \in Int, NEW n \in Nat, NEW v, Run(s, a, n, v)
  PROVE  Run(Append(s, Row(a + n, v)), a, n + 1, v)
<1> DEFINE S == {Row(x, v) : x \in Int}
<1>1. s \in Seq(S) /\ Len(s) = n /\ \A i \in 1 .. n : s[i] = Row(a + i - 1, v)
  BY DEF Run
<1>2. PICK x \in S : x = Row(a + n, v)
  OBVIOUS
<1> HIDE DEF S
<1>3. /\ Append(s, x) \in Seq(S) /\ Len(Append(s, x)) = n + 1
      /\ \A i \in 1 .. n : Append(s, x)[i] = s[i]
      /\ Append(s, x)[n + 1] = x
  BY <1>1, <1>2, AppendProperties
<1>4. ASSUME NEW i \in 1 .. (n + 1)
      PROVE  Append(s, x)[i] = Row(a + i - 1, v)
  <2>1. CASE i \in 1 .. n
    BY <1>1, <1>3, <2>1
  <2>2. CASE i = n + 1
    <3>1. Append(s, x)[i] = x
      BY <1>3, <2>2
    <3>2. a + i - 1 = a + n
      BY <2>2
    <3> QED
      BY <1>2, <3>1, <3>2
  <2>3. i \in 1 .. n \/ i = n + 1
    OBVIOUS
  <2> QED
    BY <2>1, <2>2, <2>3
<1> QED
  BY <1>2, <1>3, <1>4 DEF Run, S

\* A part of a run is a run.
LEMMA RunCut ==
  ASSUME NEW s, NEW a \in Int, NEW k \in Nat, NEW v, Run(s, a, k, v),
         NEW m \in Int, NEW n \in Int, 1 <= m, m <= n, n <= k
  PROVE  Run(SubSeq(s, m, n), a + m - 1, n - m + 1, v)
<1> DEFINE S == {Row(x, v) : x \in Int}
<1>1. s \in Seq(S) /\ Len(s) = k /\ \A i \in 1 .. k : s[i] = Row(a + i - 1, v)
  BY DEF Run
<1> HIDE DEF S
<1>2. /\ SubSeq(s, m, n) \in Seq(S) /\ Len(SubSeq(s, m, n)) = n - m + 1
      /\ \A i \in 1 .. n - m + 1 : SubSeq(s, m, n)[i] = s[m + i - 1]
  <2>1. \A i \in m .. n : i \in 1 .. k /\ s[i] \in S
    BY <1>1, ElementOfSeq
  <2>2. Len(SubSeq(s, m, n)) = IF m <= n THEN n - m + 1 ELSE 0
    BY <2>1, <1>1, SubSeqProperties
  <2> QED
    BY <1>1, <2>1, <2>2, SubSeqProperties
<1>3. ASSUME NEW i \in 1 .. n - m + 1
      PROVE  SubSeq(s, m, n)[i] = Row((a + m - 1) + i - 1, v)
  <2>1. m + i - 1 \in 1 .. k /\ a + (m + i - 1) - 1 = (a + m - 1) + i - 1
    OBVIOUS
  <2>2. s[m + i - 1] = Row(a + (m + i - 1) - 1, v)
    BY <1>1, <2>1
  <2> QED
    BY <1>2, <2>1, <2>2
<1> QED
  BY <1>2, <1>3 DEF Run, S

\* No rows are a run.
LEMMA RunNone ==
  ASSUME NEW a \in Int, NEW v
  PROVE  Run(<<>>, a, 0, v)
<1> QED
  BY DEF Run

\* The smaller and the larger of two.
Sooner(a, b) == IF a <= b THEN a ELSE b
Later(a, b) == IF a <= b THEN b ELSE a

\* The rows up to a sample and those after it.
LEMMA RowsGlued ==
  ASSUME NEW a \in Int, NEW b \in Int, NEW c \in Int, NEW v, a <= b + 1, b <= c
  PROVE  Rows(a, b, v) \o Rows(b + 1, c, v) = Rows(a, c, v)
<1>1. PICK m \in Nat : m = Span(a, b)
  BY RunOfRows
<1>2. PICK n \in Nat : n = Span(b + 1, c)
  BY RunOfRows
<1>3. Run(Rows(a, b, v), a, m, v)
  BY <1>1, RunOfRows
<1>4. Run(Rows(b + 1, c, v), b + 1, n, v)
  <2>1. b + 1 \in Int
    OBVIOUS
  <2> QED
    BY <1>2, <2>1, RunOfRows
<1>5. a + m = b + 1 /\ m + n = Span(a, c)
  BY <1>1, <1>2 DEF Span
<1>6. Run(Rows(b + 1, c, v), a + m, n, v)
  BY <1>4, <1>5
<1> HIDE DEF Rows, Run, Span
<1>7. Run(Rows(a, b, v) \o Rows(b + 1, c, v), a, m + n, v)
  BY <1>3, <1>6, RunConcat
<1> QED
  BY <1>5, <1>7, RunIsRows

\* Rows that end before they begin.
LEMMA RowsNone ==
  ASSUME NEW a \in Int, NEW b \in Int, NEW v, b < a
  PROVE  Rows(a, b, v) = <<>>
<1>1. Span(a, b) = 0
  BY DEF Span
<1>2. Run(<<>>, a, Span(a, b), v)
  BY <1>1, RunNone
<1> QED
  BY <1>2, RunIsRows

\* What is read of some rows and what is read of the rows after them.
LEMMA RowsPieces ==
  ASSUME NEW lo \in Int, NEW e \in Int, NEW f \in Int, NEW from \in Int, NEW to \in Int,
         NEW v, lo <= e + 1, e <= f
  PROVE  Rows(Later(lo, from), Sooner(e, to), v) \o Rows(Later(e + 1, from), Sooner(f, to), v)
         = Rows(Later(lo, from), Sooner(f, to), v)
<1>1. CASE from <= e + 1 /\ e <= to
  <2>1. /\ Sooner(e, to) = e /\ Later(e + 1, from) = e + 1
        /\ Later(lo, from) \in Int /\ Later(lo, from) <= e + 1
        /\ Sooner(f, to) \in Int /\ e <= Sooner(f, to)
    BY <1>1 DEF Sooner, Later
  <2>2. PICK x \in Int, y \in Int : x = Later(lo, from) /\ y = Sooner(f, to)
    BY <2>1
  <2>3. Rows(x, e, v) \o Rows(e + 1, y, v) = Rows(x, y, v)
    BY <2>1, <2>2, RowsGlued
  <2> QED
    BY <2>1, <2>2, <2>3
<1>2. CASE e + 1 < from
  <2>1. /\ Later(lo, from) = from /\ Later(e + 1, from) = from
        /\ Sooner(e, to) \in Int /\ Sooner(f, to) \in Int /\ Sooner(e, to) < from
    BY <1>2 DEF Sooner, Later
  <2>2. Rows(from, Sooner(e, to), v) = <<>>
    BY <2>1, RowsNone
  <2>3. Run(Rows(from, Sooner(f, to), v), from, Span(from, Sooner(f, to)), v)
    BY <2>1, RunOfRows
  <2>4. <<>> \o Rows(from, Sooner(f, to), v) = Rows(from, Sooner(f, to), v)
    BY <2>3, ConcatEmptySeq DEF Run
  <2> QED
    BY <2>1, <2>2, <2>4
<1>3. CASE to < e
  <2>1. /\ Sooner(e, to) = to /\ Sooner(f, to) = to
        /\ Later(lo, from) \in Int /\ Later(e + 1, from) \in Int /\ to < Later(e + 1, from)
    BY <1>3 DEF Sooner, Later
  <2>2. Rows(Later(e + 1, from), to, v) = <<>>
    BY <2>1, RowsNone
  <2>3. Run(Rows(Later(lo, from), to, v), Later(lo, from), Span(Later(lo, from), to), v)
    BY <2>1, RunOfRows
  <2>4. Rows(Later(lo, from), to, v) \o <<>> = Rows(Later(lo, from), to, v)
    BY <2>3, ConcatEmptySeq DEF Run
  <2> QED
    BY <2>1, <2>2, <2>4
<1> QED
  BY <1>1, <1>2, <1>3
\* A set of numbers has a least one.
LEMMA LeastNat ==
  ASSUME NEW T \in SUBSET Nat, T # {}
  PROVE  \E x \in T : \A y \in T : x <= y
<1> DEFINE R == OpToRel(<, Nat)
<1>1. IsWellFoundedOn(R, Nat)
  BY NatLessThanWellFounded
<1>2. \A a, b \in Nat : <<a, b>> \in R <=> a < b
  BY DEF OpToRel
<1> HIDE DEF R
<1>3. \E x \in T : \A y \in T : ~(<<y, x>> \in R)
  BY <1>1, WFMin, Zenon
<1>4. PICK x \in T : \A y \in T : ~(<<y, x>> \in R)
  BY <1>3
<1>5. \A y \in T : ~(y < x)
  BY <1>2, <1>4
<1>6. \A y \in T : x <= y
  BY <1>5
<1> QED
  BY <1>6

\* Two functions that begin alike and go on alike are alike.
LEMMA SameAlong ==
  ASSUME NEW f, NEW g, NEW m \in Nat, NEW n \in Nat, f[m] = g[m],
         \A i \in m + 1 .. n : f[i - 1] = g[i - 1] => f[i] = g[i]
  PROVE  \A i \in m .. n : f[i] = g[i]
<1> DEFINE T == {i \in m .. n : f[i] # g[i]}
<1> SUFFICES ASSUME T # {} PROVE FALSE
  OBVIOUS
<1>1. PICK i \in T : \A y \in T : i <= y
  <2>1. T \in SUBSET Nat
    OBVIOUS
  <2> HIDE DEF T
  <2> QED
    BY <2>1, LeastNat
<1>2. i \in m + 1 .. n /\ i - 1 \in m .. n /\ ~(i <= i - 1)
  <2>1. i \in m .. n /\ i # m
    OBVIOUS
  <2> QED
    BY <2>1
<1>3. i - 1 \notin T
  BY <1>1, <1>2
<1>4. f[i - 1] = g[i - 1]
  BY <1>2, <1>3
<1> QED
  BY <1>2, <1>4

\* The rows up to a sample and its row.
LEMMA RowsAppended ==
  ASSUME NEW a \in Int, NEW b \in Int, NEW v, a <= b
  PROVE  Append(Rows(a, b - 1, v), Row(b, v)) = Rows(a, b, v)
<1>1. PICK c \in Int : c = b - 1
  OBVIOUS
<1>2. PICK n \in Nat : n = Span(a, c)
  BY RunOfRows
<1>3. Run(Rows(a, c, v), a, n, v)
  BY <1>2, RunOfRows
<1>4. a + n = b /\ n + 1 = Span(a, b)
  BY <1>1, <1>2 DEF Span
<1> HIDE DEF Rows, Run, Span
<1>5. Run(Append(Rows(a, c, v), Row(a + n, v)), a, n + 1, v)
  BY <1>3, RunAppend
<1>6. Run(Append(Rows(a, c, v), Row(b, v)), a, Span(a, b), v)
  BY <1>4, <1>5
<1>7. Append(Rows(a, c, v), Row(b, v)) = Rows(a, b, v)
  BY <1>6, RunIsRows
<1> QED
  BY <1>1, <1>7

\* The filter leaves the rows of the range.
LEMMA WithinIs ==
  ASSUME NEW s, NEW a \in Int, NEW n \in Nat, NEW v, Run(s, a, n, v),
         NEW from \in Int, NEW to \in Int
  PROVE  Within(s, from, to) = Rows(Later(a, from), Sooner(a + n - 1, to), v)
<1> DEFINE g == [i \in 0 .. n |-> Rows(Later(a, from), Sooner(a + i - 1, to), v)]
           body(h) == [i \in 0 .. n |->
                         IF i = 0 THEN <<>>
                         ELSE IF from <= s[i].t /\ s[i].t <= to
                         THEN Append(h[i - 1], s[i])
                         ELSE h[i - 1]]
           f == CHOOSE h : h = body(h)
<1>1. Len(s) = n
  BY DEF Run
<1>2. Within(s, from, to) = f[n]
  BY <1>1, Zenon DEF Within
<1>3. g[0] = <<>>
  <2>1. /\ g[0] = Rows(Later(a, from), Sooner(a + 0 - 1, to), v)
        /\ Later(a, from) \in Int /\ Sooner(a + 0 - 1, to) \in Int
        /\ Sooner(a + 0 - 1, to) < Later(a, from)
    BY DEF Later, Sooner
  <2> QED
    BY <2>1, RowsNone
<1>4. ASSUME NEW i \in 1 .. n
      PROVE  g[i] = IF from <= s[i].t /\ s[i].t <= to THEN Append(g[i - 1], s[i]) ELSE g[i - 1]
  <2>1. PICK b \in Int : b = a + i - 1
    OBVIOUS
  <2>2. PICK l \in Int : l = Later(a, from)
    BY DEF Later
  <2>3. g[i] = Rows(l, Sooner(b, to), v)
    BY <2>1, <2>2
  <2>4. g[i - 1] = Rows(l, Sooner(b - 1, to), v)
    <3>1. i - 1 \in 0 .. n /\ a + (i - 1) - 1 = b - 1
      BY <2>1
    <3> QED
      BY <2>2, <3>1
  <2>5. s[i] = Row(b, v) /\ s[i].t = b
    BY <2>1 DEF Run, Row
  <2> HIDE DEF g
  <2>6. CASE from <= b /\ b <= to
    <3>1. l <= b /\ Sooner(b, to) = b /\ Sooner(b - 1, to) = b - 1
      BY <2>1, <2>2, <2>6 DEF Later, Sooner
    <3>2. Append(Rows(l, b - 1, v), Row(b, v)) = Rows(l, b, v)
      BY <3>1, RowsAppended
    <3> QED
      BY <2>3, <2>4, <2>5, <2>6, <3>1, <3>2
  <2>7. CASE b < from
    <3>1. /\ Sooner(b, to) \in Int /\ Sooner(b - 1, to) \in Int
          /\ Sooner(b, to) < l /\ Sooner(b - 1, to) < l
      BY <2>1, <2>2, <2>7 DEF Later, Sooner
    <3>2. Rows(l, Sooner(b, to), v) = <<>>
      BY <3>1, RowsNone
    <3>3. Rows(l, Sooner(b - 1, to), v) = <<>>
      BY <3>1, RowsNone
    <3>4. ~(from <= s[i].t /\ s[i].t <= to)
      BY <2>5, <2>7
    <3> QED
      BY <2>3, <2>4, <3>2, <3>3, <3>4
  <2>8. CASE to < b
    <3>1. Sooner(b, to) = to /\ Sooner(b - 1, to) = to
      BY <2>8 DEF Sooner
    <3>4. ~(from <= s[i].t /\ s[i].t <= to)
      BY <2>5, <2>8
    <3> QED
      BY <2>3, <2>4, <3>1, <3>4
  <2> QED
    BY <2>6, <2>7, <2>8
<1>5. g = body(g)
  <2>1. g = [i \in 0 .. n |-> g[i]]
    OBVIOUS
  <2>2. ASSUME NEW i \in 0 .. n
        PROVE  g[i] = IF i = 0 THEN <<>>
                      ELSE IF from <= s[i].t /\ s[i].t <= to
                      THEN Append(g[i - 1], s[i])
                      ELSE g[i - 1]
    <3> HIDE DEF g
    <3>1. CASE i = 0
      BY <1>3, <3>1
    <3>2. CASE i # 0
      <4>1. i \in 1 .. n
        BY <3>2
      <4> QED
        BY <1>4, <3>2, <4>1
    <3> QED
      BY <3>1, <3>2
  <2> HIDE DEF g
  <2> QED
    BY <2>1, <2>2, Zenon
<1>6. f = body(f)
  <2> HIDE DEF g
  <2>1. \E h : h = body(h)
    BY <1>5
  <2> QED
    BY <2>1, Zenon
<1>7. f[0] = <<>>
  <2> HIDE DEF f
  <2> QED
    BY <1>6
<1>8. \A i \in 1 .. n : f[i] =
            IF from <= s[i].t /\ s[i].t <= to THEN Append(f[i - 1], s[i]) ELSE f[i - 1]
  <2> HIDE DEF f
  <2>1. TAKE i \in 1 .. n
  <2>2. i \in 0 .. n /\ i # 0
    OBVIOUS
  <2>3. f[i] = body(f)[i]
    BY <1>6, Zenon
  <2>4. body(f)[i] =
            IF i = 0 THEN <<>>
            ELSE IF from <= s[i].t /\ s[i].t <= to THEN Append(f[i - 1], s[i]) ELSE f[i - 1]
    BY <2>2, Zenon
  <2> QED
    BY <2>2, <2>3, <2>4, Zenon
<1>9. \A i \in 1 .. n : f[i - 1] = g[i - 1] => f[i] = g[i]
  <2> HIDE DEF f, g
  <2> QED
    BY <1>4, <1>8
<1>10. f[n] = g[n]
  <2> HIDE DEF f, g
  <2>1. PICK m \in Nat : m = 0
    OBVIOUS
  <2>2. f[m] = g[m] /\ \A i \in m + 1 .. n : f[i - 1] = g[i - 1] => f[i] = g[i]
    BY <1>3, <1>7, <1>9, <2>1
  <2>3. n \in m .. n /\ \A i \in m .. n : f[i] = g[i]
    BY <2>1, <2>2, SameAlong
  <2> QED
    BY <2>3
<1>11. g[n] = Rows(Later(a, from), Sooner(a + n - 1, to), v)
  OBVIOUS
<1> HIDE DEF f, g
<1> QED
  BY <1>2, <1>10, <1>11

-----------------------------------------------------------------------------
(* The chunks of some rows and the map of them.                            *)

\* The least of two numbers.
LEMMA MinIs ==
  ASSUME NEW a \in Int, NEW b \in Int
  PROVE  Min({a, b}) = Sooner(a, b)
<1>1. \E x \in {a, b} : \A y \in {a, b} : x <= y
  OBVIOUS
<1>2. Min({a, b}) \in {a, b} /\ \A y \in {a, b} : Min({a, b}) <= y
  BY <1>1 DEF Min
<1> QED
  BY <1>2 DEF Sooner

\* The largest of two numbers.
LEMMA MaxIs ==
  ASSUME NEW a \in Int, NEW b \in Int
  PROVE  Max({a, b}) = Later(a, b)
<1>1. \E x \in {a, b} : \A y \in {a, b} : x >= y
  OBVIOUS
<1>2. Max({a, b}) \in {a, b} /\ \A y \in {a, b} : Max({a, b}) >= y
  BY <1>1 DEF Max
<1> QED
  BY <1>2 DEF Later

\* What the quotient of two numbers is.
LEMMA Divides ==
  ASSUME NEW x \in Nat, NEW c \in Nat \ {0}
  PROVE  /\ x \div c \in Nat
         /\ (x \div c) * c <= x
         /\ x < (x \div c) * c + c
  OBVIOUS

\* Multiples grow.
LEMMA Multiples ==
  ASSUME NEW c \in Nat, NEW i \in Nat, NEW j \in Nat, i <= j
  PROVE  i * c <= j * c /\ i * c \in Nat /\ (i + 1) * c = i * c + c
  OBVIOUS

\* Where the chunks 0 to i - 1 of the rows from lo to hi end.
End(lo, hi, i) == Sooner(lo + i * ChunkSize - 1, hi)

\* The chunks cover all rows, and each has one at least.
LEMMA NumChunksIs ==
  ASSUME NEW s, NEW n \in Nat \ {0}, Len(s) = n
  PROVE  /\ NumChunks(s) \in Nat \ {0}
         /\ n <= NumChunks(s) * ChunkSize
         /\ \A i \in 0 .. NumChunks(s) - 1 :
               /\ i * ChunkSize \in Nat /\ i * ChunkSize < n
               /\ (i + 1) * ChunkSize = i * ChunkSize + ChunkSize
<1>1. PICK c \in Nat \ {0} : c = ChunkSize
  BY CacheAssumption
<1>2. PICK x \in Nat : x = n + c - 1
  OBVIOUS
<1>3. PICK q : q = x \div c
  OBVIOUS
<1>4. NumChunks(s) = q
  BY <1>1, <1>2, <1>3 DEF NumChunks
<1>5. q \in Nat /\ q * c <= x /\ x < q * c + c
  BY <1>3, Divides
<1>6. n <= q * c /\ q * c - c < n
  <2>1. PICK y \in Int : y = q * c
    BY <1>5
  <2> QED
    BY <1>2, <1>5, <2>1
<1>7. q # 0
  BY <1>6
<1>8. ASSUME NEW i \in 0 .. q - 1
      PROVE  i * c \in Nat /\ i * c < n /\ (i + 1) * c = i * c + c
  <2>1. PICK r \in Nat : r = q - 1
    BY <1>5, <1>7
  <2>2. i \in Nat /\ i <= r /\ q = r + 1
    BY <1>5, <2>1
  <2>3. i * c <= r * c /\ i * c \in Nat /\ (i + 1) * c = i * c + c
    BY <2>2, Multiples
  <2>4. r * c \in Nat /\ (r + 1) * c = r * c + c
    BY Multiples
  <2>5. q * c = r * c + c
    BY <2>2, <2>4
  <2> QED
    BY <1>6, <2>3, <2>4, <2>5
<1> QED
  BY <1>1, <1>4, <1>5, <1>6, <1>7, <1>8

\* A chunk ends at some sample, and not after the last row.
LEMMA EndIs ==
  ASSUME NEW lo \in Int, NEW hi \in Int, NEW i \in Nat
  PROVE  End(lo, hi, i) \in Int /\ End(lo, hi, i) <= hi
<1>1. PICK c \in Nat \ {0} : c = ChunkSize
  BY CacheAssumption
<1>2. PICK x \in Nat : x = i * c
  BY <1>1, Multiples
<1>3. End(lo, hi, i) = Sooner(lo + x - 1, hi)
  BY <1>1, <1>2 DEF End
<1> QED
  BY <1>3 DEF Sooner

\* The chunks begin with the first row, go on, and end with the last one.
LEMMA EndsAre ==
  ASSUME NEW lo \in Int, NEW hi \in Int, NEW v, lo <= hi
  PROVE  /\ NumChunks(Rows(lo, hi, v)) \in Nat \ {0}
         /\ End(lo, hi, 0) = lo - 1
         /\ \A i \in Nat : NumChunks(Rows(lo, hi, v)) <= i => End(lo, hi, i) = hi
         /\ \A i \in 0 .. NumChunks(Rows(lo, hi, v)) - 1 :
               /\ lo - 1 <= End(lo, hi, i)
               /\ End(lo, hi, i) < End(lo, hi, i + 1)
<1>1. PICK c \in Nat \ {0} : c = ChunkSize
  BY CacheAssumption
<1>2. PICK n \in Nat \ {0} : n = Span(lo, hi) /\ hi = lo + n - 1
  <2>1. Span(lo, hi) \in Nat \ {0} /\ hi = lo + Span(lo, hi) - 1
    BY DEF Span
  <2> QED
    BY <2>1
<1>3. Len(Rows(lo, hi, v)) = n
  BY <1>2, RunOfRows DEF Run
<1>4. PICK q : q = NumChunks(Rows(lo, hi, v))
  OBVIOUS
<1>5. /\ q \in Nat \ {0} /\ n <= q * c
      /\ \A i \in 0 .. q - 1 : i * c \in Nat /\ i * c < n /\ (i + 1) * c = i * c + c
  BY <1>1, <1>3, <1>4, NumChunksIs
<1>6. End(lo, hi, 0) = lo - 1
  BY <1>1 DEF End, Sooner
<1>7. ASSUME NEW i \in Nat
      PROVE  q <= i => End(lo, hi, i) = hi
  <2>1. PICK x \in Nat : x = i * c
    BY <1>1, Multiples
  <2>2. End(lo, hi, i) = Sooner(lo + x - 1, hi)
    BY <1>1, <2>1 DEF End
  <2>3. q <= i => n <= x
    <3> SUFFICES ASSUME q <= i PROVE n <= x
      OBVIOUS
    <3>1. PICK y \in Nat : y = q * c
      BY <1>1, <1>5, Multiples
    <3>2. y <= x
      BY <1>5, <2>1, <3>1, Multiples
    <3> QED
      BY <1>5, <3>1, <3>2
  <2> QED
    BY <1>2, <2>2, <2>3 DEF Sooner
<1>8. ASSUME NEW i \in 0 .. q - 1
      PROVE  lo - 1 <= End(lo, hi, i) /\ End(lo, hi, i) < End(lo, hi, i + 1)
  <2>1. PICK x \in Nat : x = i * c
    BY <1>5
  <2>2. x < n /\ (i + 1) * c = x + c
    BY <1>5, <2>1
  <2>3. End(lo, hi, i) = Sooner(lo + x - 1, hi)
    BY <1>1, <2>1 DEF End
  <2>4. End(lo, hi, i + 1) = Sooner(lo + (x + c) - 1, hi)
    BY <1>1, <2>2 DEF End
  <2> QED
    BY <1>2, <2>2, <2>3, <2>4 DEF Sooner
<1> QED
  BY <1>4, <1>5, <1>6, <1>7, <1>8

\* A chunk ends after the one before it.
LEMMA EndStep ==
  ASSUME NEW lo \in Int, NEW hi \in Int, NEW v, lo <= hi,
         NEW i \in 0 .. NumChunks(Rows(lo, hi, v)) - 1
  PROVE  /\ i \in Nat /\ i + 1 \in Nat
         /\ End(lo, hi, i) \in Int /\ End(lo, hi, i + 1) \in Int
         /\ lo - 1 <= End(lo, hi, i)
         /\ End(lo, hi, i) < End(lo, hi, i + 1)
         /\ End(lo, hi, i + 1) <= hi
<1>1. PICK q \in Nat : q = NumChunks(Rows(lo, hi, v))
  BY EndsAre
<1>2. i \in Nat /\ i + 1 \in Nat
  BY <1>1
<1>3. /\ End(lo, hi, i) \in Int /\ End(lo, hi, i + 1) \in Int
      /\ End(lo, hi, i + 1) <= hi
  BY <1>2, EndIs
<1>4. lo - 1 <= End(lo, hi, i) /\ End(lo, hi, i) < End(lo, hi, i + 1)
  BY EndsAre
<1> QED
  BY <1>2, <1>3, <1>4

\* A chunk holds the rows after the one before it.
LEMMA ChunkIs ==
  ASSUME NEW lo \in Int, NEW hi \in Int, NEW v, lo <= hi,
         NEW i \in 0 .. NumChunks(Rows(lo, hi, v)) - 1
  PROVE  Chunk(Rows(lo, hi, v), i) = Rows(End(lo, hi, i) + 1, End(lo, hi, i + 1), v)
<1>1. PICK c \in Nat \ {0} : c = ChunkSize
  BY CacheAssumption
<1>2. PICK n \in Nat \ {0} : n = Span(lo, hi) /\ hi = lo + n - 1
  <2>1. Span(lo, hi) \in Nat \ {0} /\ hi = lo + Span(lo, hi) - 1
    BY DEF Span
  <2> QED
    BY <2>1
<1>3. PICK s : s = Rows(lo, hi, v)
  OBVIOUS
<1>4. Run(s, lo, n, v) /\ Len(s) = n
  BY <1>2, <1>3, RunOfRows DEF Run
<1>5. i * c \in Nat /\ i * c < n /\ (i + 1) * c = i * c + c
  BY <1>1, <1>3, <1>4, NumChunksIs
<1>6. PICK x \in Nat : x = i * c /\ x < n /\ (i + 1) * c = x + c
  BY <1>5
<1>7. PICK y \in Int : y = Sooner(x + c, n)
  BY DEF Sooner
<1>8. Chunk(s, i) = SubSeq(s, x + 1, y)
  <2>1. Min({x + c, n}) = y
    BY <1>7, MinIs
  <2> QED
    BY <1>1, <1>4, <1>6, <2>1 DEF Chunk
<1>9. x + 1 <= y /\ y <= n
  <2>1. x < n
    BY <1>6
  <2> QED
    BY <1>7, <2>1 DEF Sooner
<1>10. /\ End(lo, hi, i) + 1 = lo + (x + 1) - 1
       /\ End(lo, hi, i + 1) = lo + y - 1
  <2>1. End(lo, hi, i) = Sooner(lo + x - 1, hi)
    BY <1>1, <1>6 DEF End
  <2>2. End(lo, hi, i + 1) = Sooner(lo + (x + c) - 1, hi)
    BY <1>1, <1>6 DEF End
  <2>3. x < n
    BY <1>6
  <2>4. PICK z \in Int : z = x + c
    OBVIOUS
  <2>5. End(lo, hi, i + 1) = Sooner(lo + z - 1, hi) /\ y = Sooner(z, n)
    BY <1>7, <2>2, <2>4
  <2>6. Sooner(lo + x - 1, hi) = lo + x - 1
    BY <1>2, <2>3 DEF Sooner
  <2>7. Sooner(lo + z - 1, hi) = lo + Sooner(z, n) - 1
    BY <1>2 DEF Sooner
  <2>8. End(lo, hi, i) + 1 = lo + (x + 1) - 1
    BY <2>1, <2>6
  <2> QED
    BY <2>5, <2>7, <2>8
<1>11. PICK m \in Int : m = x + 1
  OBVIOUS
<1>12. PICK a \in Int, b \in Int : a = lo + m - 1 /\ b = lo + y - 1
  BY <1>11
<1>13. Run(SubSeq(s, m, y), lo + m - 1, y - m + 1, v)
  <2>1. 1 <= m /\ m <= y
    BY <1>9, <1>11
  <2> QED
    BY <1>4, <1>9, <2>1, RunCut
<1>14. y - m + 1 = Span(a, b)
  BY <1>9, <1>11, <1>12 DEF Span
<1>15. SubSeq(s, m, y) = Rows(a, b, v)
  <2>1. Run(SubSeq(s, m, y), a, Span(a, b), v)
    BY <1>12, <1>13, <1>14
  <2> QED
    BY <2>1, RunIsRows
<1> QED
  BY <1>3, <1>8, <1>10, <1>11, <1>12, <1>15

\* The blob map tells where each chunk begins and ends.
LEMMA ChunkMapIs ==
  ASSUME NEW lo \in Int, NEW hi \in Int, NEW v, lo <= hi
  PROVE  ChunkMap(Rows(lo, hi, v)) =
           [i \in 0 .. NumChunks(Rows(lo, hi, v)) - 1 |->
              [from |-> End(lo, hi, i) + 1, to |-> End(lo, hi, i + 1)]]
<1>1. PICK s : s = Rows(lo, hi, v)
  OBVIOUS
<1>2. ASSUME NEW i \in 0 .. NumChunks(s) - 1
      PROVE  Chunk(s, i)[1].t = End(lo, hi, i) + 1 /\ Last(Chunk(s, i)).t = End(lo, hi, i + 1)
  <2>1. Chunk(s, i) = Rows(End(lo, hi, i) + 1, End(lo, hi, i + 1), v)
    BY <1>1, ChunkIs
  <2>2. /\ End(lo, hi, i) \in Int /\ End(lo, hi, i + 1) \in Int
        /\ End(lo, hi, i) < End(lo, hi, i + 1)
    BY <1>1, EndStep
  <2>3. PICK a \in Int : a = End(lo, hi, i) + 1
    BY <2>2
  <2>3a. PICK b \in Int : b = End(lo, hi, i + 1)
    BY <2>2
  <2>4. a <= b
    BY <2>2, <2>3, <2>3a
  <2>5. PICK n \in Nat \ {0} : n = Span(a, b) /\ b = a + n - 1
    <3>1. Span(a, b) \in Nat \ {0} /\ b = a + Span(a, b) - 1
      BY <2>4 DEF Span
    <3> QED
      BY <3>1
  <2>6. PICK u : u = Rows(a, b, v)
    OBVIOUS
  <2>7. Len(u) = n /\ u[1] = Row(a, v) /\ u[n] = Row(b, v)
    <3>1. Run(u, a, n, v)
      BY <2>5, <2>6, RunOfRows
    <3>2. 1 \in 1 .. n /\ n \in 1 .. n /\ a + 1 - 1 = a
      OBVIOUS
    <3> QED
      BY <2>5, <3>1, <3>2 DEF Run
  <2> QED
    BY <2>1, <2>3, <2>3a, <2>6, <2>7 DEF Last, Row
<1>3. ChunkMap(s) = [i \in 0 .. NumChunks(s) - 1 |->
                       [from |-> End(lo, hi, i) + 1, to |-> End(lo, hi, i + 1)]]
  BY <1>2 DEF ChunkMap
<1> QED
  BY <1>1, <1>3

-----------------------------------------------------------------------------
(* Reading.                                                                *)

\* The dates F .. T and the samples from .. to tell the same of a chunk: whether it
\* is needed, and which of its rows are in the range.
Meets(c, F, T, from, to) ==
    /\ toMins(F) <= from /\ to <= toMins(T)
    /\ T >= fromMins(c.from) <=> to >= c.from
    /\ F <= fromMins(c.to) <=> from <= c.to
    /\ from = toMins(F) \/ from <= c.from \/ c.to < from
    /\ to = toMins(T) \/ c.to <= to \/ to < c.from
    /\ T >= fromMins(c.to) => c.to <= to
    /\ F <= fromMins(c.from) => from <= c.from

\* The same for all chunks of a map.
MapMeets(m, F, T, from, to) == \A i \in DOMAIN m : Meets(m[i], F, T, from, to)

\* Rounding moves a date by less than a minute.
LEMMA MinutesAre ==
  ASSUME NEW date \in Int
  PROVE  /\ toMins(date) \in Int
         /\ 3 * toMins(date) - 1 <= date /\ date <= 3 * toMins(date) + 1
         /\ (date + 2) \div 3 = IF date > 3 * toMins(date) THEN toMins(date) + 1 ELSE toMins(date)
         /\ date \div 3 = IF date < 3 * toMins(date) THEN toMins(date) - 1 ELSE toMins(date)
<1>1. PICK x \in Int : x = (date + 1) \div 3
  OBVIOUS
<1>2. 3 * x - 1 <= date /\ date <= 3 * x + 1
  BY <1>1
<1>3. (date + 2) \div 3 = IF date > 3 * x THEN x + 1 ELSE x
  BY <1>2
<1>4. date \div 3 = IF date < 3 * x THEN x - 1 ELSE x
  BY <1>2
<1> QED
  BY <1>1, <1>2, <1>3, <1>4 DEF toMins

\* Whole minutes are not rounded.
LEMMA WholeMinutes ==
  ASSUME NEW t \in Int
  PROVE  fromMins(t) \in Int /\ toMins(fromMins(t)) = t
<1>1. 3 * t \in Int /\ (3 * t + 1) \div 3 = t
  OBVIOUS
<1> QED
  BY <1>1 DEF fromMins, toMins

\* Whole minutes meet the chunks as they are.
LEMMA WholeMeets ==
  ASSUME NEW m, \A i \in DOMAIN m : m[i].from \in Int /\ m[i].to \in Int,
         NEW from \in Int, NEW to \in Int
  PROVE  MapMeets(m, fromMins(from), fromMins(to), from, to)
<1> SUFFICES ASSUME NEW i \in DOMAIN m
             PROVE  Meets(m[i], fromMins(from), fromMins(to), from, to)
  BY DEF MapMeets
<1>1. PICK a \in Int, b \in Int : a = m[i].from /\ b = m[i].to
  OBVIOUS
<1>2. toMins(fromMins(from)) = from /\ toMins(fromMins(to)) = to
  BY WholeMinutes
<1>3. /\ 3 * to >= 3 * a <=> to >= a
      /\ 3 * from <= 3 * b <=> from <= b
      /\ 3 * to >= 3 * b => b <= to
      /\ 3 * from <= 3 * a => from <= a
  OBVIOUS
<1> QED
  BY <1>1, <1>2, <1>3 DEF Meets, fromMins

\* The needed chunks are those of the samples.
LEMMA NeededIs ==
  ASSUME NEW m, NEW F, NEW T, NEW from, NEW to, MapMeets(m, F, T, from, to), NEW i
  PROVE  i \in Needed(m, F, T) <=> i \in DOMAIN m /\ to >= m[i].from /\ from <= m[i].to
  BY DEF MapMeets, Meets, Needed

\* The first and the last sample that a reader of a range of dates is given.
Beginning(m, date) == IF \E i \in DOMAIN m : m[i].to = toMins(date)
                      THEN (date + 2) \div 3
                      ELSE toMins(date)
Ending(m, date) == IF \E i \in DOMAIN m : m[i].from = toMins(date)
                   THEN date \div 3
                   ELSE toMins(date)

\* They are next to the dates.
LEMMA BoundsAre ==
  ASSUME NEW m, NEW F \in Int, NEW T \in Int, F <= T, fromMins(1) <= F
  PROVE  /\ Beginning(m, F) \in Int /\ Ending(m, T) \in Int
         /\ 1 <= Beginning(m, F) /\ 1 <= Ending(m, T)
         /\ Beginning(m, F) \in {toMins(F), (F + 2) \div 3}
         /\ Ending(m, T) \in {toMins(T), T \div 3}
         /\ T \div 3 \in Int /\ T \div 3 <= Ending(m, T)
<1>1. PICK x \in Int : /\ x = toMins(F) /\ 3 * x - 1 <= F /\ F <= 3 * x + 1
                       /\ (F + 2) \div 3 = IF F > 3 * x THEN x + 1 ELSE x
  BY MinutesAre
<1>2. PICK y \in Int : /\ y = toMins(T) /\ 3 * y - 1 <= T /\ T <= 3 * y + 1
                       /\ T \div 3 = IF T < 3 * y THEN y - 1 ELSE y
  BY MinutesAre
<1>3. 3 <= F
  BY DEF fromMins
<1>4. 1 <= x
  BY <1>1, <1>3
<1>5. PICK z \in Int : z = T \div 3 /\ 1 <= z /\ z <= y
  BY <1>2, <1>3
<1>6. Beginning(m, F) = x \/ Beginning(m, F) = (F + 2) \div 3
  BY <1>1 DEF Beginning
<1>7. Ending(m, T) = y \/ Ending(m, T) = z
  BY <1>2, <1>5 DEF Ending
<1> QED
  BY <1>1, <1>2, <1>4, <1>5, <1>6, <1>7

\* A later chunk does not end earlier.
LEMMA EndGrows ==
  ASSUME NEW lo \in Int, NEW hi \in Int, NEW i \in Nat, NEW j \in Nat, i <= j
  PROVE  End(lo, hi, i) <= End(lo, hi, j)
<1>1. PICK c \in Nat \ {0} : c = ChunkSize
  BY CacheAssumption
<1>2. PICK x \in Nat, y \in Nat : x = i * c /\ y = j * c /\ x <= y
  BY <1>1, Multiples
<1>3. End(lo, hi, i) = Sooner(lo + x - 1, hi) /\ End(lo, hi, j) = Sooner(lo + y - 1, hi)
  BY <1>1, <1>2 DEF End
<1> QED
  BY <1>2, <1>3 DEF Sooner

\* The chunks of a map follow one another.
LEMMA ChunksApart ==
  ASSUME NEW lo \in Int, NEW hi \in Int, NEW w, lo <= hi, NEW m, m = ChunkMap(Rows(lo, hi, w))
  PROVE  /\ \A i \in DOMAIN m : m[i].from \in Int /\ m[i].to \in Int
         /\ \A i, j \in DOMAIN m : i = j \/ m[i].to < m[j].from \/ m[j].to < m[i].from
<1>1. PICK n \in Nat : n = NumChunks(Rows(lo, hi, w))
  BY EndsAre
<1>2. m = [i \in 0 .. n - 1 |-> [from |-> End(lo, hi, i) + 1, to |-> End(lo, hi, i + 1)]]
  BY <1>1, ChunkMapIs
<1>3. ASSUME NEW i \in 0 .. n - 1
      PROVE  End(lo, hi, i) \in Int /\ End(lo, hi, i + 1) \in Int
  BY <1>1, EndStep
<1>4. ASSUME NEW i \in 0 .. n - 1, NEW j \in 0 .. n - 1, i < j
      PROVE  m[i].to < m[j].from
  <2>1. PICK k \in Nat : k = i + 1 /\ k <= j /\ j \in Nat
    BY <1>4
  <2>2. PICK x \in Int : x = End(lo, hi, k) /\ m[i].to = x
    BY <1>2, <1>3, <2>1
  <2>3. PICK y \in Int : y = End(lo, hi, j) /\ m[j].from = y + 1
    BY <1>2, <1>3
  <2>4. x <= y
    BY <2>1, <2>2, <2>3, EndGrows
  <2> QED
    BY <2>2, <2>3, <2>4
<1>5. \A i \in DOMAIN m : m[i].from \in Int /\ m[i].to \in Int
  BY <1>2, <1>3
<1>6. \A i, j \in DOMAIN m : i = j \/ m[i].to < m[j].from \/ m[j].to < m[i].from
  BY <1>2, <1>4
<1> QED
  BY <1>5, <1>6

\* Each has a row at least.
LEMMA ChunksFilled ==
  ASSUME NEW lo \in Int, NEW hi \in Int, NEW w, lo <= hi, NEW m, m = ChunkMap(Rows(lo, hi, w)),
         NEW i \in DOMAIN m
  PROVE  m[i].from \in Int /\ m[i].to \in Int /\ m[i].from <= m[i].to
<1>1. m = [j \in 0 .. NumChunks(Rows(lo, hi, w)) - 1 |->
             [from |-> End(lo, hi, j) + 1, to |-> End(lo, hi, j + 1)]]
  BY ChunkMapIs
<1>2. i \in 0 .. NumChunks(Rows(lo, hi, w)) - 1
  BY <1>1
<1>3. /\ End(lo, hi, i) \in Int /\ End(lo, hi, i + 1) \in Int
      /\ End(lo, hi, i) < End(lo, hi, i + 1)
  BY <1>2, EndStep
<1>4. m[i].from = End(lo, hi, i) + 1 /\ m[i].to = End(lo, hi, i + 1)
  BY <1>1, <1>2
<1> QED
  BY <1>3, <1>4

\* They meet the chunks of the map.
LEMMA BoundsMeet ==
  ASSUME NEW lo \in Int, NEW hi \in Int, NEW w, lo <= hi, NEW m, m = ChunkMap(Rows(lo, hi, w)),
         NEW F \in Int, NEW T \in Int
  PROVE  MapMeets(m, F, T, Beginning(m, F), Ending(m, T))
<1> SUFFICES ASSUME NEW i \in DOMAIN m
             PROVE  Meets(m[i], F, T, Beginning(m, F), Ending(m, T))
  BY DEF MapMeets
<1>1. PICK x \in Int : /\ x = toMins(F) /\ 3 * x - 1 <= F /\ F <= 3 * x + 1
                       /\ (F + 2) \div 3 = IF F > 3 * x THEN x + 1 ELSE x
  BY MinutesAre
<1>2. PICK y \in Int : /\ y = toMins(T) /\ 3 * y - 1 <= T /\ T <= 3 * y + 1
                       /\ T \div 3 = IF T < 3 * y THEN y - 1 ELSE y
  BY MinutesAre
<1>3. PICK a \in Int, b \in Int : a = m[i].from /\ b = m[i].to
  BY ChunksApart
<1>4. PICK from \in Int :
        /\ from = Beginning(m, F)
        /\ \/ from = x /\ (b = x => F <= 3 * x)
           \/ from = x + 1 /\ F > 3 * x /\ (b <= x \/ x < a)
  <2>1. CASE \E j \in DOMAIN m : m[j].to = x
    <3>1. PICK j \in DOMAIN m : m[j].to = x
      BY <2>1
    <3>2. i = j \/ b < m[j].from \/ x < a
      BY <1>3, <3>1, ChunksApart
    <3>3. b <= x \/ x < a
      <4>1. m[j].from \in Int /\ m[j].from <= m[j].to
        BY ChunksFilled
      <4> QED
        BY <1>3, <3>1, <3>2, <4>1
    <3>4. Beginning(m, F) = IF F > 3 * x THEN x + 1 ELSE x
      BY <1>1, <2>1 DEF Beginning
    <3> QED
      BY <3>3, <3>4
  <2>2. CASE ~ \E j \in DOMAIN m : m[j].to = x
    <3>1. Beginning(m, F) = x /\ b # x
      BY <1>1, <1>3, <2>2 DEF Beginning
    <3> QED
      BY <3>1
  <2> QED
    BY <2>1, <2>2
<1>5. PICK to \in Int :
        /\ to = Ending(m, T)
        /\ \/ to = y /\ (a = y => T >= 3 * y)
           \/ to = y - 1 /\ T < 3 * y /\ (b < y \/ y <= a)
  <2>1. CASE \E j \in DOMAIN m : m[j].from = y
    <3>1. PICK j \in DOMAIN m : m[j].from = y
      BY <2>1
    <3>2. i = j \/ b < y \/ m[j].to < a
      BY <1>3, <3>1, ChunksApart
    <3>3. b < y \/ y <= a
      <4>1. m[j].to \in Int /\ m[j].from <= m[j].to
        BY ChunksFilled
      <4> QED
        BY <1>3, <3>1, <3>2, <4>1
    <3>4. Ending(m, T) = IF T < 3 * y THEN y - 1 ELSE y
      BY <1>2, <2>1 DEF Ending
    <3> QED
      BY <3>3, <3>4
  <2>2. CASE ~ \E j \in DOMAIN m : m[j].from = y
    <3>1. Ending(m, T) = y /\ a # y
      BY <1>2, <1>3, <2>2 DEF Ending
    <3> QED
      BY <3>1
  <2> QED
    BY <2>1, <2>2
<1>6. /\ x <= from /\ (F <= 3 * b <=> from <= b)
      /\ from = x \/ from <= a \/ b < from
      /\ F <= 3 * a => from <= a
  BY <1>1, <1>4
<1>7. /\ to <= y /\ (T >= 3 * a <=> to >= a)
      /\ to = y \/ b <= to \/ to < a
      /\ T >= 3 * b => b <= to
  BY <1>2, <1>5
<1> QED
  BY <1>1, <1>2, <1>3, <1>4, <1>5, <1>6, <1>7 DEF Meets, fromMins

\* What is taken of a needed chunk are its rows of the range, filtered or not.
LEMMA PieceIs ==
  ASSUME NEW a \in Int, NEW b \in Int, NEW v, a <= b, NEW F \in Int, NEW T \in Int,
         NEW from \in Int, NEW to \in Int, Meets([from |-> a, to |-> b], F, T, from, to),
         to >= a, from <= b
  PROVE  FromChunk(Rows(a, b, v), [from |-> a, to |-> b], F, T)
           = Rows(Later(a, from), Sooner(b, to), v)
<1>1. PICK c : c = [from |-> a, to |-> b]
  OBVIOUS
<1>2. c.from = a /\ c.to = b
  BY <1>1
<1>2a. PICK f \in Int, t \in Int : f = toMins(F) /\ t = toMins(T)
  BY MinutesAre
<1>2b. /\ f <= from /\ to <= t
       /\ from = f \/ from <= a
       /\ to = t \/ b <= to
       /\ T >= fromMins(b) => b <= to
       /\ F <= fromMins(a) => from <= a
  BY <1>1, <1>2, <1>2a DEF Meets
<1>3. CASE T < fromMins(b) \/ F > fromMins(a)
  <2>1. FromChunk(Rows(a, b, v), c, F, T) = Within(Rows(a, b, v), f, t)
    BY <1>2, <1>2a, <1>3 DEF FromChunk
  <2>2. PICK n \in Nat : n = Span(a, b) /\ b = a + n - 1
    <3>1. Span(a, b) \in Nat /\ b = a + Span(a, b) - 1
      BY DEF Span
    <3> QED
      BY <3>1
  <2>3. Run(Rows(a, b, v), a, n, v)
    BY <2>2, RunOfRows
  <2>4. Within(Rows(a, b, v), f, t) = Rows(Later(a, f), Sooner(a + n - 1, t), v)
    BY <2>3, WithinIs
  <2>5. Later(a, f) = Later(a, from) /\ Sooner(b, t) = Sooner(b, to)
    BY <1>2b DEF Later, Sooner
  <2> QED
    BY <1>1, <2>1, <2>2, <2>4, <2>5
<1>4. CASE ~(T < fromMins(b) \/ F > fromMins(a))
  <2>1. FromChunk(Rows(a, b, v), c, F, T) = Rows(a, b, v)
    BY <1>2, <1>4 DEF FromChunk
  <2>1a. fromMins(a) \in Int /\ fromMins(b) \in Int
    BY WholeMinutes
  <2>2. Later(a, from) = a /\ Sooner(b, to) = b
    BY <1>2b, <1>4, <2>1a DEF Later, Sooner
  <2> QED
    BY <1>1, <2>1, <2>2
<1> QED
  BY <1>3, <1>4

\* The files m and b hold the rows from lo to hi.
Holds(m, b, lo, hi, v) ==
  /\ m = ChunkMap(Rows(lo, hi, v))
  /\ NumChunks(Rows(lo, hi, v)) <= MaxBlobs
  /\ \A i \in 0 .. NumChunks(Rows(lo, hi, v)) - 1 : b[i] = Chunk(Rows(lo, hi, v), i)

\* What is read of one chunk.
LEMMA PartIs ==
  ASSUME NEW lo \in Int, NEW hi \in Int, NEW v, lo <= hi, NEW m, NEW b, Holds(m, b, lo, hi, v),
         NEW F \in Int, NEW T \in Int, NEW from \in Int, NEW to \in Int,
         MapMeets(m, F, T, from, to), NEW i \in 0 .. NumChunks(Rows(lo, hi, v)) - 1
  PROVE  (IF i \in Needed(m, F, T) THEN FromChunk(b[i], m[i], F, T) ELSE <<>>)
           = Rows(Later(End(lo, hi, i) + 1, from), Sooner(End(lo, hi, i + 1), to), v)
<1>1. /\ End(lo, hi, i) \in Int /\ End(lo, hi, i + 1) \in Int
      /\ End(lo, hi, i) < End(lo, hi, i + 1)
  BY EndStep
<1>2. PICK x \in Int : x = End(lo, hi, i) + 1
  BY <1>1
<1>3. PICK y \in Int : y = End(lo, hi, i + 1)
  BY <1>1
<1>4. x <= y
  BY <1>1, <1>2, <1>3
<1>5. m = [j \in 0 .. NumChunks(Rows(lo, hi, v)) - 1 |->
             [from |-> End(lo, hi, j) + 1, to |-> End(lo, hi, j + 1)]]
  BY ChunkMapIs DEF Holds
<1>6. m[i] = [from |-> x, to |-> y] /\ i \in DOMAIN m /\ m[i].from = x /\ m[i].to = y
  BY <1>2, <1>3, <1>5
<1>7. b[i] = Rows(x, y, v)
  BY <1>2, <1>3, ChunkIs DEF Holds
<1>8. CASE i \in Needed(m, F, T)
  <2>1. to >= x /\ from <= y /\ Meets([from |-> x, to |-> y], F, T, from, to)
    <3>1. to >= m[i].from /\ from <= m[i].to
      BY <1>8, NeededIs
    <3> QED
      BY <1>6, <3>1 DEF MapMeets
  <2>2. FromChunk(Rows(x, y, v), [from |-> x, to |-> y], F, T)
          = Rows(Later(x, from), Sooner(y, to), v)
    BY <1>4, <2>1, PieceIs
  <2> QED
    BY <1>2, <1>3, <1>6, <1>7, <1>8, <2>2
<1>9. CASE i \notin Needed(m, F, T)
  <2>1. ~(to >= x /\ from <= y)
    BY <1>6, <1>9, NeededIs
  <2>2. PICK p \in Int : p = Later(x, from)
    BY DEF Later
  <2>3. PICK q \in Int : q = Sooner(y, to)
    BY DEF Sooner
  <2>4. q < p
    BY <1>4, <2>1, <2>2, <2>3 DEF Later, Sooner
  <2>5. Rows(p, q, v) = <<>>
    BY <2>4, RowsNone
  <2> QED
    BY <1>2, <1>3, <1>9, <2>2, <2>3, <2>5
<1> QED
  BY <1>8, <1>9

\* The rows from lo to e that a reader of from .. to is given.
Part(lo, e, from, to, v) == Rows(Later(lo, from), Sooner(e, to), v)

\* The rows from lo to e are followed by those from a to f.
Follows(lo, e, a, f) == /\ {lo, e, a, f} \subseteq Int
                        /\ a = e + 1 /\ lo <= a /\ e <= f

\* What is read of some rows and of those that follow.
LEMMA PartsJoin ==
  ASSUME NEW lo, NEW e, NEW a, NEW f, Follows(lo, e, a, f),
         NEW from \in Int, NEW to \in Int, NEW v
  PROVE  Part(lo, e, from, to, v) \o Part(a, f, from, to, v) = Part(lo, f, from, to, v)
<1>1. PICK x \in Int, y \in Int, z \in Int : x = lo /\ y = e /\ z = f
  BY DEF Follows
<1>2. x <= y + 1 /\ y <= z /\ a = y + 1
  BY <1>1 DEF Follows
<1>3. Rows(Later(x, from), Sooner(y, to), v) \o Rows(Later(y + 1, from), Sooner(z, to), v)
        = Rows(Later(x, from), Sooner(z, to), v)
  BY <1>2, RowsPieces
<1> QED
  BY <1>1, <1>2, <1>3 DEF Part

\* readFromBlob returns the rows of the range, if the files hold rows.
LEMMA ReadIs ==
  ASSUME NEW lo \in Int, NEW hi \in Int, NEW v, lo <= hi, NEW m, NEW b, Holds(m, b, lo, hi, v),
         NEW from \in Int, NEW to \in Int, NEW F \in Int, NEW T \in Int,
         F = fromMins(from), T = fromMins(to)
  PROVE  ReadRows(m, b, F, T) = Rows(Later(lo, from), Sooner(hi, to), v)
<1>0. PICK n \in Nat \ {0} : n = MaxBlobs
  BY CacheAssumption
<1> DEFINE parts == [j \in 1 .. n |-> IF j - 1 \in Needed(m, F, T)
                                      THEN FromChunk(b[j - 1], m[j - 1], F, T)
                                      ELSE <<>>]
           g == [j \in 1 .. n |-> Rows(Later(lo, from), Sooner(End(lo, hi, j), to), v)]
           body(h) == [i \in 1 .. n |-> IF i = 1 THEN parts[i] ELSE h[i - 1] \o parts[i]]
           f == CHOOSE h : h = body(h)
<1>0a. MapMeets(m, F, T, from, to)
  <2>1. m = [i \in 0 .. NumChunks(Rows(lo, hi, v)) - 1 |->
               [from |-> End(lo, hi, i) + 1, to |-> End(lo, hi, i + 1)]]
    BY ChunkMapIs DEF Holds
  <2>2. ASSUME NEW i \in 0 .. NumChunks(Rows(lo, hi, v)) - 1
        PROVE  End(lo, hi, i) \in Int /\ End(lo, hi, i + 1) \in Int
    BY EndStep
  <2>3. \A i \in DOMAIN m : m[i].from \in Int /\ m[i].to \in Int
    BY <2>1, <2>2
  <2> QED
    BY <2>3, WholeMeets
<1>1. PICK q \in Nat \ {0} : q = NumChunks(Rows(lo, hi, v)) /\ q <= n
  BY <1>0, EndsAre DEF Holds
<1>1a. End(lo, hi, 0) = lo - 1 /\ \A j \in Nat : q <= j => End(lo, hi, j) = hi
  <2>1. /\ End(lo, hi, 0) = lo - 1
        /\ \A j \in Nat : NumChunks(Rows(lo, hi, v)) <= j => End(lo, hi, j) = hi
    BY EndsAre
  <2> QED
    BY <1>1, <2>1
<1>2. ReadRows(m, b, F, T) = f[n]
  <2>1. Len(parts) = n
    BY <1>0
  <2>2. ReadRows(m, b, F, T) = FlattenSeq(parts)
    BY <1>0 DEF ReadRows
  <2> HIDE DEF parts
  <2>3. Len(parts) # 0
    BY <1>0, <2>1
  <2> QED
    BY <2>1, <2>2, <2>3, Zenon DEF FlattenSeq
<1>3. ASSUME NEW i \in 1 .. q
      PROVE  parts[i] = Rows(Later(End(lo, hi, i - 1) + 1, from), Sooner(End(lo, hi, i), to), v)
  <2>1. PICK j \in 0 .. q - 1 : j = i - 1 /\ j + 1 = i
    OBVIOUS
  <2>2. parts[i] = IF j \in Needed(m, F, T) THEN FromChunk(b[j], m[j], F, T) ELSE <<>>
    <3>1. i \in 1 .. n
      BY <1>0, <1>1
    <3> QED
      BY <2>1, <3>1
  <2> HIDE DEF parts
  <2>3. (IF j \in Needed(m, F, T) THEN FromChunk(b[j], m[j], F, T) ELSE <<>>)
          = Rows(Later(End(lo, hi, j) + 1, from), Sooner(End(lo, hi, j + 1), to), v)
    BY <1>0a, <1>1, PartIs
  <2> QED
    BY <2>1, <2>2, <2>3
<1>4. ASSUME NEW i \in q + 1 .. n
      PROVE  parts[i] = <<>>
  <2>1. DOMAIN m = 0 .. q - 1
    BY <1>1, ChunkMapIs DEF Holds
  <2>2. i - 1 \notin DOMAIN m
    BY <2>1
  <2>3. i - 1 \notin Needed(m, F, T)
    BY <2>2 DEF Needed
  <2>4. i \in 1 .. n
    OBVIOUS
  <2> QED
    BY <2>3, <2>4
<1>5. g[1] = parts[1]
  <2>1. 1 \in 1 .. q /\ 1 \in 1 .. n
    BY <1>0, <1>1
  <2>2. parts[1] = Rows(Later(End(lo, hi, 1 - 1) + 1, from), Sooner(End(lo, hi, 1), to), v)
    BY <1>3, <2>1
  <2>3. End(lo, hi, 1 - 1) + 1 = lo
    <3>1. 1 - 1 = 0 /\ (lo - 1) + 1 = lo
      OBVIOUS
    <3> QED
      BY <1>1a, <3>1
  <2>4. g[1] = Rows(Later(lo, from), Sooner(End(lo, hi, 1), to), v)
    BY <2>1
  <2> QED
    BY <2>2, <2>3, <2>4
<1>6. ASSUME NEW i \in 2 .. n
      PROVE  g[i] = g[i - 1] \o parts[i]
  <2>1. PICK j \in Nat : j = i - 1 /\ j \in 1 .. n /\ i \in 1 .. n
    BY <1>0
  <2>2. g[i] = Rows(Later(lo, from), Sooner(End(lo, hi, i), to), v)
    BY <2>1
  <2>3. g[i - 1] = Rows(Later(lo, from), Sooner(End(lo, hi, j), to), v)
    BY <2>1
  <2> HIDE DEF g, parts, f, body
  <2>4. CASE i <= q
    <3>1. i \in 1 .. q /\ j \in 0 .. q - 1 /\ i = j + 1
      BY <2>1, <2>4
    <3>2. parts[i] = Rows(Later(End(lo, hi, j) + 1, from), Sooner(End(lo, hi, i), to), v)
      BY <1>3, <2>1, <3>1
    <3>3. /\ End(lo, hi, j) \in Int /\ End(lo, hi, i) \in Int
          /\ lo <= End(lo, hi, j) + 1 /\ End(lo, hi, j) <= End(lo, hi, i)
      <4>1. /\ End(lo, hi, j) \in Int /\ End(lo, hi, j + 1) \in Int
            /\ lo - 1 <= End(lo, hi, j) /\ End(lo, hi, j) < End(lo, hi, j + 1)
        BY <1>1, <3>1, EndStep
      <4> QED
        BY <3>1, <4>1
    <3>4. PICK d \in Int : d = End(lo, hi, j)
      BY <3>3
    <3>5. PICK e \in Int : e = End(lo, hi, i)
      BY <3>3
    <3>6. PICK a \in Int : a = d + 1
      OBVIOUS
    <3>7. Follows(lo, d, a, e)
      BY <3>3, <3>4, <3>5, <3>6 DEF Follows
    <3>8. Part(lo, d, from, to, v) \o Part(a, e, from, to, v) = Part(lo, e, from, to, v)
      BY <3>7, PartsJoin
    <3> QED
      BY <2>2, <2>3, <3>2, <3>4, <3>5, <3>6, <3>8 DEF Part
  <2>5. CASE ~(i <= q)
    <3>1. i \in q + 1 .. n /\ i \in Nat /\ q <= i /\ q <= j
      BY <1>0, <2>1, <2>5
    <3>2. parts[i] = <<>>
      BY <1>4, <3>1
    <3>3. End(lo, hi, i) = hi /\ End(lo, hi, j) = hi
      BY <1>1a, <3>1
    <3>4. PICK a \in Int, c \in Int : a = Later(lo, from) /\ c = Sooner(hi, to)
      BY DEF Later, Sooner
    <3>5. Run(Rows(a, c, v), a, Span(a, c), v)
      BY RunOfRows
    <3>6. Rows(a, c, v) \o <<>> = Rows(a, c, v)
      BY <3>5, ConcatEmptySeq DEF Run
    <3> QED
      BY <2>2, <2>3, <3>2, <3>3, <3>4, <3>6
  <2> QED
    BY <2>4, <2>5
<1>7. f[n] = g[n]
  <2>1. g = body(g)
    <3>1. g = [i \in 1 .. n |-> g[i]]
      OBVIOUS
    <3>2. ASSUME NEW i \in 1 .. n
          PROVE  g[i] = IF i = 1 THEN parts[i] ELSE g[i - 1] \o parts[i]
      <4> HIDE DEF g, parts
      <4>1. CASE i = 1
        BY <1>5, <4>1
      <4>2. CASE i # 1
        <5>1. i \in 2 .. n
          BY <1>0, <4>2
        <5> QED
          BY <1>6, <4>2, <5>1
      <4> QED
        BY <4>1, <4>2
    <3> HIDE DEF g, parts
    <3> QED
      BY <3>1, <3>2, Zenon
  <2> HIDE DEF g, parts
  <2>2. f = body(f)
    <3>1. \E h : h = body(h)
      BY <2>1
    <3> QED
      BY <3>1, Zenon
  <2> HIDE DEF f
  <2>3. ASSUME NEW i \in 1 .. n
        PROVE  f[i] = IF i = 1 THEN parts[i] ELSE f[i - 1] \o parts[i]
    <3>1. f[i] = body(f)[i]
      BY <2>2, Zenon
    <3> QED
      BY <3>1, Zenon
  <2>4. PICK k \in Nat : k = 1
    OBVIOUS
  <2>5. f[k] = g[k]
    <3>1. 1 \in 1 .. n
      BY <1>0
    <3> QED
      BY <1>5, <2>3, <2>4, <3>1
  <2>6. \A i \in k + 1 .. n : f[i - 1] = g[i - 1] => f[i] = g[i]
    <3>1. TAKE i \in k + 1 .. n
    <3>2. i \in 2 .. n /\ i \in 1 .. n /\ i # 1
      BY <1>0, <2>4
    <3>3. f[i] = f[i - 1] \o parts[i]
      BY <2>3, <3>2
    <3>4. g[i] = g[i - 1] \o parts[i]
      BY <1>6, <3>2
    <3> QED
      BY <3>3, <3>4
  <2>7. n \in Nat /\ n \in k .. n
    BY <1>0, <2>4
  <2>8. \A i \in k .. n : f[i] = g[i]
    BY <2>5, <2>6, <2>7, SameAlong
  <2> QED
    BY <2>7, <2>8
<1>8. g[n] = Rows(Later(lo, from), Sooner(hi, to), v)
  <2>1. End(lo, hi, n) = hi
    BY <1>0, <1>1, <1>1a
  <2>2. n \in 1 .. n
    BY <1>0
  <2> QED
    BY <2>1, <2>2
<1> HIDE DEF f, g
<1> QED
  BY <1>2, <1>7, <1>8

-----------------------------------------------------------------------------
(* What the files hold, and what a call that replaces them has done so far. *)

Locals == {"at", "key", "start", "until", "using", "fresh", "data", "next"}

\* What the argument needs of the types.
LocalsStand(p) == /\ DOMAIN call[p] = Locals
                  /\ call[p].at \in Phase
                  /\ call[p].key \in Key
                  /\ call[p].next \in Nat
                  /\ call[p].fresh \in BOOLEAN
                  /\ call[p].start \in Time
                  /\ call[p].start <= day

FilesStand == /\ DOMAIN call = Prefetch
              /\ DOMAIN meta = Key /\ DOMAIN map = Key /\ DOMAIN blob = Key
              /\ \A k \in Key : DOMAIN blob[k] = BlobId
              /\ day \in Time /\ avail \in 0 .. MaxTime /\ variants \in Variants

\* A call fetches for a metric with samples after those that its summary tells of.
Ahead(p) == /\ call[p].until \in Time
            /\ call[p].start <= call[p].until
            /\ call[p].key \notin tainted /\ meta[call[p].key] # None
               => meta[call[p].key].to < call[p].until

\* It has gathered one run of rows of the same variants up to the last sample.
Gathered(p) == /\ call[p].until \in Time
               /\ call[p].using \in Variants
               /\ \E lo \in Time :
                     /\ call[p].start <= lo /\ lo <= day /\ lo <= call[p].until
                     /\ call[p].data = Rows(lo, call[p].until, call[p].using)

\* The blobs it has written hold its chunks.
BlobsOf(p) == /\ call[p].next <= MaxBlobs
              /\ \A i \in 0 .. call[p].next - 1 : blob[call[p].key][i] = Chunk(call[p].data, i)

\* What a call has done so far.  Rows kept from broken files are not known.
Sound(p) ==
    /\ call[p].at \notin Replacing \ {"unlink"} => call[p].next = 0
    /\ call[p].at = "fetch" => Ahead(p)
    /\ call[p].at \in Replacing /\ (call[p].fresh \/ call[p].key \notin tainted) => Gathered(p)
    /\ call[p].at \in Replacing => BlobsOf(p)
    /\ call[p].at = "blobEnd" => call[p].next \in BlobId
    /\ call[p].at \in {"mapEnd", "summary", "summaryEnd"} =>
          call[p].next = NumChunks(call[p].data)
    /\ call[p].at \in {"summary", "summaryEnd"} => map[call[p].key] = ChunkMap(call[p].data)

\* The files of a metric hold rows from lo on, those that its summary tells of.
HoldFrom(k, lo) ==
    /\ meta[k] \in [from : Time, to : Time, var : Variants]
    /\ meta[k].from \in Time /\ meta[k].to \in Time /\ meta[k].var \in Variants
    /\ meta[k].from <= lo /\ lo <= day /\ lo <= meta[k].to
    /\ Holds(map[k], blob[k], lo, meta[k].to, meta[k].var)

Agree(k) == \E lo \in Time : HoldFrom(k, lo)

Settled(k) == ~Working(k) /\ k \notin tainted /\ meta[k] # None => Agree(k)

\* The invariant that implies FilesAgree: it also follows each call through the
\* replacement, since the files agree again only when its last step is done.
FilesInv == /\ FilesStand
            /\ \A p \in Prefetch : LocalsStand(p) /\ Sound(p)
            /\ \A k \in Key : Settled(k)

\* The rows of a metric whose files hold them can be read.
LEMMA HeldIsRead ==
  ASSUME NEW m, NEW b, NEW lo \in Time, NEW hi \in Time, NEW v \in Variants, lo <= hi,
         Holds(m, b, lo, hi, v), NEW from, NEW to
  PROVE  CanRead(m, b, from, to)
<1>0. Time \subseteq Int
  BY DEF Time
<1>1. PICK q \in Nat \ {0} : q = NumChunks(Rows(lo, hi, v)) /\ q <= MaxBlobs
  BY <1>0, EndsAre DEF Holds
<1>2. ASSUME NEW i \in 0 .. q - 1
      PROVE  /\ End(lo, hi, i) + 1 \in Time /\ End(lo, hi, i + 1) \in Time
             /\ End(lo, hi, i) \in Int
  <2>1. /\ End(lo, hi, i) \in Int /\ End(lo, hi, i + 1) \in Int
        /\ lo - 1 <= End(lo, hi, i) /\ End(lo, hi, i) < End(lo, hi, i + 1)
        /\ End(lo, hi, i + 1) <= hi
    BY <1>0, <1>1, EndStep
  <2>2. PICK x \in Int, y \in Int : x = End(lo, hi, i) /\ y = End(lo, hi, i + 1)
    BY <2>1
  <2>3. x + 1 \in Time /\ y \in Time
    BY <2>1, <2>2, CacheAssumption DEF Time
  <2> QED
    BY <2>2, <2>3
<1>3. m = [i \in 0 .. q - 1 |-> [from |-> End(lo, hi, i) + 1, to |-> End(lo, hi, i + 1)]]
  BY <1>0, <1>1, ChunkMapIs DEF Holds
<1>4. m \in [0 .. q - 1 -> [from : Time, to : Time]]
  BY <1>2, <1>3
<1>5. m \notin {None, Torn}
  <2>1. q \in 1 .. MaxBlobs
    BY <1>1, CacheAssumption
  <2> QED
    BY <1>4, <2>1, MarksAssumption
<1>6. ASSUME NEW i \in Needed(m, from, to)
      PROVE  b[i] \notin {None, Torn}
  <2>1. i \in 0 .. q - 1
    BY <1>3 DEF Needed
  <2>2. b[i] = Rows(End(lo, hi, i) + 1, End(lo, hi, i + 1), v)
    BY <1>0, <1>1, <2>1, ChunkIs DEF Holds
  <2>3. PICK x \in Int : x = End(lo, hi, i) + 1
    BY <1>0, <1>2, <2>1
  <2>4. PICK y \in Int : y = End(lo, hi, i + 1)
    BY <1>0, <1>2, <2>1
  <2>5. PICK n \in Nat : n = Span(x, y)
    BY RunOfRows
  <2>6. Rows(x, y, v) = [j \in 1 .. n |-> Row(x + j - 1, v)]
    BY <2>5 DEF Rows, Span
  <2>7. \A j \in 1 .. n : Row(x + j - 1, v) \in [t : Int, v : Variants]
    BY DEF Row
  <2>8. Rows(x, y, v) \in Seq([t : Int, v : Variants])
    BY <2>6, <2>7
  <2> QED
    BY <2>2, <2>3, <2>4, <2>8, MarksAssumption
<1> QED
  BY <1>5, <1>6 DEF CanRead

\* The invariant tells what FilesAgree promises.
LEMMA AgreesInFiles ==
  ASSUME FilesInv PROVE FilesAgree
<1> SUFFICES ASSUME NEW k \in Key, ~Working(k), k \notin tainted, meta[k] # None
             PROVE  /\ CanRead(map[k], blob[k], fromMins(1), fromMins(MaxTime))
                    /\ \E lo \in meta[k].from .. day :
                          Contents(k) = Rows(lo, meta[k].to, meta[k].var)
                    /\ map[k] = ChunkMap(Contents(k))
  BY DEF FilesAgree
<1>1. Agree(k)
  BY DEF FilesInv, Settled
<1>2. PICK lo \in Time :
         /\ meta[k].from \in Time /\ meta[k].to \in Time /\ meta[k].var \in Variants
         /\ meta[k].from <= lo /\ lo <= day /\ lo <= meta[k].to
         /\ Holds(map[k], blob[k], lo, meta[k].to, meta[k].var)
  BY <1>1 DEF Agree, HoldFrom
<1>3. PICK hi \in Time : hi = meta[k].to
  BY <1>2
<1>4. PICK v \in Variants : v = meta[k].var
  BY <1>2
<1>5. lo <= hi /\ Holds(map[k], blob[k], lo, hi, v)
  BY <1>2, <1>3, <1>4
<1>6. CanRead(map[k], blob[k], fromMins(1), fromMins(MaxTime))
  BY <1>5, HeldIsRead
<1>7. Contents(k) = Rows(lo, hi, v)
  <2>1. MaxTime \in Int /\ 1 \in Int /\ lo \in Int /\ hi \in Int
    BY CacheAssumption DEF Time
  <2>1a. fromMins(1) \in Int /\ fromMins(MaxTime) \in Int
    BY <2>1, WholeMinutes
  <2>2. ReadRows(map[k], blob[k], fromMins(1), fromMins(MaxTime))
          = Rows(Later(lo, 1), Sooner(hi, MaxTime), v)
    BY <1>5, <2>1, <2>1a, ReadIs
  <2>3. Later(lo, 1) = lo /\ Sooner(hi, MaxTime) = hi
    BY CacheAssumption DEF Time, Later, Sooner
  <2> QED
    BY <2>2, <2>3 DEF Contents
<1>8. lo \in meta[k].from .. day
  <2>1. day \in Time
    BY DEF FilesInv, FilesStand
  <2> QED
    BY <1>2, <2>1, CacheAssumption DEF Time
<1>9. map[k] = ChunkMap(Contents(k))
  BY <1>5, <1>7 DEF Holds
<1> QED
  BY <1>3, <1>4, <1>6, <1>7, <1>8, <1>9

\* A call that replaces no files, before and after its step, or only begins to, leaves
\* the files and what is known of them.
LEMMA QuietStep ==
  ASSUME FilesInv, NEW p \in Prefetch, DOMAIN call' = Prefetch,
         \A q \in Prefetch : q # p => call'[q] = call[q],
         LocalsStand(p)', Sound(p)', call[p].at \notin Replacing,
         UNCHANGED <<files, world, tainted>>
  PROVE  FilesInv'
<1>1. FilesStand'
  BY DEF FilesInv, FilesStand, files, world
<1>2. ASSUME NEW q \in Prefetch
      PROVE  LocalsStand(q)' /\ Sound(q)'
  <2>1. CASE q = p
    BY <2>1
  <2>2. CASE q # p
    <3>1. LocalsStand(q) /\ Sound(q) /\ call'[q] = call[q]
      BY <2>2 DEF FilesInv
    <3>2. LocalsStand(q)'
      BY <3>1 DEF LocalsStand, world
    <3>3. Sound(q)'
      BY <3>1 DEF Sound, Ahead, Gathered, BlobsOf, files, world
    <3> QED
      BY <3>2, <3>3
  <2> QED
    BY <2>1, <2>2
<1>3. ASSUME NEW k \in Key
      PROVE  Settled(k)'
  <2>1. Working(k) => Working(k)'
    BY DEF Working
  <2>2. Settled(k)
    BY DEF FilesInv
  <2> QED
    BY <2>1, <2>2 DEF Settled, Agree, HoldFrom, files, world
<1> QED
  BY <1>1, <1>2, <1>3 DEF FilesInv

\* While a call owns the lock, no other one looks at the files.
LEMMA OthersAway ==
  ASSUME IInv, NEW p \in Prefetch, NEW q \in Prefetch, q # p, Owns(p)
  PROVE  call[q].at # "fetch" /\ call[q].at \notin Replacing
  BY DEF IInv, LockHasOneOwner, Owns, Critical

\* A step of a call that owns the lock concerns the files of its metric only.
LEMMA OwnerStep ==
  ASSUME FilesInv, IInv, NEW p \in Prefetch, NEW key \in Key, key = call[p].key, Owns(p),
         DOMAIN call' = Prefetch,
         \A q \in Prefetch : q # p => call'[q] = call[q],
         LocalsStand(p)', Sound(p)', UNCHANGED world,
         DOMAIN meta' = Key, DOMAIN map' = Key, DOMAIN blob' = Key,
         DOMAIN blob'[key] = BlobId,
         \A k \in Key : k # key =>
            /\ meta'[k] = meta[k] /\ map'[k] = map[k] /\ blob'[k] = blob[k]
            /\ k \in tainted' <=> k \in tainted,
         Settled(key)'
  PROVE  FilesInv'
<1> USE DEF files, world
<1>1. FilesStand'
  BY DEF FilesInv, FilesStand
<1>2. ASSUME NEW q \in Prefetch
      PROVE  LocalsStand(q)' /\ Sound(q)'
  <2>1. CASE q = p
    BY <2>1
  <2>2. CASE q # p
    <3>1. LocalsStand(q) /\ Sound(q) /\ call'[q] = call[q]
      BY <2>2 DEF FilesInv
    <3>2. call[q].at # "fetch" /\ call[q].at \notin Replacing
      BY <2>2, OthersAway
    <3>3. LocalsStand(q)'
      BY <3>1 DEF LocalsStand
    <3>4. Sound(q)'
      BY <3>1, <3>2 DEF Sound, Replacing
    <3> QED
      BY <3>3, <3>4
  <2> QED
    BY <2>1, <2>2
<1>3. ASSUME NEW k \in Key, k # key
      PROVE  Settled(k)'
  <2>1. Working(k) => Working(k)'
    BY <1>3 DEF Working
  <2>2. Settled(k)
    BY DEF FilesInv
  <2>3. /\ meta'[k] = meta[k] /\ map'[k] = map[k] /\ blob'[k] = blob[k]
        /\ k \in tainted' <=> k \in tainted
    BY <1>3
  <2>4. Agree(k) => Agree(k)'
    BY <2>3 DEF Agree, HoldFrom
  <2> QED
    BY <2>1, <2>2, <2>3, <2>4 DEF Settled
<1>4. ASSUME NEW k \in Key PROVE Settled(k)'
  <2>1. CASE k = key
    BY <2>1
  <2>2. CASE k # key
    BY <1>3, <2>2
  <2> QED
    BY <2>1, <2>2
<1> QED
  BY <1>1, <1>2, <1>4 DEF FilesInv

\* The death of the process leaves broken what was being replaced.
LEMMA DeathStep ==
  ASSUME FilesInv, Die, UNCHANGED <<files, world>>
  PROVE  FilesInv'
<1> USE DEF files, world
<1>1. FilesStand'
  BY DEF FilesInv, FilesStand, Die
<1>2. ASSUME NEW q \in Prefetch
      PROVE  LocalsStand(q)' /\ Sound(q)'
  <2>1. call'[q] = Idle
    BY DEF Die
  <2>2. LocalsStand(q)'
    BY <2>1, CacheAssumption DEF LocalsStand, Idle, NewCall, Phase, Key, Time, Locals,
                               FilesInv, FilesStand
  <2>3. Sound(q)'
    BY <2>1 DEF Sound, Idle, NewCall, Replacing
  <2> QED
    BY <2>2, <2>3
<1>3. ASSUME NEW k \in Key
      PROVE  Settled(k)'
  <2>1. Settled(k) /\ (k \notin tainted' => k \notin tainted /\ ~Working(k))
    BY DEF FilesInv, Die
  <2>2. Agree(k) => Agree(k)'
    BY DEF Agree, HoldFrom
  <2> QED
    BY <2>1, <2>2 DEF Settled
<1> QED
  BY <1>1, <1>2, <1>3 DEF FilesInv

\* A call that goes on to another phase, its locals as they were.
LEMMA GotoIs ==
  ASSUME FilesInv, NEW p \in Prefetch, NEW phase \in Phase, Goto(p, phase)
  PROVE  /\ DOMAIN call' = Prefetch
         /\ \A q \in Prefetch : q # p => call'[q] = call[q]
         /\ DOMAIN call'[p] = Locals
         /\ call'[p].at = phase
         /\ \A f \in Locals \ {"at"} : call'[p][f] = call[p][f]
<1>1. DOMAIN call = Prefetch /\ DOMAIN call[p] = Locals
  BY DEF FilesInv, FilesStand, LocalsStand
<1>2. call' = [call EXCEPT ![p] = [call[p] EXCEPT !["at"] = phase]]
  BY DEF Goto
<1>3. call'[p] = [call[p] EXCEPT !["at"] = phase]
  BY <1>1, <1>2
<1>4. "at" \in Locals
  BY DEF Locals
<1>5. DOMAIN call' = Prefetch /\ \A q \in Prefetch : q # p => call'[q] = call[q]
  BY <1>1, <1>2
<1>6. /\ DOMAIN call'[p] = Locals /\ call'[p]["at"] = phase
      /\ \A f \in Locals \ {"at"} : call'[p][f] = call[p][f]
  BY <1>1, <1>3, <1>4
<1> QED
  BY <1>5, <1>6

\* The same for the locals by name.
LEMMA GotoKeeps ==
  ASSUME FilesInv, NEW p \in Prefetch, NEW phase \in Phase, Goto(p, phase), day' = day
  PROVE  /\ DOMAIN call' = Prefetch
         /\ \A q \in Prefetch : q # p => call'[q] = call[q]
         /\ call'[p].at = phase
         /\ call'[p].key = call[p].key /\ call'[p].start = call[p].start
         /\ call'[p].until = call[p].until /\ call'[p].using = call[p].using
         /\ call'[p].fresh = call[p].fresh /\ call'[p].data = call[p].data
         /\ call'[p].next = call[p].next
         /\ LocalsStand(p)'
<1>1. /\ DOMAIN call' = Prefetch
      /\ \A q \in Prefetch : q # p => call'[q] = call[q]
      /\ DOMAIN call'[p] = Locals
      /\ call'[p].at = phase
      /\ \A f \in Locals \ {"at"} : call'[p][f] = call[p][f]
  BY GotoIs
<1>2. /\ call'[p].key = call[p].key /\ call'[p].start = call[p].start
      /\ call'[p].until = call[p].until /\ call'[p].using = call[p].using
      /\ call'[p].fresh = call[p].fresh /\ call'[p].data = call[p].data
      /\ call'[p].next = call[p].next
  BY <1>1 DEF Locals
<1>3. LocalsStand(p)'
  BY <1>1, <1>2 DEF LocalsStand, FilesInv
<1> QED
  BY <1>1, <1>2, <1>3

\* A call that ends, or takes up another metric, has gathered and written nothing.
LEMMA FreshIsSound ==
  ASSUME NEW p \in Prefetch, call'[p].at \notin Replacing, call'[p].at # "fetch",
         call'[p].next = 0
  PROVE  Sound(p)'
  BY DEF Sound, Replacing

\* A call that returns has gathered and written nothing.
LEMMA ReturnIs ==
  ASSUME FilesInv, NEW p \in Prefetch, Return(p), day' = day
  PROVE  /\ DOMAIN call' = Prefetch
         /\ \A q \in Prefetch : q # p => call'[q] = call[q]
         /\ call'[p].at = "idle" /\ LocalsStand(p)' /\ Sound(p)'
<1>1. DOMAIN call = Prefetch
  BY DEF FilesInv, FilesStand
<1>2. call'[p] = Idle /\ DOMAIN call' = Prefetch /\ \A q \in Prefetch : q # p => call'[q] = call[q]
  BY <1>1 DEF Return
<1>3. LocalsStand(p)'
  BY <1>2, CacheAssumption DEF LocalsStand, Idle, NewCall, Phase, Key, Time, Locals,
                               FilesInv, FilesStand
<1>4. Sound(p)'
  BY <1>2, FreshIsSound DEF Idle, NewCall, Replacing
<1> QED
  BY <1>2, <1>3, <1>4 DEF Idle, NewCall

\* So has a call that goes on with the next metric.
LEMMA ContinueIs ==
  ASSUME FilesInv, NEW p \in Prefetch, Continue(p), day' = day
  PROVE  /\ DOMAIN call' = Prefetch
         /\ \A q \in Prefetch : q # p => call'[q] = call[q]
         /\ call'[p].at \notin Replacing /\ LocalsStand(p)' /\ Sound(p)'
<1>1. CASE call[p].key < NKeys
  <2>1. DOMAIN call = Prefetch
    BY DEF FilesInv, FilesStand
  <2>2. call' = [call EXCEPT ![p] = [NewCall("look", call[p].start) EXCEPT !.key = call[p].key + 1]]
    BY <1>1 DEF Continue
  <2>3. /\ DOMAIN call' = Prefetch /\ \A q \in Prefetch : q # p => call'[q] = call[q]
        /\ call'[p] = [NewCall("look", call[p].start) EXCEPT !.key = call[p].key + 1]
    BY <2>1, <2>2
  <2>4. /\ DOMAIN call'[p] = Locals
        /\ call'[p].at = "look" /\ call'[p].key = call[p].key + 1 /\ call'[p].next = 0
        /\ call'[p].fresh = FALSE /\ call'[p].start = call[p].start
    BY <2>3 DEF NewCall, Locals
  <2>5. call[p].key + 1 \in Key
    BY <1>1, CacheAssumption DEF FilesInv, LocalsStand, Key
  <2>6. LocalsStand(p)'
    <3>1. call[p].start \in Time /\ call[p].start <= day
      BY DEF LocalsStand, FilesInv
    <3>2. "look" \in Phase /\ 0 \in Nat
      BY DEF Phase, Critical
    <3> QED
      BY <2>4, <2>5, <3>1, <3>2 DEF LocalsStand
  <2>7. Sound(p)'
    BY <2>4, FreshIsSound DEF Replacing
  <2> QED
    BY <2>3, <2>4, <2>6, <2>7 DEF Replacing
<1>2. CASE ~(call[p].key < NKeys)
  BY <1>2, ReturnIs DEF Continue, Replacing
<1> QED
  BY <1>1, <1>2

\* SameAlong of a call before it has anything to look at.
LEMMA EarlyStep ==
  ASSUME FilesInv, NEW p \in Prefetch,
         Updated(p) \/ Enter(p) \/ Locked(p) \/ Skip(p) \/ GotVmws(p)
  PROVE  FilesInv'
<1>1. /\ call[p].at \notin Replacing
      /\ UNCHANGED <<files, world, tainted>> /\ day' = day
  BY DEF Updated, Enter, Locked, Skip, GotVmws, At, Replacing, world
<1>2. CASE Updated(p)
  <2>1. DOMAIN call = Prefetch
    BY DEF FilesInv, FilesStand
  <2>2. /\ call'[p] = NewCall("status", day) /\ DOMAIN call' = Prefetch
        /\ \A q \in Prefetch : q # p => call'[q] = call[q]
    BY <1>2, <2>1 DEF Updated
  <2>3. LocalsStand(p)'
    <3>1. "status" \in Phase /\ 1 \in Key /\ day \in Time /\ day <= day
      BY CacheAssumption DEF Phase, Key, Time, FilesInv, FilesStand
    <3> QED
      BY <1>1, <2>2, <3>1 DEF LocalsStand, NewCall, Locals
  <2>4. Sound(p)'
    BY <2>2, FreshIsSound DEF NewCall, Replacing
  <2> QED
    BY <1>1, <2>2, <2>3, <2>4, QuietStep
<1>3. CASE Enter(p) \/ GotVmws(p)
  <2>1. PICK phase \in {"vmws", "look"} : Goto(p, phase)
    BY <1>3 DEF Enter, GotVmws
  <2>2. phase \in Phase /\ phase \notin Replacing /\ phase # "fetch"
    BY DEF Phase, Critical, Replacing
  <2>3. call[p].next = 0
    BY <1>3 DEF Enter, GotVmws, At, Replacing, FilesInv, Sound
  <2>4. /\ DOMAIN call' = Prefetch /\ \A q \in Prefetch : q # p => call'[q] = call[q]
        /\ call'[p].at = phase /\ call'[p].next = call[p].next /\ LocalsStand(p)'
    BY <1>1, <2>1, <2>2, GotoKeeps
  <2>5. Sound(p)'
    BY <2>2, <2>3, <2>4, FreshIsSound
  <2> QED
    BY <1>1, <2>4, <2>5, QuietStep
<1>4. CASE Locked(p) \/ Skip(p)
  <2>1. Return(p)
    BY <1>4 DEF Locked, Skip
  <2> QED
    BY <1>1, <2>1, ReturnIs, QuietStep
<1> QED
  BY <1>2, <1>3, <1>4

\* SameAlong that give the metric up.
LEMMA GiveUpStep ==
  ASSUME FilesInv, NEW p \in Prefetch, Continue(p), call[p].at \notin Replacing,
         UNCHANGED <<files, world, tainted>>
  PROVE  FilesInv'
<1>1. day' = day
  BY DEF world
<1> QED
  BY <1>1, ContinueIs, QuietStep

\* A rejection ends the process, or leaves the call where it is.
LEMMA RejectedStep ==
  ASSUME FilesInv, NEW p \in Prefetch, Rejected(p)
  PROVE  FilesInv'
<1>1. CASE subscribed
  BY <1>1, DeathStep DEF Rejected
<1>2. CASE ~subscribed
  <2>1. /\ Goto(p, "rejected") /\ UNCHANGED <<files, world, tainted>> /\ day' = day
        /\ call[p].at \in {"vmws", "look"}
    BY <1>2 DEF Rejected, At, world
  <2>2. "rejected" \in Phase /\ "rejected" \notin Replacing
    BY DEF Phase, Critical, Replacing
  <2>3. /\ DOMAIN call' = Prefetch /\ \A q \in Prefetch : q # p => call'[q] = call[q]
        /\ call'[p].at = "rejected" /\ call'[p].next = call[p].next /\ LocalsStand(p)'
    BY <2>1, <2>2, GotoKeeps
  <2>4. call[p].next = 0 /\ call[p].at \notin Replacing
    BY <2>1 DEF FilesInv, Sound, Replacing
  <2>5. Sound(p)'
    BY <2>2, <2>3, <2>4, FreshIsSound
  <2> QED
    BY <2>1, <2>3, <2>4, <2>5, QuietStep
<1> QED
  BY <1>1, <1>2

\* No call replaces files while another one that owns the lock looks at them.
LEMMA NobodyWorks ==
  ASSUME IInv, NEW p \in Prefetch, Owns(p), call[p].at \notin Replacing, NEW k \in Key
  PROVE  ~Working(k)
  BY OthersAway DEF Working

\* The metric is worth a request: there are samples in scope that are not cached.
LEMMA LookStep ==
  ASSUME FilesInv, IInv, NEW p \in Prefetch, Look(p)
  PROVE  FilesInv'
<1>1. /\ UNCHANGED <<files, world, tainted>> /\ day' = day
      /\ call[p].at = "look" /\ call[p].at \notin Replacing /\ Owns(p)
  BY DEF Look, At, world, Replacing, Owns, Critical
<1>2. CASE NothingNew(p)
  BY <1>1, <1>2, GiveUpStep DEF Look
<1>3. CASE ~NothingNew(p)
  <2>1. call' = [call EXCEPT ![p] = [[call[p] EXCEPT !.at = "fetch"] EXCEPT !.until = avail]]
    BY <1>3 DEF Look
  <2>2. DOMAIN call = Prefetch /\ DOMAIN call[p] = Locals
    BY DEF FilesInv, FilesStand, LocalsStand
  <2>3. PICK c : c = [call[p] EXCEPT !.at = "fetch"]
    OBVIOUS
  <2>4. /\ DOMAIN c = Locals /\ c.at = "fetch" /\ c.key = call[p].key /\ c.next = call[p].next
        /\ c.fresh = call[p].fresh /\ c.start = call[p].start
    BY <2>2, <2>3 DEF Locals
  <2>5. call' = [call EXCEPT ![p] = [c EXCEPT !.until = avail]]
    BY <2>1, <2>3
  <2>6. /\ DOMAIN call' = Prefetch /\ \A q \in Prefetch : q # p => call'[q] = call[q]
        /\ call'[p] = [c EXCEPT !.until = avail]
    BY <2>2, <2>5
  <2>7. /\ DOMAIN call'[p] = Locals /\ call'[p].at = "fetch" /\ call'[p].key = call[p].key
        /\ call'[p].next = call[p].next /\ call'[p].fresh = call[p].fresh
        /\ call'[p].start = call[p].start /\ call'[p].until = avail
    BY <2>4, <2>6 DEF Locals
  <2>8. /\ call[p].key \in Key /\ call[p].next = 0 /\ call[p].fresh \in BOOLEAN
        /\ call[p].start \in Time /\ call[p].start <= day /\ avail \in 0 .. MaxTime
    BY <1>1 DEF FilesInv, FilesStand, LocalsStand, Sound, Replacing
  <2>9. LocalsStand(p)'
    BY <1>1, <2>7, <2>8 DEF LocalsStand, Phase, Critical
  <2>10. PICK k \in Key : k = call[p].key
    BY <2>8
  <2>11. avail \in Time /\ call[p].start <= avail /\ (meta[k] # None => ~(meta[k].to >= avail))
    BY <1>3, <2>8, <2>10, CacheAssumption DEF NothingNew, Time
  <2>12. k \notin tainted /\ meta[k] # None => meta[k].to < avail
    <3> SUFFICES ASSUME k \notin tainted, meta[k] # None PROVE meta[k].to < avail
      OBVIOUS
    <3>1. ~Working(k)
      BY <1>1, NobodyWorks
    <3>2. meta[k].to \in Time
      BY <3>1 DEF FilesInv, Settled, Agree, HoldFrom
    <3> QED
      BY <2>11, <3>2 DEF Time
  <2>13. Ahead(p)'
    BY <1>1, <2>7, <2>10, <2>11, <2>12 DEF Ahead, files
  <2>14. Sound(p)'
    BY <2>7, <2>8, <2>13 DEF Sound, Replacing
  <2> QED
    BY <1>1, <2>6, <2>9, <2>14, QuietStep
<1> QED
  BY <1>2, <1>3

\* What a fetch gathers: the cached rows in scope and the rest of the samples,
\* one run without a hole.
LEMMA FetchGathers ==
  ASSUME FilesInv, IInv, NEW p \in Prefetch, Owns(p), call[p].at = "fetch",
         ~Reuse(p) \/ call[p].key \notin tainted
  PROVE  \E lo \in Time :
            /\ call[p].start <= lo /\ lo <= day /\ lo <= call[p].until
            /\ Cached(p) \o Rows(FetchFrom(p), call[p].until, variants)
                 = Rows(lo, call[p].until, variants)
<1>1. PICK start \in Time : start = call[p].start /\ start <= day
  BY DEF FilesInv, LocalsStand
<1>2. PICK until \in Time : until = call[p].until /\ start <= until
  BY <1>1 DEF FilesInv, Sound, Ahead
<1>3. PICK k \in Key : k = call[p].key
  BY DEF FilesInv, LocalsStand
<1>4. CASE ~Reuse(p)
  <2>1. Cached(p) = <<>> /\ FetchFrom(p) = start
    BY <1>1, <1>4 DEF Cached, FetchFrom
  <2>2. start \in Int /\ until \in Int
    BY DEF Time
  <2>3. Run(Rows(start, until, variants), start, Span(start, until), variants)
    BY <2>2, RunOfRows
  <2>4. <<>> \o Rows(start, until, variants) = Rows(start, until, variants)
    BY <2>3, ConcatEmptySeq DEF Run
  <2>5. start <= start
    BY <2>2
  <2> QED
    BY <1>1, <1>2, <2>1, <2>4, <2>5
<1>5. CASE Reuse(p)
  <2>1. meta[k] # None /\ meta[k].var = variants /\ k \notin tainted
    BY <1>3, <1>5 DEF Reuse
  <2>2. ~Working(k)
    BY NobodyWorks DEF Replacing
  <2>3. PICK lo \in Time :
           /\ meta[k].to \in Time /\ lo <= day /\ lo <= meta[k].to
           /\ Holds(map[k], blob[k], lo, meta[k].to, meta[k].var)
    BY <2>1, <2>2 DEF FilesInv, Settled, Agree, HoldFrom
  <2>4. PICK to \in Time : to = meta[k].to
    BY <2>3
  <2>5. to < until
    BY <1>2, <1>3, <2>1, <2>4 DEF FilesInv, Sound, Ahead
  <2>6. PICK v : v = variants
    OBVIOUS
  <2>7. lo \in Int /\ to \in Int /\ start \in Int /\ until \in Int /\ lo <= to
    BY <2>3, <2>4 DEF Time
  <2>8. Cached(p) = ReadRows(map[k], blob[k], fromMins(start), fromMins(to))
    BY <1>1, <1>3, <1>5, <2>4 DEF Cached
  <2>9. Holds(map[k], blob[k], lo, to, v)
    BY <2>1, <2>3, <2>4, <2>6
  <2>10. ReadRows(map[k], blob[k], fromMins(start), fromMins(to))
           = Rows(Later(lo, start), Sooner(to, to), v)
    <3>1. fromMins(start) \in Int /\ fromMins(to) \in Int
      BY <2>7, WholeMinutes
    <3> QED
      BY <2>7, <2>9, <3>1, ReadIs
  <2>11. FetchFrom(p) = Max({start, to + 1})
    BY <1>1, <1>3, <1>5, <2>4 DEF FetchFrom
  <2>12. PICK a \in Int : a = to + 1
    BY <2>7
  <2>13. Max({start, a}) = Later(start, a)
    BY <2>7, <2>12, MaxIs
  <2>14. Later(start, a) = Later(a, start)
    BY <2>7 DEF Later
  <2>15. Sooner(to, to) = Sooner(to, until) /\ Sooner(until, until) = until
    BY <2>5, <2>7 DEF Sooner
  <2>16. Follows(lo, to, a, until)
    BY <2>5, <2>7, <2>12 DEF Follows
  <2>17. Part(lo, to, start, until, v) \o Part(a, until, start, until, v)
           = Part(lo, until, start, until, v)
    BY <2>7, <2>16, PartsJoin
  <2>18. Rows(Later(lo, start), Sooner(to, to), v) \o Rows(Later(start, a), until, v)
           = Rows(Later(lo, start), until, v)
    BY <2>14, <2>15, <2>17 DEF Part
  <2>19. PICK l \in Time : l = Later(lo, start) /\ start <= l /\ l <= day /\ l <= until
    <3>1. day \in Time
      BY DEF FilesInv, FilesStand
    <3>2. Later(lo, start) \in Time /\ start <= Later(lo, start) /\ Later(lo, start) <= day
          /\ Later(lo, start) <= until
      BY <1>1, <1>2, <2>3, <2>4, <2>5, <2>7, <3>1 DEF Later, Time
    <3> QED
      BY <3>2
  <2>20. Cached(p) \o Rows(FetchFrom(p), until, v) = Rows(l, until, v)
    BY <2>8, <2>10, <2>11, <2>12, <2>13, <2>18, <2>19
  <2> QED
    BY <1>1, <1>2, <2>6, <2>19, <2>20
<1> QED
  BY <1>4, <1>5

\* What a call has fetched and not yet written.
LEMMA FetchStep ==
  ASSUME FilesInv, IInv, NEW p \in Prefetch, Fetch(p)
  PROVE  FilesInv'
<1>1. /\ UNCHANGED <<files, world, tainted>> /\ day' = day
      /\ call[p].at = "fetch" /\ call[p].at \notin Replacing /\ Owns(p)
  BY DEF Fetch, At, world, Replacing, Owns, Critical
<1>2. PICK rows : rows = Cached(p) \o Rows(FetchFrom(p), call[p].until, variants)
  OBVIOUS
<1>3. PICK fresh \in BOOLEAN : fresh = ~Reuse(p)
  OBVIOUS
<1>4. call' = [call EXCEPT ![p] = [[[[call[p] EXCEPT !.using = variants] EXCEPT !.fresh = fresh]
                                     EXCEPT !.data = rows] EXCEPT !.at = "unlink"]]
  BY <1>2, <1>3 DEF Fetch
<1>5. DOMAIN call = Prefetch /\ DOMAIN call[p] = Locals
  BY DEF FilesInv, FilesStand, LocalsStand
<1>6. PICK c : c = [call[p] EXCEPT !.using = variants]
  OBVIOUS
<1>7. PICK d : d = [c EXCEPT !.fresh = fresh]
  OBVIOUS
<1>8. PICK e : e = [d EXCEPT !.data = rows]
  OBVIOUS
<1>9. /\ DOMAIN c = Locals /\ c.using = variants /\ c.key = call[p].key
      /\ c.next = call[p].next /\ c.start = call[p].start /\ c.until = call[p].until
  BY <1>5, <1>6 DEF Locals
<1>10. /\ DOMAIN d = Locals /\ d.using = variants /\ d.key = call[p].key /\ d.fresh = fresh
       /\ d.next = call[p].next /\ d.start = call[p].start /\ d.until = call[p].until
  BY <1>7, <1>9 DEF Locals
<1>11. /\ DOMAIN e = Locals /\ e.using = variants /\ e.key = call[p].key /\ e.fresh = fresh
       /\ e.next = call[p].next /\ e.start = call[p].start /\ e.until = call[p].until
       /\ e.data = rows
  BY <1>8, <1>10 DEF Locals
<1>12. call' = [call EXCEPT ![p] = [e EXCEPT !.at = "unlink"]]
  BY <1>4, <1>6, <1>7, <1>8
<1>13. /\ DOMAIN call' = Prefetch /\ \A q \in Prefetch : q # p => call'[q] = call[q]
       /\ call'[p] = [e EXCEPT !.at = "unlink"]
  BY <1>5, <1>12
<1>14. /\ DOMAIN call'[p] = Locals /\ call'[p].using = variants /\ call'[p].key = call[p].key
       /\ call'[p].fresh = fresh /\ call'[p].next = call[p].next
       /\ call'[p].start = call[p].start /\ call'[p].until = call[p].until
       /\ call'[p].data = rows /\ call'[p].at = "unlink"
  BY <1>11, <1>13 DEF Locals
<1>15. /\ call[p].key \in Key /\ call[p].next = 0 /\ call[p].start \in Time
       /\ call[p].start <= day /\ call[p].until \in Time /\ variants \in Variants
  BY <1>1 DEF FilesInv, FilesStand, LocalsStand, Sound, Ahead, Replacing
<1>16. LocalsStand(p)'
  BY <1>1, <1>14, <1>15 DEF LocalsStand, Phase, Critical, Replacing
<1>17. (fresh \/ call[p].key \notin tainted) => Gathered(p)'
  <2> SUFFICES ASSUME fresh \/ call[p].key \notin tainted PROVE Gathered(p)'
    OBVIOUS
  <2>1. PICK lo \in Time : /\ call[p].start <= lo /\ lo <= day /\ lo <= call[p].until
                           /\ rows = Rows(lo, call[p].until, variants)
    BY <1>1, <1>2, <1>3, FetchGathers
  <2> QED
    BY <1>1, <1>14, <1>15, <2>1 DEF Gathered
<1>18. BlobsOf(p)'
  <2>1. call'[p].next = 0 /\ 0 <= MaxBlobs /\ 0 .. 0 - 1 = {}
    BY <1>14, <1>15, CacheAssumption
  <2> QED
    BY <2>1 DEF BlobsOf
<1>19. Sound(p)'
  BY <1>1, <1>14, <1>15, <1>17, <1>18 DEF Sound
<1> QED
  BY <1>1, <1>13, <1>16, <1>19, QuietStep

\* A step that goes on replacing the files of its metric.
LEMMA GoingOn ==
  ASSUME FilesInv, IInv, NEW p \in Prefetch, Owns(p), NEW key \in Key, key = call[p].key,
         DOMAIN call' = Prefetch, \A q \in Prefetch : q # p => call'[q] = call[q],
         LocalsStand(p)', Sound(p)', call'[p].at \in Replacing, call'[p].key = key,
         UNCHANGED <<world, tainted>>,
         DOMAIN meta' = Key, DOMAIN map' = Key, DOMAIN blob' = Key, DOMAIN blob'[key] = BlobId,
         \A k \in Key : k # key =>
            meta'[k] = meta[k] /\ map'[k] = map[k] /\ blob'[k] = blob[k]
  PROVE  FilesInv'
<1>1. Working(key)'
  BY DEF Working
<1>2. Settled(key)'
  BY <1>1 DEF Settled
<1> QED
  BY <1>2, OwnerStep

\* A call that replaces the files of its metric owns the lock.
LEMMA ReplacerOwns ==
  ASSUME NEW p \in Prefetch, call[p].at \in Replacing
  PROVE  Owns(p)
  BY DEF Owns, Critical

\* The old blobs may vanish.
LEMMA UnlinkStep ==
  ASSUME FilesInv, IInv, NEW p \in Prefetch, NEW i \in BlobId, Unlink(p, i)
  PROVE  FilesInv'
<1>1. PICK key \in Key : key = call[p].key
  BY DEF FilesInv, LocalsStand
<1>2. /\ call' = call /\ UNCHANGED <<world, tainted>> /\ meta' = meta /\ map' = map
      /\ call[p].at = "unlink" /\ call[p].at \in Replacing
      /\ blob' = [blob EXCEPT ![key][i] = None]
  BY <1>1 DEF Unlink, At, process, Replacing, WriteBlob
<1>3. /\ DOMAIN call = Prefetch /\ DOMAIN meta = Key /\ DOMAIN map = Key /\ DOMAIN blob = Key
      /\ DOMAIN blob[key] = BlobId /\ LocalsStand(p) /\ Sound(p)
  BY DEF FilesInv, FilesStand
<1>4. /\ DOMAIN blob' = Key /\ DOMAIN blob'[key] = BlobId
      /\ \A k \in Key : k # key => blob'[k] = blob[k]
  BY <1>2, <1>3
<1>5. LocalsStand(p)'
  BY <1>2, <1>3 DEF LocalsStand, world
<1>6. call[p].next = 0
  BY <1>2, <1>3 DEF Sound
<1>7. BlobsOf(p)'
  <2>1. 0 <= MaxBlobs /\ 0 .. 0 - 1 = {}
    BY CacheAssumption
  <2> QED
    BY <1>2, <1>6, <2>1 DEF BlobsOf
<1>8. Sound(p)'
  BY <1>2, <1>3, <1>7 DEF Sound, Gathered, world
<1> QED
  BY <1>1, <1>2, <1>3, <1>4, <1>5, <1>8, ReplacerOwns, GoingOn

\* A step from a phase of the replacement to the next one, that leaves all files
\* but those written alone.
LEMMA NextPhase ==
  ASSUME FilesInv, IInv, NEW p \in Prefetch, call[p].at \in Replacing,
         NEW phase \in Replacing, Goto(p, phase), UNCHANGED <<world, tainted>>
  PROVE  /\ DOMAIN call' = Prefetch /\ \A q \in Prefetch : q # p => call'[q] = call[q]
         /\ LocalsStand(p)' /\ Owns(p)
         /\ call'[p].at = phase
         /\ call'[p].key = call[p].key /\ call'[p].next = call[p].next
         /\ call'[p].data = call[p].data
         /\ (call'[p].fresh \/ call'[p].key \notin tainted') => Gathered(p)'
<1>1. phase \in Phase /\ day' = day /\ tainted' = tainted
  BY DEF Phase, Critical, world
<1>2. /\ DOMAIN call' = Prefetch /\ \A q \in Prefetch : q # p => call'[q] = call[q]
      /\ call'[p].at = phase
      /\ call'[p].key = call[p].key /\ call'[p].start = call[p].start
      /\ call'[p].until = call[p].until /\ call'[p].using = call[p].using
      /\ call'[p].fresh = call[p].fresh /\ call'[p].data = call[p].data
      /\ call'[p].next = call[p].next
      /\ LocalsStand(p)'
  BY <1>1, GotoKeeps
<1>3. (call[p].fresh \/ call[p].key \notin tainted) => Gathered(p)
  BY DEF FilesInv, Sound
<1>4. Gathered(p) => Gathered(p)'
  BY <1>1, <1>2 DEF Gathered
<1> QED
  BY <1>1, <1>2, <1>3, <1>4, ReplacerOwns

\* No blob is written yet.
LEMMA AllUnlinkedStep ==
  ASSUME FilesInv, IInv, NEW p \in Prefetch, AllUnlinked(p)
  PROVE  FilesInv'
<1>1. PICK key \in Key : key = call[p].key
  BY DEF FilesInv, LocalsStand
<1>2. /\ Goto(p, "blob") /\ UNCHANGED <<world, tainted>> /\ UNCHANGED <<meta, map, blob>>
      /\ call[p].at = "unlink" /\ call[p].at \in Replacing /\ "blob" \in Replacing
  BY DEF AllUnlinked, At, files, Replacing
<1>3. /\ DOMAIN call' = Prefetch /\ \A q \in Prefetch : q # p => call'[q] = call[q]
      /\ LocalsStand(p)' /\ Owns(p)
      /\ call'[p].at = "blob"
      /\ call'[p].key = call[p].key /\ call'[p].next = call[p].next
      /\ call'[p].data = call[p].data
      /\ (call'[p].fresh \/ call'[p].key \notin tainted') => Gathered(p)'
  BY <1>2, NextPhase
<1>4. BlobsOf(p)'
  BY <1>2, <1>3 DEF FilesInv, Sound, BlobsOf
<1>5. Sound(p)'
  BY <1>3, <1>4 DEF Sound, Replacing
<1>6. DOMAIN meta = Key /\ DOMAIN map = Key /\ DOMAIN blob = Key /\ DOMAIN blob[key] = BlobId
  BY DEF FilesInv, FilesStand
<1> QED
  BY <1>1, <1>2, <1>3, <1>5, <1>6, GoingOn

\* The blob that is being written is the next one.
LEMMA OpenBlobStep ==
  ASSUME FilesInv, IInv, NEW p \in Prefetch, OpenBlob(p)
  PROVE  FilesInv'
<1>1. PICK key \in Key : key = call[p].key
  BY DEF FilesInv, LocalsStand
<1>2. /\ Goto(p, "blobEnd") /\ UNCHANGED <<world, tainted>> /\ UNCHANGED <<meta, map>>
      /\ call[p].at = "blob" /\ call[p].at \in Replacing /\ "blobEnd" \in Replacing
      /\ call[p].next \in BlobId
      /\ blob' = [blob EXCEPT ![key][call[p].next] = Torn]
  BY <1>1 DEF OpenBlob, At, Replacing, WriteBlob
<1>3. /\ DOMAIN call' = Prefetch /\ \A q \in Prefetch : q # p => call'[q] = call[q]
      /\ LocalsStand(p)' /\ Owns(p)
      /\ call'[p].at = "blobEnd"
      /\ call'[p].key = call[p].key /\ call'[p].next = call[p].next
      /\ call'[p].data = call[p].data
      /\ (call'[p].fresh \/ call'[p].key \notin tainted') => Gathered(p)'
  BY <1>2, NextPhase
<1>4. DOMAIN meta = Key /\ DOMAIN map = Key /\ DOMAIN blob = Key /\ DOMAIN blob[key] = BlobId
  BY DEF FilesInv, FilesStand
<1>5. PICK n \in Nat : n = call[p].next
  BY DEF FilesInv, LocalsStand
<1>6. /\ DOMAIN blob' = Key /\ DOMAIN blob'[key] = BlobId
      /\ \A k \in Key : k # key => blob'[k] = blob[k]
      /\ \A i \in BlobId : i # n => blob'[key][i] = blob[key][i]
  BY <1>2, <1>4, <1>5
<1>7. n <= MaxBlobs /\ \A i \in 0 .. n - 1 : blob[key][i] = Chunk(call[p].data, i)
  BY <1>1, <1>2, <1>5 DEF FilesInv, Sound, BlobsOf
<1>8. \A i \in 0 .. n - 1 : i \in BlobId /\ i # n
  BY <1>7, CacheAssumption DEF BlobId
<1>9. BlobsOf(p)'
  BY <1>1, <1>3, <1>5, <1>6, <1>7, <1>8 DEF BlobsOf
<1>10. Sound(p)'
  BY <1>2, <1>3, <1>9 DEF Sound, Replacing
<1> QED
  BY <1>1, <1>2, <1>3, <1>4, <1>6, <1>10, GoingOn

\* The map is written when all blobs are.
LEMMA OpenMapStep ==
  ASSUME FilesInv, IInv, NEW p \in Prefetch, OpenMap(p)
  PROVE  FilesInv'
<1>1. PICK key \in Key : key = call[p].key
  BY DEF FilesInv, LocalsStand
<1>2. /\ Goto(p, "mapEnd") /\ UNCHANGED <<world, tainted>> /\ UNCHANGED <<meta, blob>>
      /\ call[p].at = "blob" /\ call[p].at \in Replacing /\ "mapEnd" \in Replacing
      /\ call[p].next = NumChunks(call[p].data)
      /\ map' = [map EXCEPT ![key] = Torn]
  BY <1>1 DEF OpenMap, At, Replacing, WriteMap
<1>3. /\ DOMAIN call' = Prefetch /\ \A q \in Prefetch : q # p => call'[q] = call[q]
      /\ LocalsStand(p)' /\ Owns(p)
      /\ call'[p].at = "mapEnd"
      /\ call'[p].key = call[p].key /\ call'[p].next = call[p].next
      /\ call'[p].data = call[p].data
      /\ (call'[p].fresh \/ call'[p].key \notin tainted') => Gathered(p)'
  BY <1>2, NextPhase
<1>4. DOMAIN meta = Key /\ DOMAIN map = Key /\ DOMAIN blob = Key /\ DOMAIN blob[key] = BlobId
  BY DEF FilesInv, FilesStand
<1>5. BlobsOf(p)'
  BY <1>2, <1>3 DEF FilesInv, Sound, BlobsOf
<1>6. Sound(p)'
  BY <1>2, <1>3, <1>5 DEF Sound, Replacing
<1>7. DOMAIN map' = Key /\ \A k \in Key : k # key => map'[k] = map[k]
  BY <1>2, <1>4
<1> QED
  BY <1>1, <1>2, <1>3, <1>4, <1>6, <1>7, GoingOn

\* The map tells of the rows gathered.
LEMMA FillMapStep ==
  ASSUME FilesInv, IInv, NEW p \in Prefetch, FillMap(p)
  PROVE  FilesInv'
<1>1. PICK key \in Key : key = call[p].key
  BY DEF FilesInv, LocalsStand
<1>2. /\ Goto(p, "summary") /\ UNCHANGED <<world, tainted>> /\ UNCHANGED <<meta, blob>>
      /\ call[p].at = "mapEnd" /\ call[p].at \in Replacing /\ "summary" \in Replacing
      /\ map' = [map EXCEPT ![key] = ChunkMap(call[p].data)]
  BY <1>1 DEF FillMap, At, Replacing, WriteMap
<1>3. /\ DOMAIN call' = Prefetch /\ \A q \in Prefetch : q # p => call'[q] = call[q]
      /\ LocalsStand(p)' /\ Owns(p)
      /\ call'[p].at = "summary"
      /\ call'[p].key = call[p].key /\ call'[p].next = call[p].next
      /\ call'[p].data = call[p].data
      /\ (call'[p].fresh \/ call'[p].key \notin tainted') => Gathered(p)'
  BY <1>2, NextPhase
<1>4. DOMAIN meta = Key /\ DOMAIN map = Key /\ DOMAIN blob = Key /\ DOMAIN blob[key] = BlobId
  BY DEF FilesInv, FilesStand
<1>5. BlobsOf(p)' /\ call[p].next = NumChunks(call[p].data)
  BY <1>2, <1>3 DEF FilesInv, Sound, BlobsOf
<1>6. /\ DOMAIN map' = Key /\ \A k \in Key : k # key => map'[k] = map[k]
      /\ map'[key] = ChunkMap(call[p].data)
  BY <1>2, <1>4
<1>7. Sound(p)'
  BY <1>1, <1>2, <1>3, <1>5, <1>6 DEF Sound, Replacing
<1> QED
  BY <1>1, <1>2, <1>3, <1>4, <1>6, <1>7, GoingOn

\* The summary comes last.
LEMMA OpenSummaryStep ==
  ASSUME FilesInv, IInv, NEW p \in Prefetch, OpenSummary(p)
  PROVE  FilesInv'
<1>1. PICK key \in Key : key = call[p].key
  BY DEF FilesInv, LocalsStand
<1>2. /\ Goto(p, "summaryEnd") /\ UNCHANGED <<world, tainted>> /\ UNCHANGED <<map, blob>>
      /\ call[p].at = "summary" /\ call[p].at \in Replacing /\ "summaryEnd" \in Replacing
      /\ meta' = [meta EXCEPT ![key] = Torn]
  BY <1>1 DEF OpenSummary, At, Replacing, WriteSummary
<1>3. /\ DOMAIN call' = Prefetch /\ \A q \in Prefetch : q # p => call'[q] = call[q]
      /\ LocalsStand(p)' /\ Owns(p)
      /\ call'[p].at = "summaryEnd"
      /\ call'[p].key = call[p].key /\ call'[p].next = call[p].next
      /\ call'[p].data = call[p].data
      /\ (call'[p].fresh \/ call'[p].key \notin tainted') => Gathered(p)'
  BY <1>2, NextPhase
<1>4. DOMAIN meta = Key /\ DOMAIN map = Key /\ DOMAIN blob = Key /\ DOMAIN blob[key] = BlobId
  BY DEF FilesInv, FilesStand
<1>5. /\ BlobsOf(p)' /\ call[p].next = NumChunks(call[p].data)
      /\ map[key] = ChunkMap(call[p].data)
  BY <1>1, <1>2, <1>3 DEF FilesInv, Sound, BlobsOf
<1>6. DOMAIN meta' = Key /\ \A k \in Key : k # key => meta'[k] = meta[k]
  BY <1>2, <1>4
<1>7. Sound(p)'
  BY <1>1, <1>2, <1>3, <1>5 DEF Sound, Replacing
<1> QED
  BY <1>1, <1>2, <1>3, <1>4, <1>6, <1>7, GoingOn

\* One more blob holds its chunk.
LEMMA FillBlobStep ==
  ASSUME FilesInv, IInv, NEW p \in Prefetch, FillBlob(p)
  PROVE  FilesInv'
<1>1. PICK key \in Key : key = call[p].key
  BY DEF FilesInv, LocalsStand
<1>2. PICK n \in Nat : n = call[p].next
  BY DEF FilesInv, LocalsStand
<1>3. /\ UNCHANGED <<world, tainted>> /\ UNCHANGED <<meta, map>>
      /\ call[p].at = "blobEnd" /\ call[p].at \in Replacing /\ "blob" \in Replacing
      /\ blob' = [blob EXCEPT ![key][n] = Chunk(call[p].data, n)]
      /\ call' = [call EXCEPT ![p] = [[call[p] EXCEPT !.next = n + 1] EXCEPT !.at = "blob"]]
      /\ tainted' = tainted /\ day' = day
  BY <1>1, <1>2 DEF FillBlob, At, Replacing, WriteBlob, world
<1>4. DOMAIN call = Prefetch /\ DOMAIN call[p] = Locals
  BY DEF FilesInv, FilesStand, LocalsStand
<1>5. PICK c : c = [call[p] EXCEPT !.next = n + 1]
  OBVIOUS
<1>6. /\ DOMAIN c = Locals /\ c.next = n + 1 /\ c.key = call[p].key /\ c.data = call[p].data
      /\ c.start = call[p].start /\ c.until = call[p].until /\ c.using = call[p].using
      /\ c.fresh = call[p].fresh
  BY <1>4, <1>5 DEF Locals
<1>7. call' = [call EXCEPT ![p] = [c EXCEPT !.at = "blob"]]
  BY <1>3, <1>5
<1>8. /\ DOMAIN call' = Prefetch /\ \A q \in Prefetch : q # p => call'[q] = call[q]
      /\ call'[p] = [c EXCEPT !.at = "blob"]
  BY <1>4, <1>7
<1>9. /\ DOMAIN call'[p] = Locals /\ call'[p].next = n + 1 /\ call'[p].key = call[p].key
      /\ call'[p].data = call[p].data
      /\ call'[p].start = call[p].start /\ call'[p].until = call[p].until
      /\ call'[p].using = call[p].using /\ call'[p].fresh = call[p].fresh
      /\ call'[p].at = "blob"
  BY <1>6, <1>8 DEF Locals
<1>10. LocalsStand(p)'
  <2>1. LocalsStand(p) /\ n + 1 \in Nat /\ "blob" \in Phase
    BY DEF FilesInv, Phase, Critical, Replacing
  <2> QED
    BY <1>3, <1>9, <2>1 DEF LocalsStand
<1>11. DOMAIN meta = Key /\ DOMAIN map = Key /\ DOMAIN blob = Key /\ DOMAIN blob[key] = BlobId
  BY DEF FilesInv, FilesStand
<1>12. n \in BlobId /\ \A i \in 0 .. n - 1 : blob[key][i] = Chunk(call[p].data, i)
  BY <1>1, <1>2, <1>3 DEF FilesInv, Sound, BlobsOf
<1>13. /\ DOMAIN blob' = Key /\ DOMAIN blob'[key] = BlobId
       /\ \A k \in Key : k # key => blob'[k] = blob[k]
       /\ \A i \in BlobId : i # n => blob'[key][i] = blob[key][i]
       /\ blob'[key][n] = Chunk(call[p].data, n)
  BY <1>3, <1>11, <1>12
<1>14. /\ n + 1 <= MaxBlobs
       /\ \A i \in 0 .. (n + 1) - 1 : i = n \/ (i \in 0 .. n - 1 /\ i \in BlobId /\ i # n)
  BY <1>12, CacheAssumption DEF BlobId
<1>15. \A i \in 0 .. (n + 1) - 1 : blob'[key][i] = Chunk(call[p].data, i)
  BY <1>12, <1>13, <1>14
<1>16. BlobsOf(p)'
  BY <1>1, <1>9, <1>14, <1>15 DEF BlobsOf
<1>17. (call'[p].fresh \/ call'[p].key \notin tainted') => Gathered(p)'
  <2>1. (call[p].fresh \/ call[p].key \notin tainted) => Gathered(p)
    BY <1>3 DEF FilesInv, Sound
  <2>2. Gathered(p) => Gathered(p)'
    BY <1>3, <1>9 DEF Gathered
  <2> QED
    BY <1>3, <1>9, <2>1, <2>2
<1>18. Sound(p)'
  BY <1>9, <1>16, <1>17 DEF Sound, Replacing
<1>19. call'[p].at \in Replacing /\ call'[p].key = key
  BY <1>1, <1>3, <1>9
<1> QED
  BY <1>1, <1>3, <1>8, <1>10, <1>11, <1>13, <1>18, <1>19, ReplacerOwns, GoingOn

\* The last step of the replacement: the summary tells of the rows the files hold.
LEMMA FillSummaryStep ==
  ASSUME FilesInv, IInv, NEW p \in Prefetch, FillSummary(p)
  PROVE  FilesInv'
<1>1. PICK key \in Key : key = call[p].key
  BY DEF FilesInv, LocalsStand
<1>2. /\ UNCHANGED world /\ UNCHANGED <<map, blob>> /\ Continue(p) /\ day' = day
      /\ call[p].at = "summaryEnd" /\ call[p].at \in Replacing
      /\ meta' = [meta EXCEPT ![key] = [from |-> call[p].start, to |-> call[p].until,
                                        var |-> call[p].using]]
      /\ tainted' = IF call[p].fresh THEN tainted \ {key} ELSE tainted
  BY <1>1 DEF FillSummary, At, Replacing, WriteSummary, world
<1>3. /\ DOMAIN call' = Prefetch /\ \A q \in Prefetch : q # p => call'[q] = call[q]
      /\ LocalsStand(p)' /\ Sound(p)'
  BY <1>2, ContinueIs
<1>4. DOMAIN meta = Key /\ DOMAIN map = Key /\ DOMAIN blob = Key /\ DOMAIN blob[key] = BlobId
  BY DEF FilesInv, FilesStand
<1>5. /\ DOMAIN meta' = Key /\ \A k \in Key : k # key => meta'[k] = meta[k]
      /\ meta'[key] = [from |-> call[p].start, to |-> call[p].until, var |-> call[p].using]
  BY <1>2, <1>4
<1>6. \A k \in Key : k # key => (k \in tainted' <=> k \in tainted)
  BY <1>2
<1>7. /\ map[key] = ChunkMap(call[p].data) /\ NumChunks(call[p].data) <= MaxBlobs
      /\ \A i \in 0 .. NumChunks(call[p].data) - 1 : blob[key][i] = Chunk(call[p].data, i)
  BY <1>1, <1>2 DEF FilesInv, Sound, BlobsOf
<1>8. Settled(key)'
  <2> SUFFICES ASSUME key \notin tainted' PROVE Agree(key)'
    BY DEF Settled
  <2>1. call[p].fresh \/ key \notin tainted
    BY <1>2
  <2>2. Gathered(p)
    BY <1>1, <1>2, <2>1 DEF FilesInv, Sound
  <2>3. PICK lo \in Time : /\ call[p].until \in Time /\ call[p].using \in Variants
                           /\ call[p].start <= lo /\ lo <= day /\ lo <= call[p].until
                           /\ call[p].data = Rows(lo, call[p].until, call[p].using)
    BY <2>2 DEF Gathered
  <2>4. call[p].start \in Time
    BY DEF FilesInv, LocalsStand
  <2>5. Holds(map[key], blob[key], lo, call[p].until, call[p].using)
    BY <1>7, <2>3 DEF Holds
  <2> QED
    BY <1>2, <1>5, <2>3, <2>4, <2>5 DEF Agree, HoldFrom
<1> QED
  BY <1>1, <1>2, <1>3, <1>4, <1>5, <1>6, <1>8, ReplacerOwns, OwnerStep

\* A failure leaves the metric broken.
LEMMA WriteFailsStep ==
  ASSUME FilesInv, IInv, NEW p \in Prefetch, WriteFails(p)
  PROVE  FilesInv'
<1>1. PICK key \in Key : key = call[p].key
  BY DEF FilesInv, LocalsStand
<1>2. /\ UNCHANGED <<files, world>> /\ Continue(p) /\ day' = day
      /\ call[p].at \in Replacing
      /\ tainted' = tainted \cup {key}
      /\ meta' = meta /\ map' = map /\ blob' = blob
  BY <1>1 DEF WriteFails, files, world
<1>3. /\ DOMAIN call' = Prefetch /\ \A q \in Prefetch : q # p => call'[q] = call[q]
      /\ LocalsStand(p)' /\ Sound(p)'
  BY <1>2, ContinueIs
<1>4. DOMAIN meta = Key /\ DOMAIN map = Key /\ DOMAIN blob = Key /\ DOMAIN blob[key] = BlobId
  BY DEF FilesInv, FilesStand
<1>5. Settled(key)'
  BY <1>2 DEF Settled
<1>6. \A k \in Key : k # key => (k \in tainted' <=> k \in tainted)
  BY <1>2
<1> QED
  BY <1>1, <1>2, <1>3, <1>4, <1>5, <1>6, ReplacerOwns, OwnerStep

\* The steps that replace the files of a metric.
LEMMA WriteStepAgrees ==
  ASSUME FilesInv, IInv, NEW p \in Prefetch, WriteStep(p)
  PROVE  FilesInv'
  BY UnlinkStep, AllUnlinkedStep, OpenBlobStep, FillBlobStep, OpenMapStep, FillMapStep,
     OpenSummaryStep, FillSummaryStep, WriteFailsStep DEF WriteStep

\* The steps of a call.
LEMMA CallStepAgrees ==
  ASSUME FilesInv, IInv, NEW p \in Prefetch, Updated(p) \/ CallStep(p)
  PROVE  FilesInv'
<1>1. CASE LookTorn(p) \/ RequestFails(p) \/ FetchUnreadable(p)
  <2>1. Continue(p) /\ call[p].at \notin Replacing /\ UNCHANGED <<files, world, tainted>>
    BY <1>1 DEF LookTorn, RequestFails, FetchUnreadable, At, Replacing
  <2> QED
    BY <2>1, GiveUpStep
<1> QED
  BY <1>1, EarlyStep, RejectedStep, LookStep, FetchStep, WriteStepAgrees DEF CallStep

\* A restarted process begins with at most the initial call.
LEMMA RestartStep ==
  ASSUME FilesInv, IInv, Restart
  PROVE  FilesInv'
<1>1. PICK initial : call' = Calls(initial, day)
  BY DEF Restart
<1>2. UNCHANGED <<files, world, tainted>> /\ day' = day
  BY DEF Restart, world
<1>3. FilesStand'
  BY <1>1, <1>2 DEF FilesInv, FilesStand, files, world, Calls
<1>4. ASSUME NEW q \in Prefetch
      PROVE  LocalsStand(q)' /\ Sound(q)'
  <2>1. PICK at \in {"status", "idle"}, from \in {day, 1} : call'[q] = NewCall(at, from)
    BY <1>1 DEF Calls, Idle
  <2>2. from \in Time /\ from <= day /\ at \in Phase /\ 1 \in Key
    BY CacheAssumption DEF FilesInv, FilesStand, Time, Phase, Key
  <2>3. LocalsStand(q)'
    BY <1>2, <2>1, <2>2 DEF LocalsStand, NewCall, Locals
  <2>4. Sound(q)'
    BY <2>1, FreshIsSound DEF NewCall, Replacing
  <2> QED
    BY <2>3, <2>4
<1>5. ASSUME NEW k \in Key
      PROVE  Settled(k)'
  <2>1. ~Working(k)
    BY DEF Working, Restart, IInv, DeadHoldsNothing, LockHasOneOwner, Owns, Critical
  <2> QED
    BY <1>2, <2>1 DEF FilesInv, Settled, Agree, HoldFrom, files, world
<1> QED
  BY <1>3, <1>4, <1>5 DEF FilesInv

\* The samples and the day move on, and so may the variants.
LEMMA WorldStep ==
  ASSUME FilesInv, UNCHANGED <<call, files, tainted>>,
         day' \in Time, day <= day', avail' \in 0 .. MaxTime, variants' \in Variants
  PROVE  FilesInv'
<1> USE DEF files
<1>1. FilesStand'
  BY DEF FilesInv, FilesStand
<1>2. day \in Time
  BY DEF FilesInv, FilesStand
<1>3. ASSUME NEW t \in Time, t <= day
      PROVE  t <= day'
  BY <1>2, <1>3 DEF Time
<1>4. ASSUME NEW q \in Prefetch
      PROVE  LocalsStand(q)' /\ Sound(q)'
  <2>1. LocalsStand(q) /\ Sound(q)
    BY DEF FilesInv
  <2>2. LocalsStand(q)'
    BY <1>3, <2>1 DEF LocalsStand
  <2>3. Gathered(q) => Gathered(q)'
    BY <1>3 DEF Gathered
  <2>4. Sound(q)'
    BY <2>1, <2>3 DEF Sound, Ahead, BlobsOf
  <2> QED
    BY <2>2, <2>4
<1>5. ASSUME NEW k \in Key
      PROVE  Settled(k)'
  <2>1. Settled(k)
    BY DEF FilesInv
  <2>2. Agree(k) => Agree(k)'
    BY <1>3 DEF Agree, HoldFrom
  <2> QED
    BY <2>1, <2>2 DEF Settled, Working
<1> QED
  BY <1>1, <1>4, <1>5 DEF FilesInv

\* When the process starts for the first time there are no files.
LEMMA FilesBegin == Init => FilesInv
<1> SUFFICES ASSUME Init PROVE FilesInv
  OBVIOUS
<1>1. PICK initial : call = Calls(initial, 1)
  BY DEF Init
<1>2. FilesStand
  BY <1>1, CacheAssumption DEF Init, FilesStand, Calls, Time
<1>3. ASSUME NEW q \in Prefetch
      PROVE  LocalsStand(q) /\ Sound(q)
  <2>1. PICK at \in {"status", "idle"} : call[q] = NewCall(at, 1)
    BY <1>1 DEF Calls, Idle
  <2>2. 1 \in Time /\ 1 <= day /\ at \in Phase /\ 1 \in Key
    BY CacheAssumption DEF Init, Time, Phase, Key
  <2>3. LocalsStand(q)
    BY <2>1, <2>2 DEF LocalsStand, NewCall, Locals
  <2>4. Sound(q)
    BY <2>1 DEF Sound, NewCall, Replacing
  <2> QED
    BY <2>3, <2>4
<1>4. \A k \in Key : Settled(k)
  BY DEF Init, Settled
<1> QED
  BY <1>2, <1>3, <1>4 DEF FilesInv

\* Every step keeps the invariant.
LEMMA FilesKept == IInv /\ FilesInv /\ [Next]_vars => FilesInv'
<1> SUFFICES ASSUME IInv, FilesInv, [Next]_vars PROVE FilesInv'
  OBVIOUS
<1>1. CASE ProcessDies
  BY <1>1, DeathStep DEF ProcessDies
<1>2. CASE NewSample \/ NewDay \/ NewVariants
  <2>1. UNCHANGED <<call, files, tainted>>
    BY <1>2 DEF NewSample, NewDay, NewVariants, process
  <2>2. day' \in Time /\ day <= day'
    BY <1>2, CacheAssumption DEF NewSample, NewDay, NewVariants, Time, FilesInv, FilesStand
  <2>3. avail' \in 0 .. MaxTime
    BY <1>2, CacheAssumption DEF NewSample, NewDay, NewVariants, FilesInv, FilesStand
  <2>4. variants' \in Variants
    BY <1>2 DEF NewSample, NewDay, NewVariants, FilesInv, FilesStand
  <2> QED
    BY <2>1, <2>2, <2>3, <2>4, WorldStep
<1>3. CASE UNCHANGED vars
  <2>1. day <= day /\ UNCHANGED <<call, files, tainted>> /\ UNCHANGED world
    BY <1>3 DEF vars, process, FilesInv, FilesStand, Time
  <2> QED
    BY <2>1, WorldStep DEF world, FilesInv, FilesStand
<1> QED
  BY <1>1, <1>2, <1>3, CallStepAgrees, RestartStep DEF Next

\* The files of a metric that nobody replaces, and that no failure left broken,
\* hold the rows of its summary, without a hole, and its blob map is true.
THEOREM FilesTellTheTruth == Spec => []FilesAgree
<1>1. IInv /\ FilesInv => FilesAgree
  BY AgreesInFiles
<1>2. Init => IInv /\ FilesInv
  BY LockBegins, FilesBegin
<1>3. IInv /\ FilesInv /\ [Next]_vars => (IInv /\ FilesInv)'
  BY LockKept, FilesKept
<1> QED
  BY <1>1, <1>2, <1>3, PTL DEF Spec

-----------------------------------------------------------------------------
(* A request whose files do not change.                                    *)

\* Where a request stands.
ReaderPhase == {"idle", "miss", "summary", "map", "chunks", "hit", "error"}

\* What the argument needs of the types of a request.
ReaderStands ==
    /\ reader.at \in ReaderPhase
    /\ reader.at # "idle" =>
          /\ DOMAIN reader = {"at", "key", "from", "to", "entry", "map", "chunk", "rows",
                              "quiet", "sound"}
          /\ reader.key \in Key /\ reader.from \in Dates /\ reader.to \in Dates
          /\ reader.from <= reader.to
          /\ reader.quiet \in BOOLEAN /\ reader.sound \in BOOLEAN

\* The request reads files that nothing changes and no failure has broken.
Undisturbed == reader.at \notin {"idle", "miss"} /\ reader.quiet /\ reader.sound

\* The first and the last sample that the request is given.
ReadFrom == Beginning(reader.map, reader.from)
ReadTo == Ending(reader.map, reader.to)

\* What such a request has read are the files, up to the chunk it is at.
Exact(lo) ==
    /\ HoldFrom(reader.key, lo)
    /\ reader.at # "error"
    /\ reader.at \in {"summary", "map"} => reader.chunk = 0 /\ reader.rows = <<>>
    /\ reader.at \in {"map", "chunks", "hit"} => reader.entry = meta[reader.key]
    /\ reader.at \in {"chunks", "hit"} => reader.map = map[reader.key]
    /\ reader.at = "chunks" =>
          /\ reader.chunk \in Nat
          /\ reader.chunk <= NumChunks(Rows(lo, meta[reader.key].to, meta[reader.key].var))
          /\ reader.rows = Part(lo, End(lo, meta[reader.key].to, reader.chunk),
                                ReadFrom, ReadTo, meta[reader.key].var)
    /\ reader.at = "hit" =>
          reader.rows = Part(lo, meta[reader.key].to, ReadFrom, ReadTo, meta[reader.key].var)

\* The part of the invariant about such a request.
QuietInv == Undisturbed => \E lo \in Time : Exact(lo)

\* The smallest of some numbers.
LEMMA LeastIs ==
  ASSUME NEW T \in SUBSET Nat, T # {}
  PROVE  Min(T) \in T /\ \A y \in T : Min(T) <= y
<1>1. \E x \in T : \A y \in T : x <= y
  BY LeastNat
<1> QED
  BY <1>1 DEF Min

\* What is read of a chunk, needed or not.
Taken(m, b, F, T, i) == IF i \in Needed(m, F, T) THEN FromChunk(b[i], m[i], F, T) ELSE <<>>

\* What is read of the next chunk goes on where the chunks before it end.
LEMMA PartGoesOn ==
  ASSUME NEW lo \in Int, NEW hi \in Int, NEW v, lo <= hi, NEW m, NEW b, Holds(m, b, lo, hi, v),
         NEW F \in Int, NEW T \in Int, NEW from \in Int, NEW to \in Int,
         MapMeets(m, F, T, from, to), NEW i \in 0 .. NumChunks(Rows(lo, hi, v)) - 1
  PROVE  Part(lo, End(lo, hi, i), from, to, v) \o Taken(m, b, F, T, i)
           = Part(lo, End(lo, hi, i + 1), from, to, v)
<1>1. /\ End(lo, hi, i) \in Int /\ End(lo, hi, i + 1) \in Int
      /\ lo - 1 <= End(lo, hi, i) /\ End(lo, hi, i) < End(lo, hi, i + 1)
  BY EndStep
<1>2. PICK d \in Int : d = End(lo, hi, i)
  BY <1>1
<1>3. PICK e \in Int : e = End(lo, hi, i + 1)
  BY <1>1
<1>4. PICK a \in Int : a = d + 1
  OBVIOUS
<1>5. Follows(lo, d, a, e)
  BY <1>1, <1>2, <1>3, <1>4 DEF Follows
<1>6. Part(lo, d, from, to, v) \o Part(a, e, from, to, v) = Part(lo, e, from, to, v)
  BY <1>5, PartsJoin
<1>7. Taken(m, b, F, T, i)
        = Rows(Later(End(lo, hi, i) + 1, from), Sooner(End(lo, hi, i + 1), to), v)
  BY PartIs DEF Taken
<1> QED
  BY <1>2, <1>3, <1>4, <1>6, <1>7 DEF Part

\* A chunk that is not needed adds nothing.
LEMMA NotNeeded ==
  ASSUME NEW lo \in Int, NEW hi \in Int, NEW w, lo <= hi, NEW m, m = ChunkMap(Rows(lo, hi, w)),
         NEW F, NEW T, NEW from \in Int, NEW to \in Int, MapMeets(m, F, T, from, to),
         NEW v, NEW n \in Nat, n = NumChunks(Rows(lo, hi, w)),
         NEW i \in Nat, i < n, i \notin Needed(m, F, T)
  PROVE  Part(lo, End(lo, hi, i), from, to, v) = Part(lo, End(lo, hi, i + 1), from, to, v)
<1>1. i \in 0 .. n - 1
  OBVIOUS
<1>2. /\ End(lo, hi, i) \in Int /\ End(lo, hi, i + 1) \in Int
      /\ lo - 1 <= End(lo, hi, i) /\ End(lo, hi, i) < End(lo, hi, i + 1)
  BY <1>1, EndStep
<1>3. PICK d \in Int : d = End(lo, hi, i)
  BY <1>2
<1>4. PICK e \in Int : e = End(lo, hi, i + 1)
  BY <1>2
<1>5. m = [j \in 0 .. n - 1 |-> [from |-> End(lo, hi, j) + 1, to |-> End(lo, hi, j + 1)]]
  BY ChunkMapIs
<1>6. m[i].from = d + 1 /\ m[i].to = e /\ i \in DOMAIN m
  BY <1>1, <1>3, <1>4, <1>5
<1>7. ~(to >= d + 1 /\ from <= e)
  BY <1>6, NeededIs
<1>8. CASE to <= d
  <2>1. Sooner(d, to) = to /\ Sooner(e, to) = to
    BY <1>2, <1>3, <1>4, <1>8 DEF Sooner
  <2> QED
    BY <1>3, <1>4, <2>1 DEF Part
<1>9. CASE from > e
  <2>1. PICK a \in Int : a = Later(lo, from) /\ e < a
    BY <1>9 DEF Later
  <2>2. PICK x \in Int, y \in Int : x = Sooner(d, to) /\ y = Sooner(e, to) /\ x < a /\ y < a
    BY <1>2, <1>3, <1>4, <2>1 DEF Sooner
  <2>3. Rows(a, x, v) = <<>> /\ Rows(a, y, v) = <<>>
    BY <2>2, RowsNone
  <2> QED
    BY <1>3, <1>4, <2>1, <2>2, <2>3 DEF Part
<1> QED
  BY <1>7, <1>8, <1>9

\* No chunk from c up to chunk i adds anything.
NothingAdded(lo, hi, from, to, v, c, i) ==
    \A a \in c .. i - 1 :
       Part(lo, End(lo, hi, a), from, to, v) = Part(lo, End(lo, hi, a + 1), from, to, v)

\* Then they add nothing together.
LEMMA SamePart ==
  ASSUME NEW lo, NEW hi, NEW from, NEW to, NEW v, NEW c \in Nat, NEW i \in Nat, c <= i,
         NothingAdded(lo, hi, from, to, v, c, i)
  PROVE  Part(lo, End(lo, hi, i), from, to, v) = Part(lo, End(lo, hi, c), from, to, v)
<1> DEFINE f == [j \in c .. i |-> Part(lo, End(lo, hi, j), from, to, v)]
           g == [j \in c .. i |-> Part(lo, End(lo, hi, c), from, to, v)]
<1>1. c \in c .. i /\ i \in c .. i
  OBVIOUS
<1>2. f[c] = g[c]
  BY <1>1
<1>4. ASSUME NEW j \in c + 1 .. i, f[j - 1] = g[j - 1]
      PROVE  f[j] = g[j]
  <2>1. PICK a \in Nat : j = a + 1 /\ a = j - 1
    <3>1. j - 1 \in Nat /\ j = (j - 1) + 1
      OBVIOUS
    <3> QED
      BY <3>1
  <2>2. a \in c .. i /\ j \in c .. i /\ a \in c .. i - 1
    BY <2>1
  <2>4. Part(lo, End(lo, hi, a), from, to, v) = Part(lo, End(lo, hi, a + 1), from, to, v)
    BY <2>2 DEF NothingAdded
  <2>5. f[j] = Part(lo, End(lo, hi, j), from, to, v)
    BY <2>2
  <2>6. f[a] = Part(lo, End(lo, hi, a), from, to, v)
    BY <2>2
  <2>7. g[j] = g[a]
    BY <2>2
  <2> HIDE DEF f, g
  <2> QED
    BY <1>4, <2>1, <2>4, <2>5, <2>6, <2>7
<1>6. \A j \in c + 1 .. i : f[j - 1] = g[j - 1] => f[j] = g[j]
  BY <1>4
<1>5. f[i] = g[i]
  <2>0. PICK x, y : /\ x = f /\ y = g /\ x[c] = y[c]
                    /\ \A j \in c + 1 .. i : x[j - 1] = y[j - 1] => x[j] = y[j]
    <3> HIDE DEF f, g
    <3> QED
      BY <1>2, <1>6
  <2> HIDE DEF f, g
  <2>1. \A j \in c .. i : x[j] = y[j]
    BY <2>0, SameAlong
  <2>2. \A j \in c .. i : f[j] = g[j]
    BY <2>0, <2>1
  <2> QED
    BY <1>1, <2>2
<1> QED
  BY <1>1, <1>5

\* Chunks that are not needed add nothing.
LEMMA NoneNeeded ==
  ASSUME NEW lo \in Int, NEW hi \in Int, NEW w, lo <= hi, NEW m, m = ChunkMap(Rows(lo, hi, w)),
         NEW F, NEW T, NEW from \in Int, NEW to \in Int, MapMeets(m, F, T, from, to),
         NEW v, NEW c \in Nat, NEW i \in Nat, c <= i, i <= NumChunks(Rows(lo, hi, w)),
         \A j \in c .. i - 1 : j \notin Needed(m, F, T)
  PROVE  Part(lo, End(lo, hi, i), from, to, v) = Part(lo, End(lo, hi, c), from, to, v)
<1>1. PICK n \in Nat : n = NumChunks(Rows(lo, hi, w))
  BY EndsAre
<1>2. ASSUME NEW a \in c .. i - 1
      PROVE  Part(lo, End(lo, hi, a), from, to, v) = Part(lo, End(lo, hi, a + 1), from, to, v)
  <2>1. a \in Nat /\ a < n /\ a \notin Needed(m, F, T)
    BY <1>1
  <2> QED
    BY <1>1, <2>1, NotNeeded
<1>3. NothingAdded(lo, hi, from, to, v, c, i)
  BY <1>2 DEF NothingAdded
<1> QED
  BY <1>3, SamePart

\* The fields of a request.
Fields == {"at", "key", "from", "to", "entry", "map", "chunk", "rows", "quiet", "sound"}

\* Time never goes back.
LEMMA DayGrows == ASSUME FilesStand, [Next]_vars PROVE day <= day'
<1>1. day \in Int
  BY CacheAssumption DEF FilesStand, Time
<1>2. CASE \E p \in Prefetch : Updated(p) \/ CallStep(p)
  <2>1. PICK p \in Prefetch : Updated(p) \/ CallStep(p)
    BY <1>2
  <2>2. CASE WriteStep(p)
    BY <1>1, <2>2 DEF WriteStep, Unlink, AllUnlinked, OpenBlob, FillBlob, OpenMap, FillMap,
       OpenSummary, FillSummary, WriteFails, world
  <2> QED
    BY <1>1, <2>1, <2>2 DEF Updated, CallStep, Enter, Locked, Skip, GotVmws, Rejected, Look,
       LookTorn, RequestFails, Fetch, FetchUnreadable, world
<1>3. CASE UNCHANGED vars
  BY <1>1, <1>3 DEF vars, world
<1>4. CASE NewDay
  BY <1>1, <1>4 DEF NewDay
<1>5. CASE ProcessDies \/ Restart
  <2>1. UNCHANGED world
    BY <1>5 DEF ProcessDies, Restart
  <2> QED
    BY <1>1, <2>1 DEF world
<1>6. CASE NewSample \/ NewVariants
  BY <1>1, <1>6 DEF NewSample, NewVariants
<1> QED
  BY <1>2, <1>3, <1>4, <1>5, <1>6 DEF Next

\* What the request has read stays true while nothing changes its files.
LEMMA ExactStays ==
  ASSUME NEW lo \in Time, FilesStand, Exact(lo), NEW k \in Key, k = reader.key,
         meta'[k] = meta[k], map'[k] = map[k], blob'[k] = blob[k], day <= day', day' \in Int,
         reader'.at = reader.at, reader'.key = k, reader'.from = reader.from,
         reader'.to = reader.to, reader'.entry = reader.entry, reader'.map = reader.map,
         reader'.chunk = reader.chunk, reader'.rows = reader.rows
  PROVE  Exact(lo)'
<1>1. HoldFrom(k, lo) /\ lo \in Int /\ day \in Int
  BY CacheAssumption DEF Exact, FilesStand, Time
<1>2. lo <= day'
  BY <1>1 DEF HoldFrom
<1>3. reader'.key = reader.key
  OBVIOUS
<1>4. HoldFrom(reader.key, lo)'
  BY <1>1, <1>2, <1>3 DEF HoldFrom
<1>5. meta'[reader'.key] = meta[reader.key] /\ map'[reader'.key] = map[reader.key]
  OBVIOUS
<1>6. ReadFrom' = ReadFrom /\ ReadTo' = ReadTo
  BY DEF ReadFrom, ReadTo
<1> QED
  BY <1>4, <1>5, <1>6 DEF Exact

\* What stands of a request.
LEMMA RequestStands ==
  ASSUME ReaderStands, reader.at \notin {"idle"}
  PROVE  /\ DOMAIN reader = Fields
         /\ reader.key \in Key /\ reader.from \in Dates /\ reader.to \in Dates
         /\ reader.from <= reader.to
         /\ reader.quiet \in BOOLEAN /\ reader.sound \in BOOLEAN
  BY DEF ReaderStands, Fields

\* The numbers of a request.
LEMMA RangeIs ==
  ASSUME ReaderStands, reader.at \notin {"idle"}
  PROVE  /\ reader.from \in Int /\ reader.to \in Int /\ reader.from <= reader.to
         /\ ReadFrom \in Int /\ ReadTo \in Int /\ 1 <= ReadFrom /\ 1 <= ReadTo
         /\ ReadFrom \in FirstOf(reader) /\ ReadTo \in LastOf(reader)
         /\ reader.to \div 3 \in Int /\ reader.to \div 3 <= ReadTo
<1>1. reader.from \in Dates /\ reader.to \in Dates /\ reader.from <= reader.to
  BY RequestStands
<1>2. PICK F \in Int, T \in Int : F = reader.from /\ T = reader.to /\ F <= T /\ fromMins(1) <= F
  BY <1>1, DatesAssumption
<1>3. PICK m : m = reader.map
  OBVIOUS
<1>4. /\ Beginning(m, F) \in Int /\ Ending(m, T) \in Int
      /\ 1 <= Beginning(m, F) /\ 1 <= Ending(m, T)
      /\ Beginning(m, F) \in {toMins(F), (F + 2) \div 3}
      /\ Ending(m, T) \in {toMins(T), T \div 3}
      /\ T \div 3 \in Int /\ T \div 3 <= Ending(m, T)
  BY <1>2, BoundsAre
<1>5. ReadFrom = Beginning(m, F) /\ ReadTo = Ending(m, T)
  BY <1>2, <1>3 DEF ReadFrom, ReadTo
<1> QED
  BY <1>2, <1>4, <1>5 DEF FirstOf, LastOf

\* The chunks of its map are those of the samples.
LEMMA ReadMeets ==
  ASSUME ReaderStands, reader.at \notin {"idle"}, NEW lo \in Int, NEW hi \in Int, NEW w, lo <= hi,
         reader.map = ChunkMap(Rows(lo, hi, w))
  PROVE  MapMeets(reader.map, reader.from, reader.to, ReadFrom, ReadTo)
<1>1. PICK F \in Int, T \in Int : F = reader.from /\ T = reader.to
  BY RangeIs
<1>2. PICK m : m = reader.map /\ m = ChunkMap(Rows(lo, hi, w))
  OBVIOUS
<1>3. MapMeets(m, F, T, Beginning(m, F), Ending(m, T))
  BY <1>2, BoundsMeet
<1> QED
  BY <1>1, <1>2, <1>3 DEF ReadFrom, ReadTo

\* A summary that tells of rows is neither missing nor torn.
LEMMA HeldIsKnown ==
  ASSUME NEW lo, NEW k, HoldFrom(k, lo)
  PROVE  meta[k] \notin {None, Torn}
  BY MarksAssumption DEF HoldFrom

\* The numbers of what a metric holds.
LEMMA HoldIs ==
  ASSUME NEW lo \in Time, NEW k, HoldFrom(k, lo)
  PROVE  \E hi \in Time, v \in Variants :
            /\ meta[k].to = hi /\ meta[k].var = v /\ lo <= hi
            /\ lo \in Int /\ hi \in Int /\ Holds(map[k], blob[k], lo, hi, v)
  BY CacheAssumption DEF HoldFrom, Time

\* A request begins: its files hold what the summary tells of.
LEMMA RequestStep ==
  ASSUME FilesInv, NEW k \in Key, NEW from \in Dates, NEW to \in Dates, from <= to,
         Request(k, from, to)
  PROVE  ReaderStands' /\ QuietInv'
<1>1. reader' = [at    |-> IF meta[k] = None THEN "miss" ELSE "summary",
                 key   |-> k, from |-> from, to |-> to,
                 entry |-> None, map |-> None, chunk |-> 0, rows |-> <<>>,
                 quiet |-> ~Working(k), sound |-> k \notin tainted]
      /\ UNCHANGED vars
  BY DEF Request
<1>2. ReaderStands'
  BY <1>1 DEF ReaderStands, ReaderPhase
<1>3. ASSUME Undisturbed' PROVE \E lo \in Time : Exact(lo)'
  <2>1. meta[k] # None /\ ~Working(k) /\ k \notin tainted
    BY <1>1, <1>3 DEF Undisturbed
  <2>2. PICK lo \in Time : HoldFrom(k, lo)
    BY <2>1 DEF FilesInv, Settled, Agree
  <2>3. /\ meta' = meta /\ map' = map /\ blob' = blob /\ day' = day
        /\ reader'.key = k /\ reader'.at = "summary" /\ reader'.chunk = 0 /\ reader'.rows = <<>>
    BY <1>1, <2>1 DEF vars, files, world
  <2>4. HoldFrom(reader.key, lo)'
    BY <2>2, <2>3 DEF HoldFrom
  <2>5. Exact(lo)'
    BY <2>3, <2>4 DEF Exact
  <2> QED
    BY <2>5
<1> QED
  BY <1>2, <1>3 DEF QuietInv

\* The summary is read.
LEMMA GetSummaryStep ==
  ASSUME FilesInv, ReaderStands, QuietInv, GetSummary
  PROVE  ReaderStands' /\ QuietInv'
<1>1. /\ reader.at = "summary"
      /\ reader' = IF meta[reader.key] = Torn
                   THEN [reader EXCEPT !.at = "error"]
                   ELSE IF fromMins(meta[reader.key].from) <= reader.from
                   THEN [reader EXCEPT !.at = "map", !.entry = meta[reader.key]]
                   ELSE [reader EXCEPT !.at = "miss"]
      /\ meta' = meta /\ map' = map /\ blob' = blob /\ day' = day
  BY DEF GetSummary, Reading, vars, files, world
<1>2. /\ DOMAIN reader = Fields
      /\ reader.key \in Key /\ reader.from \in Dates /\ reader.to \in Dates
      /\ reader.from <= reader.to
      /\ reader.quiet \in BOOLEAN /\ reader.sound \in BOOLEAN
  BY <1>1, RequestStands
<1>3. /\ reader'.key = reader.key /\ reader'.from = reader.from /\ reader'.to = reader.to
      /\ reader'.chunk = reader.chunk /\ reader'.rows = reader.rows
      /\ reader'.quiet = reader.quiet /\ reader'.sound = reader.sound
      /\ DOMAIN reader' = Fields /\ reader'.at \in {"error", "map", "miss"}
      /\ reader'.at = "map" => reader'.entry = meta[reader.key]
      /\ reader'.at = "error" => meta[reader.key] = Torn
  BY <1>1, <1>2 DEF Fields
<1>4. ReaderStands'
  BY <1>2, <1>3 DEF ReaderStands, ReaderPhase, Fields
<1>5. ASSUME Undisturbed' PROVE \E lo \in Time : Exact(lo)'
  <2>1. Undisturbed
    BY <1>1, <1>3, <1>5 DEF Undisturbed
  <2>2. PICK lo \in Time : Exact(lo)
    BY <2>1 DEF QuietInv
  <2>3. HoldFrom(reader.key, lo)'
    BY <1>1, <1>3, <2>2 DEF Exact, HoldFrom
  <2>4. meta[reader.key] # Torn
    BY <1>2, <2>2, HeldIsKnown DEF Exact
  <2>5. reader'.at = "map"
    BY <1>3, <1>5, <2>4 DEF Undisturbed
  <2>6. Exact(lo)'
    BY <1>1, <1>3, <2>2, <2>3, <2>5 DEF Exact
  <2> QED
    BY <2>6
<1> QED
  BY <1>4, <1>5 DEF QuietInv

\* The map is read.
LEMMA GetMapStep ==
  ASSUME ReaderStands, QuietInv, GetMap
  PROVE  ReaderStands' /\ QuietInv'
<1>1. /\ reader.at = "map"
      /\ reader' = IF map[reader.key] \in {None, Torn}
                   THEN [reader EXCEPT !.at = "error"]
                   ELSE [reader EXCEPT !.at = "chunks", !.map = map[reader.key]]
      /\ meta' = meta /\ map' = map /\ blob' = blob /\ day' = day
  BY DEF GetMap, Reading, vars, files, world
<1>2. /\ DOMAIN reader = Fields
      /\ reader.key \in Key /\ reader.from \in Dates /\ reader.to \in Dates
      /\ reader.from <= reader.to
      /\ reader.quiet \in BOOLEAN /\ reader.sound \in BOOLEAN
  BY <1>1, RequestStands
<1>3. /\ reader'.key = reader.key /\ reader'.from = reader.from /\ reader'.to = reader.to
      /\ reader'.chunk = reader.chunk /\ reader'.rows = reader.rows
      /\ reader'.quiet = reader.quiet /\ reader'.sound = reader.sound
      /\ reader'.entry = reader.entry
      /\ DOMAIN reader' = Fields /\ reader'.at \in {"error", "chunks"}
      /\ reader'.at = "chunks" => reader'.map = map[reader.key]
      /\ reader'.at = "error" => map[reader.key] \in {None, Torn}
  BY <1>1, <1>2 DEF Fields
<1>4. ReaderStands'
  BY <1>2, <1>3 DEF ReaderStands, ReaderPhase, Fields
<1>5. ASSUME Undisturbed' PROVE \E lo \in Time : Exact(lo)'
  <2>1. Undisturbed
    BY <1>1, <1>3, <1>5 DEF Undisturbed
  <2>2. PICK lo \in Time : Exact(lo)
    BY <2>1 DEF QuietInv
  <2>3. HoldFrom(reader.key, lo) /\ HoldFrom(reader.key, lo)'
    BY <1>1, <1>3, <2>2 DEF Exact, HoldFrom
  <2>4. PICK hi \in Time, v \in Variants :
            /\ meta[reader.key].to = hi /\ meta[reader.key].var = v /\ lo <= hi
            /\ lo \in Int /\ hi \in Int
            /\ Holds(map[reader.key], blob[reader.key], lo, hi, v)
    BY <2>3, HoldIs
  <2>5. map[reader.key] \notin {None, Torn}
    BY <2>4, HeldIsRead DEF CanRead
  <2>6. reader'.at = "chunks"
    BY <1>3, <2>5
  <2>7. reader.chunk = 0 /\ reader.rows = <<>> /\ reader.entry = meta[reader.key]
    BY <1>1, <2>2 DEF Exact
  <2>8. reader'.rows = Part(lo, End(lo, hi, 0), ReadFrom', ReadTo', v)
    <3>1. PICK e \in Int : e = lo - 1
      BY <2>4
    <3>2. End(lo, hi, 0) = e
      BY <2>4, <3>1, EndsAre
    <3>2a. PICK from \in Int, to \in Int : from = ReadFrom' /\ to = ReadTo'
      <4>1. PICK m : m = reader'.map
        OBVIOUS
      <4>1a. PICK F \in Int, T \in Int : /\ F = reader'.from /\ T = reader'.to
                                        /\ F <= T /\ fromMins(1) <= F
        BY <1>2, <1>3, DatesAssumption
      <4>2. Beginning(m, F) \in Int /\ Ending(m, T) \in Int
        BY <4>1a, BoundsAre
      <4> QED
        BY <4>1, <4>1a, <4>2 DEF ReadFrom, ReadTo
    <3>3. PICK a \in Int, c \in Int : a = Later(lo, from) /\ c = Sooner(e, to)
      BY <2>4, <3>1 DEF Later, Sooner
    <3>4. c < a
      BY <2>4, <3>1, <3>3 DEF Later, Sooner
    <3>5. Rows(a, c, v) = <<>>
      BY <3>4, RowsNone
    <3> QED
      BY <1>3, <2>7, <3>2, <3>2a, <3>3, <3>5 DEF Part
  <2>9. 0 <= NumChunks(Rows(lo, hi, v))
    BY <2>4, EndsAre
  <2>10. /\ meta'[reader'.key].to = hi /\ meta'[reader'.key].var = v
         /\ reader'.chunk = 0 /\ reader'.entry = meta'[reader'.key]
         /\ reader'.map = map'[reader'.key]
    BY <1>1, <1>3, <2>4, <2>6, <2>7
  <2>11. Exact(lo)'
    BY <1>3, <2>3, <2>6, <2>8, <2>9, <2>10 DEF Exact
  <2> QED
    BY <2>11
<1> QED
  BY <1>4, <1>5 DEF QuietInv

\* The chunks of the map that are still to be opened are numbers.
LEMMA RemainingAre ==
  ASSUME NEW lo \in Int, NEW hi \in Int, NEW v, lo <= hi,
         reader.map = ChunkMap(Rows(lo, hi, v))
  PROVE  /\ Remaining \in SUBSET Nat
         /\ Remaining \subseteq Needed(reader.map, reader.from, reader.to)
         /\ Needed(reader.map, reader.from, reader.to) \subseteq 0 .. NumChunks(Rows(lo, hi, v)) - 1
         /\ \A i \in Needed(reader.map, reader.from, reader.to) :
               i >= reader.chunk => i \in Remaining
         /\ \A i \in Remaining : i >= reader.chunk
<1>1. DOMAIN reader.map = 0 .. NumChunks(Rows(lo, hi, v)) - 1
  BY ChunkMapIs
<1>2. Needed(reader.map, reader.from, reader.to) \subseteq 0 .. NumChunks(Rows(lo, hi, v)) - 1
  BY <1>1 DEF Needed
<1> QED
  BY <1>2 DEF Remaining

\* The next chunk.
LEMMA NextChunk ==
  ASSUME NEW lo \in Int, NEW hi \in Int, NEW v, lo <= hi,
         reader.map = ChunkMap(Rows(lo, hi, v)), reader.chunk \in Nat, Remaining # {}
  PROVE  \E i \in 0 .. NumChunks(Rows(lo, hi, v)) - 1 :
            /\ i = Min(Remaining) /\ i \in Nat /\ reader.chunk <= i
            /\ i \in Needed(reader.map, reader.from, reader.to)
            /\ i \in Remaining
            /\ \A j \in reader.chunk .. i - 1 : j \notin Needed(reader.map, reader.from, reader.to)
<1>1. /\ Remaining \in SUBSET Nat
      /\ Remaining \subseteq Needed(reader.map, reader.from, reader.to)
      /\ Needed(reader.map, reader.from, reader.to) \subseteq 0 .. NumChunks(Rows(lo, hi, v)) - 1
      /\ \A i \in Needed(reader.map, reader.from, reader.to) :
            i >= reader.chunk => i \in Remaining
      /\ \A i \in Remaining : i >= reader.chunk
  BY RemainingAre
<1>2. Min(Remaining) \in Remaining /\ \A y \in Remaining : Min(Remaining) <= y
  BY <1>1, LeastIs
<1>3. PICK i \in Remaining : i = Min(Remaining) /\ \A y \in Remaining : i <= y
  BY <1>2
<1>4. i \in Nat
  BY <1>1
<1>5. ASSUME NEW j \in reader.chunk .. i - 1, j \in Needed(reader.map, reader.from, reader.to)
      PROVE  FALSE
  <2>1. j \in Remaining /\ j < i
    BY <1>1, <1>4, <1>5
  <2> QED
    BY <1>3, <1>4, <2>1
<1>6. i \in 0 .. NumChunks(Rows(lo, hi, v)) - 1 /\ reader.chunk <= i
  BY <1>1, <1>4
<1> QED
  BY <1>1, <1>3, <1>4, <1>5, <1>6

\* A chunk is read.
LEMMA GetChunkStep ==
  ASSUME ReaderStands, QuietInv, GetChunk
  PROVE  ReaderStands' /\ QuietInv'
<1>1. PICK i : i = Min(Remaining)
  OBVIOUS
<1>2. /\ reader.at = "chunks" /\ Remaining # {}
      /\ reader' = IF blob[reader.key][i] \in {None, Torn}
                   THEN [reader EXCEPT !.at = "error"]
                   ELSE [reader EXCEPT !.chunk = i + 1,
                           !.rows = reader.rows \o FromChunk(blob[reader.key][i], reader.map[i],
                                                             reader.from, reader.to)]
      /\ meta' = meta /\ map' = map /\ blob' = blob /\ day' = day
  BY <1>1 DEF GetChunk, Reading, vars, files, world
<1>3. /\ DOMAIN reader = Fields
      /\ reader.key \in Key /\ reader.from \in Dates /\ reader.to \in Dates
      /\ reader.from <= reader.to
      /\ reader.quiet \in BOOLEAN /\ reader.sound \in BOOLEAN
  BY <1>2, RequestStands
<1>4. /\ reader'.key = reader.key /\ reader'.from = reader.from /\ reader'.to = reader.to
      /\ reader'.quiet = reader.quiet /\ reader'.sound = reader.sound
      /\ reader'.entry = reader.entry /\ reader'.map = reader.map
      /\ DOMAIN reader' = Fields /\ reader'.at \in {"error", "chunks"}
      /\ reader'.at = "error" => /\ blob[reader.key][i] \in {None, Torn}
                                 /\ reader'.chunk = reader.chunk
      /\ reader'.at = "chunks" =>
            /\ reader'.chunk = i + 1
            /\ reader'.rows = reader.rows \o FromChunk(blob[reader.key][i], reader.map[i],
                                                       reader.from, reader.to)
  BY <1>2, <1>3 DEF Fields
<1>5. ReaderStands'
  BY <1>3, <1>4 DEF ReaderStands, ReaderPhase, Fields
<1>6. ASSUME Undisturbed' PROVE \E lo \in Time : Exact(lo)'
  <2>1. Undisturbed
    BY <1>2, <1>4, <1>6 DEF Undisturbed
  <2>2. PICK lo \in Time : Exact(lo)
    BY <2>1 DEF QuietInv
  <2>3. HoldFrom(reader.key, lo) /\ HoldFrom(reader.key, lo)'
    BY <1>2, <1>4, <2>2 DEF Exact, HoldFrom
  <2>4. PICK hi \in Time, v \in Variants :
            /\ meta[reader.key].to = hi /\ meta[reader.key].var = v /\ lo <= hi
            /\ lo \in Int /\ hi \in Int
            /\ Holds(map[reader.key], blob[reader.key], lo, hi, v)
    BY <2>3, HoldIs
  <2>5. /\ reader.entry = meta[reader.key] /\ reader.map = map[reader.key]
        /\ reader.chunk \in Nat
        /\ reader.rows = Part(lo, End(lo, hi, reader.chunk), ReadFrom, ReadTo, v)
    BY <1>2, <2>2, <2>4 DEF Exact
  <2>6. reader.map = ChunkMap(Rows(lo, hi, v))
    BY <2>4, <2>5 DEF Holds
  <2>7. /\ i \in 0 .. NumChunks(Rows(lo, hi, v)) - 1 /\ i \in Nat /\ reader.chunk <= i
        /\ i \in Needed(reader.map, reader.from, reader.to)
        /\ \A j \in reader.chunk .. i - 1 : j \notin Needed(reader.map, reader.from, reader.to)
    BY <1>1, <1>2, <2>4, <2>5, <2>6, NextChunk
  <2>8. PICK from \in Int, to \in Int, F \in Int, T \in Int :
            from = ReadFrom /\ to = ReadTo /\ F = reader.from /\ T = reader.to
    BY <1>2, RangeIs
  <2>8a. ReadFrom' = from /\ ReadTo' = to
    BY <1>4, <2>8 DEF ReadFrom, ReadTo
  <2>8b. MapMeets(reader.map, F, T, from, to)
    BY <1>2, <2>4, <2>6, <2>8, ReadMeets
  <2>9. PICK n \in Nat : n = NumChunks(Rows(lo, hi, v))
    BY <2>4, EndsAre
  <2>10. PICK c \in Nat : c = reader.chunk
    BY <2>5
  <2>11. i \in 0 .. n - 1 /\ i <= n /\ c <= i /\ i + 1 <= n /\ i + 1 \in Nat
    BY <2>7, <2>9, <2>10
  <2>12. CanRead(map[reader.key], blob[reader.key], F, T)
    BY <2>4, HeldIsRead
  <2>13. blob[reader.key][i] \notin {None, Torn}
    BY <2>5, <2>7, <2>8, <2>12 DEF CanRead
  <2>14. reader'.at = "chunks"
    BY <1>4, <2>13
  <2>15. Part(lo, End(lo, hi, i), from, to, v) = Part(lo, End(lo, hi, c), from, to, v)
    <3>1. i <= NumChunks(Rows(lo, hi, v)) /\ c <= i /\ lo <= hi
      BY <2>4, <2>9, <2>11
    <3>2. \A j \in c .. i - 1 : j \notin Needed(reader.map, F, T)
      BY <2>7, <2>8, <2>10
    <3> QED
      BY <2>4, <2>6, <2>7, <2>8b, <3>1, <3>2, NoneNeeded
  <2>16. PICK m, b : /\ m = map[reader.key] /\ b = blob[reader.key] /\ m = reader.map
                     /\ Holds(m, b, lo, hi, v) /\ MapMeets(m, F, T, from, to)
    BY <2>4, <2>5, <2>8b
  <2>16a. Part(lo, End(lo, hi, i), from, to, v) \o Taken(m, b, F, T, i)
            = Part(lo, End(lo, hi, i + 1), from, to, v)
    <3>1. PICK a \in Nat : a = i
      BY <2>7
    <3>2. a \in 0 .. n - 1
      BY <2>11, <3>1
    <3>3. Part(lo, End(lo, hi, a), from, to, v) \o Taken(m, b, F, T, a)
            = Part(lo, End(lo, hi, a + 1), from, to, v)
      <4>1. /\ lo \in Int /\ hi \in Int /\ lo <= hi /\ Holds(m, b, lo, hi, v)
            /\ MapMeets(m, F, T, from, to)
        BY <2>4, <2>16
      <4>2. a \in 0 .. NumChunks(Rows(lo, hi, v)) - 1
        BY <2>9, <3>2
      <4> QED
        BY <4>1, <4>2, PartGoesOn
    <3> QED
      BY <3>1, <3>3
  <2>16b. Taken(m, b, F, T, i) = FromChunk(blob[reader.key][i], reader.map[i], F, T)
    BY <2>7, <2>8, <2>16 DEF Taken
  <2>17. reader'.rows = Part(lo, End(lo, hi, i + 1), from, to, v)
    BY <1>4, <2>5, <2>8, <2>10, <2>14, <2>15, <2>16a, <2>16b
  <2>18. /\ meta'[reader'.key].to = hi /\ meta'[reader'.key].var = v
         /\ reader'.chunk = i + 1 /\ reader'.entry = meta'[reader'.key]
         /\ reader'.map = map'[reader'.key] /\ ReadFrom' = from /\ ReadTo' = to
    BY <1>2, <1>4, <2>4, <2>5, <2>8, <2>8a, <2>14
  <2>19. i + 1 <= NumChunks(Rows(lo, hi, v))
    BY <2>9, <2>11
  <2>20. Exact(lo)'
    BY <2>3, <2>11, <2>14, <2>17, <2>18, <2>19 DEF Exact
  <2> QED
    BY <2>20
<1> QED
  BY <1>5, <1>6 DEF QuietInv

\* The request is answered with the rows of its range.
LEMMA RespondStep ==
  ASSUME ReaderStands, QuietInv, Respond
  PROVE  ReaderStands' /\ QuietInv'
<1>1. /\ reader.at = "chunks" /\ Remaining = {}
      /\ reader' = [reader EXCEPT !.at = "hit"]
      /\ meta' = meta /\ map' = map /\ blob' = blob /\ day' = day
  BY DEF Respond, Reading, vars, files, world
<1>2. /\ DOMAIN reader = Fields
      /\ reader.key \in Key /\ reader.from \in Dates /\ reader.to \in Dates
      /\ reader.from <= reader.to
      /\ reader.quiet \in BOOLEAN /\ reader.sound \in BOOLEAN
  BY <1>1, RequestStands
<1>3. /\ reader'.key = reader.key /\ reader'.from = reader.from /\ reader'.to = reader.to
      /\ reader'.quiet = reader.quiet /\ reader'.sound = reader.sound
      /\ reader'.entry = reader.entry /\ reader'.map = reader.map
      /\ reader'.rows = reader.rows
      /\ DOMAIN reader' = Fields /\ reader'.at = "hit"
  BY <1>1, <1>2 DEF Fields
<1>4. ReaderStands'
  BY <1>2, <1>3 DEF ReaderStands, ReaderPhase, Fields
<1>5. ASSUME Undisturbed' PROVE \E lo \in Time : Exact(lo)'
  <2>1. Undisturbed
    BY <1>1, <1>3, <1>5 DEF Undisturbed
  <2>2. PICK lo \in Time : Exact(lo)
    BY <2>1 DEF QuietInv
  <2>3. HoldFrom(reader.key, lo) /\ HoldFrom(reader.key, lo)'
    BY <1>1, <1>3, <2>2 DEF Exact, HoldFrom
  <2>4. PICK hi \in Time, v \in Variants :
            /\ meta[reader.key].to = hi /\ meta[reader.key].var = v /\ lo <= hi
            /\ lo \in Int /\ hi \in Int
            /\ Holds(map[reader.key], blob[reader.key], lo, hi, v)
    BY <2>3, HoldIs
  <2>5. /\ reader.entry = meta[reader.key] /\ reader.map = map[reader.key]
        /\ reader.chunk \in Nat /\ reader.chunk <= NumChunks(Rows(lo, hi, v))
        /\ reader.rows = Part(lo, End(lo, hi, reader.chunk), ReadFrom, ReadTo, v)
    BY <1>1, <2>2, <2>4 DEF Exact
  <2>6. reader.map = ChunkMap(Rows(lo, hi, v))
    BY <2>4, <2>5 DEF Holds
  <2>7. PICK from \in Int, to \in Int, F \in Int, T \in Int :
            from = ReadFrom /\ to = ReadTo /\ F = reader.from /\ T = reader.to
    BY <1>1, RangeIs
  <2>7a. ReadFrom' = from /\ ReadTo' = to
    BY <1>3, <2>7 DEF ReadFrom, ReadTo
  <2>7b. MapMeets(reader.map, F, T, from, to)
    BY <1>1, <2>4, <2>6, <2>7, ReadMeets
  <2>8. PICK n \in Nat : n = NumChunks(Rows(lo, hi, v))
    BY <2>4, EndsAre
  <2>9. PICK c \in Nat : c = reader.chunk
    BY <2>5
  <2>10. PICK m, b : /\ m = map[reader.key] /\ b = blob[reader.key] /\ m = reader.map
                     /\ Holds(m, b, lo, hi, v)
    BY <2>4, <2>5
  <2>11. \A j \in c .. n - 1 : j \notin Needed(m, F, T)
    <3>1. \A j \in Needed(reader.map, reader.from, reader.to) :
             j >= reader.chunk => j \in Remaining
      BY <2>4, <2>6, RemainingAre
    <3>2. \A j \in c .. n - 1 : j >= c
      OBVIOUS
    <3> QED
      BY <1>1, <2>7, <2>9, <2>10, <3>1, <3>2
  <2>12. Part(lo, End(lo, hi, n), from, to, v) = Part(lo, End(lo, hi, c), from, to, v)
    <3>1. c <= n /\ n <= NumChunks(Rows(lo, hi, v))
      BY <2>5, <2>8, <2>9
    <3> QED
      BY <2>4, <2>6, <2>7b, <2>10, <2>11, <3>1, NoneNeeded
  <2>13. End(lo, hi, n) = hi
    <3>1. \A j \in Nat : NumChunks(Rows(lo, hi, v)) <= j => End(lo, hi, j) = hi
      BY <2>4, EndsAre
    <3>2. NumChunks(Rows(lo, hi, v)) <= n
      BY <2>8
    <3> QED
      BY <3>1, <3>2
  <2>14. reader'.rows = Part(lo, hi, from, to, v)
    BY <1>3, <2>5, <2>7, <2>9, <2>12, <2>13
  <2>15. /\ meta'[reader'.key].to = hi /\ meta'[reader'.key].var = v
         /\ reader'.entry = meta'[reader'.key]
         /\ reader'.map = map'[reader'.key] /\ ReadFrom' = from /\ ReadTo' = to
    BY <1>1, <1>3, <2>4, <2>5, <2>7, <2>7a
  <2>16. Exact(lo)'
    BY <1>3, <2>3, <2>14, <2>15 DEF Exact
  <2> QED
    BY <2>16
<1> QED
  BY <1>4, <1>5 DEF QuietInv

\* A step of the writer, or of the world.
LEMMA WriterKeepsQuiet ==
  ASSUME FilesInv, FilesInv', ReaderStands, QuietInv, WriterStep
  PROVE  ReaderStands' /\ QuietInv'
<1>1. CASE ~alive' \/ ~Pending
  <2>1. reader' = NoRequest
    BY <1>1 DEF WriterStep
  <2>2. reader'.at = "idle"
    BY <2>1 DEF NoRequest
  <2> QED
    BY <2>2 DEF ReaderStands, ReaderPhase, QuietInv, Undisturbed
<1>2. CASE ~(~alive' \/ ~Pending)
  <2>1. /\ reader' = [[reader EXCEPT !.quiet = reader.quiet /\ SameFiles(reader.key)]
                                EXCEPT !.sound = reader.sound /\ reader.key \notin tainted']
        /\ [Next]_vars /\ reader.at \in {"summary", "map", "chunks"}
    BY <1>2 DEF WriterStep, Pending
  <2>2. /\ DOMAIN reader = Fields
        /\ reader.key \in Key /\ reader.from \in Dates /\ reader.to \in Dates
        /\ reader.from <= reader.to
        /\ reader.quiet \in BOOLEAN /\ reader.sound \in BOOLEAN
    BY <2>1, RequestStands
  <2>3. PICK q \in BOOLEAN : q <=> (reader.quiet /\ SameFiles(reader.key))
    OBVIOUS
  <2>4. PICK s \in BOOLEAN : s <=> (reader.sound /\ reader.key \notin tainted')
    OBVIOUS
  <2>5. /\ reader'.key = reader.key /\ reader'.from = reader.from /\ reader'.to = reader.to
        /\ reader'.quiet = (reader.quiet /\ SameFiles(reader.key))
        /\ reader'.sound = (reader.sound /\ reader.key \notin tainted')
        /\ reader'.entry = reader.entry /\ reader'.map = reader.map
        /\ reader'.rows = reader.rows /\ reader'.chunk = reader.chunk
        /\ DOMAIN reader' = Fields /\ reader'.at = reader.at
    BY <2>1, <2>2 DEF Fields
  <2>6. ReaderStands'
    BY <2>1, <2>2, <2>5 DEF ReaderStands, ReaderPhase, Fields
  <2>7. ASSUME Undisturbed' PROVE \E lo \in Time : Exact(lo)'
    <3>1. Undisturbed /\ SameFiles(reader.key)
      BY <2>5, <2>7 DEF Undisturbed
    <3>2. PICK lo \in Time : Exact(lo)
      BY <3>1 DEF QuietInv
    <3>3. FilesStand /\ FilesStand'
      BY DEF FilesInv
    <3>4. day <= day' /\ day' \in Int
      BY <2>1, <3>3, DayGrows, CacheAssumption DEF FilesStand, Time
    <3>5. PICK k \in Key : k = reader.key
      BY <2>2
    <3>6. meta'[k] = meta[k] /\ map'[k] = map[k] /\ blob'[k] = blob[k]
      BY <3>1, <3>5 DEF SameFiles
    <3>7. Exact(lo)'
      BY <2>5, <3>2, <3>3, <3>4, <3>5, <3>6, ExactStays
    <3> QED
      BY <3>7
  <2> QED
    BY <2>6, <2>7 DEF QuietInv
<1> QED
  BY <1>1, <1>2

\* The invariant that implies QuietReadsAreExact.
ReadsInv == IInv /\ FilesInv /\ ReaderStands /\ QuietInv

\* It holds at first.
LEMMA ReadsBegin == InitReads => ReadsInv
<1> SUFFICES ASSUME InitReads PROVE ReadsInv
  OBVIOUS
<1>1. IInv /\ FilesInv
  BY LockBegins, FilesBegin DEF InitReads
<1>2. reader.at = "idle"
  BY DEF InitReads, NoRequest
<1> QED
  BY <1>1, <1>2 DEF ReadsInv, ReaderStands, ReaderPhase, QuietInv, Undisturbed

\* Every step of the cache and of the request keeps it.
LEMMA ReadsKept == ReadsInv /\ [NextReads]_varsReads => ReadsInv'
<1> SUFFICES ASSUME ReadsInv, [NextReads]_varsReads PROVE ReadsInv'
  OBVIOUS
<1>1. IInv /\ FilesInv /\ ReaderStands /\ QuietInv
  BY DEF ReadsInv
<1>2. [Next]_vars
  BY DEF NextReads, ReaderStep, Request, GetSummary, GetMap, GetChunk, Respond, WriterStep,
         varsReads
<1>3. IInv' /\ FilesInv'
  BY <1>1, <1>2, LockKept, FilesKept
<1>4. ReaderStands' /\ QuietInv'
  <2>1. CASE ReaderStep
    BY <1>1, <2>1, RequestStep, GetSummaryStep, GetMapStep, GetChunkStep, RespondStep
       DEF ReaderStep
  <2>2. CASE WriterStep
    BY <1>1, <1>3, <2>2, WriterKeepsQuiet
  <2>3. CASE UNCHANGED varsReads
    <3>1. reader' = reader /\ meta' = meta /\ map' = map /\ blob' = blob /\ day' = day
      BY <2>3 DEF varsReads, vars, files, world
    <3>2. ReaderStands'
      BY <1>1, <3>1 DEF ReaderStands
    <3>3. ASSUME Undisturbed' PROVE \E lo \in Time : Exact(lo)'
      <4>1. PICK lo \in Time : Exact(lo)
        BY <1>1, <3>1, <3>3 DEF QuietInv, Undisturbed
      <4>2. HoldFrom(reader.key, lo)'
        BY <3>1, <4>1 DEF Exact, HoldFrom
      <4>3. Exact(lo)'
        BY <3>1, <4>1, <4>2 DEF Exact, ReadFrom, ReadTo
      <4> QED
        BY <4>3
    <3> QED
      BY <3>2, <3>3 DEF QuietInv
  <2> QED
    BY <2>1, <2>2, <2>3 DEF NextReads
<1> QED
  BY <1>3, <1>4 DEF ReadsInv

\* What the invariant says of an answer.
LEMMA AnswersAreExact == ReadsInv => QuietReadsAreExact
<1> SUFFICES ASSUME ReadsInv PROVE QuietReadsAreExact
  OBVIOUS
<1>1. ReaderStands /\ QuietInv /\ FilesStand
  BY DEF ReadsInv, FilesInv
<1>2. Finished("error") => ~reader.quiet
  <2> SUFFICES ASSUME Finished("error"), reader.quiet PROVE FALSE
    OBVIOUS
  <2>1. Undisturbed /\ reader.at = "error"
    BY DEF Undisturbed, Finished
  <2> QED
    BY <1>1, <2>1 DEF QuietInv, Exact
<1>3. ASSUME Finished("hit"), reader.quiet, reader.from >= fromMins(day)
      PROVE  \E first \in FirstOf(reader), last \in LastOf(reader) :
                reader.rows = Rows(first, Min({last, reader.entry.to}), reader.entry.var)
  <2>1. Undisturbed /\ reader.at = "hit"
    BY <1>3 DEF Undisturbed, Finished
  <2>2. PICK lo \in Time : Exact(lo)
    BY <1>1, <2>1 DEF QuietInv
  <2>3. PICK hi \in Time, v \in Variants :
            /\ meta[reader.key].to = hi /\ meta[reader.key].var = v /\ lo <= hi
            /\ lo \in Int /\ hi \in Int
            /\ Holds(map[reader.key], blob[reader.key], lo, hi, v)
    BY <2>2, HoldIs DEF Exact
  <2>4. PICK from \in Int, to \in Int :
            /\ from = ReadFrom /\ to = ReadTo
            /\ from \in FirstOf(reader) /\ to \in LastOf(reader)
    BY <1>1, <2>1, RangeIs
  <2>5. reader.entry.to = hi /\ reader.entry.var = v
        /\ reader.rows = Part(lo, hi, from, to, v)
    BY <2>1, <2>2, <2>3, <2>4 DEF Exact
  <2>6. PICK d \in Int : d = day
    BY <1>1, CacheAssumption DEF FilesStand, Time
  <2>7. lo <= d /\ d <= from
    <3>1. PICK F \in Int : F = reader.from /\ 3 * d <= F
      BY <1>1, <1>3, <2>1, <2>6, RangeIs DEF fromMins
    <3>2. from = toMins(F) \/ from = (F + 2) \div 3
      BY <2>4, <3>1 DEF FirstOf
    <3>3. d <= from
      BY <3>1, <3>2 DEF toMins
    <3> QED
      BY <2>2, <2>6, <3>3 DEF Exact, HoldFrom
  <2>8. Later(lo, from) = from
    BY <2>3, <2>7 DEF Later
  <2>9. Min({to, hi}) = Sooner(to, hi)
    BY <2>3, MinIs
  <2>10. Sooner(hi, to) = Sooner(to, hi)
    BY <2>3 DEF Sooner
  <2>11. reader.rows = Rows(from, Min({to, reader.entry.to}), reader.entry.var)
    BY <2>5, <2>8, <2>9, <2>10 DEF Part
  <2> QED
    BY <2>4, <2>11
<1> QED
  BY <1>2, <1>3 DEF QuietReadsAreExact

\* A request during which nobody changes the files it reads is answered without an
\* error, and a hit returns the rows of its range, each once and in order.
THEOREM QuietReadersAreRight == SpecReads => []QuietReadsAreExact
<1>1. ReadsInv => QuietReadsAreExact
  BY AnswersAreExact
<1> QED
  BY <1>1, ReadsBegin, ReadsKept, PTL DEF SpecReads

-----------------------------------------------------------------------------
(* What the files of a metric go up to, while the range start stays.       *)

\* A map, or a blob, of rows from the first sample on to one not before h.
MapFrom(m, h) == \E g \in Time, v \in Variants : h <= g /\ m = ChunkMap(Rows(1, g, v))
BlobFrom(b, i, h) == \E g \in Time, v \in Variants :
                        /\ h <= g
                        /\ i \in 0 .. NumChunks(Rows(1, g, v)) - 1
                        /\ b = Chunk(Rows(1, g, v), i)

\* What the files of a metric hold, and what a call replaces them by, goes up to
\* sample h at least.
NotOlder(k, h) ==
    /\ map[k] \notin {None, Torn} => MapFrom(map[k], h)
    /\ \A i \in BlobId : blob[k][i] \notin {None, Torn} => BlobFrom(blob[k][i], i, h)
    /\ \A p \in Prefetch : call[p].at \in Replacing /\ call[p].key = k => h <= call[p].until
    /\ ~Working(k) => meta[k] \notin {None, Torn} /\ h <= meta[k].to

\* The map of a metric is never behind its summary, nor a blob behind the map.
InStep(k) ==
    /\ meta[k] \notin {None, Torn} => meta[k].to \in Time /\ NotOlder(k, meta[k].to)
    /\ map[k] \notin {None, Torn} =>
          \E g \in Time, v \in Variants : map[k] = ChunkMap(Rows(1, g, v)) /\ NotOlder(k, g)

\* A call writes blobs in order, after all old ones are gone.
Cleared(p) ==
    /\ call[p].at \in Replacing \ {"unlink"} =>
          \A i \in BlobId :
             \/ i < call[p].next
             \/ i = call[p].next /\ call[p].at = "blobEnd"
             \/ blob[call[p].key][i] = None
    /\ call[p].at = "blobEnd" => call[p].next < NumChunks(call[p].data)

\* The chunks of a map are those of blobs.
MapsShort == \A k \in Key : map[k] \notin {None, Torn} => DOMAIN map[k] \subseteq BlobId

\* Until the range start moves on, the files of a metric that is not broken are in
\* step: at its start alone are the chunks of old and new rows cut at the same samples.
OneDayInv == /\ \A p \in Prefetch : Cleared(p)
             /\ day = 1 => \A k \in Key : k \notin tainted => InStep(k)

\* A step that writes no file, begins no replacement, and leaves broken what it
\* no longer replaces.
Calm == /\ UNCHANGED files
        /\ tainted \subseteq tainted'
        /\ \A q \in Prefetch :
              \/ call'[q] = call[q]
              \/ /\ call'[q].at \notin Replacing
                 /\ call[q].at \in Replacing => call[q].key \in tainted'

\* A call takes a step outside of a replacement.
LEMMA CalmCall ==
  ASSUME NEW p \in Prefetch, \A q \in Prefetch : q # p => call'[q] = call[q],
         call[p].at \notin Replacing, call'[p].at \notin Replacing,
         UNCHANGED <<files, tainted>>
  PROVE  Calm
  BY DEF Calm

\* The process dies.
LEMMA CalmDeath ==
  ASSUME FilesInv, Die, UNCHANGED files
  PROVE  Calm
<1>1. tainted \subseteq tainted'
  BY DEF Die
<1>2. ASSUME NEW q \in Prefetch
      PROVE  /\ call'[q].at \notin Replacing
             /\ call[q].at \in Replacing => call[q].key \in tainted'
  <2>1. call'[q].at = "idle"
    BY DEF Die, Idle, NewCall
  <2>2. call[q].key \in Key
    BY DEF FilesInv, LocalsStand
  <2>3. call[q].at \in Replacing => Working(call[q].key)
    BY DEF Working
  <2> QED
    BY <2>1, <2>2, <2>3 DEF Die, Replacing
<1> QED
  BY <1>1, <1>2 DEF Calm

\* The steps of a call up to the fetch.
LEMMA CalmSteps ==
  ASSUME FilesInv, NEW p \in Prefetch,
         \/ Updated(p) \/ Enter(p) \/ Locked(p) \/ Skip(p) \/ GotVmws(p) \/ Rejected(p)
         \/ Look(p) \/ LookTorn(p) \/ RequestFails(p) \/ FetchUnreadable(p) \/ WriteFails(p)
  PROVE  Calm
<1>1. CASE Updated(p)
  <2>1. /\ call' = [call EXCEPT ![p] = NewCall("status", day)] /\ UNCHANGED <<files, tainted>>
        /\ call[p].at = "idle"
    BY <1>1 DEF Updated, At
  <2>2. DOMAIN call = Prefetch
    BY DEF FilesInv, FilesStand
  <2>3. call'[p].at = "status" /\ \A q \in Prefetch : q # p => call'[q] = call[q]
    BY <2>1, <2>2 DEF NewCall
  <2> QED
    BY <2>1, <2>3, CalmCall DEF Replacing
<1>2. CASE Enter(p) \/ GotVmws(p)
  <2>1. PICK phase \in {"vmws", "look"} : Goto(p, phase)
    BY <1>2 DEF Enter, GotVmws
  <2>2. UNCHANGED <<files, tainted>> /\ call[p].at \notin Replacing
    BY <1>2 DEF Enter, GotVmws, At, Replacing
  <2>3. phase \in Phase /\ phase \notin Replacing
    BY DEF Phase, Critical, Replacing
  <2>4. call'[p].at = phase /\ \A q \in Prefetch : q # p => call'[q] = call[q]
    BY <2>1, <2>3, GotoIs
  <2> QED
    BY <2>2, <2>3, <2>4, CalmCall
<1>3. CASE Locked(p) \/ Skip(p)
  <2>1. /\ Return(p) /\ UNCHANGED <<files, tainted>> /\ day' = day
        /\ call[p].at \notin Replacing
    BY <1>3 DEF Locked, Skip, At, Replacing, world
  <2>2. call'[p].at = "idle" /\ \A q \in Prefetch : q # p => call'[q] = call[q]
    BY <2>1, ReturnIs
  <2> QED
    BY <2>1, <2>2, CalmCall DEF Replacing
<1>4. CASE Rejected(p)
  <2>1. CASE subscribed
    BY <1>4, <2>1, CalmDeath DEF Rejected
  <2>2. CASE ~subscribed
    <3>1. /\ Goto(p, "rejected") /\ UNCHANGED <<files, tainted>>
          /\ call[p].at \notin Replacing
      BY <1>4, <2>2 DEF Rejected, At, Replacing
    <3>2. "rejected" \in Phase /\ "rejected" \notin Replacing
      BY DEF Phase, Replacing
    <3>3. call'[p].at = "rejected" /\ \A q \in Prefetch : q # p => call'[q] = call[q]
      BY <3>1, <3>2, GotoIs
    <3> QED
      BY <3>1, <3>2, <3>3, CalmCall
  <2> QED
    BY <2>1, <2>2
<1>5. CASE LookTorn(p) \/ RequestFails(p) \/ FetchUnreadable(p) \/ (Look(p) /\ NothingNew(p))
  <2>1. /\ Continue(p) /\ UNCHANGED <<files, tainted>> /\ day' = day
        /\ call[p].at \notin Replacing
    BY <1>5 DEF LookTorn, RequestFails, FetchUnreadable, Look, At, Replacing, world
  <2>2. call'[p].at \notin Replacing /\ \A q \in Prefetch : q # p => call'[q] = call[q]
    BY <2>1, ContinueIs
  <2> QED
    BY <2>1, <2>2, CalmCall
<1>6. CASE Look(p) /\ ~NothingNew(p)
  <2>1. /\ call' = [call EXCEPT ![p] = [[call[p] EXCEPT !.at = "fetch"] EXCEPT !.until = avail]]
        /\ UNCHANGED <<files, tainted>> /\ call[p].at \notin Replacing
    BY <1>6 DEF Look, At, Replacing
  <2>2. DOMAIN call = Prefetch /\ DOMAIN call[p] = Locals
    BY DEF FilesInv, FilesStand, LocalsStand
  <2>3. PICK c : c = [call[p] EXCEPT !.at = "fetch"]
    OBVIOUS
  <2>4. DOMAIN c = Locals /\ c.at = "fetch"
    BY <2>2, <2>3 DEF Locals
  <2>5. call' = [call EXCEPT ![p] = [c EXCEPT !.until = avail]]
    BY <2>1, <2>3
  <2>6. /\ \A q \in Prefetch : q # p => call'[q] = call[q]
        /\ call'[p] = [c EXCEPT !.until = avail]
    BY <2>2, <2>5
  <2>7. call'[p].at = "fetch"
    BY <2>4, <2>6 DEF Locals
  <2> QED
    BY <2>1, <2>6, <2>7, CalmCall DEF Replacing
<1>7. CASE WriteFails(p)
  <2>1. /\ Continue(p) /\ UNCHANGED files /\ day' = day
        /\ tainted' = tainted \cup {call[p].key}
    BY <1>7 DEF WriteFails, world
  <2>2. call'[p].at \notin Replacing /\ \A q \in Prefetch : q # p => call'[q] = call[q]
    BY <2>1, ContinueIs
  <2> QED
    BY <2>1, <2>2 DEF Calm
<1> QED
  BY <1>1, <1>2, <1>3, <1>4, <1>5, <1>6, <1>7

\* What the files and the replacement of a metric go up to stays so.
LEMMA CalmFloor ==
  ASSUME Calm, NEW k \in Key, k \notin tainted', NEW h \in Time, NotOlder(k, h)
  PROVE  NotOlder(k, h)'
<1>1. meta' = meta /\ map' = map /\ blob' = blob
  BY DEF Calm, files
<1>2. ASSUME NEW q \in Prefetch, call'[q].at \in Replacing, call'[q].key = k
      PROVE  h <= call'[q].until
  BY <1>2 DEF Calm, NotOlder
<1>3. ASSUME ~Working(k)' PROVE ~Working(k)
  BY <1>3 DEF Calm, Working
<1> QED
  BY <1>1, <1>2, <1>3 DEF NotOlder

\* A calm step keeps the invariant.
LEMMA CalmKeeps ==
  ASSUME Calm, OneDayInv, day \in Time, day <= day'
  PROVE  OneDayInv'
<1>1. meta' = meta /\ map' = map /\ blob' = blob
  BY DEF Calm, files
<1>2. ASSUME NEW q \in Prefetch
      PROVE  Cleared(q)'
  <2>1. CASE call'[q] = call[q]
    BY <1>1, <2>1 DEF OneDayInv, Cleared
  <2>2. CASE call'[q].at \notin Replacing
    BY <2>2 DEF Cleared, Replacing
  <2> QED
    BY <2>1, <2>2 DEF Calm
<1>3. ASSUME NEW k \in Key, day' = 1, k \notin tainted'
      PROVE  InStep(k)'
  <2>1. InStep(k)
    BY <1>3, CacheAssumption DEF OneDayInv, Calm, Time
  <2>2. ASSUME meta[k] \notin {None, Torn}
        PROVE  (meta[k].to \in Time /\ NotOlder(k, meta[k].to))'
    <3>1. PICK h \in Time : h = meta[k].to /\ NotOlder(k, h)
      BY <2>1, <2>2 DEF InStep
    <3>2. NotOlder(k, h)' /\ h = meta'[k].to
      BY <1>1, <1>3, <3>1, CalmFloor
    <3> QED
      BY <3>2 DEF NotOlder
  <2>3. map[k] \notin {None, Torn} =>
          \E g \in Time, v \in Variants : map[k] = ChunkMap(Rows(1, g, v)) /\ NotOlder(k, g)'
    BY <1>3, <2>1, CalmFloor DEF InStep
  <2> QED
    BY <1>1, <2>2, <2>3 DEF InStep
<1> QED
  BY <1>2, <1>3 DEF OneDayInv

\* A step of the call p that replaces the files of a metric leaves the others alone.
Only(p, key) ==
    /\ call[p].key = key
    /\ call'[p].at \in Replacing => call'[p].key = key
    /\ \A q \in Prefetch : q # p => call'[q] = call[q] /\ call[q].at \notin Replacing
    /\ \A k \in Key : k # key =>
          /\ meta'[k] = meta[k] /\ map'[k] = map[k] /\ blob'[k] = blob[k]
          /\ k \in tainted' <=> k \in tainted

\* What a step of the replacement keeps of its own metric.
Moved(p, key) ==
    /\ Only(p, key)
    /\ day' = day
    /\ Cleared(p)'
    /\ \A h \in Time :
          day = 1 /\ key \notin tainted /\ key \notin tainted' /\ NotOlder(key, h)
          => NotOlder(key, h)'
    /\ day = 1 /\ key \notin tainted' => InStep(key)'

\* Other metrics keep what they go up to.
LEMMA OtherFloor ==
  ASSUME NEW p \in Prefetch, NEW key \in Key, Only(p, key), NEW k \in Key, k # key,
         NEW h \in Time, NotOlder(k, h)
  PROVE  NotOlder(k, h)'
<1>1. meta'[k] = meta[k] /\ map'[k] = map[k] /\ blob'[k] = blob[k]
  BY DEF Only
<1>2. \A q \in Prefetch : ~(call[q].at \in Replacing /\ call[q].key = k)
  BY DEF Only
<1>3. \A q \in Prefetch : ~(call'[q].at \in Replacing /\ call'[q].key = k)
  BY DEF Only
<1>4. meta[k] \notin {None, Torn} /\ h <= meta[k].to
  BY <1>2 DEF NotOlder, Working
<1> QED
  BY <1>1, <1>3, <1>4 DEF NotOlder

\* A metric stays in step if what it goes up to stays.
LEMMA InStepStays ==
  ASSUME NEW k \in Key, InStep(k),
         meta'[k] \notin {None, Torn} => meta'[k] = meta[k],
         map'[k] \notin {None, Torn} => map'[k] = map[k],
         \A h \in Time : NotOlder(k, h) => NotOlder(k, h)'
  PROVE  InStep(k)'
<1>1. ASSUME meta'[k] \notin {None, Torn}
      PROVE  (meta[k].to \in Time /\ NotOlder(k, meta[k].to))'
  <2>1. PICK h \in Time : h = meta[k].to /\ NotOlder(k, h)
    BY <1>1 DEF InStep
  <2>2. NotOlder(k, h)' /\ h = meta'[k].to
    BY <1>1, <2>1
  <2> QED
    BY <2>2 DEF NotOlder
<1>2. map'[k] \notin {None, Torn} =>
         \E g \in Time, v \in Variants : map'[k] = ChunkMap(Rows(1, g, v)) /\ NotOlder(k, g)'
  BY DEF InStep
<1> QED
  BY <1>1, <1>2 DEF InStep

\* A step of the replacement keeps the invariant.
LEMMA MovedKeeps ==
  ASSUME NEW p \in Prefetch, NEW key \in Key, Moved(p, key), OneDayInv
  PROVE  OneDayInv'
<1>1. Only(p, key) /\ day' = day
  BY DEF Moved
<1>2. ASSUME NEW q \in Prefetch
      PROVE  Cleared(q)'
  <2>1. CASE q = p
    BY <2>1 DEF Moved
  <2>2. CASE q # p
    <3>1. call'[q].at \notin Replacing
      BY <1>1, <2>2 DEF Only
    <3> QED
      BY <3>1 DEF Cleared, Replacing
  <2> QED
    BY <2>1, <2>2
<1>3. ASSUME NEW k \in Key, day' = 1, k \notin tainted'
      PROVE  InStep(k)'
  <2>1. CASE k = key
    BY <1>1, <1>3, <2>1 DEF Moved
  <2>2. CASE k # key
    <3>1. InStep(k)
      BY <1>1, <1>3, <2>2 DEF OneDayInv, Only
    <3>2. \A h \in Time : NotOlder(k, h) => NotOlder(k, h)'
      BY <1>1, <2>2, OtherFloor
    <3>3. meta'[k] = meta[k] /\ map'[k] = map[k]
      BY <1>1, <2>2 DEF Only
    <3> QED
      BY <3>1, <3>2, <3>3, InStepStays
  <2> QED
    BY <2>1, <2>2
<1> QED
  BY <1>2, <1>3 DEF OneDayInv

\* It keeps what any metric goes up to.
LEMMA MovedFloor ==
  ASSUME NEW p \in Prefetch, NEW key \in Key, Moved(p, key), day = 1,
         NEW k \in Key, k \notin tainted, k \notin tainted', NEW h \in Time, NotOlder(k, h)
  PROVE  NotOlder(k, h)'
<1>1. CASE k = key
  BY <1>1 DEF Moved
<1>2. CASE k # key
  BY <1>2, OtherFloor DEF Moved
<1> QED
  BY <1>1, <1>2

\* A step within the replacement keeps it if the files it leaves go as far.
LEMMA FloorWithin ==
  ASSUME NEW p \in Prefetch, NEW key \in Key, Only(p, key), NEW h \in Int,
         call'[p].at \in Replacing, h <= call'[p].until,
         map'[key] \notin {None, Torn} => MapFrom(map'[key], h),
         \A i \in BlobId : blob'[key][i] \notin {None, Torn} => BlobFrom(blob'[key][i], i, h)
  PROVE  NotOlder(key, h)'
<1>1. Working(key)'
  BY DEF Only, Working
<1>2. ASSUME NEW q \in Prefetch, call'[q].at \in Replacing
      PROVE  h <= call'[q].until
  BY <1>2 DEF Only
<1> QED
  BY <1>1, <1>2 DEF NotOlder

\* A step within the replacement that writes nothing but torn files.
LEMMA MovedOn ==
  ASSUME FilesInv, OneDayInv, NEW p \in Prefetch, NEW key \in Key, Only(p, key), day' = day,
         call[p].at \in Replacing, call'[p].at \in Replacing, call'[p].until = call[p].until,
         tainted' = tainted, Cleared(p)',
         meta'[key] \notin {None, Torn} => meta'[key] = meta[key],
         map'[key] \notin {None, Torn} => map'[key] = map[key],
         \A i \in BlobId : blob'[key][i] \notin {None, Torn} => blob'[key][i] = blob[key][i]
  PROVE  Moved(p, key)
<1>1. ASSUME NEW h \in Time, NotOlder(key, h)
      PROVE  NotOlder(key, h)'
  <2>1. h <= call'[p].until
    BY <1>1 DEF NotOlder, Only
  <2>2. map'[key] \notin {None, Torn} => MapFrom(map'[key], h)
    BY <1>1 DEF NotOlder
  <2>3. \A i \in BlobId : blob'[key][i] \notin {None, Torn} => BlobFrom(blob'[key][i], i, h)
    BY <1>1 DEF NotOlder
  <2>4. h \in Int
    BY CacheAssumption DEF Time
  <2> QED
    BY <2>1, <2>2, <2>3, <2>4, FloorWithin
<1>2. ASSUME day = 1, key \notin tainted'
      PROVE  InStep(key)'
  <2>1. InStep(key)
    BY <1>2 DEF OneDayInv
  <2> QED
    BY <1>1, <2>1, InStepStays
<1> QED
  BY <1>1, <1>2 DEF Moved

\* The owner of the lock takes a step that concerns its metric.
LEMMA OnlyIs ==
  ASSUME IInv, NEW p \in Prefetch, Owns(p), NEW key, key = call[p].key,
         call'[p].at \in Replacing => call'[p].key = key,
         \A q \in Prefetch : q # p => call'[q] = call[q],
         \A k \in Key : k # key =>
            /\ meta'[k] = meta[k] /\ map'[k] = map[k] /\ blob'[k] = blob[k]
            /\ k \in tainted' <=> k \in tainted
  PROVE  Only(p, key)
  BY OthersAway DEF Only

\* The fetch begins a replacement that will go further than the summary.
LEMMA FetchMoves ==
  ASSUME FilesInv, IInv, OneDayInv, NEW p \in Prefetch, Fetch(p)
  PROVE  \E key \in Key : Moved(p, key)
<1>1. /\ meta' = meta /\ map' = map /\ blob' = blob /\ tainted' = tainted /\ day' = day
      /\ call[p].at = "fetch" /\ call[p].at \notin Replacing /\ Owns(p)
  BY DEF Fetch, At, files, world, Replacing, Owns, Critical
<1>2. PICK rows : rows = Cached(p) \o Rows(FetchFrom(p), call[p].until, variants)
  OBVIOUS
<1>3. PICK fresh : fresh = ~Reuse(p)
  OBVIOUS
<1>4. call' = [call EXCEPT ![p] = [[[[call[p] EXCEPT !.using = variants] EXCEPT !.fresh = fresh]
                                     EXCEPT !.data = rows] EXCEPT !.at = "unlink"]]
  BY <1>2, <1>3 DEF Fetch
<1>5. DOMAIN call = Prefetch /\ DOMAIN call[p] = Locals
  BY DEF FilesInv, FilesStand, LocalsStand
<1>6. PICK c : c = [call[p] EXCEPT !.using = variants]
  OBVIOUS
<1>7. PICK d : d = [c EXCEPT !.fresh = fresh]
  OBVIOUS
<1>8. PICK e : e = [d EXCEPT !.data = rows]
  OBVIOUS
<1>9. DOMAIN c = Locals /\ c.key = call[p].key /\ c.until = call[p].until
  BY <1>5, <1>6 DEF Locals
<1>10. DOMAIN d = Locals /\ d.key = call[p].key /\ d.until = call[p].until
  BY <1>7, <1>9 DEF Locals
<1>11. DOMAIN e = Locals /\ e.key = call[p].key /\ e.until = call[p].until
  BY <1>8, <1>10 DEF Locals
<1>12. call' = [call EXCEPT ![p] = [e EXCEPT !.at = "unlink"]]
  BY <1>4, <1>6, <1>7, <1>8
<1>13. /\ \A q \in Prefetch : q # p => call'[q] = call[q]
       /\ call'[p] = [e EXCEPT !.at = "unlink"]
  BY <1>5, <1>12
<1>14. call'[p].key = call[p].key /\ call'[p].until = call[p].until /\ call'[p].at = "unlink"
  BY <1>11, <1>13 DEF Locals
<1>15. PICK key \in Key : key = call[p].key
  BY DEF FilesInv, LocalsStand
<1>16. Only(p, key)
  BY <1>1, <1>13, <1>14, <1>15, OnlyIs
<1>17. Cleared(p)'
  BY <1>14 DEF Cleared
<1>18. call'[p].at \in Replacing /\ ~Working(key)
  BY <1>1, <1>14, NobodyWorks DEF Replacing
<1>19. ASSUME NEW h \in Time, key \notin tainted, NotOlder(key, h)
       PROVE  NotOlder(key, h)'
  <2>1. meta[key] \notin {None, Torn} /\ h <= meta[key].to
    BY <1>18, <1>19 DEF NotOlder
  <2>2. meta[key].to \in Time
    BY <1>18, <1>19, <2>1 DEF FilesInv, Settled, Agree, HoldFrom
  <2>3. meta[key].to < call[p].until /\ call[p].until \in Time
    BY <1>1, <1>15, <1>19, <2>1 DEF FilesInv, Sound, Ahead
  <2>4. h <= call'[p].until /\ h \in Int
    BY <1>14, <2>1, <2>2, <2>3, CacheAssumption DEF Time
  <2>5. map'[key] \notin {None, Torn} => MapFrom(map'[key], h)
    BY <1>1, <1>19 DEF NotOlder
  <2>6. \A i \in BlobId : blob'[key][i] \notin {None, Torn} => BlobFrom(blob'[key][i], i, h)
    BY <1>1, <1>19 DEF NotOlder
  <2> QED
    BY <1>16, <1>18, <2>4, <2>5, <2>6, FloorWithin
<1>20. ASSUME day = 1, key \notin tainted'
       PROVE  InStep(key)'
  <2>1. InStep(key) /\ key \notin tainted
    BY <1>1, <1>20 DEF OneDayInv
  <2> QED
    BY <1>1, <1>19, <2>1, InStepStays
<1> QED
  BY <1>1, <1>16, <1>17, <1>19, <1>20 DEF Moved

\* An old blob is unlinked.
LEMMA UnlinkMoves ==
  ASSUME FilesInv, IInv, OneDayInv, NEW p \in Prefetch, NEW i \in BlobId, Unlink(p, i)
  PROVE  \E key \in Key : Moved(p, key)
<1>1. PICK key \in Key : key = call[p].key
  BY DEF FilesInv, LocalsStand
<1>2. /\ meta' = meta /\ map' = map /\ tainted' = tainted /\ day' = day /\ call' = call
      /\ call[p].at = "unlink" /\ call[p].at \in Replacing
      /\ blob' = [blob EXCEPT ![key][i] = None]
  BY <1>1 DEF Unlink, At, Replacing, WriteBlob, world, process
<1>3. DOMAIN blob = Key /\ DOMAIN blob[key] = BlobId
  BY DEF FilesInv, FilesStand
<1>4. /\ \A k \in Key : k # key => blob'[k] = blob[k]
      /\ \A j \in BlobId : blob'[key][j] = IF j = i THEN None ELSE blob[key][j]
  BY <1>2, <1>3
<1>5. Only(p, key)
  BY <1>1, <1>2, <1>4, ReplacerOwns, OnlyIs
<1>6. Cleared(p)'
  BY <1>2 DEF Cleared
<1>7. \A j \in BlobId : blob'[key][j] \notin {None, Torn} => blob'[key][j] = blob[key][j]
  BY <1>4
<1> QED
  BY <1>2, <1>5, <1>6, <1>7, MovedOn

\* What Goto keeps of a call in the replacement.
LEMMA PhaseMoves ==
  ASSUME FilesInv, IInv, NEW p \in Prefetch, call[p].at \in Replacing,
         NEW phase \in Replacing, Goto(p, phase), day' = day
  PROVE  /\ \A q \in Prefetch : q # p => call'[q] = call[q]
         /\ Owns(p) /\ call'[p].at = phase /\ call'[p].at \in Replacing
         /\ call'[p].key = call[p].key /\ call'[p].until = call[p].until
         /\ call'[p].next = call[p].next /\ call'[p].data = call[p].data
<1>1. phase \in Phase
  BY DEF Phase, Critical
<1> QED
  BY <1>1, GotoKeeps, ReplacerOwns

\* All old blobs are gone.
LEMMA AllUnlinkedMoves ==
  ASSUME FilesInv, IInv, OneDayInv, NEW p \in Prefetch, AllUnlinked(p)
  PROVE  \E key \in Key : Moved(p, key)
<1>1. PICK key \in Key : key = call[p].key
  BY DEF FilesInv, LocalsStand
<1>2. /\ meta' = meta /\ map' = map /\ blob' = blob /\ tainted' = tainted /\ day' = day
      /\ call[p].at = "unlink" /\ call[p].at \in Replacing /\ "blob" \in Replacing
      /\ Goto(p, "blob") /\ \A i \in BlobId : blob[key][i] = None
  BY <1>1 DEF AllUnlinked, At, Replacing, files, world
<1>3. /\ \A q \in Prefetch : q # p => call'[q] = call[q]
      /\ Owns(p) /\ call'[p].at = "blob" /\ call'[p].at \in Replacing
      /\ call'[p].key = key /\ call'[p].until = call[p].until
  BY <1>1, <1>2, PhaseMoves
<1>4. Only(p, key)
  BY <1>1, <1>2, <1>3, OnlyIs
<1>5. Cleared(p)'
  BY <1>2, <1>3 DEF Cleared
<1> QED
  BY <1>2, <1>3, <1>4, <1>5, MovedOn

\* A blob is opened for writing.
LEMMA OpenBlobMoves ==
  ASSUME FilesInv, IInv, OneDayInv, NEW p \in Prefetch, OpenBlob(p)
  PROVE  \E key \in Key : Moved(p, key)
<1>1. PICK key \in Key : key = call[p].key
  BY DEF FilesInv, LocalsStand
<1>2. PICK n \in Nat : n = call[p].next
  BY DEF FilesInv, LocalsStand
<1>3. /\ meta' = meta /\ map' = map /\ tainted' = tainted /\ day' = day
      /\ call[p].at = "blob" /\ call[p].at \in Replacing /\ "blobEnd" \in Replacing
      /\ blob' = [blob EXCEPT ![key][n] = Torn] /\ n \in BlobId
      /\ Goto(p, "blobEnd") /\ n < NumChunks(call[p].data)
  BY <1>1, <1>2 DEF OpenBlob, At, Replacing, WriteBlob, world
<1>4. DOMAIN blob = Key /\ DOMAIN blob[key] = BlobId
  BY DEF FilesInv, FilesStand
<1>5. /\ \A k \in Key : k # key => blob'[k] = blob[k]
      /\ \A j \in BlobId : blob'[key][j] = IF j = n THEN Torn ELSE blob[key][j]
  BY <1>3, <1>4
<1>6. /\ \A q \in Prefetch : q # p => call'[q] = call[q]
      /\ Owns(p) /\ call'[p].at = "blobEnd" /\ call'[p].at \in Replacing
      /\ call'[p].key = key /\ call'[p].until = call[p].until
      /\ call'[p].next = n /\ call'[p].data = call[p].data
  BY <1>1, <1>2, <1>3, PhaseMoves
<1>7. Only(p, key)
  BY <1>1, <1>3, <1>5, <1>6, OnlyIs
<1>8. \A j \in BlobId : j < n \/ blob[key][j] = None
  BY <1>1, <1>2, <1>3 DEF OneDayInv, Cleared
<1>9. Cleared(p)'
  <2>1. \A j \in BlobId : j < n \/ j = n \/ blob'[key][j] = None
    BY <1>5, <1>8
  <2> QED
    BY <1>3, <1>6, <2>1 DEF Cleared
<1>10. \A j \in BlobId : blob'[key][j] \notin {None, Torn} => blob'[key][j] = blob[key][j]
  BY <1>5
<1> QED
  BY <1>3, <1>6, <1>7, <1>9, <1>10, MovedOn

\* The map is opened for writing.
LEMMA OpenMapMoves ==
  ASSUME FilesInv, IInv, OneDayInv, NEW p \in Prefetch, OpenMap(p)
  PROVE  \E key \in Key : Moved(p, key)
<1>1. PICK key \in Key : key = call[p].key
  BY DEF FilesInv, LocalsStand
<1>2. /\ meta' = meta /\ blob' = blob /\ tainted' = tainted /\ day' = day
      /\ call[p].at = "blob" /\ call[p].at \in Replacing /\ "mapEnd" \in Replacing
      /\ map' = [map EXCEPT ![key] = Torn] /\ Goto(p, "mapEnd")
  BY <1>1 DEF OpenMap, At, Replacing, WriteMap, world
<1>3. DOMAIN map = Key
  BY DEF FilesInv, FilesStand
<1>4. map'[key] = Torn /\ \A k \in Key : k # key => map'[k] = map[k]
  BY <1>2, <1>3
<1>5. /\ \A q \in Prefetch : q # p => call'[q] = call[q]
      /\ Owns(p) /\ call'[p].at = "mapEnd" /\ call'[p].at \in Replacing
      /\ call'[p].key = key /\ call'[p].until = call[p].until /\ call'[p].next = call[p].next
  BY <1>1, <1>2, PhaseMoves
<1>6. Only(p, key)
  BY <1>1, <1>2, <1>4, <1>5, OnlyIs
<1>7. Cleared(p)'
  BY <1>1, <1>2, <1>5 DEF OneDayInv, Cleared
<1> QED
  BY <1>2, <1>4, <1>5, <1>6, <1>7, MovedOn

\* The summary is opened for writing.
LEMMA OpenSummaryMoves ==
  ASSUME FilesInv, IInv, OneDayInv, NEW p \in Prefetch, OpenSummary(p)
  PROVE  \E key \in Key : Moved(p, key)
<1>1. PICK key \in Key : key = call[p].key
  BY DEF FilesInv, LocalsStand
<1>2. /\ map' = map /\ blob' = blob /\ tainted' = tainted /\ day' = day
      /\ call[p].at = "summary" /\ call[p].at \in Replacing /\ "summaryEnd" \in Replacing
      /\ meta' = [meta EXCEPT ![key] = Torn] /\ Goto(p, "summaryEnd")
  BY <1>1 DEF OpenSummary, At, Replacing, WriteSummary, world
<1>3. DOMAIN meta = Key
  BY DEF FilesInv, FilesStand
<1>4. meta'[key] = Torn /\ \A k \in Key : k # key => meta'[k] = meta[k]
  BY <1>2, <1>3
<1>5. /\ \A q \in Prefetch : q # p => call'[q] = call[q]
      /\ Owns(p) /\ call'[p].at = "summaryEnd" /\ call'[p].at \in Replacing
      /\ call'[p].key = key /\ call'[p].until = call[p].until /\ call'[p].next = call[p].next
  BY <1>1, <1>2, PhaseMoves
<1>6. Only(p, key)
  BY <1>1, <1>2, <1>4, <1>5, OnlyIs
<1>7. Cleared(p)'
  BY <1>1, <1>2, <1>5 DEF OneDayInv, Cleared
<1> QED
  BY <1>2, <1>4, <1>5, <1>6, <1>7, MovedOn

\* While the day is the first one, a call has gathered all samples from the first on.
LEMMA GatheredWhole ==
  ASSUME FilesInv, NEW p \in Prefetch, call[p].at \in Replacing,
         call[p].fresh \/ call[p].key \notin tainted, day = 1
  PROVE  \E u \in Time, v \in Variants : call[p].until = u /\ call[p].data = Rows(1, u, v)
<1>1. Gathered(p) /\ call[p].start \in Time
  BY DEF FilesInv, Sound, LocalsStand
<1>2. PICK lo \in Time : /\ call[p].until \in Time /\ call[p].using \in Variants
                         /\ call[p].start <= lo /\ lo <= day /\ lo <= call[p].until
                         /\ call[p].data = Rows(lo, call[p].until, call[p].using)
  BY <1>1 DEF Gathered
<1>3. lo = 1
  BY <1>2, CacheAssumption DEF Time
<1> QED
  BY <1>2, <1>3

\* A blob is filled with the rows of its chunk.
LEMMA FillBlobMoves ==
  ASSUME FilesInv, IInv, OneDayInv, NEW p \in Prefetch, FillBlob(p)
  PROVE  \E key \in Key : Moved(p, key)
<1>1. PICK key \in Key : key = call[p].key
  BY DEF FilesInv, LocalsStand
<1>2. PICK n \in Nat : n = call[p].next
  BY DEF FilesInv, LocalsStand
<1>3. /\ meta' = meta /\ map' = map /\ tainted' = tainted /\ day' = day
      /\ call[p].at = "blobEnd" /\ call[p].at \in Replacing /\ "blob" \in Replacing
      /\ blob' = [blob EXCEPT ![key][n] = Chunk(call[p].data, n)]
      /\ call' = [call EXCEPT ![p] = [[call[p] EXCEPT !.next = n + 1] EXCEPT !.at = "blob"]]
  BY <1>1, <1>2 DEF FillBlob, At, Replacing, WriteBlob, world
<1>4. DOMAIN call = Prefetch /\ DOMAIN call[p] = Locals
  BY DEF FilesInv, FilesStand, LocalsStand
<1>5. PICK c : c = [call[p] EXCEPT !.next = n + 1]
  OBVIOUS
<1>6. DOMAIN c = Locals /\ c.next = n + 1 /\ c.key = call[p].key /\ c.until = call[p].until
  BY <1>4, <1>5 DEF Locals
<1>7. call' = [call EXCEPT ![p] = [c EXCEPT !.at = "blob"]]
  BY <1>3, <1>5
<1>8. /\ \A q \in Prefetch : q # p => call'[q] = call[q]
      /\ call'[p] = [c EXCEPT !.at = "blob"]
  BY <1>4, <1>7
<1>9. /\ call'[p].next = n + 1 /\ call'[p].key = key /\ call'[p].until = call[p].until
      /\ call'[p].at = "blob" /\ call'[p].at \in Replacing
  BY <1>1, <1>3, <1>6, <1>8 DEF Locals
<1>10. DOMAIN blob = Key /\ DOMAIN blob[key] = BlobId
  BY DEF FilesInv, FilesStand
<1>11. /\ \A k \in Key : k # key => blob'[k] = blob[k]
       /\ \A j \in BlobId : j # n => blob'[key][j] = blob[key][j]
       /\ n \in BlobId => blob'[key][n] = Chunk(call[p].data, n)
  BY <1>3, <1>10
<1>12. Only(p, key)
  BY <1>1, <1>3, <1>8, <1>9, <1>11, ReplacerOwns, OnlyIs
<1>13. /\ \A j \in BlobId : j < n \/ j = n \/ blob[key][j] = None
       /\ n < NumChunks(call[p].data)
  BY <1>1, <1>2, <1>3 DEF OneDayInv, Cleared
<1>14. Cleared(p)'
  <2>1. \A j \in BlobId : j \in Int
    BY CacheAssumption DEF BlobId
  <2>2. \A j \in BlobId : j < n + 1 \/ blob'[key][j] = None
    BY <1>11, <1>13, <2>1
  <2> QED
    BY <1>9, <2>2 DEF Cleared
<1>15. ASSUME NEW h \in Time, day = 1, key \notin tainted, NotOlder(key, h)
       PROVE  NotOlder(key, h)'
  <2>1. PICK u \in Time, v \in Variants : call[p].until = u /\ call[p].data = Rows(1, u, v)
    BY <1>1, <1>3, <1>15, GatheredWhole
  <2>2. h <= u /\ h <= call'[p].until /\ h \in Int
    BY <1>1, <1>3, <1>9, <1>15, <2>1, CacheAssumption DEF NotOlder, Time
  <2>3. map'[key] \notin {None, Torn} => MapFrom(map'[key], h)
    BY <1>3, <1>15 DEF NotOlder
  <2>4. PICK m \in Nat : m = NumChunks(Rows(1, u, v))
    BY <2>1, EndsAre, CacheAssumption DEF Time
  <2>5. n \in 0 .. m - 1
    BY <1>13, <2>1, <2>4
  <2>6. BlobFrom(Chunk(Rows(1, u, v), n), n, h)
    BY <2>2, <2>4, <2>5 DEF BlobFrom
  <2>7. ASSUME NEW j \in BlobId, blob'[key][j] \notin {None, Torn}
        PROVE  BlobFrom(blob'[key][j], j, h)
    <3>1. CASE j = n
      BY <1>11, <2>1, <2>6, <3>1
    <3>2. CASE j # n
      BY <1>11, <1>15, <2>7, <3>2 DEF NotOlder
    <3> QED
      BY <3>1, <3>2
  <2> QED
    BY <1>9, <1>12, <2>2, <2>3, <2>7, FloorWithin
<1>16. ASSUME day = 1, key \notin tainted'
       PROVE  InStep(key)'
  <2>1. InStep(key)
    BY <1>3, <1>16 DEF OneDayInv
  <2>2. \A h \in Time : NotOlder(key, h) => NotOlder(key, h)'
    BY <1>3, <1>15, <1>16
  <2> QED
    BY <1>3, <2>1, <2>2, InStepStays
<1> QED
  BY <1>3, <1>12, <1>14, <1>15, <1>16 DEF Moved

\* When all blobs are written, the files hold what the call has gathered.
LEMMA AllWritten ==
  ASSUME FilesInv, OneDayInv, NEW p \in Prefetch, NEW key \in Key, key = call[p].key,
         call[p].at \in {"mapEnd", "summary", "summaryEnd"},
         NEW u \in Time, NEW v \in Variants, call[p].data = Rows(1, u, v), NEW h \in Int, h <= u
  PROVE  \A i \in BlobId : blob[key][i] \notin {None, Torn} => BlobFrom(blob[key][i], i, h)
<1>1. call[p].at \in Replacing /\ call[p].at # "unlink" /\ call[p].at # "blobEnd"
  BY DEF Replacing
<1>2. /\ call[p].next = NumChunks(call[p].data)
      /\ \A i \in 0 .. call[p].next - 1 : blob[key][i] = Chunk(call[p].data, i)
  BY <1>1 DEF FilesInv, Sound, BlobsOf
<1>3. \A i \in BlobId : i < call[p].next \/ blob[key][i] = None
  BY <1>1 DEF OneDayInv, Cleared
<1>4. PICK n \in Nat : n = NumChunks(Rows(1, u, v))
  <2>1. 1 \in Int /\ u \in Int /\ 1 <= u
    BY CacheAssumption DEF Time
  <2> QED
    BY <2>1, EndsAre
<1>5. ASSUME NEW i \in BlobId, blob[key][i] \notin {None, Torn}
      PROVE  BlobFrom(blob[key][i], i, h)
  <2>1. i < n /\ i \in Nat
    BY <1>2, <1>3, <1>4, <1>5, CacheAssumption DEF BlobId
  <2>2. i \in 0 .. n - 1
    BY <2>1
  <2>3. blob[key][i] = Chunk(Rows(1, u, v), i)
    BY <1>2, <1>4, <2>2
  <2> QED
    BY <1>4, <2>2, <2>3 DEF BlobFrom
<1> QED
  BY <1>5

\* The map is filled with the ends of the chunks.
LEMMA FillMapMoves ==
  ASSUME FilesInv, IInv, OneDayInv, NEW p \in Prefetch, FillMap(p)
  PROVE  \E key \in Key : Moved(p, key)
<1>1. PICK key \in Key : key = call[p].key
  BY DEF FilesInv, LocalsStand
<1>2. /\ meta' = meta /\ blob' = blob /\ tainted' = tainted /\ day' = day
      /\ call[p].at = "mapEnd" /\ call[p].at \in Replacing /\ "summary" \in Replacing
      /\ map' = [map EXCEPT ![key] = ChunkMap(call[p].data)] /\ Goto(p, "summary")
  BY <1>1 DEF FillMap, At, Replacing, WriteMap, world
<1>3. DOMAIN map = Key
  BY DEF FilesInv, FilesStand
<1>4. map'[key] = ChunkMap(call[p].data) /\ \A k \in Key : k # key => map'[k] = map[k]
  BY <1>2, <1>3
<1>5. /\ \A q \in Prefetch : q # p => call'[q] = call[q]
      /\ Owns(p) /\ call'[p].at = "summary" /\ call'[p].at \in Replacing
      /\ call'[p].key = key /\ call'[p].until = call[p].until /\ call'[p].next = call[p].next
  BY <1>1, <1>2, PhaseMoves
<1>6. Only(p, key)
  BY <1>1, <1>2, <1>4, <1>5, OnlyIs
<1>7. Cleared(p)'
  BY <1>1, <1>2, <1>5 DEF OneDayInv, Cleared
<1>8. ASSUME NEW h \in Time, day = 1, key \notin tainted, h <= call[p].until
      PROVE  NotOlder(key, h)'
  <2>1. PICK u \in Time, v \in Variants : call[p].until = u /\ call[p].data = Rows(1, u, v)
    BY <1>1, <1>2, <1>8, GatheredWhole
  <2>2. h \in Int /\ h <= u
    BY <1>8, <2>1, CacheAssumption DEF Time
  <2>3. MapFrom(map'[key], h)
    BY <1>4, <2>1, <2>2 DEF MapFrom
  <2>4. \A i \in BlobId : blob[key][i] \notin {None, Torn} => BlobFrom(blob[key][i], i, h)
    BY <1>1, <1>2, <2>1, <2>2, AllWritten
  <2> QED
    BY <1>2, <1>5, <1>6, <1>8, <2>2, <2>3, <2>4, FloorWithin
<1>9. ASSUME NEW h \in Time, NotOlder(key, h)
      PROVE  h <= call[p].until
  BY <1>1, <1>2, <1>9 DEF NotOlder
<1>10. ASSUME day = 1, key \notin tainted'
       PROVE  InStep(key)'
  <2>1. InStep(key)
    BY <1>2, <1>10 DEF OneDayInv
  <2>2. PICK u \in Time, v \in Variants : call[p].until = u /\ call[p].data = Rows(1, u, v)
    BY <1>1, <1>2, <1>10, GatheredWhole
  <2>3. u <= call[p].until
    BY <2>2, CacheAssumption DEF Time
  <2>4. NotOlder(key, u)'
    BY <1>2, <1>8, <1>10, <2>3
  <2>5. map'[key] = ChunkMap(Rows(1, u, v))
    BY <1>4, <2>2
  <2>6. ASSUME meta'[key] \notin {None, Torn}
        PROVE  (meta[key].to \in Time /\ NotOlder(key, meta[key].to))'
    <3>1. PICK h \in Time : h = meta[key].to /\ NotOlder(key, h)
      BY <1>2, <2>1, <2>6 DEF InStep
    <3>2. NotOlder(key, h)' /\ h = meta'[key].to
      BY <1>2, <1>8, <1>9, <1>10, <3>1
    <3> QED
      BY <3>2 DEF NotOlder
  <2> QED
    BY <2>4, <2>5, <2>6 DEF InStep
<1> QED
  BY <1>2, <1>6, <1>7, <1>8, <1>9, <1>10 DEF Moved

\* The summary is filled: it tells of as much as the map and the blobs hold.
LEMMA FillSummaryMoves ==
  ASSUME FilesInv, IInv, OneDayInv, NEW p \in Prefetch, FillSummary(p)
  PROVE  \E key \in Key : Moved(p, key)
<1>1. PICK key \in Key : key = call[p].key
  BY DEF FilesInv, LocalsStand
<1>2. /\ map' = map /\ blob' = blob /\ Continue(p) /\ day' = day
      /\ call[p].at = "summaryEnd" /\ call[p].at \in Replacing
      /\ meta' = [meta EXCEPT ![key] = [from |-> call[p].start, to |-> call[p].until,
                                        var |-> call[p].using]]
      /\ tainted' = IF call[p].fresh THEN tainted \ {key} ELSE tainted
  BY <1>1 DEF FillSummary, At, Replacing, WriteSummary, world
<1>3. /\ \A q \in Prefetch : q # p => call'[q] = call[q]
      /\ call'[p].at \notin Replacing
  BY <1>2, ContinueIs
<1>4. DOMAIN meta = Key
  BY DEF FilesInv, FilesStand
<1>5. /\ \A k \in Key : k # key => meta'[k] = meta[k]
      /\ meta'[key] = [from |-> call[p].start, to |-> call[p].until, var |-> call[p].using]
  BY <1>2, <1>4
<1>6. \A k \in Key : k # key => (k \in tainted' <=> k \in tainted)
  BY <1>2
<1>7. Only(p, key)
  BY <1>1, <1>2, <1>3, <1>5, <1>6, ReplacerOwns, OnlyIs
<1>8. Cleared(p)'
  BY <1>3 DEF Cleared, Replacing
<1>9. \A q \in Prefetch : call'[q].at \notin Replacing
  BY <1>3, <1>7 DEF Only
<1>10. ASSUME NEW h \in Time, day = 1, key \notin tainted', h <= call[p].until
       PROVE  NotOlder(key, h)'
  <2>1. call[p].fresh \/ key \notin tainted
    BY <1>2, <1>10
  <2>2. Gathered(p)
    BY <1>1, <1>2, <2>1 DEF FilesInv, Sound
  <2>3. PICK u \in Time, v \in Variants : call[p].until = u /\ call[p].data = Rows(1, u, v)
    BY <1>1, <1>2, <1>10, <2>1, GatheredWhole
  <2>4. h \in Int /\ h <= u
    BY <1>10, <2>3, CacheAssumption DEF Time
  <2>5. MapFrom(map'[key], h)
    BY <1>1, <1>2, <2>3, <2>4 DEF MapFrom, FilesInv, Sound
  <2>6. \A i \in BlobId : blob[key][i] \notin {None, Torn} => BlobFrom(blob[key][i], i, h)
    BY <1>1, <1>2, <2>3, <2>4, AllWritten
  <2>7. meta'[key] \in [from : Time, to : Time, var : Variants] /\ meta'[key].to = u
    BY <1>5, <2>2, <2>3 DEF Gathered, FilesInv, LocalsStand
  <2>8. meta'[key] \notin {None, Torn}
    BY <2>7, MarksAssumption
  <2> QED
    BY <1>2, <1>9, <2>4, <2>5, <2>6, <2>7, <2>8 DEF NotOlder
<1>11. ASSUME NEW h \in Time, NotOlder(key, h)
       PROVE  h <= call[p].until
  BY <1>1, <1>2, <1>11 DEF NotOlder
<1>12. ASSUME day = 1, key \notin tainted'
       PROVE  InStep(key)'
  <2>1. call[p].fresh \/ key \notin tainted
    BY <1>2, <1>12
  <2>2. PICK u \in Time, v \in Variants : call[p].until = u /\ call[p].data = Rows(1, u, v)
    BY <1>1, <1>2, <1>12, <2>1, GatheredWhole
  <2>3. u <= call[p].until
    BY <2>2, CacheAssumption DEF Time
  <2>4. NotOlder(key, u)'
    BY <1>10, <1>12, <2>3
  <2>5. map'[key] = ChunkMap(Rows(1, u, v))
    BY <1>1, <1>2, <2>2 DEF FilesInv, Sound
  <2>6. meta'[key].to = u
    BY <1>5, <2>2
  <2>7. (meta[key].to \in Time /\ NotOlder(key, meta[key].to))'
    BY <2>4, <2>6 DEF NotOlder
  <2> QED
    BY <2>4, <2>5, <2>7 DEF InStep
<1> QED
  BY <1>2, <1>7, <1>8, <1>10, <1>11, <1>12 DEF Moved

\* The steps of the cache.
LEMMA StepsAre ==
  ASSUME FilesInv, IInv, OneDayInv, [Next]_vars
  PROVE  Calm \/ \E p \in Prefetch, key \in Key : Moved(p, key)
<1>1. CASE \E p \in Prefetch : Updated(p) \/ CallStep(p)
  <2>1. PICK p \in Prefetch : Updated(p) \/ CallStep(p)
    BY <1>1
  <2>2. CASE Fetch(p)
    BY <2>2, FetchMoves
  <2>3. CASE WriteStep(p) /\ ~WriteFails(p)
    BY <2>3, UnlinkMoves, AllUnlinkedMoves, OpenBlobMoves, FillBlobMoves, OpenMapMoves,
       FillMapMoves, OpenSummaryMoves, FillSummaryMoves DEF WriteStep
  <2> QED
    BY <2>1, <2>2, <2>3, CalmSteps DEF CallStep
<1>2. CASE ProcessDies
  BY <1>2, CalmDeath DEF ProcessDies, files
<1>3. CASE Restart
  <2>1. PICK initial : call' = Calls(initial, day)
    BY <1>3 DEF Restart
  <2>2. \A q \in Prefetch : call'[q].at \notin Replacing
    BY <2>1 DEF Calls, Idle, NewCall, Replacing
  <2>3. \A q \in Prefetch : call[q].at \notin Replacing
    BY <1>3 DEF Restart, IInv, DeadHoldsNothing, LockHasOneOwner, Owns, Critical
  <2>4. UNCHANGED <<files, tainted>>
    BY <1>3 DEF Restart
  <2> QED
    BY <2>2, <2>3, <2>4 DEF Calm
<1>4. CASE NewSample \/ NewDay \/ NewVariants \/ UNCHANGED vars
  <2>1. UNCHANGED <<call, files, tainted>>
    BY <1>4 DEF NewSample, NewDay, NewVariants, vars, process
  <2> QED
    BY <2>1 DEF Calm
<1> QED
  BY <1>1, <1>2, <1>3, <1>4 DEF Next

\* Every step keeps what the files of a metric go up to, and the metrics in step.
LEMMA OneDayKept ==
  ASSUME FilesInv, IInv, OneDayInv, [Next]_vars
  PROVE  OneDayInv'
<1>1. day \in Time /\ day <= day'
  BY DayGrows DEF FilesInv, FilesStand
<1> QED
  BY <1>1, StepsAre, CalmKeeps, MovedKeeps

\* The same for what one metric goes up to, until its files are broken.
LEMMA FloorKept ==
  ASSUME FilesInv, IInv, OneDayInv, [Next]_vars, day' = 1,
         NEW k \in Key, k \notin tainted, k \notin tainted', NEW h \in Time, NotOlder(k, h)
  PROVE  NotOlder(k, h)'
<1>1. day = 1
  BY DayGrows, CacheAssumption DEF FilesInv, FilesStand, Time
<1> QED
  BY <1>1, StepsAre, CalmFloor, MovedFloor

\* When the process starts for the first time there are no files.
LEMMA OneDayBegins == Init => OneDayInv
<1> SUFFICES ASSUME Init PROVE OneDayInv
  OBVIOUS
<1>1. \A q \in Prefetch : call[q].at \notin Replacing
  BY DEF Init, Calls, Idle, NewCall, Replacing
<1>2. \A q \in Prefetch : Cleared(q)
  BY <1>1 DEF Cleared, Replacing
<1>3. \A k \in Key : InStep(k)
  BY DEF Init, InStep
<1> QED
  BY <1>2, <1>3 DEF OneDayInv

-----------------------------------------------------------------------------
(* A request that races with the replacement of its files.                 *)

\* The rows a racing request has gathered are all of the variants of the summary.
OfVariant(rows, v) == \A i \in DOMAIN rows : rows[i].v = v
Alike == OfVariant(reader.rows, reader.entry.var)

\* It has read a map of rows up to sample g.
Mapped(g, w) ==
    /\ reader.entry.to <= g
    /\ reader.map = ChunkMap(Rows(1, g, w)) /\ DOMAIN reader.map \subseteq BlobId
    /\ NotOlder(reader.key, g)
    /\ reader.chunk \in Nat /\ reader.chunk <= NumChunks(Rows(1, g, w))
    /\ reader.rows \in Seq([t : Int, v : Variants])
    /\ Alike =>
          \E last \in 0 .. MaxTime :
             /\ reader.rows = Rows(ReadFrom, last, reader.entry.var)
             /\ IF reader.chunk = NumChunks(Rows(1, g, w))
                THEN Sooner(g, ReadTo) <= last
                ELSE last = Sooner(End(1, g, reader.chunk), ReadTo)

\* What a request has gathered at each of its phases.
Racing ==
    /\ reader.at \in {"summary", "map"} => reader.chunk = 0 /\ reader.rows = <<>>
    /\ reader.at = "summary" => meta[reader.key] # None \/ meta[reader.key] = Torn
    /\ reader.at \in {"map", "chunks", "hit"} => reader.entry.to \in Time
    /\ reader.at = "map" => NotOlder(reader.key, reader.entry.to)
    /\ reader.at = "chunks" => \E g \in Time, w \in Variants : Mapped(g, w)
    /\ reader.at = "hit" /\ Alike =>
          \E last \in 0 .. MaxTime :
             /\ reader.rows = Rows(ReadFrom, last, reader.entry.var)
             /\ Sooner(reader.entry.to, ReadTo) <= last

\* The part of the invariant about a request whose metric was never broken.
RacingInv == /\ Pending /\ reader.sound => reader.key \notin tainted
             /\ reader.at \notin {"idle", "miss", "error"} /\ reader.sound /\ day = 1 => Racing

\* A map tells where its rows end.
LEMMA MapTells ==
  ASSUME NEW f \in Int, NEW g \in Int, NEW v, NEW w, 1 <= f, 1 <= g,
         ChunkMap(Rows(1, f, v)) = ChunkMap(Rows(1, g, w))
  PROVE  f = g
<1>1. PICK m : m = ChunkMap(Rows(1, f, v)) /\ m = ChunkMap(Rows(1, g, w))
  OBVIOUS
<1>2. ASSUME NEW h \in Int, NEW x, 1 <= h, m = ChunkMap(Rows(1, h, x))
      PROVE  \E n \in Nat \ {0} : DOMAIN m = 0 .. n - 1 /\ m[n - 1].to = h
  <2>1. PICK n \in Nat \ {0} : n = NumChunks(Rows(1, h, x))
    BY <1>2, EndsAre
  <2>2. m = [i \in 0 .. n - 1 |-> [from |-> End(1, h, i) + 1, to |-> End(1, h, i + 1)]]
    BY <1>2, <2>1, ChunkMapIs
  <2>3. PICK j \in Nat : j = n - 1 /\ j + 1 = n /\ j \in 0 .. n - 1
    OBVIOUS
  <2>4. m[j].to = End(1, h, j + 1)
    BY <2>2, <2>3
  <2>5. End(1, h, n) = h
    <3>1. \A i \in Nat : NumChunks(Rows(1, h, x)) <= i => End(1, h, i) = h
      BY <1>2, EndsAre
    <3>2. n \in Nat /\ NumChunks(Rows(1, h, x)) <= n
      BY <2>1
    <3> QED
      BY <3>1, <3>2
  <2> QED
    BY <2>2, <2>3, <2>4, <2>5
<1>3. PICK n \in Nat \ {0} : DOMAIN m = 0 .. n - 1 /\ m[n - 1].to = f
  BY <1>1, <1>2
<1>4. PICK k \in Nat \ {0} : DOMAIN m = 0 .. k - 1 /\ m[k - 1].to = g
  BY <1>1, <1>2
<1>5. n - 1 \in 0 .. k - 1 /\ k - 1 \in 0 .. n - 1
  <2>1. n - 1 \in DOMAIN m /\ k - 1 \in DOMAIN m
    BY <1>3, <1>4
  <2> QED
    BY <1>3, <1>4, <2>1
<1>6. n = k
  BY <1>5
<1> QED
  BY <1>3, <1>4, <1>6

\* A longer run of rows has the same chunks, except that the last one may grow.
LEMMA ChunkEnds ==
  ASSUME NEW lo \in Int, NEW g \in Int, NEW h \in Int, NEW w, lo <= g, g <= h,
         NEW n \in Nat, n = NumChunks(Rows(lo, g, w)), NEW i \in Nat, i < n
  PROVE  /\ End(lo, g, i) = End(lo, h, i) /\ End(lo, g, i + 1) <= End(lo, h, i + 1)
         /\ i + 1 < n => End(lo, g, i + 1) = End(lo, h, i + 1)
<1>1. PICK c \in Nat \ {0} : c = ChunkSize
  BY CacheAssumption
<1>2. PICK len \in Nat \ {0} : len = Len(Rows(lo, g, w)) /\ len = g - lo + 1
  <2>1. Span(lo, g) = g - lo + 1 /\ g - lo + 1 \in Nat \ {0}
    BY DEF Span
  <2> QED
    BY <2>1, RunOfRows DEF Run
<1>3. \A j \in 0 .. n - 1 : j * ChunkSize \in Nat /\ j * ChunkSize < len
  BY <1>2, NumChunksIs
<1>4. PICK x \in Nat : x = i * ChunkSize
  BY <1>1
<1>5. x < len
  <2>1. i \in 0 .. n - 1
    OBVIOUS
  <2> QED
    BY <1>3, <1>4, <2>1
<1>6. PICK k \in Nat : k = i + 1
  OBVIOUS
<1>7. PICK y \in Nat : y = k * ChunkSize
  BY <1>1
<1>8. k < n => y < len
  <2>1. k < n => k \in 0 .. n - 1
    OBVIOUS
  <2> QED
    BY <1>3, <1>7, <2>1
<1>9. End(lo, g, i) = Sooner(lo + x - 1, g) /\ End(lo, h, i) = Sooner(lo + x - 1, h)
  BY <1>4 DEF End
<1>10. End(lo, g, k) = Sooner(lo + y - 1, g) /\ End(lo, h, k) = Sooner(lo + y - 1, h)
  BY <1>7 DEF End
<1>11. Sooner(lo + x - 1, g) = Sooner(lo + x - 1, h)
  BY <1>2, <1>5 DEF Sooner
<1>12. Sooner(lo + y - 1, g) <= Sooner(lo + y - 1, h)
  BY DEF Sooner
<1>13. y < len => Sooner(lo + y - 1, g) = Sooner(lo + y - 1, h)
  BY <1>2 DEF Sooner
<1> QED
  BY <1>6, <1>8, <1>9, <1>10, <1>11, <1>12, <1>13

\* What is read of a chunk that has grown since its map was written.
LEMMA GrownPiece ==
  ASSUME NEW a \in Int, NEW d \in Int, NEW e \in Int, NEW v, a <= d, d <= e,
         NEW F \in Int, NEW T \in Int, F <= T, NEW from \in Int, NEW to \in Int,
         Meets([from |-> a, to |-> d], F, T, from, to), a <= to, from <= d
  PROVE  \E l \in Int :
            /\ FromChunk(Rows(a, e, v), [from |-> a, to |-> d], F, T)
                 = Rows(Later(a, from), l, v)
            /\ Later(a, from) <= l /\ l <= e /\ Sooner(d, to) <= l
            /\ d = e => l = Sooner(d, to)
<1>0. PICK c : c = [from |-> a, to |-> d]
  OBVIOUS
<1>1. c = [from |-> a, to |-> d] /\ c.from = a /\ c.to = d
  BY <1>0
<1>1a. PICK f \in Int, u \in Int : f = toMins(F) /\ u = toMins(T) /\ f <= u
  <2>1. /\ toMins(F) \in Int /\ 3 * toMins(F) - 1 <= F /\ F <= 3 * toMins(F) + 1
        /\ toMins(T) \in Int /\ 3 * toMins(T) - 1 <= T /\ T <= 3 * toMins(T) + 1
    BY MinutesAre
  <2>2. toMins(F) <= toMins(T)
    BY DEF toMins
  <2> QED
    BY <2>1, <2>2
<1>1b. /\ f <= from /\ to <= u
       /\ from = f \/ from <= a
       /\ to = u \/ d <= to
       /\ T >= fromMins(d) => d <= to
       /\ F <= fromMins(a) => from <= a
  BY <1>1, <1>1a DEF Meets
<1>1c. from <= to
  BY <1>1a, <1>1b
<1>2. CASE T < fromMins(d) \/ F > fromMins(a)
  <2>1. PICK n \in Nat : n = Span(a, e) /\ a + n - 1 = e
    BY DEF Span
  <2>2. Run(Rows(a, e, v), a, n, v)
    BY <2>1, RunOfRows
  <2>3. Within(Rows(a, e, v), f, u) = Rows(Later(a, f), Sooner(a + n - 1, u), v)
    BY <2>2, WithinIs
  <2>3a. Later(a, f) = Later(a, from)
    BY <1>1b DEF Later
  <2>4. PICK l \in Int : l = Sooner(e, u)
    BY DEF Sooner
  <2>5. Later(a, from) <= l /\ l <= e /\ Sooner(d, to) <= l /\ (d = e => l = Sooner(d, to))
    BY <1>1b, <1>1c, <2>4 DEF Later, Sooner
  <2>6. FromChunk(Rows(a, e, v), c, F, T) = Within(Rows(a, e, v), f, u)
    BY <1>1, <1>1a, <1>2 DEF FromChunk
  <2> QED
    BY <1>1, <2>1, <2>3, <2>3a, <2>4, <2>5, <2>6
<1>3. CASE ~(T < fromMins(d) \/ F > fromMins(a))
  <2>1. FromChunk(Rows(a, e, v), c, F, T) = Rows(a, e, v)
    BY <1>1, <1>3 DEF FromChunk
  <2>1a. fromMins(a) \in Int /\ fromMins(d) \in Int
    BY WholeMinutes
  <2>1b. from <= a /\ d <= to
    BY <1>1b, <1>3, <2>1a
  <2>2. Later(a, from) = a
    BY <2>1b DEF Later
  <2>3. a <= e /\ Sooner(d, to) <= e /\ (d = e => e = Sooner(d, to))
    BY <2>1b DEF Sooner
  <2> QED
    BY <1>1, <2>1, <2>2, <2>3
<1> QED
  BY <1>2, <1>3

\* The rows read so far, which end with row s or with the range, and those after s.
LEMMA GrownJoin ==
  ASSUME NEW from \in Int, NEW to \in Int, NEW s \in Int, NEW a \in Int, a = s + 1,
         NEW l \in Int, NEW v, a <= to, Later(a, from) <= l
  PROVE  Rows(from, Sooner(s, to), v) \o Rows(Later(a, from), l, v) = Rows(from, l, v)
<1>1. Sooner(s, to) = s
  BY DEF Sooner
<1>2. CASE from <= s
  <2>1. Later(a, from) = s + 1 /\ from <= s + 1 /\ s <= l
    BY <1>2 DEF Later
  <2> QED
    BY <1>1, <2>1, RowsGlued
<1>3. CASE ~(from <= s)
  <2>1. Later(a, from) = from
    BY <1>3 DEF Later
  <2>2. Rows(from, s, v) = <<>>
    BY <1>3, RowsNone
  <2>3. Run(Rows(from, l, v), from, Span(from, l), v)
    BY RunOfRows
  <2>4. <<>> \o Rows(from, l, v) = Rows(from, l, v)
    BY <2>3, ConcatEmptySeq DEF Run
  <2> QED
    BY <1>1, <2>1, <2>2, <2>4
<1> QED
  BY <1>2, <1>3

\* Rows are rows.
LEMMA RowsAreRows ==
  ASSUME NEW a \in Int, NEW b \in Int, NEW v \in Variants
  PROVE  Rows(a, b, v) \in Seq([t : Int, v : Variants])
<1>1. Rows(a, b, v) \in Seq({Row(x, v) : x \in Int})
  BY RunOfRows DEF Run
<1>0. Span(a, b) \in Nat
  BY DEF Span
<1>2. PICK n \in Nat : n = Span(a, b)
  BY <1>0
<1>3. ASSUME NEW i \in 1 .. n
      PROVE  Rows(a, b, v)[i] \in [t : Int, v : Variants]
  <2>1. Rows(a, b, v)[i] = Row(a + i - 1, v)
    BY <1>2, RunOfRows DEF Run
  <2>2. a + i - 1 \in Int
    OBVIOUS
  <2> QED
    BY <2>1, <2>2 DEF Row
<1>4. Rows(a, b, v) = [i \in 1 .. n |-> Rows(a, b, v)[i]]
  BY <1>2 DEF Rows, Span
<1>5. PICK r : r = Rows(a, b, v)
  OBVIOUS
<1>6. r = [i \in 1 .. n |-> r[i]] /\ \A i \in 1 .. n : r[i] \in [t : Int, v : Variants]
  BY <1>3, <1>4, <1>5
<1> DEFINE S == [t : Int, v : Variants]
<1>7. \A i \in 1 .. n : r[i] \in S
  BY <1>6
<1> HIDE DEF S
<1>8. r \in [1 .. n -> S]
  BY <1>6, <1>7
<1>9. r \in Seq(S)
  BY <1>8
<1> QED
  BY <1>5, <1>9 DEF S

\* If rows and those added to them are of one variant, each of them is.
LEMMA AlikeParts ==
  ASSUME NEW rows \in Seq([t : Int, v : Variants]), NEW v \in Variants, NEW e,
         NEW a \in Int, NEW l \in Int, a <= l,
         OfVariant(rows \o Rows(a, l, v), e)
  PROVE  e = v /\ OfVariant(rows, e)
<1>0. \A i \in DOMAIN (rows \o Rows(a, l, v)) : (rows \o Rows(a, l, v))[i].v = e
  BY DEF OfVariant
<1> DEFINE S == [t : Int, v : Variants]
<1>1. PICK u \in Seq(S) : u = Rows(a, l, v)
  BY RowsAreRows
<1>2. Len(u) # 0 /\ u[1] = Row(a, v)
  <2>1. PICK n \in Nat : n = Span(a, l) /\ n >= 1
    BY DEF Span
  <2>2. Run(u, a, n, v)
    BY <1>1, <2>1, RunOfRows
  <2>3. 1 \in 1 .. n /\ a + 1 - 1 = a
    BY <2>1
  <2> QED
    BY <2>1, <2>2, <2>3 DEF Run
<1> HIDE DEF S
<1>3. rows \in Seq(S)
  BY DEF S
<1>4. PICK k \in Nat : k = Len(rows)
  BY <1>3
<1>5. PICK j \in Nat \ {0} : j = Len(u)
  BY <1>1, <1>2
<1>6. /\ Len(rows \o u) = k + j /\ rows \o u \in Seq(S)
      /\ \A i \in 1 .. k + j : (rows \o u)[i] = IF i <= k THEN rows[i] ELSE u[i - k]
  BY <1>1, <1>3, <1>4, <1>5, ConcatProperties
<1>7. DOMAIN (rows \o u) = 1 .. k + j
  BY <1>6
<1>8. k + 1 \in 1 .. k + j /\ (k + 1) - k = 1 /\ ~(k + 1 <= k)
  OBVIOUS
<1>9. (rows \o u)[k + 1] = Row(a, v)
  BY <1>2, <1>6, <1>8
<1>10. e = v
  <2>1. k + 1 \in DOMAIN (rows \o u)
    BY <1>7, <1>8
  <2>2. (rows \o u)[k + 1].v = e
    BY <1>0, <1>1, <2>1
  <2>3. Row(a, v).v = v
    BY DEF Row
  <2> QED
    BY <1>9, <2>2, <2>3
<1>11. DOMAIN rows = 1 .. k
  BY <1>3, <1>4
<1>12. ASSUME NEW i \in 1 .. k
       PROVE  rows[i].v = e
  <2>1. i \in 1 .. k + j /\ i <= k
    OBVIOUS
  <2> QED
    BY <1>0, <1>1, <1>6, <1>7, <2>1
<1> QED
  BY <1>10, <1>11, <1>12 DEF OfVariant

\* The map of a metric has no more chunks than there are blobs.
LEMMA MapsKept ==
  ASSUME FilesInv, MapsShort, [Next]_vars
  PROVE  MapsShort'
<1>1. DOMAIN map = Key
  BY DEF FilesInv, FilesStand
<1>2. ASSUME NEW p \in Prefetch, OpenMap(p)
      PROVE  MapsShort'
  <2>1. map' = [map EXCEPT ![call[p].key] = Torn]
    BY <1>2 DEF OpenMap, WriteMap
  <2>2. ASSUME NEW k \in Key, map'[k] \notin {None, Torn}
        PROVE  map'[k] = map[k]
    BY <1>1, <2>1, <2>2
  <2> QED
    BY <2>2 DEF MapsShort
<1>3. ASSUME NEW p \in Prefetch, FillMap(p)
      PROVE  MapsShort'
  <2>1. map' = [map EXCEPT ![call[p].key] = ChunkMap(call[p].data)] /\ call[p].at = "mapEnd"
    BY <1>3 DEF FillMap, WriteMap, At
  <2>2. DOMAIN ChunkMap(call[p].data) = 0 .. NumChunks(call[p].data) - 1
    BY DEF ChunkMap
  <2>3. PICK n \in Nat : n = call[p].next
    BY DEF FilesInv, LocalsStand
  <2>4. NumChunks(call[p].data) = n /\ n <= MaxBlobs
    BY <2>1, <2>3 DEF FilesInv, Sound, BlobsOf, Replacing
  <2>5. DOMAIN ChunkMap(call[p].data) \subseteq BlobId
    BY <2>2, <2>4, CacheAssumption DEF BlobId
  <2>6. ASSUME NEW k \in Key
        PROVE  map'[k] = map[k] \/ map'[k] = ChunkMap(call[p].data)
    BY <1>1, <2>1
  <2> QED
    BY <2>5, <2>6 DEF MapsShort
<1>4. ASSUME ~ \E p \in Prefetch : OpenMap(p) \/ FillMap(p)
      PROVE  map' = map
  <2>1. CASE \E p \in Prefetch : Updated(p) \/ CallStep(p)
    BY <1>4, <2>1 DEF CallStep, WriteStep, Updated, Enter, Locked, Skip, GotVmws, Rejected,
       Look, LookTorn, RequestFails, Fetch, FetchUnreadable, Unlink, AllUnlinked, OpenBlob,
       FillBlob, OpenSummary, FillSummary, WriteFails, files
  <2> QED
    BY <2>1 DEF Next, ProcessDies, Restart, NewSample, NewDay, NewVariants, vars, files
<1>5. map' = map => MapsShort'
  BY DEF MapsShort
<1> QED
  BY <1>2, <1>3, <1>4, <1>5

\* What files nobody touches go up to.
LEMMA StillNotOlder ==
  ASSUME NEW k, NEW h, NotOlder(k, h), call' = call, meta' = meta, map' = map, blob' = blob
  PROVE  NotOlder(k, h)'
  BY DEF NotOlder, Working

\* No chunk from c up to chunk i is needed.
Passed(m, F, T, c, i) == \A j \in c .. i - 1 : j \notin Needed(m, F, T)

\* The chunk is one of the map, and it is needed; the blob holds as much as the map
\* says, or more.
OnChunk(g, w, m, F, T, from, to, i, h, v, b) ==
    /\ 1 <= g /\ m = ChunkMap(Rows(1, g, w)) /\ g <= h
    /\ 1 <= from /\ F <= T /\ MapMeets(m, F, T, from, to)
    /\ i < NumChunks(Rows(1, g, w)) /\ i \in Needed(m, F, T)
    /\ i \in 0 .. NumChunks(Rows(1, h, v)) - 1 /\ b = Chunk(Rows(1, h, v), i)

\* What is read of it is rows up to l, and goes on where the rows before it end.
Joined(g, w, m, F, T, from, to, i, h, v, b) ==
    \E l \in Int, a \in Int :
        /\ FromChunk(b, m[i], F, T) = Rows(a, l, v)
        /\ 1 <= a /\ a <= l /\ l <= h
        /\ Rows(from, Sooner(End(1, g, i), to), v) \o Rows(a, l, v) = Rows(from, l, v)
        /\ IF i + 1 = NumChunks(Rows(1, g, w))
           THEN Sooner(g, to) <= l
           ELSE l = Sooner(End(1, g, i + 1), to)

\* The chunks passed over add nothing to the rows.
LEMMA PassedOver ==
  ASSUME NEW g \in Int, NEW w, 1 <= g, NEW m, m = ChunkMap(Rows(1, g, w)),
         NEW F, NEW T, NEW from \in Int, NEW to \in Int, 1 <= from, MapMeets(m, F, T, from, to),
         NEW v, NEW c \in Nat, NEW i \in Nat,
         c <= i, i <= NumChunks(Rows(1, g, w)),
         Passed(m, F, T, c, i)
  PROVE  Rows(from, Sooner(End(1, g, i), to), v) = Rows(from, Sooner(End(1, g, c), to), v)
<1>1. PICK lo \in Int : lo = 1
  OBVIOUS
<1>2. lo <= g /\ m = ChunkMap(Rows(lo, g, w)) /\ i <= NumChunks(Rows(lo, g, w))
  BY <1>1
<1>3. Part(lo, End(lo, g, i), from, to, v) = Part(lo, End(lo, g, c), from, to, v)
  <2>1. \A j \in c .. i - 1 : j \notin Needed(m, F, T)
    BY DEF Passed
  <2> QED
    BY <1>2, <2>1, NoneNeeded
<1>4. Later(lo, from) = from
  BY <1>1 DEF Later
<1> QED
  BY <1>1, <1>3, <1>4 DEF Part

\* What is read of the next chunk that is needed goes on where the rows end.
LEMMA ChunkJoins ==
  ASSUME NEW g \in Int, NEW w, NEW m, NEW F \in Int, NEW T \in Int,
         NEW from \in Int, NEW to \in Int, NEW i \in Nat, NEW h \in Int, NEW v, NEW b,
         OnChunk(g, w, m, F, T, from, to, i, h, v, b)
  PROVE  Joined(g, w, m, F, T, from, to, i, h, v, b)
<1> SUFFICES ASSUME 1 <= g, m = ChunkMap(Rows(1, g, w)), g <= h, 1 <= from, F <= T,
                    MapMeets(m, F, T, from, to),
                    i < NumChunks(Rows(1, g, w)), i \in Needed(m, F, T),
                    i \in 0 .. NumChunks(Rows(1, h, v)) - 1, b = Chunk(Rows(1, h, v), i)
             PROVE  Joined(g, w, m, F, T, from, to, i, h, v, b)
  BY DEF OnChunk
<1>1. PICK n \in Nat : n = NumChunks(Rows(1, g, w))
  BY EndsAre
<1>2. i \in 0 .. NumChunks(Rows(1, g, w)) - 1 /\ i < n
  BY <1>1
<1>3. PICK j \in Nat : j = i + 1
  OBVIOUS
<1>4. /\ End(1, g, i) \in Int /\ End(1, g, i + 1) \in Int
      /\ 1 - 1 <= End(1, g, i) /\ End(1, g, i) < End(1, g, i + 1)
  BY <1>2, EndStep
<1>5. PICK s \in Int : s = End(1, g, i) /\ 0 <= s
  BY <1>4
<1>6. PICK d \in Int : d = End(1, g, j) /\ s < d
  BY <1>3, <1>4, <1>5
<1>7. /\ End(1, h, i) \in Int /\ End(1, h, i + 1) \in Int /\ End(1, h, i + 1) <= h
  BY EndStep
<1>8. PICK e \in Int : e = End(1, h, j) /\ e <= h
  BY <1>3, <1>7
<1>9. End(1, h, i) = s /\ d <= e /\ (j < n => d = e)
  <2>1. /\ End(1, g, i) = End(1, h, i) /\ End(1, g, i + 1) <= End(1, h, i + 1)
        /\ i + 1 < n => End(1, g, i + 1) = End(1, h, i + 1)
    BY <1>1, <1>2, ChunkEnds
  <2> QED
    BY <1>3, <1>5, <1>6, <1>8, <2>1
<1>10. m = [k \in 0 .. n - 1 |-> [from |-> End(1, g, k) + 1, to |-> End(1, g, k + 1)]]
  BY <1>1, ChunkMapIs
<1>11. PICK a \in Int : a = s + 1
  OBVIOUS
<1>12. i \in 0 .. n - 1
  BY <1>2
<1>13. m[i] = [from |-> a, to |-> d]
  BY <1>3, <1>5, <1>6, <1>10, <1>11, <1>12
<1>14. to >= a /\ from <= d
  <2>1. to >= m[i].from /\ from <= m[i].to
    BY NeededIs
  <2> QED
    BY <1>13, <2>1
<1>14a. Meets([from |-> a, to |-> d], F, T, from, to)
  BY <1>10, <1>12, <1>13 DEF MapMeets
<1>15. b = Rows(a, e, v)
  <2>1. Chunk(Rows(1, h, v), i) = Rows(End(1, h, i) + 1, End(1, h, i + 1), v)
    BY ChunkIs
  <2> QED
    BY <1>3, <1>8, <1>9, <1>11, <2>1
<1>16. a <= d /\ a <= to
  BY <1>6, <1>11, <1>14
<1>17. PICK l \in Int :
         /\ FromChunk(Rows(a, e, v), [from |-> a, to |-> d], F, T) = Rows(Later(a, from), l, v)
         /\ Later(a, from) <= l /\ l <= e /\ Sooner(d, to) <= l
         /\ d = e => l = Sooner(d, to)
  BY <1>9, <1>14, <1>14a, <1>16, GrownPiece
<1>18. Rows(from, Sooner(s, to), v) \o Rows(Later(a, from), l, v) = Rows(from, l, v)
  <2>1. a = s + 1 /\ a <= to /\ Later(a, from) <= l
    BY <1>11, <1>16, <1>17
  <2> QED
    BY <2>1, GrownJoin
<1>19. PICK x \in Int : x = Later(a, from) /\ 1 <= x
  BY DEF Later
<1>20. l <= h
  BY <1>8, <1>17
<1>21. j = n => d = g
  <2>1. \A k \in Nat : NumChunks(Rows(1, g, w)) <= k => End(1, g, k) = g
    BY EndsAre
  <2>2. j = n => NumChunks(Rows(1, g, w)) <= j
    BY <1>1
  <2> QED
    BY <1>6, <2>1, <2>2
<1>22. IF j = n THEN Sooner(g, to) <= l ELSE l = Sooner(d, to)
  <2>1. j <= n
    BY <1>2, <1>3
  <2>2. CASE j = n
    BY <1>17, <1>21, <2>2
  <2>3. CASE j < n
    BY <1>9, <1>17, <2>3
  <2> QED
    BY <2>1, <2>2, <2>3
<1>23. FromChunk(b, m[i], F, T) = Rows(x, l, v) /\ x <= l
  BY <1>13, <1>15, <1>17, <1>19
<1>24. Rows(from, Sooner(End(1, g, i), to), v) \o Rows(x, l, v) = Rows(from, l, v)
  BY <1>5, <1>18, <1>19
<1>25. IF i + 1 = NumChunks(Rows(1, g, w)) THEN Sooner(g, to) <= l
       ELSE l = Sooner(End(1, g, i + 1), to)
  BY <1>1, <1>3, <1>6, <1>22
<1> QED
  BY <1>19, <1>20, <1>23, <1>24, <1>25 DEF Joined

\* A request begins.
LEMMA RequestRaces ==
  ASSUME NEW k \in Key, NEW from \in Dates, NEW to \in Dates, Request(k, from, to)
  PROVE  RacingInv'
<1>1. reader' = [at    |-> IF meta[k] = None THEN "miss" ELSE "summary",
                 key   |-> k, from |-> from, to |-> to,
                 entry |-> None, map |-> None, chunk |-> 0, rows |-> <<>>,
                 quiet |-> ~Working(k), sound |-> k \notin tainted]
      /\ tainted' = tainted /\ meta' = meta
  BY DEF Request, vars, files
<1>2. /\ reader'.at \in {"miss", "summary"} /\ reader'.key = k
      /\ reader'.sound => k \notin tainted
      /\ reader'.chunk = 0 /\ reader'.rows = <<>>
      /\ reader'.at = "summary" => meta[k] # None
  BY <1>1
<1> QED
  BY <1>1, <1>2 DEF RacingInv, Racing, Pending

\* The summary is read.
LEMMA GetSummaryRaces ==
  ASSUME OneDayInv, ReaderStands, RacingInv, GetSummary
  PROVE  RacingInv'
<1>1. /\ reader.at = "summary"
      /\ reader' = IF meta[reader.key] = Torn
                   THEN [reader EXCEPT !.at = "error"]
                   ELSE IF fromMins(meta[reader.key].from) <= reader.from
                   THEN [reader EXCEPT !.at = "map", !.entry = meta[reader.key]]
                   ELSE [reader EXCEPT !.at = "miss"]
      /\ meta' = meta /\ map' = map /\ blob' = blob /\ day' = day /\ call' = call
      /\ tainted' = tainted
  BY DEF GetSummary, Reading, vars, files, world, process
<1>2. DOMAIN reader = Fields /\ reader.key \in Key
  BY <1>1, RequestStands
<1>3. /\ reader'.key = reader.key /\ reader'.chunk = reader.chunk /\ reader'.rows = reader.rows
      /\ reader'.sound = reader.sound
      /\ reader'.at \in {"error", "map", "miss"}
      /\ reader'.at = "map" => reader'.entry = meta[reader.key] /\ meta[reader.key] # Torn
  BY <1>1, <1>2 DEF Fields
<1>4. PICK k \in Key : k = reader.key
  BY <1>2
<1>5. reader.sound => k \notin tainted
  BY <1>1, <1>4 DEF RacingInv, Pending
<1>6. ASSUME reader'.at = "map", reader'.sound, day' = 1
      PROVE  Racing'
  <2>1. Racing /\ k \notin tainted
    BY <1>1, <1>3, <1>5, <1>6 DEF RacingInv
  <2>2. meta[k] \notin {None, Torn} /\ reader.chunk = 0 /\ reader.rows = <<>>
    BY <1>1, <1>3, <1>4, <1>6, <2>1 DEF Racing
  <2>3. InStep(k)
    BY <1>1, <1>6, <2>1 DEF OneDayInv
  <2>4. PICK h \in Time : h = meta[k].to /\ NotOlder(k, h)
    BY <2>2, <2>3 DEF InStep
  <2>5. NotOlder(k, h)'
    BY <1>1, <2>4, StillNotOlder
  <2>6. reader'.key = k /\ reader'.entry.to = h
    BY <1>3, <1>4, <1>6, <2>4
  <2>7. (NotOlder(reader.key, reader.entry.to))'
    BY <2>5, <2>6 DEF NotOlder, Working
  <2> QED
    BY <1>3, <1>6, <2>2, <2>6, <2>7 DEF Racing
<1> QED
  BY <1>1, <1>3, <1>4, <1>5, <1>6 DEF RacingInv, Pending

\* The map is read.
LEMMA GetMapRaces ==
  ASSUME OneDayInv, MapsShort, ReaderStands, RacingInv, GetMap
  PROVE  RacingInv'
<1>1. /\ reader.at = "map"
      /\ reader' = IF map[reader.key] \in {None, Torn}
                   THEN [reader EXCEPT !.at = "error"]
                   ELSE [reader EXCEPT !.at = "chunks", !.map = map[reader.key]]
      /\ meta' = meta /\ map' = map /\ blob' = blob /\ day' = day /\ call' = call
      /\ tainted' = tainted
  BY DEF GetMap, Reading, vars, files, world, process
<1>2. /\ DOMAIN reader = Fields /\ reader.key \in Key
      /\ reader.from \in Dates /\ reader.to \in Dates /\ reader.from <= reader.to
  BY <1>1, RequestStands
<1>3. /\ reader'.key = reader.key /\ reader'.chunk = reader.chunk /\ reader'.rows = reader.rows
      /\ reader'.sound = reader.sound /\ reader'.entry = reader.entry
      /\ reader'.from = reader.from /\ reader'.to = reader.to
      /\ reader'.at \in {"error", "chunks"}
      /\ reader'.at = "chunks" => /\ reader'.map = map[reader.key]
                                  /\ map[reader.key] \notin {None, Torn}
  BY <1>1, <1>2 DEF Fields
<1>4. PICK k \in Key : k = reader.key
  BY <1>2
<1>5. reader.sound => k \notin tainted
  BY <1>1, <1>4 DEF RacingInv, Pending
<1>6. ASSUME reader'.at = "chunks", reader'.sound, day' = 1
      PROVE  Racing'
  <2>1. Racing /\ k \notin tainted
    BY <1>1, <1>3, <1>5, <1>6 DEF RacingInv
  <2>2. /\ reader.entry.to \in Time /\ NotOlder(k, reader.entry.to)
        /\ reader.chunk = 0 /\ reader.rows = <<>>
    BY <1>1, <1>4, <2>1 DEF Racing
  <2>3. PICK h \in Time : h = reader.entry.to /\ NotOlder(k, h)
    BY <2>2
  <2>4. InStep(k)
    BY <1>1, <1>6, <2>1 DEF OneDayInv
  <2>5. map[k] \notin {None, Torn} /\ reader'.map = map[k]
    BY <1>3, <1>4, <1>6
  <2>6. PICK g \in Time, w \in Variants : map[k] = ChunkMap(Rows(1, g, w)) /\ NotOlder(k, g)
    BY <2>4, <2>5 DEF InStep
  <2>7. PICK f \in Time, u \in Variants : h <= f /\ map[k] = ChunkMap(Rows(1, f, u))
    BY <2>3, <2>5 DEF NotOlder, MapFrom
  <2>8. /\ f \in Int /\ g \in Int /\ 1 <= f /\ 1 <= g
        /\ ChunkMap(Rows(1, f, u)) = ChunkMap(Rows(1, g, w))
    BY <2>6, <2>7, CacheAssumption DEF Time
  <2>9. h <= g
    BY <2>7, <2>8, MapTells
  <2>10. NotOlder(k, g)'
    BY <1>1, <2>6, StillNotOlder
  <2>11. reader'.key = k /\ reader'.entry.to = h /\ reader'.chunk = 0 /\ reader'.rows = <<>>
    BY <1>3, <1>4, <2>2, <2>3
  <2>12. DOMAIN map[k] \subseteq BlobId
    BY <2>5 DEF MapsShort
  <2>13. PICK from \in Int, to \in Int : /\ from = ReadFrom' /\ to = ReadTo'
                                         /\ 1 <= from /\ 1 <= to
    <3>1. PICK x : x = reader'.map
      OBVIOUS
    <3>2. PICK F \in Int, T \in Int : /\ F = reader'.from /\ T = reader'.to
                                     /\ F <= T /\ fromMins(1) <= F
      BY <1>2, <1>3, DatesAssumption
    <3>3. /\ Beginning(x, F) \in Int /\ Ending(x, T) \in Int
          /\ 1 <= Beginning(x, F) /\ 1 <= Ending(x, T)
      BY <3>2, BoundsAre
    <3> QED
      BY <3>1, <3>2, <3>3 DEF ReadFrom, ReadTo
  <2>14. Rows(from, 0, reader'.entry.var) = <<>>
    BY <2>13, RowsNone
  <2>15. NumChunks(Rows(1, g, w)) \in Nat \ {0} /\ End(1, g, 0) = 1 - 1
    BY <2>8, EndsAre
  <2>16. Sooner(End(1, g, 0), to) = 0
    BY <2>13, <2>15 DEF Sooner
  <2>17. 0 \in 0 .. MaxTime
    BY CacheAssumption
  <2>18. NotOlder(reader.key, g)'
    BY <2>10, <2>11 DEF NotOlder, Working
  <2>19. /\ 0 <= NumChunks(Rows(1, g, w)) /\ 0 # NumChunks(Rows(1, g, w))
         /\ <<>> \in Seq([t : Int, v : Variants])
    BY <2>15
  <2>20. \E last \in 0 .. MaxTime :
             /\ reader'.rows = Rows(ReadFrom', last, reader'.entry.var)
             /\ IF reader'.chunk = NumChunks(Rows(1, g, w))
                THEN Sooner(g, ReadTo') <= last
                ELSE last = Sooner(End(1, g, reader'.chunk), ReadTo')
    BY <2>11, <2>13, <2>14, <2>16, <2>17, <2>19
  <2>21. Mapped(g, w)'
    BY <2>5, <2>6, <2>9, <2>11, <2>12, <2>18, <2>19, <2>20 DEF Mapped
  <2> QED
    BY <1>6, <2>3, <2>11, <2>21 DEF Racing
<1> QED
  BY <1>1, <1>3, <1>4, <1>5, <1>6 DEF RacingInv, Pending

\* A chunk is read.
LEMMA GetChunkRaces ==
  ASSUME ReaderStands, RacingInv, GetChunk
  PROVE  RacingInv'
<1>1. PICK i : i = Min(Remaining)
  OBVIOUS
<1>2. /\ reader.at = "chunks" /\ Remaining # {}
      /\ reader' = IF blob[reader.key][i] \in {None, Torn}
                   THEN [reader EXCEPT !.at = "error"]
                   ELSE [reader EXCEPT !.chunk = i + 1,
                           !.rows = reader.rows \o FromChunk(blob[reader.key][i], reader.map[i],
                                                             reader.from, reader.to)]
      /\ meta' = meta /\ map' = map /\ blob' = blob /\ day' = day /\ call' = call
      /\ tainted' = tainted
  BY <1>1 DEF GetChunk, Reading, vars, files, world, process
<1>3. /\ DOMAIN reader = Fields /\ reader.key \in Key
      /\ reader.from \in Dates /\ reader.to \in Dates /\ reader.from <= reader.to
  BY <1>2, RequestStands
<1>4. /\ reader'.key = reader.key /\ reader'.from = reader.from /\ reader'.to = reader.to
      /\ reader'.sound = reader.sound
      /\ reader'.entry = reader.entry /\ reader'.map = reader.map
      /\ reader'.at \in {"error", "chunks"}
      /\ reader'.at = "chunks" =>
            /\ blob[reader.key][i] \notin {None, Torn}
            /\ reader'.chunk = i + 1
            /\ reader'.rows = reader.rows \o FromChunk(blob[reader.key][i], reader.map[i],
                                                       reader.from, reader.to)
  BY <1>2, <1>3 DEF Fields
<1>5. PICK key \in Key : key = reader.key
  BY <1>3
<1>6. reader.sound => key \notin tainted
  BY <1>2, <1>5 DEF RacingInv, Pending
<1>7. ASSUME reader'.at = "chunks", reader'.sound, day' = 1
      PROVE  Racing'
  <2>1. Racing
    BY <1>2, <1>4, <1>7 DEF RacingInv
  <2>2. PICK g \in Time, w \in Variants : Mapped(g, w)
    BY <1>2, <2>1 DEF Racing
  <2>3. PICK m : m = reader.map /\ m = ChunkMap(Rows(1, g, w)) /\ DOMAIN m \subseteq BlobId
    BY <2>2 DEF Mapped
  <2>4. PICK from \in Int, to \in Int, F \in Int, T \in Int :
            /\ from = ReadFrom /\ to = ReadTo /\ F = reader.from /\ T = reader.to
            /\ 1 <= from /\ F <= T
    BY <1>2, RangeIs
  <2>4a. ReadFrom' = from /\ ReadTo' = to
    BY <1>4, <2>4 DEF ReadFrom, ReadTo
  <2>4b. MapMeets(m, F, T, from, to)
    <3>1. g \in Int /\ 1 <= g /\ 1 \in Int /\ reader.map = ChunkMap(Rows(1, g, w))
      BY <2>3, CacheAssumption DEF Time
    <3>2. MapMeets(reader.map, reader.from, reader.to, ReadFrom, ReadTo)
      BY <1>2, <3>1, ReadMeets
    <3> QED
      BY <2>3, <2>4, <3>2
  <2>5. g \in Int /\ 1 <= g /\ reader.entry.to \in Time
    BY <1>2, <2>1, CacheAssumption DEF Time, Racing
  <2>5a. g \in Int /\ 1 <= g
    BY <2>5
  <2>6. PICK n \in Nat : n = NumChunks(Rows(1, g, w))
    BY <2>5a, EndsAre
  <2>7. PICK c \in Nat : c = reader.chunk /\ c <= n
    BY <2>2, <2>6 DEF Mapped
  <2>8. /\ i \in 0 .. NumChunks(Rows(1, g, w)) - 1 /\ i \in Nat /\ reader.chunk <= i
        /\ i \in Needed(reader.map, reader.from, reader.to)
        /\ \A j \in reader.chunk .. i - 1 : j \notin Needed(reader.map, reader.from, reader.to)
    <3>1. reader.map = ChunkMap(Rows(1, g, w)) /\ reader.chunk \in Nat
      BY <2>3, <2>7
    <3> QED
      BY <1>1, <1>2, <2>5, <3>1, NextChunk
  <2>9. PICK x \in Nat : x = i /\ x < n /\ c <= x
    BY <2>6, <2>7, <2>8
  <2>10. x \in Needed(m, F, T) /\ \A j \in c .. x - 1 : j \notin Needed(m, F, T)
    BY <2>3, <2>4, <2>7, <2>8, <2>9
  <2>11. x \in BlobId
    BY <2>3, <2>10 DEF Needed
  <2>12. PICK b : b = blob[key][x] /\ b \notin {None, Torn}
    BY <1>4, <1>5, <1>7, <2>9
  <2>13. NotOlder(key, g)
    BY <1>5, <2>2 DEF Mapped
  <2>14. PICK h \in Time, v \in Variants :
            /\ g <= h /\ x \in 0 .. NumChunks(Rows(1, h, v)) - 1 /\ b = Chunk(Rows(1, h, v), x)
    BY <2>11, <2>12, <2>13 DEF NotOlder, BlobFrom
  <2>15. h \in Int /\ h <= MaxTime
    BY CacheAssumption DEF Time
  <2>16. PICK l \in Int, a \in Int :
            /\ FromChunk(b, m[x], F, T) = Rows(a, l, v)
            /\ 1 <= a /\ a <= l /\ l <= h
            /\ Rows(from, Sooner(End(1, g, x), to), v) \o Rows(a, l, v) = Rows(from, l, v)
            /\ IF x + 1 = NumChunks(Rows(1, g, w))
               THEN Sooner(g, to) <= l
               ELSE l = Sooner(End(1, g, x + 1), to)
    <3>1. OnChunk(g, w, m, F, T, from, to, x, h, v, b)
      BY <2>3, <2>4, <2>4b, <2>5a, <2>6, <2>9, <2>10, <2>14 DEF OnChunk
    <3>2. Joined(g, w, m, F, T, from, to, x, h, v, b)
      BY <2>5a, <2>15, <3>1, ChunkJoins
    <3> QED
      BY <3>2 DEF Joined
  <2>17. PICK rows \in Seq([t : Int, v : Variants]) : rows = reader.rows
    BY <2>2 DEF Mapped
  <2>18. reader'.rows = rows \o Rows(a, l, v)
    BY <1>4, <1>5, <1>7, <2>3, <2>4, <2>9, <2>12, <2>16, <2>17
  <2>19. rows \o Rows(a, l, v) \in Seq([t : Int, v : Variants])
    <3>1. Rows(a, l, v) \in Seq([t : Int, v : Variants])
      BY RowsAreRows
    <3> QED
      BY <3>1, ConcatProperties
  <2>20. ASSUME Alike'
         PROVE  rows \o Rows(a, l, v) = Rows(from, l, v) /\ reader.entry.var = v
    <3>1. PICK e : e = reader.entry.var
      OBVIOUS
    <3>2. OfVariant(rows \o Rows(a, l, v), e) /\ a <= l
      BY <1>4, <2>16, <2>18, <2>20, <3>1 DEF Alike
    <3>3. e = v /\ OfVariant(rows, e)
      BY <3>2, AlikeParts
    <3>4. Alike
      BY <2>17, <3>1, <3>3 DEF Alike
    <3>5. c # n
      BY <2>9
    <3>6. PICK last \in 0 .. MaxTime :
             /\ reader.rows = Rows(ReadFrom, last, reader.entry.var)
             /\ last = Sooner(End(1, g, reader.chunk), ReadTo)
      BY <2>2, <2>6, <2>7, <3>4, <3>5 DEF Mapped
    <3>7. rows = Rows(from, Sooner(End(1, g, c), to), v)
      BY <2>4, <2>7, <2>17, <3>1, <3>3, <3>6
    <3>8. Rows(from, Sooner(End(1, g, x), to), v) = Rows(from, Sooner(End(1, g, c), to), v)
      <4>1. c <= x /\ x <= NumChunks(Rows(1, g, w)) /\ Passed(m, F, T, c, x)
        BY <2>6, <2>9, <2>10 DEF Passed
      <4> QED
        BY <2>3, <2>4, <2>4b, <2>5a, <4>1, PassedOver
    <3> QED
      BY <2>16, <3>1, <3>3, <3>7, <3>8
  <2>21. l \in 0 .. MaxTime
    BY <2>15, <2>16, CacheAssumption
  <2>22. /\ reader'.key = key /\ reader'.entry = reader.entry /\ reader'.map = m
         /\ reader'.chunk = x + 1 /\ ReadFrom' = from /\ ReadTo' = to
         /\ reader'.rows = rows \o Rows(a, l, v)
    BY <1>4, <1>5, <1>7, <2>3, <2>4a, <2>9, <2>18
  <2>23. NotOlder(key, g)'
    BY <1>2, <2>13, StillNotOlder
  <2>24. NotOlder(reader.key, g)'
    BY <2>22, <2>23 DEF NotOlder, Working
  <2>25. Alike' =>
          \E last \in 0 .. MaxTime :
             /\ reader'.rows = Rows(ReadFrom', last, reader'.entry.var)
             /\ IF reader'.chunk = NumChunks(Rows(1, g, w))
                THEN Sooner(g, ReadTo') <= last
                ELSE last = Sooner(End(1, g, reader'.chunk), ReadTo')
    BY <2>16, <2>20, <2>21, <2>22
  <2>26. x + 1 \in Nat /\ x + 1 <= NumChunks(Rows(1, g, w))
    BY <2>6, <2>9
  <2>27. reader.entry.to <= g
    BY <2>2 DEF Mapped
  <2>28. Mapped(g, w)'
    BY <2>3, <2>19, <2>22, <2>24, <2>25, <2>26, <2>27 DEF Mapped
  <2> QED
    BY <1>7, <2>5, <2>22, <2>28 DEF Racing
<1> QED
  BY <1>2, <1>4, <1>5, <1>6, <1>7 DEF RacingInv, Pending

\* The request is answered.
LEMMA RespondRaces ==
  ASSUME ReaderStands, RacingInv, Respond
  PROVE  RacingInv'
<1>1. /\ reader.at = "chunks" /\ Remaining = {}
      /\ reader' = [reader EXCEPT !.at = "hit"]
      /\ day' = day /\ tainted' = tainted
  BY DEF Respond, Reading, vars, world
<1>2. /\ DOMAIN reader = Fields
      /\ reader.from \in Dates /\ reader.to \in Dates /\ reader.from <= reader.to
  BY <1>1, RequestStands
<1>3. /\ reader'.from = reader.from /\ reader'.to = reader.to
      /\ reader'.sound = reader.sound
      /\ reader'.entry = reader.entry /\ reader'.rows = reader.rows
      /\ reader'.map = reader.map /\ reader'.at = "hit"
  BY <1>1, <1>2 DEF Fields
<1>4. ASSUME reader'.sound, day' = 1
      PROVE  Racing'
  <2>1. Racing
    BY <1>1, <1>3, <1>4 DEF RacingInv
  <2>2. PICK g \in Time, w \in Variants : Mapped(g, w)
    BY <1>1, <2>1 DEF Racing
  <2>3. PICK m : m = reader.map /\ m = ChunkMap(Rows(1, g, w))
    BY <2>2 DEF Mapped
  <2>4. PICK from \in Int, to \in Int, F \in Int, T \in Int :
            /\ from = ReadFrom /\ to = ReadTo /\ F = reader.from /\ T = reader.to
            /\ 1 <= from /\ 1 <= to
    BY <1>1, RangeIs
  <2>4a. ReadFrom' = from /\ ReadTo' = to
    BY <1>3, <2>4 DEF ReadFrom, ReadTo
  <2>4b. MapMeets(m, F, T, from, to)
    <3>1. g \in Int /\ 1 <= g /\ 1 \in Int /\ reader.map = ChunkMap(Rows(1, g, w))
      BY <2>3, CacheAssumption DEF Time
    <3>2. MapMeets(reader.map, reader.from, reader.to, ReadFrom, ReadTo)
      BY <1>1, <3>1, ReadMeets
    <3> QED
      BY <2>3, <2>4, <3>2
  <2>5. g \in Int /\ 1 <= g /\ reader.entry.to \in Time
    BY <1>1, <2>1, CacheAssumption DEF Time, Racing
  <2>5a. g \in Int /\ 1 <= g
    BY <2>5
  <2>6. PICK n \in Nat : n = NumChunks(Rows(1, g, w))
    BY <2>5a, EndsAre
  <2>7. PICK c \in Nat : c = reader.chunk /\ c <= n
    BY <2>2, <2>6 DEF Mapped
  <2>8. PICK h \in Int : h = reader.entry.to /\ h <= g
    BY <2>2, <2>5, CacheAssumption DEF Mapped, Time
  <2>9. ASSUME Alike
        PROVE  \E last \in 0 .. MaxTime :
                  /\ reader.rows = Rows(from, last, reader.entry.var)
                  /\ Sooner(g, to) <= last
    <3>1. PICK last \in 0 .. MaxTime :
             /\ reader.rows = Rows(from, last, reader.entry.var)
             /\ IF c = n THEN Sooner(g, to) <= last ELSE last = Sooner(End(1, g, c), to)
      BY <2>2, <2>4, <2>6, <2>7, <2>9 DEF Mapped
    <3>2. CASE c = n
      BY <3>1, <3>2
    <3>3. CASE c # n
      <4>1. \A j \in c .. n - 1 : j \notin Needed(m, F, T)
        <5>1. \A j \in Needed(reader.map, reader.from, reader.to) :
                 j >= reader.chunk => j \in Remaining
          <6>1. reader.map = ChunkMap(Rows(1, g, w))
            BY <2>3
          <6> QED
            BY <2>5, <6>1, RemainingAre
        <5>2. \A j \in c .. n - 1 : j >= c
          OBVIOUS
        <5> QED
          BY <1>1, <2>3, <2>4, <2>7, <5>1, <5>2
      <4>2. PICK v : v = reader.entry.var
        OBVIOUS
      <4>3. Rows(from, Sooner(End(1, g, n), to), v) = Rows(from, Sooner(End(1, g, c), to), v)
        <5>1. c <= n /\ n <= NumChunks(Rows(1, g, w)) /\ Passed(m, F, T, c, n)
          BY <2>6, <2>7, <4>1 DEF Passed
        <5> QED
          BY <2>3, <2>4, <2>4b, <2>5a, <5>1, PassedOver
      <4>4. End(1, g, n) = g
        <5>1. \A j \in Nat : NumChunks(Rows(1, g, w)) <= j => End(1, g, j) = g
          BY <2>5, EndsAre
        <5>2. NumChunks(Rows(1, g, w)) <= n
          BY <2>6
        <5> QED
          BY <5>1, <5>2
      <4>5. reader.rows = Rows(from, Sooner(g, to), v)
        BY <3>1, <3>3, <4>2, <4>3, <4>4
      <4>6. Sooner(g, to) \in 0 .. MaxTime /\ Sooner(g, to) <= Sooner(g, to)
        <5>1. g <= MaxTime
          BY CacheAssumption DEF Time
        <5> QED
          BY <2>4, <2>5, <5>1, CacheAssumption DEF Sooner
      <4> QED
        BY <4>2, <4>5, <4>6
    <3> QED
      BY <3>2, <3>3
  <2>10. Sooner(h, to) <= Sooner(g, to) /\ Sooner(h, to) \in Int /\ Sooner(g, to) \in Int
    BY <2>4, <2>5, <2>8 DEF Sooner
  <2>11. Alike' => Alike
    BY <1>3 DEF Alike
  <2>12. \A last \in 0 .. MaxTime : Sooner(g, to) <= last => Sooner(h, to) <= last
    BY <2>10, CacheAssumption
  <2>13. Alike' => \E last \in 0 .. MaxTime :
                      /\ reader.rows = Rows(from, last, reader.entry.var)
                      /\ Sooner(h, to) <= last
    BY <2>9, <2>11, <2>12
  <2> QED
    BY <1>3, <2>4a, <2>5, <2>8, <2>13 DEF Racing
<1> QED
  BY <1>3, <1>4 DEF RacingInv, Pending

\* A summary is not taken away, except that the file is truncated.
LEMMA MetaStays ==
  ASSUME FilesInv, [Next]_vars, NEW k \in Key, k \notin tainted'
  PROVE  meta'[k] = meta[k] \/ meta'[k] # None \/ meta'[k] = Torn
<1>1. DOMAIN meta = Key
  BY DEF FilesInv, FilesStand
<1>2. ASSUME NEW p \in Prefetch, OpenSummary(p)
      PROVE  meta'[k] = meta[k] \/ meta'[k] = Torn
  BY <1>1, <1>2 DEF OpenSummary, WriteSummary
<1>3. ASSUME NEW p \in Prefetch, FillSummary(p)
      PROVE  meta'[k] = meta[k] \/ meta'[k] # None
  <2>1. PICK key \in Key : key = call[p].key
    BY DEF FilesInv, LocalsStand
  <2>2. PICK entry : entry = [from |-> call[p].start, to |-> call[p].until, var |-> call[p].using]
    OBVIOUS
  <2>3. /\ meta' = [meta EXCEPT ![key] = entry] /\ call[p].at = "summaryEnd"
        /\ tainted' = IF call[p].fresh THEN tainted \ {key} ELSE tainted
    BY <1>3, <2>1, <2>2 DEF FillSummary, WriteSummary, At
  <2>4. CASE k = key
    <3>1. call[p].fresh \/ call[p].key \notin tainted
      BY <2>1, <2>3, <2>4
    <3>2. Gathered(p)
      BY <2>3, <3>1 DEF FilesInv, Sound, Replacing
    <3>3. call[p].start \in Time /\ call[p].until \in Time /\ call[p].using \in Variants
      BY <3>2 DEF FilesInv, LocalsStand, Gathered
    <3>4. entry \in [from : Time, to : Time, var : Variants]
      BY <2>2, <3>3
    <3>5. meta'[k] = entry
      BY <1>1, <2>3, <2>4
    <3> QED
      BY <3>4, <3>5, MarksAssumption
  <2>5. CASE k # key
    BY <1>1, <2>3, <2>5
  <2> QED
    BY <2>4, <2>5
<1>4. ASSUME ~ \E p \in Prefetch : OpenSummary(p) \/ FillSummary(p)
      PROVE  meta' = meta
  <2>1. CASE \E p \in Prefetch : Updated(p) \/ CallStep(p)
    BY <1>4, <2>1 DEF CallStep, WriteStep, Updated, Enter, Locked, Skip, GotVmws, Rejected,
       Look, LookTorn, RequestFails, Fetch, FetchUnreadable, Unlink, AllUnlinked, OpenBlob,
       FillBlob, OpenMap, FillMap, WriteFails, files
  <2> QED
    BY <2>1 DEF Next, ProcessDies, Restart, NewSample, NewDay, NewVariants, vars, files
<1> QED
  BY <1>2, <1>3, <1>4

\* A step of the writer, or of the world.
LEMMA WriterRaces ==
  ASSUME FilesInv, IInv, OneDayInv, ReaderStands, RacingInv, day \in Time, day' \in Time,
         WriterStep
  PROVE  RacingInv'
<1>1. CASE ~alive' \/ ~Pending
  <2>1. reader'.at = "idle"
    BY <1>1 DEF WriterStep, NoRequest
  <2> QED
    BY <2>1 DEF RacingInv, Pending
<1>2. CASE ~(~alive' \/ ~Pending)
  <2>1. /\ reader' = [[reader EXCEPT !.quiet = reader.quiet /\ SameFiles(reader.key)]
                                EXCEPT !.sound = reader.sound /\ reader.key \notin tainted']
        /\ Next /\ reader.at \in {"summary", "map", "chunks"}
    BY <1>2 DEF WriterStep, Pending
  <2>2. DOMAIN reader = Fields /\ reader.key \in Key
    BY <2>1, RequestStands
  <2>3. /\ reader'.key = reader.key /\ reader'.from = reader.from /\ reader'.to = reader.to
        /\ reader'.sound = (reader.sound /\ reader.key \notin tainted')
        /\ reader'.entry = reader.entry /\ reader'.map = reader.map
        /\ reader'.rows = reader.rows /\ reader'.chunk = reader.chunk
        /\ reader'.at = reader.at
    BY <2>1, <2>2 DEF Fields
  <2>4. PICK k \in Key : k = reader.key
    BY <2>2
  <2>5. ASSUME reader'.sound, day' = 1
        PROVE  Racing'
    <3>1. [Next]_vars /\ k \notin tainted'
      BY <2>1, <2>3, <2>4, <2>5
    <3>2. day = 1
      <4>1. day <= day'
        BY <3>1, DayGrows DEF FilesInv
      <4> QED
        BY <2>5, <4>1, CacheAssumption DEF Time
    <3>3. Racing /\ k \notin tainted
      BY <2>1, <2>3, <2>4, <2>5, <3>2 DEF RacingInv, Pending
    <3>4. ASSUME NEW h \in Time, NotOlder(k, h)
          PROVE  NotOlder(reader.key, h)'
      <4>1. NotOlder(k, h)'
        BY <2>5, <3>1, <3>3, <3>4, FloorKept
      <4> QED
        BY <2>3, <2>4, <4>1 DEF NotOlder, Working
    <3>5. CASE reader.at = "summary"
      <4>1. meta'[k] = meta[k] \/ meta'[k] # None \/ meta'[k] = Torn
        BY <3>1, MetaStays
      <4> QED
        BY <2>3, <2>4, <3>3, <3>5, <4>1 DEF Racing
    <3>6. CASE reader.at = "map"
      <4>1. PICK h \in Time : h = reader.entry.to /\ NotOlder(k, h)
        BY <2>4, <3>3, <3>6 DEF Racing
      <4>2. NotOlder(reader.key, h)' /\ h = reader'.entry.to
        BY <2>3, <3>4, <4>1
      <4>3. NotOlder(reader.key, reader.entry.to)'
        BY <4>2 DEF NotOlder
      <4> QED
        BY <2>3, <3>3, <3>6, <4>1, <4>3 DEF Racing
    <3>7. CASE reader.at = "chunks"
      <4>1. PICK g \in Time, w \in Variants : Mapped(g, w)
        BY <3>3, <3>7 DEF Racing
      <4>2. NotOlder(reader.key, g)'
        BY <2>4, <3>4, <4>1 DEF Mapped
      <4>3. Alike' => Alike
        BY <2>3 DEF Alike
      <4>3a. ReadFrom' = ReadFrom /\ ReadTo' = ReadTo
        BY <2>3 DEF ReadFrom, ReadTo
      <4>4. Mapped(g, w)'
        BY <2>3, <4>1, <4>2, <4>3, <4>3a DEF Mapped
      <4> QED
        BY <2>3, <3>3, <3>7, <4>4 DEF Racing
    <3> QED
      BY <2>1, <3>5, <3>6, <3>7
  <2>6. reader'.sound => reader'.key \notin tainted'
    BY <2>3
  <2> QED
    BY <2>5, <2>6 DEF RacingInv
<1> QED
  BY <1>1, <1>2

\* The invariant that implies RacingReadsHaveNoHoles.
RacesInv == ReadsInv /\ OneDayInv /\ MapsShort /\ RacingInv

\* It holds at first.
LEMMA RacesBegin == InitReads => RacesInv
<1> SUFFICES ASSUME InitReads PROVE RacesInv
  OBVIOUS
<1>1. ReadsInv /\ OneDayInv
  BY ReadsBegin, OneDayBegins DEF InitReads
<1>2. reader.at = "idle"
  BY DEF InitReads, NoRequest
<1>3. MapsShort
  BY DEF InitReads, Init, MapsShort
<1> QED
  BY <1>1, <1>2, <1>3 DEF RacesInv, RacingInv, Pending

\* Every step of the cache and of the request keeps it.
LEMMA RacesKept == RacesInv /\ [NextReads]_varsReads => RacesInv'
<1> SUFFICES ASSUME RacesInv, [NextReads]_varsReads PROVE RacesInv'
  OBVIOUS
<1>1. ReadsInv /\ IInv /\ FilesInv /\ ReaderStands /\ OneDayInv /\ MapsShort /\ RacingInv
  BY DEF RacesInv, ReadsInv
<1>2. [Next]_vars
  BY DEF NextReads, ReaderStep, Request, GetSummary, GetMap, GetChunk, Respond, WriterStep,
         varsReads
<1>3. ReadsInv'
  BY <1>1, ReadsKept
<1>4. OneDayInv' /\ MapsShort'
  BY <1>1, <1>2, OneDayKept, MapsKept
<1>5. RacingInv'
  <2>1. CASE ReaderStep
    BY <1>1, <2>1, RequestRaces, GetSummaryRaces, GetMapRaces, GetChunkRaces, RespondRaces
       DEF ReaderStep
  <2>2. CASE WriterStep
    <3>1. day \in Time /\ day' \in Time
      BY <1>1, <1>3 DEF ReadsInv, FilesInv, FilesStand
    <3> QED
      BY <1>1, <2>2, <3>1, WriterRaces
  <2>3. CASE UNCHANGED varsReads
    <3>1. /\ reader' = reader /\ meta' = meta /\ map' = map /\ blob' = blob /\ day' = day
          /\ call' = call /\ tainted' = tainted
      BY <2>3 DEF varsReads, vars, files, world, process
    <3>2. ASSUME NEW h, NotOlder(reader.key, h)
          PROVE  NotOlder(reader.key, h)'
      BY <3>1, <3>2 DEF NotOlder, Working
    <3>3. Alike' <=> Alike
      BY <3>1 DEF Alike
    <3>3a. ReadFrom' = ReadFrom /\ ReadTo' = ReadTo
      BY <3>1 DEF ReadFrom, ReadTo
    <3>4. ASSUME NEW g \in Time, NEW w \in Variants, Mapped(g, w)
          PROVE  Mapped(g, w)'
      BY <3>1, <3>2, <3>3, <3>3a, <3>4 DEF Mapped
    <3>5. ASSUME Racing PROVE Racing'
      <4>1. PICK h : h = reader.entry.to
        OBVIOUS
      <4>2. NotOlder(reader.key, reader.entry.to) => NotOlder(reader.key, reader.entry.to)'
        <5>1. NotOlder(reader.key, h) => NotOlder(reader.key, h)'
          BY <3>2
        <5> QED
          BY <3>1, <4>1, <5>1 DEF NotOlder
      <4> QED
        BY <3>1, <3>3, <3>3a, <3>4, <3>5, <4>2 DEF Racing
    <3> QED
      BY <1>1, <3>1, <3>5 DEF RacingInv, Pending
  <2> QED
    BY <2>1, <2>2, <2>3 DEF NextReads
<1> QED
  BY <1>3, <1>4, <1>5 DEF RacesInv

\* What the invariant says of an answer.
LEMMA RacesHaveNoHoles == RacesInv => RacingReadsHaveNoHoles
<1> SUFFICES ASSUME RacesInv, Finished("hit"), day = 1, Alike
             PROVE  \E first \in FirstOf(reader),
                       last \in Min({reader.to \div 3, reader.entry.to}) .. MaxTime :
                       reader.rows = Rows(first, last, reader.entry.var)
  BY DEF RacingReadsHaveNoHoles, Alike, OfVariant
<1>1. reader.at = "hit" /\ reader.sound /\ ReaderStands
  BY DEF Finished, RacesInv, ReadsInv
<1>2. Racing
  BY <1>1 DEF RacesInv, RacingInv
<1>3. PICK h \in Int, to \in Int, z \in Int :
        h = reader.entry.to /\ to = ReadTo /\ z = reader.to \div 3 /\ z <= to
  BY <1>1, <1>2, RangeIs, CacheAssumption DEF Racing, Time
<1>4. PICK last \in 0 .. MaxTime :
         /\ reader.rows = Rows(ReadFrom, last, reader.entry.var)
         /\ Sooner(h, to) <= last
  BY <1>1, <1>2, <1>3 DEF Racing
<1>5. Min({z, h}) = Sooner(z, h)
  BY MinIs
<1>6. Sooner(z, h) <= Sooner(h, to) /\ Sooner(z, h) \in Int /\ Sooner(h, to) \in Int
  BY <1>3 DEF Sooner
<1>7. last \in Min({z, h}) .. MaxTime
  BY <1>4, <1>5, <1>6, CacheAssumption
<1>8. ReadFrom \in FirstOf(reader)
  BY <1>1, RangeIs
<1> QED
  BY <1>3, <1>4, <1>7, <1>8

\* On one day, a request that races with the replacement of the files it reads, and
\* whose rows are of the variants of the summary, misses none of its range.
THEOREM RacingReadersMissNothing == SpecReads => []RacingReadsHaveNoHoles
<1>1. RacesInv => RacingReadsHaveNoHoles
  BY RacesHaveNoHoles
<1> QED
  BY <1>1, RacesBegin, RacesKept, PTL DEF SpecReads
=============================================================================
