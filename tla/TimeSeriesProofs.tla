-------------------------- MODULE TimeSeriesProofs --------------------------
(***************************************************************************)
(* Proofs, for every set of systems, metrics, window and history, of the   *)
(* safety of TimeSeries: no day of a metric has two rows, and no sum leaves *)
(* a system out.                                                           *)
(***************************************************************************)
EXTENDS TimeSeries, TLAPS, WellFoundedInduction

-----------------------------------------------------------------------------
(* The inductive invariant.                                                *)

\* A row is stored under the date its day is written as.
Dated == \A k \in DOMAIN rows : k[2] = Written(rows[k].day)

\* No row, and no run that is going to write one, is of a day to come.
NoneToCome == /\ \A k \in DOMAIN rows : rows[k].day <= today
              /\ \A r \in Run : At(r, "data") => run[r].day <= today

\* A run sums over the systems that answered it, all that were asked for the day
\* have samples of it, and it found no row under the date of the day.
Whole == \A r \in Run :
            /\ run[r].at \in {"existing", "data"} => run[r].systems = run[r].listed
            /\ At(r, "data") =>
                 /\ \A s \in run[r].systems \ run[r].ask : HasData(s, run[r].day)
                 /\ run[r].day \notin run[r].existing

\* While a run is alone the other is idle.
Alone == \A r \in kept, q \in Run : q # r => At(q, "idle")

\* A run that is alone has seen all rows of its metric, or written them itself.
RowsKnown ==
    \A r \in kept, k \in DOMAIN rows :
        At(r, "data") /\ k[1] = run[r].variant
            => k[2] \in run[r].existing \/ rows[k].over = run[r].systems

\* The metrics are of days that have come when the service first starts: the
\* collectors send them with the day they are of.
HistoryIsPast == \A v \in Variant : \A day \in History[v] : day <= FirstDay

-----------------------------------------------------------------------------
(* Types.                                                                  *)

\* A row that can be in the table.
Row == [day : Int, over : (SUBSET System) \cup {Collected}]

\* A run that is looking for its next day: i may be past the window.
Looking == [at : Phases, systems : SUBSET System, ask : SUBSET System,
            variant : Variant, existing : SUBSET Int, i : Nat,
            day : Int, listed : SUBSET System]

LEMMA NoRunType == NoRun \in RunState /\ NoRun.at = "idle"
BY TimeSeriesAssumption DEF NoRun, RunState, Phases, Variant

LEMMA StartedType ==
  /\ Started \in [Run -> RunState]
  /\ Started["boot"].at = "count"
  /\ Started["cron"].at = "idle"
<1>1. [NoRun EXCEPT !.at = "count"] \in RunState
  BY NoRunType DEF RunState, Phases
<1>2. [NoRun EXCEPT !.at = "count"].at = "count"
  BY DEF NoRun
<1> QED
  BY <1>1, <1>2, NoRunType DEF Started, Run

LEMMA WrittenType ==
  ASSUME east \in BOOLEAN, NEW day \in Int
  PROVE  Written(day) \in Int
BY DEF Written

\* The first of the days that are missing is one of them.
LEMMA FirstMissing ==
  ASSUME NEW local \in Looking, Missing(local) # {}
  PROVE  /\ Min(Missing(local)) \in 0 .. FILL_IN_DAYS - 1
         /\ today - Min(Missing(local)) \notin local.existing
<1> DEFINE S == Missing(local)
<1>1. S \subseteq 0 .. FILL_IN_DAYS - 1 /\ S \subseteq Nat
  BY TimeSeriesAssumption DEF Missing, Looking
<1>2. PICK x \in S : \A y \in S : <<y, x>> \notin OpToRel(<, Nat)
  BY <1>1, WFMin, NatLessThanWellFounded, Zenon
<1>3. ASSUME NEW y \in S PROVE x <= y
  <2>1. ~(y < x)
    BY <1>1, <1>2, Zenon DEF OpToRel
  <2> QED
    BY <1>1, <2>1
<1>4. Min(S) \in S
  BY <1>3 DEF Min
<1> QED
  BY <1>1, <1>4 DEF Missing

\* The two ways a run goes on.
NextDay(x, i, day, ask) == [x EXCEPT !.at = "data", !.i = i, !.day = day, !.ask = ask]
NextMetric(v, systems, listed) == [NoRun EXCEPT !.at = "existing", !.variant = v,
                                                !.systems = systems, !.listed = listed]

LEMMA NextDayType ==
  ASSUME NEW x \in Looking, NEW i \in 0 .. FILL_IN_DAYS - 1, NEW day \in Int,
         NEW ask \in SUBSET System
  PROVE  /\ NextDay(x, i, day, ask) \in RunState
         /\ NextDay(x, i, day, ask).at = "data"
         /\ NextDay(x, i, day, ask).day = day
         /\ NextDay(x, i, day, ask).ask = ask
         /\ NextDay(x, i, day, ask).variant = x.variant
         /\ NextDay(x, i, day, ask).existing = x.existing
         /\ NextDay(x, i, day, ask).systems = x.systems
         /\ NextDay(x, i, day, ask).listed = x.listed
<1> USE DEF NextDay
<1>1. [x EXCEPT !.i = i] \in RunState
  BY TimeSeriesAssumption DEF Looking, RunState
<1>2. ASSUME NEW y \in RunState PROVE [y EXCEPT !.at = "data", !.ask = ask] \in RunState
  BY DEF RunState, Phases
<1>3. ASSUME NEW y \in RunState PROVE [y EXCEPT !.day = day] \in RunState
  BY DEF RunState
<1>4. [[[x EXCEPT !.i = i] EXCEPT !.at = "data", !.ask = ask] EXCEPT !.day = day]
        \in RunState
  BY <1>1, <1>2, <1>3
<1>5. [[[x EXCEPT !.i = i] EXCEPT !.at = "data", !.ask = ask] EXCEPT !.day = day]
      = NextDay(x, i, day, ask)
  BY Zenon
<1>6. ASSUME NEW next, next = NextDay(x, i, day, ask)
      PROVE  /\ next.at = "data" /\ next.day = day /\ next.ask = ask
             /\ next.variant = x.variant /\ next.existing = x.existing
             /\ next.systems = x.systems /\ next.listed = x.listed
  BY <1>6 DEF Looking
<1> HIDE DEF NextDay
<1> QED
  BY <1>4, <1>5, <1>6

LEMMA NextMetricType ==
  ASSUME NEW v \in Variant, NEW systems \in SUBSET System, NEW listed \in SUBSET System
  PROVE  /\ NextMetric(v, systems, listed) \in RunState
         /\ NextMetric(v, systems, listed).at = "existing"
         /\ NextMetric(v, systems, listed).systems = systems
         /\ NextMetric(v, systems, listed).listed = listed
<1>1. [NoRun EXCEPT !.at = "existing", !.variant = v] \in RunState
  BY NoRunType DEF RunState, Phases
<1>2. ASSUME NEW x \in RunState
      PROVE  [x EXCEPT !.systems = systems, !.listed = listed] \in RunState
  BY DEF RunState
<1>3. [[NoRun EXCEPT !.at = "existing", !.variant = v]
         EXCEPT !.systems = systems, !.listed = listed] \in RunState
  BY <1>1, <1>2
<1>4. NextMetric(v, systems, listed)
        = [[NoRun EXCEPT !.at = "existing", !.variant = v]
             EXCEPT !.systems = systems, !.listed = listed]
  BY Zenon DEF NextMetric
<1>5. ASSUME NEW next, next = NextMetric(v, systems, listed)
      PROVE  /\ next.at = "existing"
             /\ next.systems = systems /\ next.listed = listed
  BY <1>5, NoRunType DEF NextMetric, RunState
<1> QED
  BY <1>3, <1>4, <1>5

\* Where a run goes that has done with a day or with what it has found: to a day
\* that has come and has no row, to the next metric, or to its end.
LEMMA OnwardGoes ==
  ASSUME today \in Int, NEW local \in Looking
  PROVE  LET next == Onward(local)
         IN /\ next \in RunState
            /\ \/ next.at = "idle"
               \/ /\ next.at = "existing"
                  /\ next.systems = local.systems /\ next.listed = local.listed
               \/ /\ next.at = "data"
                  /\ next.day <= today /\ next.day \notin local.existing
                  /\ next.ask = local.systems
                  /\ next.variant = local.variant /\ next.existing = local.existing
                  /\ next.systems = local.systems /\ next.listed = local.listed
<1>0. /\ local.systems \in SUBSET System /\ local.listed \in SUBSET System
      /\ local.variant \in Variant
  BY DEF Looking
<1>1. CASE Missing(local) # {}
  <2> DEFINE i == Min(Missing(local))
  <2>1. i \in 0 .. FILL_IN_DAYS - 1 /\ today - i \notin local.existing
    BY <1>1, FirstMissing
  <2>2. today - i \in Int /\ today - i <= today
    BY <2>1, TimeSeriesAssumption
  <2>3. Onward(local) = NextDay(local, i, today - i, local.systems)
    BY <1>1 DEF Onward, NextDay
  <2> HIDE DEF i
  <2> QED
    BY <1>0, <2>1, <2>2, <2>3, NextDayType
<1>2. CASE Missing(local) = {} /\ local.variant < NVariants
  <2>1. local.variant + 1 \in Variant
    BY <1>0, <1>2, TimeSeriesAssumption DEF Variant
  <2>2. Onward(local) = NextMetric(local.variant + 1, local.systems, local.listed)
    BY <1>2 DEF Onward, NextMetric
  <2> QED
    BY <1>0, <2>1, <2>2, NextMetricType
<1>3. CASE Missing(local) = {} /\ ~(local.variant < NVariants)
  BY <1>3, NoRunType DEF Onward
<1> QED
  BY <1>1, <1>2, <1>3

-----------------------------------------------------------------------------
(* The steps of a run.                                                     *)

\* A run that answered for one system goes on with the day.
AnswersOf(r, next) ==
    /\ At(r, "data") /\ next.at = "data"
    /\ next.day = run[r].day /\ next.existing = run[r].existing
    /\ next.variant = run[r].variant
    /\ next.systems = run[r].systems /\ next.listed = run[r].listed
    /\ \E s \in System : next.ask = run[r].ask \ {s} /\ HasData(s, run[r].day)

\* A run that has done with a day, or has looked for the dates that have rows.
GoesOn(r, next) ==
    \/ next.at = "idle"
    \/ /\ next.at = "existing"
       /\ next.systems = run[r].systems /\ next.listed = run[r].systems
    \/ /\ next.at = "data"
       /\ next.day <= today /\ next.day \notin next.existing
       /\ next.ask = run[r].systems
       /\ next.variant = run[r].variant
       /\ \/ next.existing = Existing(r)
          \/ At(r, "data") /\ next.existing = run[r].existing
       /\ next.systems = run[r].systems /\ next.listed = run[r].systems

LEMMA GathersType ==
  ASSUME TypeOK, NEW r \in Run, NEW local \in RunState, Gathers(r, local)
  PROVE  \E next \in RunState : /\ run' = [run EXCEPT ![r] = next]
                                /\ next.at = "status"
<1> PICK loaded \in {reach, System} :
       run' = [run EXCEPT ![r] = [local EXCEPT !.at = "status", !.ask = loaded]]
  BY DEF Gathers, Goes
<1>1. loaded \in SUBSET System
  BY DEF TypeOK
<1>2. [local EXCEPT !.at = "status", !.ask = loaded] \in RunState
  BY <1>1 DEF RunState, Phases
<1>3. [local EXCEPT !.at = "status", !.ask = loaded].at = "status"
  BY DEF RunState
<1> QED
  BY <1>2, <1>3

LEMMA CountSteps ==
  ASSUME TypeOK, NEW r \in Run, Count(r)
  PROVE  \E next \in RunState : /\ run' = [run EXCEPT ![r] = next]
                                /\ next.at \in {"history", "status"}
<1>0. run[r] \in RunState
  BY DEF TypeOK
<1>1. CASE DOMAIN rows = {}
  <2>1. run' = [run EXCEPT ![r] = [run[r] EXCEPT !.at = "history"]]
    BY <1>1 DEF Count, Goes
  <2>2. [run[r] EXCEPT !.at = "history"] \in RunState
    BY <1>0 DEF RunState, Phases
  <2>3. [run[r] EXCEPT !.at = "history"].at = "history"
    BY <1>0 DEF RunState
  <2> QED
    BY <2>1, <2>2, <2>3
<1>2. CASE DOMAIN rows # {}
  BY <1>0, <1>2, GathersType DEF Count
<1> QED
  BY <1>1, <1>2

LEMMA CreateHistorySteps ==
  ASSUME TypeOK, NEW r \in Run, CreateHistory(r)
  PROVE  \E next \in RunState : /\ run' = [run EXCEPT ![r] = next]
                                /\ next.at \in {"history", "status"}
<1>0. run[r] \in RunState /\ At(r, "history") /\ run[r].at = "history"
  BY DEF TypeOK, CreateHistory, At
<1>1. CASE run[r].variant < NVariants
  <2> DEFINE v == run[r].variant + 1
  <2>1. run' = [run EXCEPT ![r] = [run[r] EXCEPT !.variant = v]]
    BY <1>1 DEF CreateHistory, Goes
  <2>2. v \in Variant
    BY <1>0, <1>1, TimeSeriesAssumption DEF RunState, Variant
  <2> HIDE DEF v
  <2>3. [run[r] EXCEPT !.variant = v] \in RunState
    BY <1>0, <2>2 DEF RunState
  <2>4. [run[r] EXCEPT !.variant = v].at = "history"
    BY <1>0 DEF RunState
  <2> QED
    BY <2>1, <2>3, <2>4
<1>2. CASE ~(run[r].variant < NVariants)
  <2>1. Gathers(r, [run[r] EXCEPT !.variant = 1])
    BY <1>2 DEF CreateHistory
  <2>2. 1 \in Variant
    BY TimeSeriesAssumption DEF Variant
  <2>3. [run[r] EXCEPT !.variant = 1] \in RunState
    BY <1>0, <2>2 DEF RunState
  <2> QED
    BY <2>1, <2>3, GathersType
<1> QED
  BY <1>1, <1>2

LEMMA AskStatusSteps ==
  ASSUME TypeOK, NEW r \in Run, AskStatus(r)
  PROVE  \E next \in RunState : /\ run' = [run EXCEPT ![r] = next]
                                /\ next.at = "status"
<1>0. run[r] \in RunState /\ run[r].at = "status"
  BY DEF TypeOK, AskStatus, At
<1> DEFINE s == First(run[r].ask)
           ask == run[r].ask \ {s}
           systems == IF s \in reach THEN run[r].systems \cup {s} ELSE run[r].systems
<1>1. run' = [run EXCEPT ![r] = [run[r] EXCEPT !.ask = ask, !.systems = systems]]
  BY DEF AskStatus, Goes
<1>2. ask \in SUBSET System /\ systems \in SUBSET System
  BY <1>0 DEF RunState, TypeOK
<1> HIDE DEF ask, systems
<1>3. [run[r] EXCEPT !.ask = ask, !.systems = systems] \in RunState
  BY <1>0, <1>2 DEF RunState
<1>4. [run[r] EXCEPT !.ask = ask, !.systems = systems].at = "status"
  BY <1>0 DEF RunState
<1> QED
  BY <1>1, <1>3, <1>4

\* What a run is looking for when it has found the dates that have rows.
Found(r) == [run[r] EXCEPT !.existing = Existing(r),
                           !.listed = IF At(r, "status") THEN run[r].systems ELSE @]

LEMMA ExistingType ==
  ASSUME TypeOK, NEW r \in Run
  PROVE  Existing(r) \in SUBSET Int
BY DEF TypeOK, Existing

LEMMA FoundType ==
  ASSUME TypeOK, Whole, NEW r \in Run, FindExisting(r)
  PROVE  /\ Found(r) \in Looking
         /\ Found(r).existing = Existing(r) /\ Found(r).variant = run[r].variant
         /\ Found(r).systems = run[r].systems /\ Found(r).listed = run[r].systems
<1>0. run[r] \in RunState /\ Existing(r) \in SUBSET Int
  BY ExistingType DEF TypeOK
<1> DEFINE dates == Existing(r)
           listed == IF At(r, "status") THEN run[r].systems ELSE run[r].listed
<1>1. listed = run[r].systems
  BY DEF FindExisting, Whole, At
<1>2. Found(r) = [run[r] EXCEPT !.existing = dates, !.listed = listed]
  BY DEF Found
<1>3. listed \in SUBSET System /\ dates \in SUBSET Int
  BY <1>0, <1>1 DEF RunState
<1> HIDE DEF dates, listed
<1>4. [run[r] EXCEPT !.existing = dates, !.listed = listed] \in RunState
  BY <1>0, <1>3 DEF RunState
<1>5. /\ Found(r).existing = dates /\ Found(r).variant = run[r].variant
      /\ Found(r).systems = run[r].systems /\ Found(r).listed = listed
  BY <1>0, <1>2 DEF RunState
<1>6. RunState \subseteq Looking
  BY TimeSeriesAssumption DEF RunState, Looking
<1> QED
  BY <1>1, <1>2, <1>4, <1>5, <1>6 DEF dates

LEMMA FindExistingSteps ==
  ASSUME TypeOK, Whole, NEW r \in Run, FindExisting(r)
  PROVE  \E next \in RunState : run' = [run EXCEPT ![r] = next] /\ GoesOn(r, next)
<1>1. run' = [run EXCEPT ![r] = Onward(Found(r))]
  BY DEF FindExisting, Goes, Found
<1>2. today \in Int
  BY TimeSeriesAssumption DEF TypeOK
<1>3. PICK local \in Looking : /\ local = Found(r)
                               /\ local.existing = Existing(r)
                               /\ local.variant = run[r].variant
                               /\ local.systems = run[r].systems
                               /\ local.listed = run[r].systems
  BY FoundType
<1> DEFINE next == Onward(local)
<1>4. next \in RunState /\ GoesOn(r, next)
  BY <1>2, <1>3, OnwardGoes DEF GoesOn
<1> QED
  BY <1>1, <1>3, <1>4

LEMMA FollowingSteps ==
  ASSUME TypeOK, Whole, NEW r \in Run, At(r, "data"),
         run' = [run EXCEPT ![r] = Following(run[r])]
  PROVE  \E next \in RunState : run' = [run EXCEPT ![r] = next] /\ GoesOn(r, next)
<1>0. run[r] \in RunState /\ today \in Int
  BY TimeSeriesAssumption DEF TypeOK
<1> DEFINE i == run[r].i + 1
           local == [run[r] EXCEPT !.i = i]
           next == Onward(local)
<1>1. Following(run[r]) = next
  BY DEF Following
<1>2. i \in Nat
  BY <1>0, TimeSeriesAssumption DEF RunState
<1>3. /\ local \in Looking
      /\ local.existing = run[r].existing /\ local.variant = run[r].variant
      /\ local.systems = run[r].systems /\ local.listed = run[r].listed
  <2> HIDE DEF i
  <2> QED
    BY <1>0, <1>2 DEF RunState, Looking
<1>4. run[r].listed = run[r].systems
  BY DEF Whole, At
<1> HIDE DEF local
<1>5. next \in RunState /\ GoesOn(r, next)
  BY <1>0, <1>3, <1>4, OnwardGoes DEF GoesOn
<1> HIDE DEF next
<1> QED
  BY <1>1, <1>5

LEMMA GetDataSteps ==
  ASSUME TypeOK, Whole, NEW r \in Run, GetData(r)
  PROVE  \E next \in RunState : /\ run' = [run EXCEPT ![r] = next]
                                /\ GoesOn(r, next) \/ AnswersOf(r, next)
<1>0. run[r] \in RunState /\ At(r, "data") /\ run[r].at = "data"
  BY DEF TypeOK, GetData, At
<1> DEFINE s == First(run[r].ask)
           ask == run[r].ask \ {s}
           next == [run[r] EXCEPT !.ask = ask]
<1>1. CASE HasData(s, run[r].day)
  <2>1. run' = [run EXCEPT ![r] = next]
    BY <1>1 DEF GetData, Goes
  <2>2. ask \in SUBSET System /\ s \in System
    BY <1>0 DEF RunState, TypeOK, GetData
  <2>3. /\ next \in RunState
        /\ next.at = "data" /\ next.ask = ask
        /\ next.day = run[r].day /\ next.existing = run[r].existing
        /\ next.variant = run[r].variant
        /\ next.systems = run[r].systems /\ next.listed = run[r].listed
    <3> HIDE DEF ask
    <3> QED
      BY <1>0, <2>2 DEF RunState
  <2> HIDE DEF next
  <2>4. AnswersOf(r, next)
    BY <1>0, <1>1, <2>2, <2>3 DEF AnswersOf
  <2> QED
    BY <2>1, <2>3, <2>4
<1>2. CASE ~HasData(s, run[r].day)
  <2>1. run' = [run EXCEPT ![r] = Following(run[r])]
    BY <1>2 DEF GetData, Goes
  <2> QED
    BY <1>0, <2>1, FollowingSteps
<1> QED
  BY <1>1, <1>2

\* What a step of a run makes of the runs: the process dies, or this run is elsewhere
\* and the other where it was.
Elsewhere(r, next) ==
    next.at \in {"idle", "history", "status"} \/ GoesOn(r, next) \/ AnswersOf(r, next)

LEMMA RunSteps ==
  ASSUME TypeOK, Whole, NEW r \in Run, Step(r)
  PROVE  \/ Dies
         \/ /\ kept' = kept
            /\ \E next \in RunState : run' = [run EXCEPT ![r] = next] /\ Elsewhere(r, next)
<1>1. CASE Count(r)
  <2>1. kept' = kept
    BY <1>1 DEF Count
  <2> QED
    BY <1>1, <2>1, CountSteps DEF Elsewhere
<1>2. CASE CreateHistory(r)
  <2>1. kept' = kept
    BY <1>2 DEF CreateHistory
  <2> QED
    BY <1>2, <2>1, CreateHistorySteps DEF Elsewhere
<1>3. CASE HistoryCollides(r)
  BY <1>3 DEF HistoryCollides
<1>4. CASE AskStatus(r)
  <2>1. kept' = kept
    BY <1>4 DEF AskStatus
  <2> QED
    BY <1>4, <2>1, AskStatusSteps DEF Elsewhere
<1>5. CASE FindExisting(r)
  <2>1. kept' = kept
    BY <1>5 DEF FindExisting
  <2> QED
    BY <1>5, <2>1, FindExistingSteps DEF Elsewhere
<1>6. CASE GetData(r)
  <2>1. kept' = kept
    BY <1>6 DEF GetData
  <2> QED
    BY <1>6, <2>1, GetDataSteps DEF Elsewhere
<1>7. CASE GetDataFails(r)
  <2>1. CASE r = "boot"
    BY <1>7, <2>1 DEF GetDataFails
  <2>2. CASE r # "boot"
    <3>1. kept' = kept /\ run' = [run EXCEPT ![r] = NoRun]
      BY <1>7, <2>2 DEF GetDataFails, Ends, Goes
    <3> QED
      BY <3>1, NoRunType DEF Elsewhere
  <2> QED
    BY <2>1, <2>2
<1>8. CASE Upsert(r)
  <2>1. /\ kept' = kept /\ At(r, "data")
        /\ run' = [run EXCEPT ![r] = Following(run[r])]
    BY <1>8 DEF Upsert, Goes
  <2> QED
    BY <2>1, FollowingSteps DEF Elsewhere
<1> QED
  BY <1>1, <1>2, <1>3, <1>4, <1>5, <1>6, <1>7, <1>8 DEF Step

\* Only two steps write rows; none changes the world, and none is a step of a run
\* that is idle.
LEMMA RowSteps ==
  ASSUME NEW r \in Run, Step(r)
  PROVE  /\ UNCHANGED world /\ ~At(r, "idle")
         /\ rows' = rows \/ CreateHistory(r) \/ Upsert(r)
BY DEF Step, Count, CreateHistory, HistoryCollides, AskStatus, FindExisting, GetData,
       GetDataFails, Upsert, At

\* The timer's run begins.
LEMMA CronSteps ==
  ASSUME TypeOK, Cron
  PROVE  /\ UNCHANGED <<rows, world>>
         /\ kept' = IF At("boot", "idle") THEN {"cron"} ELSE {}
         /\ \E next \in RunState : /\ run' = [run EXCEPT !["cron"] = next]
                                   /\ next.at = "status"
BY GathersType, NoRunType DEF Cron, Run

-----------------------------------------------------------------------------
(* The rows.                                                               *)

\* The row that is written holds the day and the systems of the run, under the date
\* of the day.
LEMMA UpsertRows ==
  ASSUME NEW r \in Run, Upsert(r), NEW k \in DOMAIN rows'
  PROVE  \/ /\ k = <<run[r].variant, Written(run[r].day)>>
            /\ rows'[k] = Sum(run[r].day, run[r].systems)
         \/ /\ k \in DOMAIN rows /\ rows'[k] = rows[k]
            /\ k # <<run[r].variant, Written(run[r].day)>>
BY DEF Upsert

\* A row of the history holds a day of the metric, under the date of the day.
LEMMA HistoryRows ==
  ASSUME TypeOK, NEW r \in Run, CreateHistory(r), NEW k \in DOMAIN rows'
  PROVE  \/ k \in DOMAIN rows /\ rows'[k] = rows[k]
         \/ /\ k \notin DOMAIN rows
            /\ \E day \in History[run[r].variant] :
                 /\ day \in Int
                 /\ k = <<run[r].variant, Written(day)>>
                 /\ rows'[k] = Sum(day, Collected)
<1> DEFINE v == run[r].variant
           x == Sum(IF east THEN k[2] + 1 ELSE k[2], Collected)
<1>1. v \in Variant
  BY DEF TypeOK, RunState
<1>2. /\ k \in DOMAIN rows \cup HistoryKeys(v)
      /\ rows'[k] = IF k \in DOMAIN rows THEN rows[k] ELSE x
  BY DEF CreateHistory
<1>3. CASE k \notin DOMAIN rows
  <2>1. PICK day \in History[v] : k = <<v, Written(day)>>
    BY <1>2, <1>3 DEF HistoryKeys
  <2>2. day \in Int
    BY <1>1, TimeSeriesAssumption
  <2>3. (IF east THEN k[2] + 1 ELSE k[2]) = day
    BY <2>1, <2>2 DEF Written
  <2>4. rows'[k] = Sum(day, Collected)
    BY <1>2, <1>3, <2>3
  <2> QED
    BY <1>3, <2>1, <2>2, <2>4
<1> QED
  BY <1>2, <1>3

-----------------------------------------------------------------------------
(* The type invariant.                                                     *)

LEMMA InitType ==
  ASSUME Init
  PROVE  TypeOK
<1>1. run \in [Run -> RunState]
  BY StartedType DEF Init
<1>2. /\ today \in FirstDay..LastDay /\ incidents \in 0..MaxIncidents
      /\ kept \in SUBSET Run
  BY TimeSeriesAssumption DEF Init, Run
<1>3. DOMAIN rows = {}
  BY DEF Init
<1> QED
  BY <1>1, <1>2, <1>3 DEF Init, TypeOK

LEMMA RowsType ==
  ASSUME TypeOK, NEW r \in Run, Step(r), NEW k \in DOMAIN rows'
  PROVE  k \in Variant \X Int /\ rows'[k] \in Row
<1>0. /\ run[r].variant \in Variant /\ run[r].day \in Int
      /\ run[r].systems \in SUBSET System
  BY DEF TypeOK, RunState
<1>1. CASE k \in DOMAIN rows /\ rows'[k] = rows[k]
  BY <1>1 DEF TypeOK, Row
<1>2. ASSUME NEW day \in Int, NEW over \in (SUBSET System) \cup {Collected},
             k = <<run[r].variant, Written(day)>>, rows'[k] = Sum(day, over)
      PROVE  k \in Variant \X Int /\ rows'[k] \in Row
  <2>1. Written(day) \in Int
    BY WrittenType DEF TypeOK
  <2> QED
    BY <1>0, <1>2, <2>1 DEF Sum, Row
<1>3. CASE Upsert(r)
  BY <1>0, <1>1, <1>2, <1>3, UpsertRows
<1>4. CASE CreateHistory(r)
  BY <1>1, <1>2, <1>4, HistoryRows
<1>5. CASE rows' = rows
  BY <1>1, <1>5
<1> QED
  BY <1>3, <1>4, <1>5, RowSteps

LEMMA DiesType ==
  ASSUME Dies
  PROVE  run' \in [Run -> RunState] /\ kept' \in SUBSET Run
BY StartedType DEF Dies, Run

LEMMA StepType ==
  ASSUME TypeOK, Whole, [Next]_vars
  PROVE  TypeOK'
<1>1. ASSUME NEW r \in Run, Step(r)
      PROVE  TypeOK'
  <2>1. run' \in [Run -> RunState] /\ kept' \in SUBSET Run
    <3>1. CASE Dies
      BY <3>1, DiesType
    <3>2. CASE /\ kept' = kept
               /\ \E next \in RunState : run' = [run EXCEPT ![r] = next]
      BY <3>2 DEF TypeOK
    <3> QED
      BY <1>1, <3>1, <3>2, RunSteps
  <2>2. UNCHANGED world
    BY <1>1, RowSteps
  <2>3. \A k \in DOMAIN rows' : k \in Variant \X Int /\ rows'[k] \in Row
    BY <1>1, RowsType
  <2> QED
    BY <2>1, <2>2, <2>3 DEF TypeOK, world, Row
<1>2. CASE Cron
  <2>1. kept' \in SUBSET Run
    BY <1>2, CronSteps DEF Run
  <2>2. run' \in [Run -> RunState]
    BY <1>2, CronSteps DEF TypeOK
  <2>3. UNCHANGED <<rows, world>>
    BY <1>2, CronSteps
  <2> QED
    BY <2>1, <2>2, <2>3 DEF TypeOK, world
<1>3. CASE Midnight
  <2>1. today' \in FirstDay..LastDay
    BY <1>3, TimeSeriesAssumption DEF Midnight, TypeOK
  <2> QED
    BY <1>3, <2>1 DEF Midnight, TypeOK
<1>4. ASSUME Incident PROVE incidents' \in 0..MaxIncidents
  BY <1>4, TimeSeriesAssumption DEF Incident, TypeOK
<1>5. CASE ReachChanges
  BY <1>4, <1>5 DEF ReachChanges, TypeOK
<1>6. CASE Crash
  BY <1>4, <1>6, DiesType DEF Crash, TypeOK
<1>7. CASE UNCHANGED vars
  BY <1>7 DEF vars, TypeOK
<1> QED
  BY <1>1, <1>2, <1>3, <1>5, <1>6, <1>7 DEF Next

-----------------------------------------------------------------------------
(* The other parts.                                                        *)

Inv == TypeOK /\ Dated /\ Whole /\ Alone /\ RowsKnown

LEMMA InitInv ==
  ASSUME Init
  PROVE  Inv
<1>1. DOMAIN rows = {}
  BY DEF Init
<1>2. \A r \in Run : run[r].at \in {"idle", "count"}
  BY StartedType DEF Init, Run
<1>3. Alone
  BY StartedType DEF Init, Alone, Run, At
<1> QED
  BY <1>1, <1>2, <1>3, InitType DEF Inv, Dated, Whole, RowsKnown, At

LEMMA DatedStep ==
  ASSUME Inv, [Next]_vars
  PROVE  Dated'
<1>1. ASSUME NEW r \in Run, Step(r), NEW k \in DOMAIN rows'
      PROVE  k[2] = Written(rows'[k].day)
  <2>1. CASE k \in DOMAIN rows /\ rows'[k] = rows[k]
    BY <2>1 DEF Inv, Dated
  <2>2. ASSUME NEW day, NEW over, k = <<run[r].variant, Written(day)>>,
               rows'[k] = Sum(day, over)
        PROVE  k[2] = Written(rows'[k].day)
    BY <2>2 DEF Sum
  <2>3. CASE Upsert(r)
    BY <2>1, <2>2, <2>3, UpsertRows
  <2>4. CASE CreateHistory(r)
    BY <2>1, <2>2, <2>4, HistoryRows DEF Inv
  <2> QED
    BY <1>1, <2>1, <2>3, <2>4, RowSteps
<1>2. ASSUME NEW r \in Run, Step(r)
      PROVE  Dated'
  BY <1>1, <1>2, RowSteps DEF Dated, Written, world
<1>3. CASE rows' = rows /\ east' = east
  BY <1>3 DEF Inv, Dated, Written
<1> QED
  BY <1>2, <1>3
  DEF Next, Cron, Midnight, ReachChanges, Crash, vars, world

\* Where the runs are after a step: where they were, or elsewhere.
LEMMA RunsAfter ==
  ASSUME Inv, [Next]_vars
  PROVE  \/ Dies
         \/ \E r \in Run, next \in RunState :
              /\ run' = [run EXCEPT ![r] = next]
              /\ kept' = kept /\ UNCHANGED world
              /\ Step(r) /\ Elsewhere(r, next)
         \/ \E next \in RunState :
              /\ run' = [run EXCEPT !["cron"] = next] /\ next.at = "status"
              /\ kept' = IF At("boot", "idle") THEN {"cron"} ELSE {}
              /\ UNCHANGED <<rows, world>>
         \/ UNCHANGED <<rows, run, kept>> /\ today \in Int /\ today' \in {today, today + 1}
<1>1. CASE \E r \in Run : Step(r)
  BY <1>1, RunSteps, RowSteps DEF Inv
<1>2. CASE Cron
  BY <1>2, CronSteps DEF Inv
<1>3. CASE Midnight \/ ReachChanges \/ UNCHANGED vars
  BY <1>3, TimeSeriesAssumption DEF Midnight, ReachChanges, vars, Inv, TypeOK
<1>4. CASE Crash
  BY <1>4 DEF Crash
<1> QED
  BY <1>1, <1>2, <1>3, <1>4 DEF Next

LEMMA AloneStep ==
  ASSUME Inv, [Next]_vars
  PROVE  Alone'
<1>1. CASE Dies
  BY <1>1, StartedType DEF Dies, Alone, Run, At
<1>2. ASSUME NEW r \in Run, NEW next \in RunState, run' = [run EXCEPT ![r] = next],
             kept' = kept, Step(r)
      PROVE  Alone'
  <2>1. ~At(r, "idle") /\ run \in [Run -> RunState]
    BY <1>2, RowSteps DEF Inv, TypeOK
  <2> QED
    BY <1>2, <2>1 DEF Inv, Alone, At
<1>3. ASSUME NEW next \in RunState, run' = [run EXCEPT !["cron"] = next],
             kept' = IF At("boot", "idle") THEN {"cron"} ELSE {}
      PROVE  Alone'
  <2>1. "boot" \in Run /\ "cron" \in Run /\ run \in [Run -> RunState]
    BY DEF Inv, TypeOK, Run
  <2>2. run'["boot"] = run["boot"]
    BY <1>3, <2>1
  <2> QED
    BY <1>3, <2>1, <2>2 DEF Alone, At, Run
<1>4. CASE UNCHANGED <<run, kept>>
  BY <1>4 DEF Inv, Alone, At
<1> QED
  BY <1>1, <1>2, <1>3, <1>4, RunsAfter

LEMMA WholeStep ==
  ASSUME Inv, [Next]_vars
  PROVE  Whole'
<1> USE DEF Run
<1>0. /\ run \in [Run -> RunState] /\ Whole
      /\ "boot" \in Run /\ "cron" \in Run
  BY DEF Inv, TypeOK
<1> DEFINE WholeAt(x, t) ==
              /\ x.at \in {"existing", "data"} => x.systems = x.listed
              /\ x.at = "data" =>
                   /\ \A s \in x.systems \ x.ask : Since[s] <= x.day /\ x.day < t
                   /\ x.day \notin x.existing
<1>1. \A r \in Run : WholeAt(run[r], today)
  BY <1>0 DEF Whole, At, HasData
<1>2. CASE Dies
  BY <1>2, StartedType DEF Dies, Whole, At
<1>3. ASSUME NEW r \in Run, NEW next \in RunState, run' = [run EXCEPT ![r] = next],
             today' = today, WholeAt(next, today)
      PROVE  Whole'
  <2>1. \A q \in Run : WholeAt(run'[q], today')
    BY <1>0, <1>1, <1>3
  <2> QED
    BY <2>1 DEF Whole, At, HasData
<1>4. ASSUME NEW r \in Run, NEW next \in RunState, Elsewhere(r, next)
      PROVE  WholeAt(next, today)
  <2>1. CASE next.at \in {"idle", "history", "status"}
    BY <2>1
  <2>2. CASE GoesOn(r, next)
    BY <2>2 DEF GoesOn
  <2>3. CASE AnswersOf(r, next)
    BY <1>1, <2>3 DEF AnswersOf, At, HasData
  <2> QED
    BY <1>4, <2>1, <2>2, <2>3 DEF Elsewhere
<1>5. ASSUME NEW next \in RunState, next.at = "status"
      PROVE  WholeAt(next, today)
  BY <1>5
<1>6. CASE run' = run /\ today \in Int /\ today' \in {today, today + 1}
  <2>1. ASSUME NEW r \in Run PROVE WholeAt(run'[r], today')
    <3>1. /\ run[r].day \in Int /\ run[r].systems \in SUBSET System
          /\ \A s \in System : Since[s] \in Int
      BY <1>0, TimeSeriesAssumption DEF RunState
    <3> QED
      BY <1>1, <1>6, <3>1
  <2> QED
    BY <2>1 DEF Whole, At, HasData
<1> HIDE DEF WholeAt
<1> QED
  BY <1>0, <1>2, <1>3, <1>4, <1>5, <1>6, RunsAfter DEF world

\* What a run that is alone has not found, it wrote itself.
LEMMA RowsKnownStep ==
  ASSUME Inv, [Next]_vars
  PROVE  RowsKnown'
<1>0. run \in [Run -> RunState] /\ "boot" \in Run /\ "cron" \in Run
  BY DEF Inv, TypeOK, Run
<1>1. CASE Dies
  BY <1>0, <1>1, StartedType DEF Dies, RowsKnown, At
<1>2. ASSUME NEW r \in Run, NEW next \in RunState, run' = [run EXCEPT ![r] = next],
             kept' = kept, Step(r), Elsewhere(r, next)
      PROVE  RowsKnown'
  <2> SUFFICES ASSUME NEW q \in kept', NEW k \in DOMAIN rows', run'[q].at = "data",
                      k[1] = run'[q].variant
               PROVE  k[2] \in run'[q].existing \/ rows'[k].over = run'[q].systems
    BY DEF RowsKnown, At
  <2>1. q = r
    BY <1>2, RowSteps DEF Inv, Alone, TypeOK
  <2>2. /\ run'[q] = next /\ next.at = "data" /\ r \in kept
        /\ GoesOn(r, next) \/ AnswersOf(r, next)
    BY <1>0, <1>2, <2>1 DEF Elsewhere
  <2>3. next.variant = run[r].variant /\ next.systems = run[r].systems
    BY <2>2 DEF GoesOn, AnswersOf
  <2>4. CASE k \in DOMAIN rows /\ rows'[k] = rows[k]
    <3>1. CASE next.existing = Existing(r)
      BY <2>2, <2>3, <2>4, <3>1 DEF Existing
    <3>2. CASE At(r, "data") /\ next.existing = run[r].existing
      BY <2>2, <2>3, <2>4, <3>2 DEF Inv, RowsKnown
    <3> QED
      BY <2>2, <3>1, <3>2 DEF GoesOn, AnswersOf
  <2>5. CASE Upsert(r)
    <3>1. CASE rows'[k] = Sum(run[r].day, run[r].systems)
      BY <2>2, <2>3, <3>1 DEF Sum
    <3> QED
      BY <2>4, <2>5, <3>1, UpsertRows
  <2>6. ~CreateHistory(r)
    <3>1. ASSUME CreateHistory(r) PROVE next.at \in {"history", "status"}
      <4>1. PICK x \in RunState : /\ run' = [run EXCEPT ![r] = x]
                                  /\ x.at \in {"history", "status"}
        BY <3>1, CreateHistorySteps DEF Inv
      <4> QED
        BY <1>0, <1>2, <4>1
    <3> QED
      BY <2>2, <3>1
  <2> QED
    BY <1>2, <2>4, <2>5, <2>6, RowSteps
<1>3. ASSUME NEW next \in RunState, run' = [run EXCEPT !["cron"] = next],
             next.at = "status", kept' \in {{"cron"}, {}}
      PROVE  RowsKnown'
  BY <1>0, <1>3 DEF RowsKnown, At
<1>4. CASE UNCHANGED <<rows, run, kept>>
  BY <1>4 DEF Inv, RowsKnown, At
<1> QED
  BY <1>1, <1>2, <1>3, <1>4, RunsAfter

LEMMA StepInv ==
  ASSUME Inv, [Next]_vars
  PROVE  Inv'
BY StepType, DatedStep, WholeStep, AloneStep, RowsKnownStep DEF Inv

\* The rows are kept as their dates say, the runs go by the systems that answered,
\* and a run that is alone knows the rows of its metric.
THEOREM Invariance == Spec => []Inv
BY InitInv, StepInv, PTL DEF Spec

\* Every variable stays in its type: no run goes past the window or the metrics.
THEOREM TypeCorrect == Spec => []TypeOK
<1>1. Inv => TypeOK
  BY DEF Inv
<1> QED
  BY <1>1, Invariance, PTL

-----------------------------------------------------------------------------
(* One row for each day.                                                   *)

LEMMA InitNone ==
  ASSUME Init
  PROVE  NoneToCome
BY StartedType DEF Init, NoneToCome, Run, At

LEMMA NoneToComeStep ==
  ASSUME Inv, NoneToCome, HistoryIsPast, [Next]_vars
  PROVE  NoneToCome'
<1>0. /\ run \in [Run -> RunState] /\ "boot" \in Run /\ "cron" \in Run
      /\ today \in Int /\ FirstDay <= today /\ FirstDay \in Int
  BY TimeSeriesAssumption DEF Inv, TypeOK, Run
<1>1. today' \in {today, today + 1}
  BY RunsAfter, <1>0 DEF Next, Cron, Midnight, ReachChanges, Crash, vars, world, Step,
     Count, CreateHistory, HistoryCollides, AskStatus, FindExisting, GetData,
     GetDataFails, Upsert
<1>2. ASSUME NEW day \in Int, day <= today
      PROVE  day <= today'
  BY <1>0, <1>1, <1>2
<1>3. ASSUME NEW k \in DOMAIN rows'
      PROVE  rows'[k].day <= today'
  <2>1. CASE k \in DOMAIN rows /\ rows'[k] = rows[k]
    <3>1. rows[k].day \in Int /\ rows[k].day <= today
      BY <2>1 DEF Inv, TypeOK, NoneToCome
    <3> QED
      BY <1>2, <2>1, <3>1
  <2>2. ASSUME NEW r \in Run, Upsert(r)
        PROVE  rows'[k].day <= today'
    <3>1. run[r].day \in Int /\ run[r].day <= today
      BY <1>0, <2>2 DEF Upsert, NoneToCome, RunState
    <3>2. CASE rows'[k] = Sum(run[r].day, run[r].systems)
      BY <1>2, <3>1, <3>2 DEF Sum
    <3> QED
      BY <2>1, <2>2, <3>2, UpsertRows
  <2>3. ASSUME NEW r \in Run, CreateHistory(r)
        PROVE  rows'[k].day <= today'
    <3>1. ASSUME NEW day \in History[run[r].variant], day \in Int,
                 rows'[k] = Sum(day, Collected)
          PROVE  rows'[k].day <= today'
      <4>1. day <= FirstDay
        BY <1>0, <3>1 DEF HistoryIsPast, RunState
      <4>2. day <= today
        BY <1>0, <3>1, <4>1
      <4> QED
        BY <1>2, <3>1, <4>2 DEF Sum
    <3> QED
      BY <2>1, <2>3, <3>1, HistoryRows DEF Inv
  <2>4. CASE rows' = rows
    BY <2>1, <2>4
  <2> QED
    BY <2>2, <2>3, <2>4, RowSteps DEF Next, Cron, Midnight, ReachChanges, Crash, vars
<1>4. ASSUME NEW r \in Run, run'[r].at = "data"
      PROVE  run'[r].day <= today'
  <2>1. CASE run'[r] = run[r]
    <3>1. run[r].day \in Int /\ run[r].day <= today
      BY <1>0, <1>4, <2>1 DEF NoneToCome, At, RunState
    <3> QED
      BY <1>2, <2>1, <3>1
  <2>2. ASSUME NEW next \in RunState, run'[r] = next, Elsewhere(r, next)
        PROVE  run'[r].day <= today'
    <3>1. next.day \in Int /\ next.day <= today
      BY <1>0, <1>4, <2>2 DEF Elsewhere, GoesOn, AnswersOf, NoneToCome, RunState
    <3> QED
      BY <1>2, <2>2, <3>1
  <2>3. CASE Dies
    BY <1>4, <2>3, StartedType DEF Dies, Run
  <2>4. ASSUME NEW q \in Run, NEW next \in RunState, run' = [run EXCEPT ![q] = next]
        PROVE  run'[r] = IF r = q THEN next ELSE run[r]
    BY <1>0, <2>4
  <2>5. ASSUME NEW next \in RunState, run' = [run EXCEPT !["cron"] = next],
               next.at = "status"
        PROVE  run'[r] = run[r]
    BY <1>0, <1>4, <2>4, <2>5
  <2> QED
    BY <2>1, <2>2, <2>3, <2>4, <2>5, RunsAfter
<1> QED
  BY <1>3, <1>4 DEF NoneToCome, At

\* No metric has two rows of one day, and no row is of a day to come, however runs
\* overlap, the process dies and the clock goes on, where the metrics that were
\* collected are of days that have come.
THEOREM NoDayTwice ==
  ASSUME HistoryIsPast
  PROVE  Spec => []OneRowPerDay
<1>1. ASSUME Inv, NoneToCome PROVE OneRowPerDay
  <2>1. ASSUME NEW j \in DOMAIN rows, NEW k \in DOMAIN rows, j[1] = k[1],
               rows[j].day = rows[k].day
        PROVE  j = k
    <3>1. j[2] = k[2]
      BY <1>1, <2>1 DEF Inv, Dated
    <3>2. j \in Variant \X Int /\ k \in Variant \X Int
      BY <1>1 DEF Inv, TypeOK
    <3> QED
      BY <2>1, <3>1, <3>2
  <2> QED
    BY <1>1, <2>1 DEF OneRowPerDay, NoneToCome
<1>2. Init => NoneToCome
  BY InitNone
<1>3. Inv /\ NoneToCome /\ [Next]_vars => NoneToCome'
  BY NoneToComeStep
<1> QED
  BY <1>1, <1>2, <1>3, Invariance, PTL DEF Spec

-----------------------------------------------------------------------------
(* Sums are whole.                                                         *)

\* A sum that is written is over all the systems that answered when the run began,
\* each with samples of the day, and a run that is alone corrects no row, except
\* east of Greenwich that of a day whose next has none.
THEOREM NoSystemLeftOut == Spec => SumsAreWhole
<1>1. ASSUME Inv, [Next]_vars, NEW r \in Run, NEW k \in DOMAIN rows',
             run'[r] # run[r], k \in DOMAIN rows => rows'[k] # rows[k]
      PROVE  /\ \/ rows'[k].over = Collected
                \/ /\ rows'[k].over = run[r].listed
                   /\ \A s \in rows'[k].over : HasData(s, rows'[k].day)
             /\ k \in DOMAIN rows /\ r \in kept
                => east /\ k[2] + 1 \notin run[r].existing
  <2>0. run \in [Run -> RunState]
    BY <1>1 DEF Inv, TypeOK
  <2>1. rows' # rows
    BY <1>1
  <2>2. PICK q \in Run : Step(q)
    BY <1>1, <2>1 DEF Next, Cron, Midnight, ReachChanges, Crash, vars
  <2>3. CASE CreateHistory(q)
    BY <1>1, <2>3, HistoryRows DEF Inv, Sum
  <2>4. CASE Upsert(q)
    <3>1. q = r
      BY <1>1, <2>0, <2>4 DEF Upsert, Goes
    <3>2. /\ k = <<run[r].variant, Written(run[r].day)>>
          /\ rows'[k] = Sum(run[r].day, run[r].systems)
          /\ At(r, "data") /\ run[r].ask = {}
      BY <1>1, <2>4, <3>1, UpsertRows DEF Upsert
    <3>3. rows'[k].day = run[r].day /\ rows'[k].over = run[r].systems
      BY <3>2 DEF Sum
    <3>4. /\ run[r].systems = run[r].listed /\ run[r].day \notin run[r].existing
          /\ \A s \in run[r].systems : HasData(s, run[r].day)
      BY <1>1, <3>2 DEF Inv, Whole, At
    <3>5. run[r].day \in Int
      BY <2>0 DEF RunState
    <3>6. ASSUME k \in DOMAIN rows, r \in kept
          PROVE  east /\ k[2] + 1 \notin run[r].existing
      <4>1. CASE east
        <5>1. k[2] + 1 = run[r].day
          BY <3>2, <3>5, <4>1 DEF Written
        <5> QED
          BY <3>4, <4>1, <5>1
      <4>2. CASE ~east
        <5>1. k[1] = run[r].variant /\ k[2] = run[r].day
          BY <3>2, <4>2 DEF Written
        <5>2. rows[k].day = run[r].day
          BY <1>1, <3>6, <4>2, <5>1 DEF Inv, Dated, Written
        <5>3. rows[k].over = run[r].systems
          BY <1>1, <3>2, <3>4, <3>6, <5>1 DEF Inv, RowsKnown
        <5>4. rows[k] = Sum(run[r].day, run[r].systems)
          BY <1>1, <3>6, <5>2, <5>3 DEF Inv, TypeOK, Sum
        <5> QED
          BY <1>1, <3>2, <3>6, <5>4
      <4> QED
        BY <4>1, <4>2
    <3> QED
      BY <3>3, <3>4, <3>6
  <2> QED
    BY <2>1, <2>2, <2>3, <2>4, RowSteps
<1>2. ASSUME Inv, [Next]_vars
      PROVE  [\A r \in Run, k \in DOMAIN rows' :
                run'[r] # run[r] /\ (k \in DOMAIN rows => rows'[k] # rows[k])
                => LET sum == rows'[k]
                   IN /\ \/ sum.over = Collected
                         \/ /\ sum.over = run[r].listed
                            /\ \A s \in sum.over : HasData(s, sum.day)
                      /\ k \in DOMAIN rows /\ r \in kept
                         => east /\ k[2] + 1 \notin run[r].existing]_vars
  BY <1>1, <1>2
<1> QED
  BY <1>2, Invariance, PTL DEF Spec, SumsAreWhole
=============================================================================
