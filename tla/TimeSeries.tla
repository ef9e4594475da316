----------------------------- MODULE TimeSeries ------------------------------
(***************************************************************************)
(* TimeSeriesService: the table TimeSeries has a row for each variant and  *)
(* date.  When the process starts and the table is empty, rows are made    *)
(* from the metrics that were collected; then, and again every six hours,  *)
(* the dates of the last days that have no row get one, a sum over the     *)
(* systems whose maintainers can be reached.                               *)
(*                                                                         *)
(* A sum is kept as the day and the systems it is taken over.  Dates are   *)
(* integers.  A local midnight is written to a column of dates, which      *)
(* keeps the date it has in UTC: east of Greenwich that is the day before. *)
(***************************************************************************)
EXTENDS Integers, FiniteSets, FiniteSetsExt

CONSTANTS
    System,       \* the systems of type hp
    NVariants,    \* number of metrics, processed in order
    FILL_IN_DAYS, \* the days that are filled in
    History,      \* the days of collected metrics, for each variant
    Since,        \* first day of which each maintainer has samples
    FirstDay, LastDay, \* bound: the days that pass
    MaxIncidents  \* bound: failures and changes of what can be reached

Variant == 1..NVariants
Run == {"boot", "cron"}   \* bound: one run of the timer at a time

ASSUME TimeSeriesAssumption ==
    /\ NVariants \in Nat \ {0}
    /\ FILL_IN_DAYS \in Nat \ {0}
    /\ History \in [Variant -> SUBSET Int]
    /\ Since \in [System -> Int]
    /\ {FirstDay, LastDay} \subseteq Int
    /\ FirstDay <= LastDay
    /\ MaxIncidents \in Nat

VARIABLES
    rows,      \* TimeSeries: <<variant, x>> to what y is the sum of
    run,       \* the runs and their local variables
    east,      \* environment: the process runs east of Greenwich
    today,     \* environment: the current day
    reach,     \* environment: systems that are loaded and can be reached
    incidents, \* how often, for the bound
    kept       \* history: runs that are alone so far

vars == <<rows, run, east, today, reach, incidents, kept>>
world == <<east, today, reach, incidents>>

\* The date a local day is stored under, and the days that stored dates stand
\* for when they are read.
Written(day) == IF east THEN day - 1 ELSE day

Sum(day, over) == [day |-> day, over |-> over]
Collected == {"collected"}   \* in the place of the systems

NoRun == [at |-> "idle", systems |-> {}, ask |-> {}, variant |-> 1,
          existing |-> {}, i |-> 0, day |-> 0,
          listed |-> {}]   \* history: the systems that answered

\* The systems are asked in an order of their own.
First(systems) == CHOOSE s \in systems : TRUE

At(r, phase) == run[r].at = phase
Goes(r, next) == run' = [run EXCEPT ![r] = next]
Ends(r) == Goes(r, NoRun)

Started == [r \in Run |-> IF r = "boot" THEN [NoRun EXCEPT !.at = "count"] ELSE NoRun]

Init ==
    /\ rows = [k \in {} |-> Sum(0, {})]
    /\ run = Started
    /\ east \in BOOLEAN
    /\ today = FirstDay
    /\ reach \in SUBSET System
    /\ incidents = 0
    /\ kept = {"boot"}

Incident == incidents < MaxIncidents /\ incidents' = incidents + 1

\* An error in the first run is nobody's, and the process ends; the next one
\* starts with the tables as they are.
Dies == run' = Started /\ kept' = {"boot"}
-----------------------------------------------------------------------------
(* generateHistoricData.                                                    *)

\* getHandledSystems answers the systems that are loaded at the start of the run,
\* all that can be reached or all (bound: nothing between).
Gathers(r, local) ==
    \E loaded \in {reach, System} :
        Goes(r, [local EXCEPT !.at = "status", !.ask = loaded])

\* Mutation: the history is made whenever the process starts.
CountIgnored(r) ==
    /\ At(r, "count")
    /\ Goes(r, [run[r] EXCEPT !.at = "history"])
    /\ UNCHANGED <<rows, world, kept>>

Count(r) ==
    /\ At(r, "count")
    /\ IF DOMAIN rows = {} THEN Goes(r, [run[r] EXCEPT !.at = "history"])
                            ELSE Gathers(r, run[r])
    /\ UNCHANGED <<rows, world, kept>>

HistoryKeys(v) == {<<v, Written(d)>> : d \in History[v]}
Collides(r) == HistoryKeys(run[r].variant) \cap DOMAIN rows # {}

\* createMany of the next metric, all rows or none.
CreateHistory(r) ==
    /\ At(r, "history")
    /\ ~Collides(r)
    /\ LET v == run[r].variant
       IN /\ rows' = [k \in DOMAIN rows \cup HistoryKeys(v) |->
                        IF k \in DOMAIN rows THEN rows[k]
                        ELSE Sum(IF east THEN k[2] + 1 ELSE k[2], Collected)]
          /\ IF v < NVariants THEN Goes(r, [run[r] EXCEPT !.variant = v + 1])
                              ELSE Gathers(r, [run[r] EXCEPT !.variant = 1])
    /\ UNCHANGED <<world, kept>>

\* A row of the timer's run is there already: the key is unique.
HistoryCollides(r) ==
    /\ At(r, "history")
    /\ Collides(r)
    /\ Dies
    /\ UNCHANGED <<rows, world>>
-----------------------------------------------------------------------------
(* generateTimeSeries.                                                      *)

Cron ==
    /\ At("cron", "idle")
    /\ Gathers("cron", NoRun)
    /\ kept' = IF At("boot", "idle") THEN {"cron"} ELSE {}
    /\ UNCHANGED <<rows, world>>

AskStatus(r) ==
    /\ At(r, "status")
    /\ run[r].ask # {}
    /\ LET s == First(run[r].ask)
       IN Goes(r, [run[r] EXCEPT !.ask = @ \ {s},
                      !.systems = IF s \in reach THEN @ \cup {s} ELSE @])
    /\ UNCHANGED <<rows, world, kept>>

\* The next day that has no row, from today backwards, if there is one, or else the
\* next metric; what is compared is the date that was stored.
Missing(local) ==
    {i \in local.i .. FILL_IN_DAYS - 1 : today - i \notin local.existing}

Onward(local) ==
    IF Missing(local) # {}
    THEN LET i == Min(Missing(local))
         IN [local EXCEPT !.at = "data", !.i = i, !.day = today - i,
                          !.ask = local.systems]
    ELSE IF local.variant < NVariants
    THEN [NoRun EXCEPT !.at = "existing", !.variant = local.variant + 1,
                       !.systems = local.systems, !.listed = local.listed]
    ELSE NoRun

\* The dates that have a row, of the metric the run is at.
Existing(r) == {k[2] : k \in {x \in DOMAIN rows : x[1] = run[r].variant}}

FindExisting(r) ==
    /\ \/ At(r, "status") /\ run[r].ask = {}
       \/ At(r, "existing")
    /\ Goes(r, Onward([run[r] EXCEPT !.existing = Existing(r),
                          !.listed = IF At(r, "status") THEN run[r].systems ELSE @]))
    /\ UNCHANGED <<rows, world, kept>>

\* Samples of a day come when it is over.
HasData(s, day) == Since[s] <= day /\ day < today

Following(local) == Onward([local EXCEPT !.i = @ + 1])

\* Mutation: a system without data is passed over, not the day.
GetDataOfSome(r) ==
    /\ At(r, "data")
    /\ run[r].ask # {}
    /\ LET s == First(run[r].ask)
       IN /\ s \in reach
          /\ IF HasData(s, run[r].day)
             THEN Goes(r, [run[r] EXCEPT !.ask = @ \ {s}])
             ELSE Goes(r, [run[r] EXCEPT !.ask = @ \ {s}, !.systems = @ \ {s}])
    /\ UNCHANGED <<rows, world, kept>>

\* The systems are asked one after the other; one without data ends the day.
GetData(r) ==
    /\ At(r, "data")
    /\ run[r].ask # {}
    /\ LET s == First(run[r].ask)
       IN /\ s \in reach
          /\ Goes(r, IF HasData(s, run[r].day)
                     THEN [run[r] EXCEPT !.ask = @ \ {s}]
                     ELSE Following(run[r]))
    /\ UNCHANGED <<rows, world, kept>>

\* A system that could be reached before cannot now: the run is rejected.  The
\* scheduler catches what its own run throws.
GetDataFails(r) ==
    /\ At(r, "data")
    /\ run[r].ask # {}
    /\ First(run[r].ask) \notin reach
    /\ IF r = "boot" THEN Dies ELSE Ends(r) /\ UNCHANGED kept
    /\ UNCHANGED <<rows, world>>

\* Mutation: the row is written under the day itself, as in UTC.
UpsertUtc(r) ==
    /\ At(r, "data")
    /\ run[r].ask = {}
    /\ LET key == <<run[r].variant, run[r].day>>
       IN rows' = [k \in DOMAIN rows \cup {key} |->
                      IF k = key THEN Sum(run[r].day, run[r].systems) ELSE rows[k]]
    /\ Goes(r, Following(run[r]))
    /\ UNCHANGED <<world, kept>>

Upsert(r) ==
    /\ At(r, "data")
    /\ run[r].ask = {}
    /\ LET key == <<run[r].variant, Written(run[r].day)>>
       IN rows' = [k \in DOMAIN rows \cup {key} |->
                      IF k = key THEN Sum(run[r].day, run[r].systems) ELSE rows[k]]
    /\ Goes(r, Following(run[r]))
    /\ UNCHANGED <<world, kept>>
-----------------------------------------------------------------------------
(* The environment.                                                         *)

Midnight ==
    /\ today < LastDay
    /\ today' = today + 1
    /\ UNCHANGED <<rows, run, east, reach, incidents, kept>>

ReachChanges ==
    /\ Incident
    /\ \E S \in SUBSET System : reach' = S
    /\ UNCHANGED <<rows, run, east, today, kept>>

Crash ==
    /\ Incident
    /\ Dies
    /\ UNCHANGED <<rows, east, today, reach>>

Step(r) == \/ Count(r) \/ CreateHistory(r) \/ HistoryCollides(r)
           \/ AskStatus(r) \/ FindExisting(r)
           \/ GetData(r) \/ GetDataFails(r) \/ Upsert(r)

Next == \/ \E r \in Run : Step(r)
        \/ Cron \/ Midnight \/ ReachChanges \/ Crash

Spec == Init /\ [][Next]_vars

\* Queries and requests end, and the timer fires again and again.
FairSpec == /\ Spec
            /\ \A r \in Run : WF_vars(Step(r))
            /\ WF_vars(Cron)
-----------------------------------------------------------------------------
(* Properties.                                                              *)

Phases == {"idle", "count", "history", "status", "existing", "data"}
RunState == [at : Phases, systems : SUBSET System, ask : SUBSET System,
             variant : Variant, existing : SUBSET Int, i : 0 .. FILL_IN_DAYS - 1,
             day : Int, listed : SUBSET System]

TypeOK ==
    /\ DOMAIN rows \subseteq Variant \X Int
    /\ \A k \in DOMAIN rows :
          rows[k] \in [day : Int, over : (SUBSET System) \cup {Collected}]
    /\ run \in [Run -> RunState]
    /\ east \in BOOLEAN
    /\ today \in FirstDay..LastDay
    /\ reach \in SUBSET System
    /\ incidents \in 0..MaxIncidents
    /\ kept \in SUBSET Run

HasRow(v, day) == <<v, Written(day)>> \in DOMAIN rows

\* East of Greenwich the row that is taken for that of a day is of the day after.
TakenForFilled(v, day) == <<v, day>> \in DOMAIN rows

\* A sum that is written is over all the systems that answered when the run began,
\* none of which is without samples on its day: a missing system postpones the day,
\* it is never left out of the sum.  A run that is alone never corrects a row that
\* is there; only east of Greenwich it sums up again a day whose next has no row.
SumsAreWhole ==
    [][\A r \in Run, k \in DOMAIN rows' :
          run'[r] # run[r] /\ (k \in DOMAIN rows => rows'[k] # rows[k])
          => LET sum == rows'[k]
             IN /\ \/ sum.over = Collected
                   \/ /\ sum.over = run[r].listed
                      /\ \A s \in sum.over : HasData(s, sum.day)
                /\ k \in DOMAIN rows /\ r \in kept
                   => east /\ k[2] + 1 \notin run[r].existing]_vars

\* Two rows of a metric are never of the same day, and none is of a day to come.
OneRowPerDay ==
    \A j, k \in DOMAIN rows :
        /\ rows[j].day <= today
        /\ j[1] = k[1] /\ rows[j].day = rows[k].day => j = k

\* Once every system stays within reach the days of the window get their rows, for
\* every metric, whatever failed before: the process does not go on dying when it
\* starts.
WindowFilled ==
    <>[](reach = System)
    => <>[](\A v \in Variant, day \in today - FILL_IN_DAYS + 1 .. today :
               (\A s \in System : HasData(s, day))
               => HasRow(v, day) \/ TakenForFilled(v, day))
=============================================================================
