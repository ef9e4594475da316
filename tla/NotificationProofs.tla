------------------------- MODULE NotificationProofs -------------------------
(***************************************************************************)
(* Proofs, for every set of systems, window, time and number of failures,  *)
(* of what Notification promises of the events it mails.  Three cases are  *)
(* kept apart, as the code keeps its promises in different ones: any       *)
(* number of overlapping runs in a process that does not die, and runs     *)
(* that do not overlap in a process that may die at any time.              *)
(***************************************************************************)
EXTENDS Notification, TLAPS

\* The larger and the smaller of two integers, as the library chooses them.
LEMMA MaxOfTwo ==
  ASSUME NEW a \in Int, NEW b \in Int
  PROVE  Max({a, b}) = IF a >= b THEN a ELSE b
BY DEF Max

LEMMA MinOfTwo ==
  ASSUME NEW a \in Int, NEW b \in Int
  PROVE  Min({a, b}) = IF a <= b THEN a ELSE b
BY DEF Min

\* Where the range a run asks for starts: no later than now, and neither before
\* the progress nor further back than the window.
LEMMA StartOfRange ==
  ASSUME NEW at \in 0 .. MaxTime, NEW checked \in 0 .. MaxTime
  PROVE  LET from == Max({at - Window, checked})
         IN /\ from \in 0 .. MaxTime
            /\ from >= checked
            /\ \A t \in Time : t <= from => t <= checked \/ t \in checked + 1 .. at - Window
<1> DEFINE from == Max({at - Window, checked})
<1> USE NotificationAssumption
<1>1. from = IF at - Window >= checked THEN at - Window ELSE checked
  BY MaxOfTwo
<1>2. from \in 0 .. MaxTime /\ from >= checked
  BY <1>1
<1>3. ASSUME NEW t \in Time, t <= from
      PROVE  t <= checked \/ t \in checked + 1 .. at - Window
  BY <1>1, <1>3 DEF Time
<1> QED
  BY <1>2, <1>3

\* How far the maintainer has looked: no further than asked for, and it has data.
LEMMA EndOfRange ==
  ASSUME NEW at \in 0 .. MaxTime, NEW data \in 0 .. MaxTime
  PROVE  LET upTo == Min({at, data})
         IN /\ upTo \in 0 .. MaxTime
            /\ upTo <= at
            /\ upTo <= data
            /\ upTo = at \/ upTo = data
<1>1. Min({at, data}) = IF at <= data THEN at ELSE data
  BY NotificationAssumption, MinOfTwo
<1> QED
  BY <1>1, NotificationAssumption

-----------------------------------------------------------------------------
(* Types.                                                                  *)

\* The local variables of a run.
RunState == [at : Phases, now : 0 .. MaxTime, poolMap : SUBSET Group,
             todo : SUBSET System, asking : SUBSET System, from : 0 .. MaxTime,
             reported : SUBSET Event, saving : Progress]

LEMMA NewRunType ==
  ASSUME NEW at \in Phases
  PROVE  /\ NewRun(at) \in RunState
         /\ NewRun(at).at = at
         /\ NewRun(at).reported = {} /\ NewRun(at).asking = {}
         /\ NewRun(at).saving = Nothing
BY NotificationAssumption DEF NewRun, RunState, Progress, Nothing

LEMMA RunsType ==
  ASSUME NEW at \in Phases
  PROVE  Runs(at) \in [Run -> RunState]
BY NewRunType DEF Runs, Phases

\* What an answer of getPGEvents makes of a run is a run.
LEMMA AskedType ==
  ASSUME NEW x \in RunState, NEW all \in SUBSET Event, NEW todo \in SUBSET System
  PROVE  [x EXCEPT !.reported = all, !.todo = todo, !.asking = {}, !.from = 0,
                   !.at = "status"] \in RunState
<1>1. [x EXCEPT !.reported = all, !.todo = todo] \in RunState
  BY DEF RunState
<1>2. ASSUME NEW y \in RunState PROVE [y EXCEPT !.asking = {}, !.at = "status"] \in RunState
  BY DEF RunState, Phases
<1>3. ASSUME NEW y \in RunState PROVE [y EXCEPT !.from = 0] \in RunState
  BY NotificationAssumption DEF RunState
<1>4. [[[x EXCEPT !.reported = all, !.todo = todo]
          EXCEPT !.asking = {}, !.at = "status"] EXCEPT !.from = 0] \in RunState
  BY <1>1, <1>2, <1>3
<1>5. [[[x EXCEPT !.reported = all, !.todo = todo]
          EXCEPT !.asking = {}, !.at = "status"] EXCEPT !.from = 0]
      = [x EXCEPT !.reported = all, !.todo = todo, !.asking = {}, !.from = 0,
                  !.at = "status"]
  BY Zenon
<1> QED
  BY <1>4, <1>5

\* Every variable keeps its type in every reachable state.
THEOREM TypeCorrect == Spec => []TypeOK
<1> USE NotificationAssumption
<1>1. Init => TypeOK
  <2>1. Runs("pools") \in [Run -> RunState]
    BY RunsType DEF Phases
  <2>2. {} \in SUBSET Event /\ Nothing \in Progress
    BY DEF Nothing, Progress
  <2> SUFFICES ASSUME Init PROVE TypeOK
    OBVIOUS
  <2>3. /\ {sent, repeated, everSent, lost, unplaced} \subseteq SUBSET Event
        /\ {active, absent} \subseteq SUBSET Group /\ changes \in 0 .. MaxChanges
    BY <2>2 DEF Init
  <2>4. run \in [Run -> RunState] /\ {lastChecked, file, dataTo} \subseteq Progress
    BY <2>1, <2>2 DEF Init
  <2>5. now \in 0 .. MaxTime /\ failures \in 0 .. MaxFailures /\ crashes \in 0 .. MaxCrashes
    BY DEF Init
  <2>6. subscribed \in BOOLEAN /\ timer \in {"off", "set", "due"}
    BY DEF Init
  <2> QED
    BY <2>3, <2>4, <2>5, <2>6 DEF TypeOK, RunState
<1>2. TypeOK /\ [Next]_vars => TypeOK'
  <2> SUFFICES ASSUME TypeOK, [Next]_vars PROVE TypeOK'
    OBVIOUS
  <2>0. run \in [Run -> RunState] /\ NewRun("idle") \in RunState /\ NewRun("saving") \in RunState
    BY NewRunType DEF TypeOK, RunState, Phases
  <2>1. CASE UNCHANGED vars
    BY <2>1 DEF vars, env, groups, history, TypeOK
  <2>2. CASE Updated \/ Elapse
    BY <2>2 DEF Updated, Elapse, env, groups, history, TypeOK
  <2>3. ASSUME NEW r \in Run, TimerFires(r) \/ RunStep(r)
        PROVE  TypeOK'
    <3>0. /\ run[r] \in RunState
          /\ run[r].now \in 0 .. MaxTime /\ run[r].from \in 0 .. MaxTime
          /\ run[r].reported \in SUBSET Event /\ run[r].saving \in Progress
          /\ run[r].todo \in SUBSET System
      BY <2>0 DEF RunState
    <3>1. CASE TimerFires(r)
      <4>1. run' \in [Run -> RunState]
        BY <3>1, <2>0, <3>0 DEF TimerFires, Goto, RunState, Phases
      <4> QED
        BY <3>1, <4>1 DEF TimerFires, env, groups, history, TypeOK, RunState
    <3>2. CASE GotPools(r)
      <4>1. run' \in [Run -> RunState]
        BY <3>2, <2>0, <3>0 DEF GotPools, RunState, Phases, TypeOK
      <4> QED
        BY <3>2, <4>1 DEF GotPools, env, groups, history, TypeOK, RunState
    <3>3. ASSUME NEW s \in System, SystemUp(r, s)
          PROVE  TypeOK'
      <4> DEFINE from == Max({run[r].now - Window, lastChecked[s]})
      <4>1. from \in 0 .. MaxTime
        BY <3>0, StartOfRange DEF TypeOK, Progress
      <4>2. run' \in [Run -> RunState]
        BY <3>3, <2>0, <3>0, <4>1 DEF SystemUp, RunState, Phases
      <4>3. EventsOf(s, lastChecked[s], run[r].now - Window) \subseteq Event
        BY DEF EventsOf
      <4> QED
        BY <3>3, <4>2, <4>3 DEF SystemUp, env, groups, TypeOK, RunState
    <3>4. ASSUME NEW s \in System, SystemDown(r, s)
          PROVE  TypeOK'
      <4>1. run' \in [Run -> RunState]
        BY <3>4, <2>0, <3>0 DEF SystemDown, RunState
      <4> QED
        BY <3>4, <4>1 DEF SystemDown, Failure, env, groups, history, TypeOK, RunState
    <3>5. ASSUME NEW s \in System, GotEvents(r, s)
          PROVE  TypeOK'
      <4> DEFINE upTo == Min({run[r].now, dataTo[s]})
      <4>1. upTo \in 0 .. MaxTime
        BY <3>0, EndOfRange DEF TypeOK, Progress
      <4> DEFINE events == EventsOf(s, run[r].from, upTo)
                 all == run[r].reported \cup Placed(r, events)
      <4>2. all \in SUBSET Event /\ events \in SUBSET Event
        BY <3>0 DEF EventsOf, Placed
      <4>3. lastChecked' \in Progress
        BY <3>5, <4>1 DEF GotEvents, TypeOK, Progress
      <4>4. run' \in [Run -> RunState]
        <5> DEFINE next == [run[r] EXCEPT !.reported = all, !.todo = @ \ {s},
                                          !.asking = {}, !.from = 0, !.at = "status"]
        <5>1. run' = [run EXCEPT ![r] = next]
          BY <3>5, <2>0 DEF GotEvents
        <5>2. next \in RunState
          <6> HIDE DEF all
          <6> QED
            BY <3>0, <4>2, AskedType
        <5> HIDE DEF next
        <5> QED
          BY <5>1, <5>2, <2>0
      <4> QED
        <5>1. unplaced' \in SUBSET Event
          BY <3>5, <4>2 DEF GotEvents, TypeOK
        <5> QED
          BY <3>5, <4>3, <4>4, <5>1 DEF GotEvents, env, groups, TypeOK, RunState
    <3>6. CASE Aborted(r) \/ MailFails(r)
      <4>1. run' \in [Run -> RunState] /\ subscribed' = TRUE
        BY <3>6, <2>0 DEF Aborted, MailFails, End
      <4> QED
        BY <3>6, <3>0, <4>1 DEF Aborted, MailFails, Failure, env, groups, TypeOK, RunState
    <3>7. CASE MailReady(r)
      <4>1. run' \in [Run -> RunState]
        BY <3>7, <2>0, <3>0 DEF MailReady, Goto, RunState, Phases
      <4> QED
        BY <3>7, <4>1 DEF MailReady, env, groups, history, TypeOK, RunState
    <3>8. CASE FancySent(r)
      <4>1. run' \in [Run -> RunState]
        BY <3>8, <2>0, <3>0 DEF FancySent, Goto, RunState, Phases
      <4>2. {sent', repeated', everSent'} \subseteq SUBSET Event
        BY <3>8, <3>0 DEF FancySent, TypeOK
      <4> QED
        BY <3>8, <4>1, <4>2 DEF FancySent, env, groups, TypeOK, RunState
    <3>9. CASE PlainSent(r)
      <4>1. run' \in [Run -> RunState]
        BY <3>9, <2>0, <3>0 DEF PlainSent, Goto, RunState, Phases
      <4> QED
        BY <3>9, <4>1 DEF PlainSent, env, groups, history, TypeOK, RunState
    <3>10. CASE Save(r)
      <4>1. run' \in [Run -> RunState]
        BY <3>10, <2>0 DEF Save, RunState, TypeOK
      <4> QED
        BY <3>10, <4>1 DEF Save, env, groups, history, TypeOK, RunState
    <3>11. CASE Saved(r) \/ SaveFails(r)
      <4>1. run' \in [Run -> RunState]
        BY <3>11, <2>0 DEF Saved, SaveFails
      <4> QED
        BY <3>11, <3>0, <4>1 DEF Saved, SaveFails, Failure, env, groups, history, TypeOK, RunState
    <3> QED
      BY <2>3, <3>1, <3>2, <3>3, <3>4, <3>5, <3>6, <3>7, <3>8, <3>9, <3>10, <3>11
         DEF RunStep
  <2>4. CASE CrashAndRestart
    <3>1. run' \in [Run -> RunState]
      BY <2>4, RunsType DEF CrashAndRestart, Phases
    <3>2. Nothing \in Progress /\ {} \in SUBSET Event
      BY DEF Nothing, Progress
    <3>3. /\ {sent', repeated', everSent', lost'} \subseteq SUBSET Event
          /\ lastChecked' \in Progress /\ file' \in Progress \cup {Torn}
          /\ crashes' \in 0 .. MaxCrashes
      BY <2>4, <3>2 DEF CrashAndRestart, TypeOK
    <3> QED
      BY <2>4, <3>1, <3>3 DEF CrashAndRestart, env, groups, TypeOK, RunState
  <2>5. CASE Tick
    BY <2>5 DEF Tick, groups, history, TypeOK
  <2>6. ASSUME NEW s \in System, NewData(s)
        PROVE  TypeOK'
    BY <2>6 DEF NewData, groups, history, TypeOK, Progress
  <2>7. ASSUME NEW g \in Group, GroupChanges(g)
        PROVE  TypeOK'
    BY <2>7 DEF GroupChanges, history, TypeOK
  <2> QED
    BY <2>1, <2>2, <2>3, <2>4, <2>5, <2>6, <2>7 DEF Next
<1> QED
  BY <1>1, <1>2, PTL DEF Spec

-----------------------------------------------------------------------------
(* Every event is accounted for.                                           *)

\* An event that needs no further run to be looked at.
Accounted(e) == e \in everSent \/ GivenUp(e) \/ Gathered(e)

\* A run asks for what comes after its start: all before it is accounted for.
RangeAccounted ==
    \A r \in Run : \A e \in Event :
        run[r].at = "events" /\ e[1] \in run[r].asking /\ e[3] <= run[r].from
           => Accounted(e)

\* The map of a run lacks only groups that have been inactive.
MapKnown ==
    /\ Group \ active \subseteq absent
    /\ \A r \in Run : run[r].at \in {"status", "events"} =>
          Group \ run[r].poolMap \subseteq absent

\* A run holds no events before it has asked, nor after it has saved.
HoldsNothing ==
    \A r \in Run : run[r].at \in {"idle", "pools", "saving"} => run[r].reported = {}

\* What a run holds when its mail has been accepted has been mailed.
MailedBeforeSaved ==
    \A r \in Run : run[r].at \in {"plain", "save"} => run[r].reported \subseteq everSent

\* The inductive invariant of runs that may overlap.
Accounts == /\ ProgressAccounted
            /\ RangeAccounted
            /\ MapKnown
            /\ HoldsNothing
            /\ MailedBeforeSaved

\* What the file promises can be relied upon when runs do not overlap: progress
\* only grows, up to what the maintainers have data of.
ProgressInOrder ==
    \A s \in System : /\ lastChecked[s] <= dataTo[s]
                      /\ dataTo[s] <= now
                      /\ file # Torn => file[s] <= lastChecked[s]
                      /\ \A r \in Run : run[r].saving[s] <= lastChecked[s]

\* A run asks for nothing that was looked at before it.
RunInOrder ==
    \A r \in Run :
        /\ run[r].at \in {"status", "events"} =>
              run[r].now <= now /\ \A s \in System : lastChecked[s] <= run[r].now
        /\ run[r].at = "events" => \A s \in run[r].asking : lastChecked[s] <= run[r].from

\* What was mailed or is held is not looked at again.
SeenIsCovered ==
    /\ \A e \in sent : Covers(lastChecked, e)
    /\ \A r \in Run : \A e \in run[r].reported : Covers(lastChecked, e)

\* What a run holds before its mail is accepted has neither been mailed by this
\* process nor been saved by an earlier one.
HeldIsNew ==
    \A r \in Run : run[r].at \in {"status", "events", "fancy"} =>
        \A e \in run[r].reported : e \notin sent /\ (file # Torn => ~Covers(file, e))

\* The inductive invariant of runs that do not overlap.
InOrder == /\ ProgressInOrder
           /\ RunInOrder
           /\ SeenIsCovered
           /\ HeldIsNew

\* A step of a run changes no other run.
LEMMA OtherRuns ==
  ASSUME TypeOK, NEW r \in Run, TimerFires(r) \/ RunStep(r),
         NEW q \in Run, q # r
  PROVE  run'[q] = run[q]
<1> USE DEF TypeOK
<1>1. CASE TimerFires(r) \/ GotPools(r) \/ Aborted(r) \/ MailReady(r) \/ FancySent(r)
           \/ PlainSent(r) \/ MailFails(r) \/ Save(r) \/ Saved(r) \/ SaveFails(r)
  BY <1>1 DEF TimerFires, GotPools, Aborted, MailReady, FancySent, PlainSent, MailFails,
              Save, Saved, SaveFails, Goto, End
<1>2. ASSUME NEW s \in System, SystemUp(r, s) \/ SystemDown(r, s) \/ GotEvents(r, s)
      PROVE  run'[q] = run[q]
  BY <1>2 DEF SystemUp, SystemDown, GotEvents
<1> QED
  BY <1>1, <1>2 DEF RunStep

\* What the run itself becomes: it goes on with what it holds ...
LEMMA RunGoesOn ==
  ASSUME TypeOK, NEW r \in Run
  PROVE  /\ TimerFires(r) => /\ run'[r].at = "pools"
                             /\ run'[r].reported = run[r].reported
                             /\ run'[r].saving = run[r].saving
         /\ GotPools(r) => /\ run'[r].at = "status" /\ run'[r].now = now
                           /\ run'[r].poolMap = active
                           /\ run'[r].reported = run[r].reported
                           /\ run'[r].saving = run[r].saving
         /\ MailReady(r) => /\ run'[r].at = "fancy"
                            /\ run'[r].reported = run[r].reported
                            /\ run'[r].saving = run[r].saving
         /\ FancySent(r) => /\ run'[r].at \in {"plain", "save"}
                            /\ run'[r].reported = run[r].reported
                            /\ run'[r].saving = run[r].saving
         /\ PlainSent(r) => /\ run'[r].at = "save"
                            /\ run'[r].reported = run[r].reported
                            /\ run'[r].saving = run[r].saving
<1> USE NotificationAssumption DEF TypeOK, Goto
<1>1. ASSUME TimerFires(r)
      PROVE  run'[r].at = "pools" /\ run'[r].reported = run[r].reported
             /\ run'[r].saving = run[r].saving
  BY <1>1 DEF TimerFires
<1>2. ASSUME GotPools(r)
      PROVE  /\ run'[r].at = "status" /\ run'[r].now = now /\ run'[r].poolMap = active
             /\ run'[r].reported = run[r].reported /\ run'[r].saving = run[r].saving
  BY <1>2 DEF GotPools
<1>3. ASSUME MailReady(r)
      PROVE  run'[r].at = "fancy" /\ run'[r].reported = run[r].reported
             /\ run'[r].saving = run[r].saving
  BY <1>3 DEF MailReady
<1>4. ASSUME FancySent(r)
      PROVE  run'[r].at \in {"plain", "save"} /\ run'[r].reported = run[r].reported
             /\ run'[r].saving = run[r].saving
  BY <1>4 DEF FancySent
<1>5. ASSUME PlainSent(r)
      PROVE  run'[r].at = "save" /\ run'[r].reported = run[r].reported
             /\ run'[r].saving = run[r].saving
  BY <1>5 DEF PlainSent
<1> QED
  BY <1>1, <1>2, <1>3, <1>4, <1>5

\* ... asks a system ...
LEMMA RunAsks ==
  ASSUME TypeOK, NEW r \in Run, NEW s \in System
  PROVE  /\ SystemUp(r, s) =>
              /\ run'[r].at = "events" /\ run'[r].now = run[r].now
              /\ run'[r].poolMap = run[r].poolMap
              /\ run'[r].asking = {s}
              /\ run'[r].from = Max({run[r].now - Window, lastChecked[s]})
              /\ run'[r].reported = run[r].reported /\ run'[r].saving = run[r].saving
         /\ SystemDown(r, s) =>
              /\ run'[r].at = "status" /\ run'[r].now = run[r].now
              /\ run'[r].poolMap = run[r].poolMap
              /\ run'[r].reported = run[r].reported /\ run'[r].saving = run[r].saving
         /\ GotEvents(r, s) =>
              /\ run'[r].at = "status" /\ run'[r].now = run[r].now
              /\ run'[r].poolMap = run[r].poolMap
              /\ run'[r].reported =
                   run[r].reported \cup
                     Placed(r, EventsOf(s, run[r].from, Min({run[r].now, dataTo[s]})))
              /\ run'[r].saving = run[r].saving
<1> USE DEF TypeOK
<1>1. ASSUME SystemUp(r, s)
      PROVE  /\ run'[r].at = "events" /\ run'[r].now = run[r].now
             /\ run'[r].poolMap = run[r].poolMap
             /\ run'[r].asking = {s}
             /\ run'[r].from = Max({run[r].now - Window, lastChecked[s]})
             /\ run'[r].reported = run[r].reported /\ run'[r].saving = run[r].saving
  BY <1>1 DEF SystemUp
<1>2. ASSUME SystemDown(r, s)
      PROVE  /\ run'[r].at = "status" /\ run'[r].now = run[r].now
             /\ run'[r].poolMap = run[r].poolMap
             /\ run'[r].reported = run[r].reported /\ run'[r].saving = run[r].saving
  BY <1>2 DEF SystemDown
<1>3. ASSUME GotEvents(r, s)
      PROVE  /\ run'[r].at = "status" /\ run'[r].now = run[r].now
             /\ run'[r].poolMap = run[r].poolMap
             /\ run'[r].reported =
                  run[r].reported \cup
                    Placed(r, EventsOf(s, run[r].from, Min({run[r].now, dataTo[s]})))
             /\ run'[r].saving = run[r].saving
  <2> DEFINE all == run[r].reported \cup
                      Placed(r, EventsOf(s, run[r].from, Min({run[r].now, dataTo[s]})))
             next == [run[r] EXCEPT !.reported = all, !.todo = @ \ {s},
                                    !.asking = {}, !.from = 0, !.at = "status"]
  <2>1. run'[r] = next
    BY <1>3 DEF GotEvents
  <2>2. /\ next.at = "status" /\ next.now = run[r].now /\ next.poolMap = run[r].poolMap
        /\ next.reported = all /\ next.saving = run[r].saving
    <3> HIDE DEF all
    <3> QED
      OBVIOUS
  <2> QED
    BY <2>1, <2>2
<1> QED
  BY <1>1, <1>2, <1>3

\* ... or ends.
LEMMA RunEnds ==
  ASSUME TypeOK, NEW r \in Run
  PROVE  /\ Aborted(r) \/ MailFails(r) \/ Saved(r) \/ SaveFails(r) =>
              run'[r].at = "idle" /\ run'[r].reported = {} /\ run'[r].saving = Nothing
         /\ Save(r) =>
              run'[r].at = "saving" /\ run'[r].reported = {} /\ run'[r].saving = lastChecked
<1> USE DEF TypeOK
<1>1. ASSUME Aborted(r) \/ MailFails(r) \/ Saved(r) \/ SaveFails(r)
      PROVE  run'[r].at = "idle" /\ run'[r].reported = {} /\ run'[r].saving = Nothing
  BY <1>1, NewRunType DEF Aborted, MailFails, Saved, SaveFails, End, Phases
<1>2. ASSUME Save(r)
      PROVE  run'[r].at = "saving" /\ run'[r].reported = {} /\ run'[r].saving = lastChecked
  BY <1>2 DEF Save, NewRun
<1> QED
  BY <1>1, <1>2

\* What was mailed or given up stays so, and the file changes only when progress
\* is saved.
LEMMA HistoryGrows ==
  ASSUME NEW r \in Run, TimerFires(r) \/ RunStep(r)
  PROVE  /\ everSent \subseteq everSent' /\ lost \subseteq lost'
         /\ unplaced \subseteq unplaced' /\ absent' = absent
<1> USE DEF env, groups, history
<1>1. CASE TimerFires(r) \/ GotPools(r) \/ Aborted(r) \/ MailReady(r) \/ FancySent(r)
           \/ PlainSent(r) \/ MailFails(r) \/ Save(r) \/ Saved(r) \/ SaveFails(r)
  BY <1>1 DEF TimerFires, GotPools, Aborted, MailReady, FancySent, PlainSent, MailFails,
              Save, Saved, SaveFails
<1>2. ASSUME NEW s \in System, SystemUp(r, s) \/ SystemDown(r, s) \/ GotEvents(r, s)
      PROVE  /\ everSent \subseteq everSent' /\ lost \subseteq lost'
         /\ unplaced \subseteq unplaced' /\ absent' = absent
  BY <1>2 DEF SystemUp, SystemDown, GotEvents
<1> QED
  BY <1>1, <1>2 DEF RunStep

\* No step of a run drops an event: what a run held when it ended was mailed, or
\* it is given up.
LEMMA NothingDropped ==
  ASSUME TypeOK, HoldsNothing, MailedBeforeSaved,
         NEW r \in Run, TimerFires(r) \/ RunStep(r), NEW e, Accounted(e)
  PROVE  Accounted(e)'
<1>1. CASE e \in everSent \/ GivenUp(e)
  BY <1>1, HistoryGrows DEF Accounted, GivenUp
<1>2. ASSUME NEW q \in Run, e \in run[q].reported, q # r
      PROVE  Accounted(e)'
  <2>1. run'[q] = run[q]
    BY <1>2, OtherRuns
  <2> QED
    BY <1>2, <2>1 DEF Accounted, Gathered
<1>3. CASE e \in run[r].reported
  <2>1. CASE TimerFires(r) \/ GotPools(r) \/ MailReady(r) \/ FancySent(r) \/ PlainSent(r)
    <3>1. run'[r].reported = run[r].reported
      BY <2>1, RunGoesOn
    <3> QED
      BY <1>3, <3>1 DEF Accounted, Gathered
  <2>2. ASSUME NEW s \in System, SystemUp(r, s) \/ SystemDown(r, s) \/ GotEvents(r, s)
        PROVE  Accounted(e)'
    <3>1. run[r].reported \subseteq run'[r].reported
      BY <2>2, RunAsks
    <3> QED
      BY <1>3, <3>1 DEF Accounted, Gathered
  <2>3. CASE Aborted(r)
    BY <1>3, <2>3 DEF Aborted, Accounted, GivenUp
  <2>4. CASE MailFails(r)
    BY <1>3, <2>4 DEF MailFails, Accounted, GivenUp
  <2>5. CASE Save(r)
    <3>1. e \in everSent
      BY <1>3, <2>5 DEF Save, NothingToReport, MailedBeforeSaved
    <3> QED
      BY <3>1, HistoryGrows DEF Accounted
  <2>6. CASE Saved(r) \/ SaveFails(r)
    BY <1>3, <2>6 DEF Saved, SaveFails, HoldsNothing
  <2> QED
    BY <2>1, <2>2, <2>3, <2>4, <2>5, <2>6 DEF RunStep
<1> QED
  BY <1>1, <1>2, <1>3 DEF Accounted, Gathered

\* Progress is recorded by answers only.
LEMMA ProgressByAnswers ==
  ASSUME NEW r \in Run, TimerFires(r) \/ RunStep(r),
         \A s \in System : ~GotEvents(r, s)
  PROVE  lastChecked' = lastChecked
<1>1. CASE TimerFires(r) \/ GotPools(r) \/ Aborted(r) \/ MailReady(r) \/ FancySent(r)
           \/ PlainSent(r) \/ MailFails(r) \/ Save(r) \/ Saved(r) \/ SaveFails(r)
  BY <1>1 DEF TimerFires, GotPools, Aborted, MailReady, FancySent, PlainSent, MailFails,
              Save, Saved, SaveFails
<1>2. ASSUME NEW s \in System, SystemUp(r, s) \/ SystemDown(r, s)
      PROVE  lastChecked' = lastChecked
  BY <1>2 DEF SystemUp, SystemDown
<1> QED
  BY <1>1, <1>2 DEF RunStep

\* What a step of a run leaves alone.
LEMMA RunLeavesAlone ==
  ASSUME NEW r \in Run, TimerFires(r) \/ RunStep(r)
  PROVE  /\ UNCHANGED env
         /\ ~(Save(r) \/ Saved(r)) => file' = file
         /\ ~FancySent(r) => UNCHANGED <<sent, repeated>>
<1> USE DEF history
<1>1. CASE TimerFires(r) \/ GotPools(r) \/ Aborted(r) \/ MailReady(r) \/ FancySent(r)
           \/ PlainSent(r) \/ MailFails(r) \/ SaveFails(r)
  BY <1>1 DEF TimerFires, GotPools, Aborted, MailReady, FancySent, PlainSent, MailFails,
              SaveFails
<1>2. CASE Save(r) \/ Saved(r)
  BY <1>2 DEF Save, Saved
<1>3. ASSUME NEW s \in System, SystemUp(r, s) \/ SystemDown(r, s) \/ GotEvents(r, s)
      PROVE  UNCHANGED env /\ file' = file /\ UNCHANGED <<sent, repeated>>
  BY <1>3 DEF SystemUp, SystemDown, GotEvents
<1> QED
  BY <1>1, <1>2, <1>3 DEF RunStep

\* The invariant is kept by every step of a run, whatever the other runs do.
LEMMA RunKeepsAccounts ==
  ASSUME TypeOK, Accounts, NEW r \in Run, TimerFires(r) \/ RunStep(r)
  PROVE  Accounts'
<1> USE DEF Accounts
<1>1. ProgressAccounted'
  <2> SUFFICES ASSUME NEW e \in Event, Covers(lastChecked', e)
               PROVE  Accounted(e)'
    BY DEF ProgressAccounted, Accounted, Covers, Gathered, Event, Time
  <2>1. CASE Covers(lastChecked, e)
    <3>1. Accounted(e)
      BY <2>1 DEF ProgressAccounted, Accounted
    <3> QED
      BY <3>1, NothingDropped
  <2>2. CASE ~Covers(lastChecked, e)
    <3>1. PICK s \in System : GotEvents(r, s)
      BY <2>2, ProgressByAnswers
    <3> DEFINE upTo == Min({run[r].now, dataTo[s]})
               events == EventsOf(s, run[r].from, upTo)
    <3>2. /\ e[1] = s /\ e[3] <= upTo /\ s \in run[r].asking /\ run[r].at = "events"
      BY <2>2, <3>1 DEF GotEvents, Covers, TypeOK, Progress, Event
    <3>3. CASE e[3] <= run[r].from
      <4>1. Accounted(e)
        BY <3>2, <3>3 DEF RangeAccounted
      <4> QED
        BY <4>1, NothingDropped
    <3>4. CASE ~(e[3] <= run[r].from)
      <4>1. run[r].from \in Int /\ e[3] \in Int
        <5>1. run[r].from \in 0 .. MaxTime
          BY DEF TypeOK
        <5> QED
          BY <5>1, NotificationAssumption DEF Event, Time
      <4>2. e \in events
        BY <3>2, <3>4, <4>1 DEF EventsOf
      <4> HIDE DEF events
      <4>3. CASE GroupOf(e) \in run[r].poolMap
        <5>1. e \in run'[r].reported
          BY <3>1, <4>2, <4>3, RunAsks DEF Placed, events
        <5> QED
          BY <5>1 DEF Accounted, Gathered
      <4>4. CASE GroupOf(e) \notin run[r].poolMap
        <5>1. e \in unplaced'
          BY <3>1, <4>2, <4>4 DEF GotEvents, Placed, events
        <5>2. GroupOf(e) \in absent'
          <6>1. GroupOf(e) \in Group
            BY DEF GroupOf, Group, Event
          <6> QED
            BY <3>2, <4>4, <6>1, HistoryGrows DEF MapKnown
        <5> QED
          BY <5>1, <5>2 DEF Accounted, GivenUp
      <4> QED
        BY <4>3, <4>4
    <3> QED
      BY <3>3, <3>4
  <2> QED
    BY <2>1, <2>2
<1>2. RangeAccounted'
  <2> SUFFICES ASSUME NEW q \in Run, NEW e \in Event,
                      run'[q].at = "events", e[1] \in run'[q].asking, e[3] <= run'[q].from
               PROVE  Accounted(e)'
    BY DEF RangeAccounted
  <2>1. CASE q # r
    <3>1. run'[q] = run[q]
      BY <2>1, OtherRuns
    <3>2. Accounted(e)
      BY <3>1 DEF RangeAccounted
    <3> QED
      BY <3>2, NothingDropped
  <2>2. CASE q = r
    <3>1. PICK u \in System : SystemUp(r, u)
      <4>1. CASE TimerFires(r) \/ GotPools(r) \/ MailReady(r) \/ FancySent(r) \/ PlainSent(r)
        BY <2>2, <4>1, RunGoesOn
      <4>2. CASE \E u \in System : SystemDown(r, u) \/ GotEvents(r, u)
        BY <2>2, <4>2, RunAsks
      <4>3. CASE Aborted(r) \/ MailFails(r) \/ Save(r) \/ Saved(r) \/ SaveFails(r)
        BY <2>2, <4>3, RunEnds
      <4> QED
        BY <4>1, <4>2, <4>3 DEF RunStep
    <3>2. e[1] = u /\ run'[r].from = Max({run[r].now - Window, lastChecked[u]})
      <4>1. /\ run'[r].asking = {u}
            /\ run'[r].from = Max({run[r].now - Window, lastChecked[u]})
        BY <3>1, RunAsks
      <4> QED
        BY <2>2, <4>1
    <3>3. e[3] <= lastChecked[u] \/ e[3] \in lastChecked[u] + 1 .. run[r].now - Window
      <4>1. /\ run[r].now \in 0 .. MaxTime /\ lastChecked[u] \in 0 .. MaxTime
            /\ e[3] \in Time
        BY DEF TypeOK, Progress, Event
      <4> QED
        BY <2>2, <3>2, <4>1, StartOfRange
    <3>4. CASE e[3] <= lastChecked[u]
      <4>1. Accounted(e)
        BY <3>2, <3>4 DEF ProgressAccounted, Accounted, Covers
      <4> QED
        BY <4>1, NothingDropped
    <3>5. CASE e[3] \in lastChecked[u] + 1 .. run[r].now - Window
      <4>1. e \in EventsOf(u, lastChecked[u], run[r].now - Window)
        <5>1. lastChecked[u] \in 0 .. MaxTime /\ run[r].now \in 0 .. MaxTime
          BY DEF TypeOK, Progress
        <5> QED
          BY <3>2, <3>5, <5>1, NotificationAssumption DEF EventsOf
      <4> QED
        BY <3>1, <4>1 DEF SystemUp, Accounted, GivenUp
    <3> QED
      BY <3>3, <3>4, <3>5
  <2> QED
    BY <2>1, <2>2
<1>3. HoldsNothing'
  <2> SUFFICES ASSUME NEW q \in Run, run'[q].at \in {"idle", "pools", "saving"}
               PROVE  run'[q].reported = {}
    BY DEF HoldsNothing
  <2>1. CASE q # r
    <3>1. run'[q] = run[q]
      BY <2>1, OtherRuns
    <3> QED
      BY <3>1 DEF HoldsNothing
  <2>2. CASE q = r
    <3>1. CASE TimerFires(r)
      BY <2>2, <3>1, RunGoesOn DEF TimerFires, HoldsNothing
    <3>2. CASE ~TimerFires(r)
      BY <2>2, <3>2, RunGoesOn, RunAsks, RunEnds DEF RunStep
    <3> QED
      BY <3>1, <3>2
  <2> QED
    BY <2>1, <2>2
<1>4. MailedBeforeSaved'
  <2> SUFFICES ASSUME NEW q \in Run, run'[q].at \in {"plain", "save"}
               PROVE  run'[q].reported \subseteq everSent'
    BY DEF MailedBeforeSaved
  <2>1. CASE q # r
    <3>1. run'[q] = run[q]
      BY <2>1, OtherRuns
    <3> QED
      BY <3>1, HistoryGrows DEF MailedBeforeSaved
  <2>2. CASE q = r
    <3>1. FancySent(r) \/ PlainSent(r)
      BY <2>2, RunGoesOn, RunAsks, RunEnds DEF RunStep
    <3>2. run'[r].reported = run[r].reported
      BY <3>1, RunGoesOn
    <3>3. CASE FancySent(r)
      BY <2>2, <3>2, <3>3 DEF FancySent
    <3>4. CASE PlainSent(r)
      BY <2>2, <3>2, <3>4, HistoryGrows DEF PlainSent, MailedBeforeSaved
    <3> QED
      BY <3>1, <3>3, <3>4
  <2> QED
    BY <2>1, <2>2
<1>5. MapKnown'
  <2>1. active' = active /\ absent' = absent
    BY RunLeavesAlone DEF env, groups
  <2> SUFFICES ASSUME NEW q \in Run, run'[q].at \in {"status", "events"}
               PROVE  Group \ run'[q].poolMap \subseteq absent
    BY <2>1 DEF MapKnown
  <2>2. CASE q # r
    <3>1. run'[q] = run[q]
      BY <2>2, OtherRuns
    <3> QED
      BY <3>1 DEF MapKnown
  <2>3. CASE q = r
    <3>1. CASE GotPools(r)
      BY <2>3, <3>1, RunGoesOn DEF MapKnown
    <3>2. ASSUME NEW s \in System, SystemUp(r, s) \/ SystemDown(r, s) \/ GotEvents(r, s)
          PROVE  Group \ run'[q].poolMap \subseteq absent
      <4>1. run'[r].poolMap = run[r].poolMap
        BY <3>2, RunAsks
      <4>2. run[r].at \in {"status", "events"}
        BY <3>2 DEF SystemUp, SystemDown, GotEvents
      <4> QED
        BY <2>3, <4>1, <4>2 DEF MapKnown
    <3>3. CASE TimerFires(r) \/ MailReady(r) \/ FancySent(r) \/ PlainSent(r)
      BY <2>3, <3>3, RunGoesOn
    <3>4. CASE Aborted(r) \/ MailFails(r) \/ Save(r) \/ Saved(r) \/ SaveFails(r)
      BY <2>3, <3>4, RunEnds
    <3> QED
      BY <3>1, <3>2, <3>3, <3>4 DEF RunStep
  <2> QED
    BY <2>2, <2>3
<1> QED
  BY <1>1, <1>2, <1>3, <1>4, <1>5

\* The steps that no run takes, a restart apart, keep the invariant.
LEMMA OthersKeepAccounts ==
  ASSUME Accounts,
         \/ UNCHANGED vars \/ Updated \/ Elapse \/ Tick
         \/ \E s \in System : NewData(s)
         \/ \E g \in Group : GroupChanges(g)
  PROVE  Accounts'
<1>1. UNCHANGED <<lastChecked, run, everSent, lost, unplaced>>
  BY DEF vars, env, history, Updated, Elapse, Tick, NewData, GroupChanges
<1>2. absent \subseteq absent' /\ Group \ active' \subseteq absent'
  <2>1. CASE \E g \in Group : GroupChanges(g)
    BY <2>1 DEF GroupChanges
  <2>2. CASE ~\E g \in Group : GroupChanges(g)
    <3>1. UNCHANGED <<active, absent>>
      BY <2>2 DEF vars, env, groups, Updated, Elapse, Tick, NewData
    <3> QED
      BY <3>1 DEF Accounts, MapKnown
  <2> QED
    BY <2>1, <2>2
<1>3. ASSUME NEW e, Accounted(e)
      PROVE  Accounted(e)'
  BY <1>1, <1>2, <1>3 DEF Accounted, GivenUp, Gathered
<1>4. ProgressAccounted' /\ RangeAccounted'
  <2>1. ASSUME NEW e \in Event, Covers(lastChecked', e)
        PROVE  Accounted(e)'
    BY <1>1, <1>3, <2>1 DEF Accounts, ProgressAccounted, Accounted
  <2>2. ASSUME NEW q \in Run, NEW e \in Event,
               run'[q].at = "events", e[1] \in run'[q].asking, e[3] <= run'[q].from
        PROVE  Accounted(e)'
    BY <1>1, <1>3, <2>2 DEF Accounts, RangeAccounted
  <2> QED
    BY <2>1, <2>2 DEF ProgressAccounted, RangeAccounted, Accounted, Covers
<1>5. MapKnown' /\ HoldsNothing' /\ MailedBeforeSaved'
  BY <1>1, <1>2 DEF Accounts, MapKnown, HoldsNothing, MailedBeforeSaved
<1> QED
  BY <1>4, <1>5 DEF Accounts

LEMMA InitAccounts == Init => Accounts
<1> SUFFICES ASSUME Init PROVE Accounts
  OBVIOUS
<1>1. \A r \in Run : run[r].at \in {"idle", "pools"} /\ run[r].reported = {}
  BY NewRunType DEF Init, Runs, Phases
<1>2. ProgressAccounted
  BY DEF Init, ProgressAccounted, Covers, Nothing, Event, Time
<1>3. MapKnown
  BY <1>1 DEF Init, MapKnown
<1> QED
  BY <1>1, <1>2, <1>3 DEF Accounts, RangeAccounted, HoldsNothing, MailedBeforeSaved

\* In a process that does not die, however many runs of parityGroupAlert overlap
\* and whatever requests and mails fail, the progress passes over no event that
\* nobody mailed, holds or gave up.
THEOREM OverlappingRunsAccount ==
  ASSUME MaxCrashes = 0
  PROVE  Spec => []ProgressAccounted
<1>1. TypeOK /\ Accounts /\ [Next]_vars => Accounts'
  <2> SUFFICES ASSUME TypeOK, Accounts, [Next]_vars PROVE Accounts'
    OBVIOUS
  <2>1. ~CrashAndRestart
    BY DEF CrashAndRestart, TypeOK
  <2> QED
    BY <2>1, RunKeepsAccounts, OthersKeepAccounts DEF Next
<1>2. Accounts => ProgressAccounted
  BY DEF Accounts
<1> QED
  BY <1>1, <1>2, InitAccounts, TypeCorrect, PTL DEF Spec

-----------------------------------------------------------------------------
(* Runs that do not overlap, in a process that may die.                    *)

\* An answer moves the progress of its system forwards, up to what the run asked
\* for and the maintainer has: no other run has moved it meanwhile.
LEMMA AnswerMovesForwards ==
  ASSUME TypeOK, InOrder, NEW r \in Run, NEW s \in System, GotEvents(r, s)
  PROVE  /\ lastChecked[s] <= lastChecked'[s]
         /\ lastChecked'[s] <= dataTo[s]
         /\ lastChecked'[s] <= run[r].now
         /\ \A u \in System : u # s => lastChecked'[u] = lastChecked[u]
         /\ lastChecked'[s] = Min({run[r].now, dataTo[s]})
<1>1. lastChecked' = [lastChecked EXCEPT ![s] = Min({run[r].now, dataTo[s]})]
  BY DEF GotEvents
<1>2. /\ lastChecked[s] \in 0 .. MaxTime /\ dataTo[s] \in 0 .. MaxTime
      /\ run[r].now \in 0 .. MaxTime /\ lastChecked \in [System -> 0 .. MaxTime]
  BY DEF TypeOK, Progress
<1>3. lastChecked[s] <= run[r].now /\ lastChecked[s] <= dataTo[s]
  BY DEF InOrder, ProgressInOrder, RunInOrder, GotEvents
<1> QED
  BY <1>1, <1>2, <1>3, EndOfRange, NotificationAssumption

\* A step of a run never moves progress backwards.
LEMMA ProgressGrows ==
  ASSUME TypeOK, InOrder, NEW r \in Run, TimerFires(r) \/ RunStep(r), NEW s \in System
  PROVE  lastChecked[s] <= lastChecked'[s] /\ lastChecked'[s] <= dataTo[s]
<1>1. CASE \E u \in System : GotEvents(r, u)
  <2> PICK u \in System : GotEvents(r, u)
    BY <1>1
  <2>1. lastChecked[s] \in 0 .. MaxTime /\ lastChecked[s] <= dataTo[s]
    BY DEF TypeOK, Progress, InOrder, ProgressInOrder
  <2>2. CASE s = u
    BY <2>2, AnswerMovesForwards
  <2>3. CASE s # u
    <3>1. lastChecked'[s] = lastChecked[s]
      BY <2>3, AnswerMovesForwards
    <3> QED
      BY <2>1, <3>1, NotificationAssumption
  <2> QED
    BY <2>2, <2>3
<1>2. CASE ~\E u \in System : GotEvents(r, u)
  <2>1. lastChecked' = lastChecked
    BY <1>2, ProgressByAnswers
  <2>2. lastChecked[s] \in 0 .. MaxTime /\ lastChecked[s] <= dataTo[s]
    BY DEF TypeOK, Progress, InOrder, ProgressInOrder
  <2> QED
    BY <2>1, <2>2, NotificationAssumption
<1> QED
  BY <1>1, <1>2

LEMMA RunKeepsProgressInOrder ==
  ASSUME TypeOK, TypeOK', InOrder, NEW r \in Run, Run = {r}, TimerFires(r) \/ RunStep(r)
  PROVE  ProgressInOrder'
<1> SUFFICES ASSUME NEW s \in System
             PROVE  /\ lastChecked'[s] <= dataTo'[s]
                    /\ dataTo'[s] <= now'
                    /\ file' # Torn => file'[s] <= lastChecked'[s]
                    /\ run'[r].saving[s] <= lastChecked'[s]
  BY DEF ProgressInOrder
<1> USE NotificationAssumption
<1>1. /\ lastChecked[s] \in 0 .. MaxTime /\ lastChecked'[s] \in 0 .. MaxTime
      /\ file # Torn => file[s] \in 0 .. MaxTime
      /\ run[r].saving[s] \in 0 .. MaxTime
  BY DEF TypeOK, Progress
<1>2. /\ lastChecked[s] <= lastChecked'[s] /\ lastChecked'[s] <= dataTo[s]
      /\ dataTo' = dataTo /\ now' = now /\ dataTo[s] <= now
  BY ProgressGrows, RunLeavesAlone DEF env, InOrder, ProgressInOrder
<1>3. run[r].saving[s] <= lastChecked[s] /\ (file # Torn => file[s] <= lastChecked[s])
  BY DEF InOrder, ProgressInOrder
<1>4. file' # Torn => file'[s] <= lastChecked'[s]
  <2>1. CASE Save(r)
    BY <1>1, <1>2, <1>3, <2>1 DEF Save
  <2>2. CASE Saved(r)
    BY <1>1, <1>2, <1>3, <2>2 DEF Saved
  <2>3. CASE ~(Save(r) \/ Saved(r))
    BY <1>1, <1>2, <1>3, <2>3, RunLeavesAlone
  <2> QED
    BY <2>1, <2>2, <2>3
<1>5. run'[r].saving[s] <= lastChecked'[s]
  <2>1. run'[r].saving \in {run[r].saving, Nothing, lastChecked}
    <3>1. CASE TimerFires(r) \/ GotPools(r) \/ MailReady(r) \/ FancySent(r) \/ PlainSent(r)
      BY <3>1, RunGoesOn
    <3>2. CASE \E u \in System : SystemUp(r, u) \/ SystemDown(r, u) \/ GotEvents(r, u)
      BY <3>2, RunAsks
    <3>3. CASE Aborted(r) \/ MailFails(r) \/ Save(r) \/ Saved(r) \/ SaveFails(r)
      BY <3>3, RunEnds
    <3> QED
      BY <3>1, <3>2, <3>3 DEF RunStep
  <2>2. Nothing[s] = 0
    BY DEF Nothing
  <2> QED
    BY <1>1, <1>2, <1>3, <2>1, <2>2
<1> QED
  BY <1>2, <1>4, <1>5

LEMMA RunKeepsRunInOrder ==
  ASSUME TypeOK, InOrder, NEW r \in Run, Run = {r}, TimerFires(r) \/ RunStep(r)
  PROVE  RunInOrder'
<1> USE NotificationAssumption
<1>0. now' = now /\ dataTo' = dataTo
  BY RunLeavesAlone DEF env
<1>1. CASE GotPools(r)
  <2>1. run'[r].at = "status" /\ run'[r].now = now /\ lastChecked' = lastChecked
    BY <1>1, RunGoesOn DEF GotPools
  <2>2. \A s \in System : lastChecked[s] <= now
    BY DEF InOrder, ProgressInOrder, TypeOK, Progress
  <2> QED
    BY <1>0, <2>1, <2>2 DEF RunInOrder, TypeOK
<1>2. ASSUME NEW s \in System, SystemUp(r, s)
      PROVE  RunInOrder'
  <2>1. /\ run'[r].at = "events" /\ run'[r].now = run[r].now /\ run'[r].asking = {s}
        /\ run'[r].from = Max({run[r].now - Window, lastChecked[s]})
        /\ lastChecked' = lastChecked /\ run[r].at = "status"
    BY <1>2, RunAsks DEF SystemUp
  <2>2. lastChecked[s] <= run'[r].from
    <3>1. run[r].now \in 0 .. MaxTime /\ lastChecked[s] \in 0 .. MaxTime
      BY DEF TypeOK, Progress
    <3> QED
      BY <2>1, <3>1, StartOfRange
  <2> QED
    BY <1>0, <2>1, <2>2 DEF RunInOrder, InOrder
<1>3. ASSUME NEW s \in System, SystemDown(r, s)
      PROVE  RunInOrder'
  <2>1. /\ run'[r].at = "status" /\ run'[r].now = run[r].now
        /\ lastChecked' = lastChecked /\ run[r].at = "status"
    BY <1>3, RunAsks DEF SystemDown
  <2> QED
    BY <1>0, <2>1 DEF RunInOrder, InOrder
<1>4. ASSUME NEW s \in System, GotEvents(r, s)
      PROVE  RunInOrder'
  <2>1. run'[r].at = "status" /\ run'[r].now = run[r].now /\ run[r].at = "events"
    BY <1>4, RunAsks DEF GotEvents
  <2>2. \A u \in System : lastChecked'[u] <= run[r].now
    BY <1>4, <2>1, AnswerMovesForwards DEF InOrder, RunInOrder
  <2> QED
    BY <1>0, <2>1, <2>2 DEF RunInOrder, InOrder
<1>5. CASE run'[r].at \notin {"status", "events"}
  BY <1>5 DEF RunInOrder
<1> QED
  <2>1. CASE TimerFires(r) \/ MailReady(r) \/ FancySent(r) \/ PlainSent(r)
    BY <1>5, <2>1, RunGoesOn
  <2>2. CASE Aborted(r) \/ MailFails(r) \/ Save(r) \/ Saved(r) \/ SaveFails(r)
    BY <1>5, <2>2, RunEnds
  <2> QED
    BY <1>1, <1>2, <1>3, <1>4, <2>1, <2>2 DEF RunStep

\* The events of an answer come after the progress there was, up to the new one.
LEMMA AnswerIsNew ==
  ASSUME TypeOK, InOrder, NEW r \in Run, NEW s \in System, GotEvents(r, s),
         NEW e \in run'[r].reported, e \notin run[r].reported
  PROVE  e \in Event /\ ~Covers(lastChecked, e) /\ Covers(lastChecked', e)
<1> DEFINE upTo == Min({run[r].now, dataTo[s]})
<1>1. e \in EventsOf(s, run[r].from, upTo)
  BY RunAsks DEF Placed
<1>2. lastChecked[s] <= run[r].from /\ lastChecked'[s] = upTo
  BY AnswerMovesForwards DEF InOrder, RunInOrder, GotEvents
<1>3. /\ run[r].from \in 0 .. MaxTime /\ lastChecked[s] \in 0 .. MaxTime
      /\ upTo \in 0 .. MaxTime
  <2>1. run[r].now \in 0 .. MaxTime /\ dataTo[s] \in 0 .. MaxTime
    BY DEF TypeOK, Progress
  <2> QED
    BY <2>1, EndOfRange DEF TypeOK, Progress
<1> HIDE DEF upTo
<1> QED
  BY <1>1, <1>2, <1>3, NotificationAssumption DEF EventsOf, Covers, Event, Time

\* What a run holds grows by answers only.
LEMMA HeldByAnswers ==
  ASSUME TypeOK, NEW r \in Run, TimerFires(r) \/ RunStep(r),
         \A s \in System : ~GotEvents(r, s)
  PROVE  run'[r].reported \subseteq run[r].reported
<1>1. CASE TimerFires(r) \/ GotPools(r) \/ MailReady(r) \/ FancySent(r) \/ PlainSent(r)
  BY <1>1, RunGoesOn
<1>2. CASE \E u \in System : SystemUp(r, u) \/ SystemDown(r, u)
  BY <1>2, RunAsks
<1>3. CASE Aborted(r) \/ MailFails(r) \/ Save(r) \/ Saved(r) \/ SaveFails(r)
  BY <1>3, RunEnds
<1> QED
  BY <1>1, <1>2, <1>3 DEF RunStep

LEMMA RunKeepsSeenIsCovered ==
  ASSUME TypeOK, TypeOK', InOrder, NEW r \in Run, Run = {r}, TimerFires(r) \/ RunStep(r)
  PROVE  SeenIsCovered'
<1>1. ASSUME NEW e \in Event, Covers(lastChecked, e)
      PROVE  Covers(lastChecked', e)
  <2>1. lastChecked[e[1]] <= lastChecked'[e[1]] /\ lastChecked'[e[1]] <= dataTo[e[1]]
    BY <1>1, ProgressGrows DEF Event
  <2>2. lastChecked[e[1]] \in 0 .. MaxTime /\ dataTo[e[1]] \in 0 .. MaxTime
    BY DEF Event, TypeOK, Progress
  <2>3. lastChecked'[e[1]] \in 0 .. MaxTime
    BY DEF Event, TypeOK, Progress
  <2> QED
    BY <1>1, <2>1, <2>2, <2>3, NotificationAssumption DEF Covers, Event, Time
<1>2. ASSUME NEW e \in run'[r].reported
      PROVE  Covers(lastChecked', e)
  <2>1. CASE e \in run[r].reported
    BY <1>1, <2>1 DEF InOrder, SeenIsCovered, TypeOK
  <2>2. CASE e \notin run[r].reported
    BY <1>2, <2>2, HeldByAnswers, AnswerIsNew
  <2> QED
    BY <2>1, <2>2
<1>3. ASSUME NEW e \in sent'
      PROVE  Covers(lastChecked', e)
  <2>1. e \in Event /\ Covers(lastChecked, e)
    <3>1. CASE FancySent(r)
      BY <1>3, <3>1 DEF FancySent, InOrder, SeenIsCovered, TypeOK
    <3>2. CASE ~FancySent(r)
      BY <1>3, <3>2, RunLeavesAlone DEF InOrder, SeenIsCovered, TypeOK
    <3> QED
      BY <3>1, <3>2
  <2> QED
    BY <1>1, <2>1
<1> QED
  BY <1>2, <1>3 DEF SeenIsCovered

LEMMA RunKeepsHeldIsNew ==
  ASSUME TypeOK, HoldsNothing, InOrder, NEW r \in Run, Run = {r},
         TimerFires(r) \/ RunStep(r)
  PROVE  HeldIsNew'
<1> SUFFICES ASSUME run'[r].at \in {"status", "events", "fancy"},
                    NEW e \in run'[r].reported
             PROVE  e \notin sent' /\ (file' # Torn => ~Covers(file', e))
  BY DEF HeldIsNew
<1>1. file' = file /\ sent' = sent
  <2>1. ~(Save(r) \/ Saved(r) \/ FancySent(r))
    BY RunGoesOn, RunEnds
  <2> QED
    BY <2>1, RunLeavesAlone
<1>2. CASE e \in run[r].reported
  <2>1. run[r].at \in {"status", "events", "fancy"}
    <3>1. CASE TimerFires(r) \/ PlainSent(r) \/ FancySent(r)
      BY <3>1, RunGoesOn
    <3>2. CASE Aborted(r) \/ MailFails(r) \/ Save(r) \/ Saved(r) \/ SaveFails(r)
      BY <3>2, RunEnds
    <3>3. CASE GotPools(r)
      BY <1>2, <3>3 DEF GotPools, HoldsNothing
    <3>4. CASE MailReady(r)
      BY <3>4 DEF MailReady, AllAsked
    <3>5. CASE \E s \in System : SystemUp(r, s) \/ SystemDown(r, s) \/ GotEvents(r, s)
      BY <3>5 DEF SystemUp, SystemDown, GotEvents
    <3> QED
      BY <3>1, <3>2, <3>3, <3>4, <3>5 DEF RunStep
  <2> QED
    BY <1>1, <1>2, <2>1 DEF InOrder, HeldIsNew
<1>3. CASE e \notin run[r].reported
  <2>1. e \in Event /\ ~Covers(lastChecked, e)
    BY <1>3, HeldByAnswers, AnswerIsNew
  <2>2. file # Torn => ~Covers(file, e)
    <3>1. e[1] \in System /\ e[3] \in Int
      BY <2>1, NotificationAssumption DEF Event, Time
    <3>2. lastChecked[e[1]] \in Int /\ (file # Torn => file[e[1]] \in Int)
      BY <3>1, NotificationAssumption DEF TypeOK, Progress
    <3>3. file # Torn => file[e[1]] <= lastChecked[e[1]]
      BY <3>1 DEF InOrder, ProgressInOrder
    <3> QED
      BY <2>1, <3>1, <3>2, <3>3 DEF Covers
  <2> QED
    BY <1>1, <2>1, <2>2 DEF InOrder, SeenIsCovered
<1> QED
  BY <1>2, <1>3

LEMMA RunKeepsSavedAccounted ==
  ASSUME TypeOK, Accounts, SavedAccounted, NEW r \in Run, Run = {r},
         TimerFires(r) \/ RunStep(r)
  PROVE  SavedAccounted'
<1> SUFFICES ASSUME NEW e \in Event,
                    \/ file' # Torn /\ Covers(file', e)
                    \/ Covers(run'[r].saving, e)
             PROVE  e \in everSent \/ GivenUp(e)
  BY HistoryGrows DEF SavedAccounted, Covers, GivenUp
<1>1. CASE (file # Torn /\ Covers(file, e)) \/ Covers(run[r].saving, e)
  BY <1>1 DEF SavedAccounted
<1>2. CASE Save(r) /\ Covers(lastChecked, e)
  <2>1. run[r].reported \subseteq everSent
    BY <1>2 DEF Save, NothingToReport, Accounts, MailedBeforeSaved
  <2>2. Accounted(e)
    BY <1>2 DEF Accounts, ProgressAccounted, Accounted
  <2> QED
    BY <2>1, <2>2 DEF Accounted, Gathered
<1>3. ~Covers(Nothing, e)
  BY DEF Covers, Nothing, Event, Time
<1>4. CASE Save(r)
  <2>1. file' \in {Torn, file} /\ run'[r].saving = lastChecked
    BY <1>4, RunEnds DEF Save
  <2> QED
    BY <1>1, <1>2, <1>4, <2>1
<1>5. CASE Saved(r)
  <2>1. file' = run[r].saving /\ run'[r].saving = Nothing
    BY <1>5, RunEnds DEF Saved
  <2> QED
    BY <1>1, <1>3, <2>1
<1>6. CASE ~(Save(r) \/ Saved(r))
  <2>1. file' = file
    BY <1>6, RunLeavesAlone
  <2>2. run'[r].saving \in {run[r].saving, Nothing}
    <3>1. CASE TimerFires(r) \/ GotPools(r) \/ MailReady(r) \/ FancySent(r) \/ PlainSent(r)
      BY <3>1, RunGoesOn
    <3>2. CASE \E u \in System : SystemUp(r, u) \/ SystemDown(r, u) \/ GotEvents(r, u)
      BY <3>2, RunAsks
    <3>3. CASE Aborted(r) \/ MailFails(r) \/ SaveFails(r)
      BY <3>3, RunEnds
    <3> QED
      BY <1>6, <3>1, <3>2, <3>3 DEF RunStep
  <2> QED
    BY <1>1, <1>3, <2>1, <2>2
<1> QED
  BY <1>4, <1>5, <1>6

\* The inductive invariant of the process: its books are in order, and so is what
\* it has saved.
Kept == Accounts /\ InOrder /\ SavedAccounted /\ MailedOnce

LEMMA RunKeeps ==
  ASSUME TypeOK, TypeOK', Kept, NEW r \in Run, Run = {r}, TimerFires(r) \/ RunStep(r)
  PROVE  Kept'
<1>1. MailedOnce'
  <2>1. CASE FancySent(r)
    <3>1. sent \cap run[r].reported = {}
      BY <2>1 DEF FancySent, Kept, InOrder, HeldIsNew
    <3> QED
      BY <2>1, <3>1 DEF FancySent, Kept, MailedOnce
  <2>2. CASE ~FancySent(r)
    BY <2>2, RunLeavesAlone DEF Kept, MailedOnce
  <2> QED
    BY <2>1, <2>2
<1>2. InOrder'
  <2>1. ProgressInOrder' /\ RunInOrder'
    BY RunKeepsProgressInOrder, RunKeepsRunInOrder DEF Kept
  <2>2. SeenIsCovered' /\ HeldIsNew'
    BY RunKeepsSeenIsCovered, RunKeepsHeldIsNew DEF Kept, Accounts
  <2> QED
    BY <2>1, <2>2 DEF InOrder
<1> QED
  BY <1>1, <1>2, RunKeepsAccounts, RunKeepsSavedAccounted DEF Kept

\* A restart goes back to what was saved, which passes over no event that was
\* only held by the process that died.
LEMMA CrashKeeps ==
  ASSUME TypeOK, Kept, CrashAndRestart
  PROVE  Kept'
<1>1. \A r \in Run : /\ run'[r].at \in {"idle", "pools"}
                     /\ run'[r].reported = {} /\ run'[r].saving = Nothing
  BY NewRunType DEF CrashAndRestart, Runs, Phases
<1>2. /\ UNCHANGED <<now, dataTo, active, absent, everSent, lost, unplaced>>
      /\ sent' = {} /\ repeated' = {}
      /\ lastChecked' = file' /\ lastChecked' \in {Nothing, file}
      /\ file = Torn => lastChecked' = Nothing
  BY DEF CrashAndRestart, env, groups
<1>3. \A e \in Event : ~Covers(Nothing, e)
  BY DEF Covers, Nothing, Event, Time
<1>4. ASSUME NEW e \in Event, Covers(lastChecked', e)
      PROVE  e \in everSent \/ GivenUp(e)
  <2>1. file # Torn /\ Covers(file, e)
    BY <1>2, <1>3, <1>4
  <2> QED
    BY <2>1 DEF Kept, SavedAccounted
<1>5. Accounts'
  <2>1. ProgressAccounted'
    BY <1>2, <1>4 DEF ProgressAccounted, Covers, GivenUp
  <2>2. MapKnown'
    BY <1>1, <1>2 DEF Kept, Accounts, MapKnown
  <2> QED
    BY <1>1, <2>1, <2>2 DEF Accounts, RangeAccounted, HoldsNothing, MailedBeforeSaved
<1>6. SavedAccounted'
  BY <1>1, <1>2, <1>3, <1>4 DEF SavedAccounted, Covers, GivenUp
<1>7. ProgressInOrder'
  <2> SUFFICES ASSUME NEW s \in System
               PROVE  /\ lastChecked'[s] <= dataTo[s]
                      /\ dataTo[s] <= now
                      /\ file'[s] <= lastChecked'[s]
                      /\ \A r \in Run : run'[r].saving[s] <= lastChecked'[s]
    BY <1>2 DEF ProgressInOrder
  <2>1. dataTo[s] \in 0 .. MaxTime /\ lastChecked[s] \in 0 .. MaxTime
        /\ (file # Torn => file[s] \in 0 .. MaxTime)
    BY DEF TypeOK, Progress
  <2>2. /\ lastChecked[s] <= dataTo[s] /\ dataTo[s] <= now
        /\ file # Torn => file[s] <= lastChecked[s]
    BY DEF Kept, InOrder, ProgressInOrder
  <2>3. Nothing[s] = 0
    BY DEF Nothing
  <2> QED
    BY <1>1, <1>2, <2>1, <2>2, <2>3, NotificationAssumption
<1>8. RunInOrder' /\ SeenIsCovered' /\ HeldIsNew'
  BY <1>1, <1>2 DEF RunInOrder, SeenIsCovered, HeldIsNew
<1> QED
  BY <1>2, <1>5, <1>6, <1>7, <1>8 DEF Kept, InOrder, MailedOnce

\* Time and new data change nothing that is kept.
LEMMA WorldKeeps ==
  ASSUME TypeOK, Kept,
         \/ UNCHANGED vars \/ Updated \/ Elapse \/ Tick
         \/ \E s \in System : NewData(s)
         \/ \E g \in Group : GroupChanges(g)
  PROVE  Kept'
<1>1. UNCHANGED <<lastChecked, file, run, sent, repeated, everSent, lost, unplaced>>
  BY DEF vars, env, history, Updated, Elapse, Tick, NewData, GroupChanges
<1>2. Accounts' /\ SavedAccounted' /\ MailedOnce'
  <2>1. Accounts' /\ MailedOnce'
    BY <1>1, OthersKeepAccounts DEF Kept, MailedOnce
  <2>2. absent \subseteq absent'
    BY DEF vars, env, groups, Updated, Elapse, Tick, NewData, GroupChanges
  <2>3. SavedAccounted'
    BY <1>1, <2>2 DEF Kept, SavedAccounted, Covers, GivenUp
  <2> QED
    BY <2>1, <2>3
<1>3. SeenIsCovered' /\ HeldIsNew'
  BY <1>1 DEF Kept, InOrder, SeenIsCovered, HeldIsNew, Covers
<1>4. now <= now' /\ now' \in Int
  BY NotificationAssumption DEF vars, env, Updated, Elapse, Tick, NewData, GroupChanges,
                                TypeOK
<1>5. ASSUME NEW s \in System
      PROVE  dataTo[s] <= dataTo'[s] /\ dataTo'[s] <= now' /\ dataTo'[s] \in Int
  <2>1. dataTo[s] \in Int /\ dataTo[s] <= now /\ now \in Int
    BY NotificationAssumption DEF TypeOK, Progress, Kept, InOrder, ProgressInOrder
  <2> QED
    BY <2>1, <1>4 DEF vars, env, Updated, Elapse, Tick, NewData, GroupChanges,
                                TypeOK, Progress
<1>6. ProgressInOrder'
  <2> SUFFICES ASSUME NEW s \in System
               PROVE  lastChecked[s] <= dataTo'[s] /\ dataTo'[s] <= now'
    BY <1>1 DEF Kept, InOrder, ProgressInOrder
  <2>1. lastChecked[s] \in Int /\ dataTo[s] \in Int /\ lastChecked[s] <= dataTo[s]
    BY NotificationAssumption DEF TypeOK, Progress, Kept, InOrder, ProgressInOrder
  <2> QED
    BY <2>1, <1>5
<1>7. RunInOrder'
  <2> SUFFICES ASSUME NEW r \in Run, run[r].at \in {"status", "events"}
               PROVE  run[r].now <= now'
    BY <1>1 DEF Kept, InOrder, RunInOrder
  <2>1. run[r].now \in Int /\ run[r].now <= now /\ now \in Int
    BY NotificationAssumption DEF TypeOK, Kept, InOrder, RunInOrder
  <2> QED
    BY <2>1, <1>4
<1> QED
  BY <1>2, <1>3, <1>6, <1>7 DEF Kept, InOrder

LEMMA InitKept == Init => Kept
<1> SUFFICES ASSUME Init PROVE Kept
  OBVIOUS
<1>1. \A r \in Run : /\ run[r].at \in {"idle", "pools"}
                     /\ run[r].reported = {} /\ run[r].saving = Nothing
  BY NewRunType DEF Init, Runs, Phases
<1>2. SavedAccounted /\ MailedOnce
  BY <1>1 DEF Init, SavedAccounted, MailedOnce, Covers, Nothing, Event, Time
<1>3. ProgressInOrder
  BY <1>1 DEF Init, ProgressInOrder, Nothing
<1>4. RunInOrder /\ SeenIsCovered /\ HeldIsNew
  BY <1>1 DEF Init, RunInOrder, SeenIsCovered, HeldIsNew
<1> QED
  BY <1>2, <1>3, <1>4, InitAccounts DEF Kept, InOrder

\* The invariant of a process that may die at any time, as long as no run of
\* parityGroupAlert is started before the one before has ended.
LEMMA KeptAlways ==
  ASSUME Run = {FirstRun}
  PROVE  Spec => [](TypeOK /\ Kept)
<1>1. TypeOK /\ TypeOK' /\ Kept /\ [Next]_vars => Kept'
  <2> SUFFICES ASSUME TypeOK, TypeOK', Kept, [Next]_vars PROVE Kept'
    OBVIOUS
  <2>1. \A r \in Run : Run = {r}
    OBVIOUS
  <2> QED
    BY <2>1, RunKeeps, CrashKeeps, WorldKeeps DEF Next
<1> QED
  BY <1>1, InitKept, TypeCorrect, PTL DEF Spec

\* When runs do not overlap, the progress passes over no event that is not mailed,
\* held or given up, also after a crash and a restart from the file.
THEOREM SingleRunsAccount ==
  ASSUME Run = {FirstRun}
  PROVE  Spec => []ProgressAccounted
<1>1. Kept => ProgressAccounted
  BY DEF Kept, Accounts
<1> QED
  BY <1>1, KeptAlways, PTL

\* When runs do not overlap, what is saved or being saved passes over no event
\* that is only held in memory: no crash loses one.
THEOREM SavedIsAccounted ==
  ASSUME Run = {FirstRun}
  PROVE  Spec => []SavedAccounted
<1>1. Kept => SavedAccounted
  BY DEF Kept
<1> QED
  BY <1>1, KeptAlways, PTL

\* When runs do not overlap, a process mails no event twice, whatever requests
\* and mails fail.
THEOREM NothingMailedTwice ==
  ASSUME Run = {FirstRun}
  PROVE  Spec => []MailedOnce
<1>1. Kept => MailedOnce
  BY DEF Kept
<1> QED
  BY <1>1, KeptAlways, PTL

\* When runs do not overlap, an event that the file covers is not mailed again,
\* by this process or a later one.
THEOREM SavedIsNotRepeated ==
  ASSUME Run = {FirstRun}
  PROVE  Spec => NoRepeatOfSaved
<1>1. Kept /\ [Next]_vars =>
        [\A e \in Event : file # Torn /\ Covers(file, e) /\ e \in everSent
           => \A r \in Run : FancySent(r) => e \notin run[r].reported]_vars
  BY DEF Kept, InOrder, HeldIsNew, FancySent
<1> QED
  BY <1>1, KeptAlways, PTL DEF Spec, NoRepeatOfSaved
=============================================================================
