---------------------------- MODULE Notification ----------------------------
(***************************************************************************)
(* NotificationService: parityGroupAlert asks each maintainer for the      *)
(* parity group events since the last check, mails them, and writes the    *)
(* progress to the file last_notify.  Runs are started once at startup and *)
(* then by a debounced timer; a run that takes longer than the debounce    *)
(* overlaps the next one.                                                  *)
(*                                                                         *)
(* An event is a triple <<system, key, time>>: the parity group <<system,  *)
(* key>> was too busy at that time.  Every group has one at every time,    *)
(* which the maintainer reports once it has data up to that time.          *)
(*                                                                         *)
(* The mail settings are given: without them a run returns at once.        *)
(***************************************************************************)
EXTENDS Integers, FiniteSets, FiniteSetsExt

CONSTANTS System,      \* systems of type hp
          Key,         \* names of parity groups, the same in every system
          Run,         \* bound: concurrent runs of parityGroupAlert
          FirstRun,    \* the run made when the maintainers are loaded
          Window,      \* how far a run looks back (two days)
          PlainTo,     \* getSmtpPlainTo() is set
          MaxTime,     \* bound: last time
          MaxFailures, \* bound: failed requests and mails
          MaxCrashes,  \* bound: deaths of the process
          MaxChanges,  \* bound: parity groups that become active or inactive
          Torn         \* contents of a file whose writing was cut short

Time == 1 .. MaxTime
Group == System \X Key
Event == System \X Key \X Time
GroupOf(e) == <<e[1], e[2]>>

ASSUME NotificationAssumption == /\ FirstRun \in Run
                                 /\ Window \in Nat \ {0}
                                 /\ PlainTo \in BOOLEAN
                                 /\ MaxTime \in Nat
                                 /\ MaxFailures \in Nat
                                 /\ MaxCrashes \in Nat
                                 /\ MaxChanges \in Nat

VARIABLES
    subscribed,  \* the handler of 'updated' is registered
    timer,       \* the debounce timer: off, set, or due (its 30 s are over)
    lastChecked, \* progress of each system, in memory
    file,        \* last_notify: a saved lastChecked, or Torn
    run,         \* the runs and their local variables
    now,         \* environment: the time
    dataTo,      \* environment: the maintainer has data up to this time
    active,      \* environment: the parity groups that the map's query returns
    failures, crashes, changes,
    sent,        \* history: events mailed since the process started
    repeated,    \* history: events mailed twice since the process started
    everSent,    \* history: events mailed
    lost,        \* history: events a failed run gave up, or out of the window
    unplaced,    \* history: events dropped for want of a pool
    absent       \* history: the parity groups that have been inactive

groups == <<active, changes, absent>>
env == <<now, dataTo, groups>>
history == <<sent, repeated, everSent, lost, unplaced>>
vars == <<subscribed, timer, lastChecked, file, run, env, failures, crashes, history>>

Nothing == [s \in System |-> 0]

\* A run: its time, the groups whose pool it knows, the systems it has not
\* asked, the request under way, the events it has gathered and the progress it
\* is saving.
NewRun(at) == [at |-> at, now |-> 0, poolMap |-> {}, todo |-> {}, asking |-> {},
               from |-> 0, reported |-> {}, saving |-> Nothing]

Runs(first) == [r \in Run |-> IF r = FirstRun THEN NewRun(first) ELSE NewRun("idle")]

Init == /\ subscribed = FALSE
        /\ timer = "off"
        /\ lastChecked = Nothing
        /\ file = Nothing
        /\ run = Runs("pools")
        /\ now = 0
        /\ dataTo = Nothing
        /\ active \in SUBSET Group
        /\ failures = 0
        /\ crashes = 0
        /\ changes = 0
        /\ sent = {}
        /\ repeated = {}
        /\ everSent = {}
        /\ lost = {}
        /\ unplaced = {}
        /\ absent = Group \ active

Failure == /\ failures < MaxFailures
           /\ failures' = failures + 1

Goto(r, phase) == run' = [run EXCEPT ![r].at = phase]

\* Mutation: the rejection of the first run is not caught.
EndUncaught(r) == /\ run' = [run EXCEPT ![r] = NewRun("idle")]
                  /\ UNCHANGED subscribed

\* The promise of a run settles; that of the first run opens the subscription.
End(r) == /\ run' = [run EXCEPT ![r] = NewRun("idle")]
          /\ subscribed' = TRUE

-----------------------------------------------------------------------------
(* The debounced start.                                                    *)

\* on('updated'): the 30 s timer is cleared and set again, at each event: one
\* that is due when it is cleared does not fire.
Updated == /\ subscribed
           /\ timer' = "set"
           /\ UNCHANGED <<subscribed, lastChecked, file, run, env, failures, crashes,
                          history>>

\* No event comes for 30 s.
Elapse == /\ timer = "set"
          /\ timer' = "due"
          /\ UNCHANGED <<subscribed, lastChecked, file, run, env, failures, crashes,
                         history>>

TimerFires(r) == /\ timer = "due"
                 /\ run[r].at = "idle"
                 /\ timer' = "off"
                 /\ Goto(r, "pools")
                 /\ UNCHANGED <<subscribed, lastChecked, file, env, failures, crashes,
                                history>>

-----------------------------------------------------------------------------
(* One run of parityGroupAlert, from one await to the next.                *)

\* Mutation: the map has one group of a system only.
GotPoolsOfOne(r) == /\ run[r].at = "pools"
                    /\ \E g \in active :
                          run' = [run EXCEPT
                                    ![r].now = now,
                                    ![r].poolMap = {h \in active : h[1] = g[1] => h = g},
                                    ![r].todo = System, ![r].at = "status"]
                    /\ UNCHANGED <<subscribed, timer, lastChecked, file, env, failures,
                                   crashes, history>>

\* getPoolMap answers with the pools of the active groups; the time is taken,
\* then the systems are asked in turn.
GotPools(r) == /\ run[r].at = "pools"
               /\ run' = [run EXCEPT ![r].now = now, ![r].poolMap = active,
                                     ![r].todo = System, ![r].at = "status"]
               /\ UNCHANGED <<subscribed, timer, lastChecked, file, env, failures,
                              crashes, history>>

\* The events of a system after one time, up to another.
EventsOf(s, after, upTo) == {e \in Event : e[1] = s /\ after < e[3] /\ e[3] <= upTo}

\* The system is up.  The start of the range is computed now, before the
\* request that it is part of; another run may move lastChecked meanwhile.
SystemUp(r, s) ==
    /\ run[r].at = "status"
    /\ s \in run[r].todo
    /\ run' = [run EXCEPT ![r].from = Max({run[r].now - Window, lastChecked[s]}),
                          ![r].asking = {s}, ![r].at = "events"]
    /\ lost' = lost \cup EventsOf(s, lastChecked[s], run[r].now - Window)
    /\ UNCHANGED <<subscribed, timer, lastChecked, file, env, failures, crashes,
                   sent, repeated, everSent, unplaced>>

\* The system is skipped, as its maintainer is not available.
SystemDown(r, s) == /\ run[r].at = "status"
                    /\ s \in run[r].todo
                    /\ Failure
                    /\ run' = [run EXCEPT ![r].todo = @ \ {s}]
                    /\ UNCHANGED <<subscribed, timer, lastChecked, file, env, crashes,
                                   history>>

\* The events of an answer that have a pool are gathered; the others are dropped.
Placed(r, events) == {e \in events : GroupOf(e) \in run[r].poolMap}

\* Mutation: the time of the run is recorded as the progress.
GotEventsUpToNow(r, s) ==
    LET upTo == Min({run[r].now, dataTo[s]})
        events == EventsOf(s, run[r].from, upTo)
    IN /\ run[r].at = "events" /\ s \in run[r].asking
       /\ lastChecked' = [lastChecked EXCEPT ![s] = run[r].now]
       /\ run' = [run EXCEPT ![r].reported = @ \cup Placed(r, events),
                             ![r].todo = @ \ {s},
                             ![r].asking = {}, ![r].from = 0,
                             ![r].at = "status"]
       /\ unplaced' = unplaced \cup (events \ Placed(r, events))
       /\ UNCHANGED <<subscribed, timer, file, env, failures, crashes, sent, repeated,
                      everSent, lost>>

\* Mutation: the progress is not recorded.
GotEventsUnrecorded(r, s) ==
    LET upTo == Min({run[r].now, dataTo[s]})
        events == EventsOf(s, run[r].from, upTo)
    IN /\ run[r].at = "events" /\ s \in run[r].asking
       /\ run' = [run EXCEPT ![r].reported = @ \cup Placed(r, events),
                             ![r].todo = @ \ {s},
                             ![r].asking = {}, ![r].from = 0,
                             ![r].at = "status"]
       /\ unplaced' = unplaced \cup (events \ Placed(r, events))
       /\ UNCHANGED <<subscribed, timer, lastChecked, file, env, failures, crashes,
                      sent, repeated, everSent, lost>>

\* The maintainer looked through its data up to the time asked for, as far as
\* it has any.  The progress is recorded before anything is mailed, and also for
\* the events whose group was not in the map when the run began.
GotEvents(r, s) ==
    LET upTo == Min({run[r].now, dataTo[s]})
        events == EventsOf(s, run[r].from, upTo)
    IN /\ run[r].at = "events" /\ s \in run[r].asking
       /\ lastChecked' = [lastChecked EXCEPT ![s] = upTo]
       /\ run' = [run EXCEPT ![r].reported = @ \cup Placed(r, events),
                             ![r].todo = @ \ {s},
                             ![r].asking = {}, ![r].from = 0,
                             ![r].at = "status"]
       /\ unplaced' = unplaced \cup (events \ Placed(r, events))
       /\ UNCHANGED <<subscribed, timer, file, env, failures, crashes, sent, repeated,
                      everSent, lost>>

\* getPoolMap or getPGEvents throws: the run ends, and so does what it gathered
\* from the systems before.
Aborted(r) == /\ run[r].at \in {"pools", "events"}
              /\ Failure
              /\ lost' = lost \cup run[r].reported
              /\ End(r)
              /\ UNCHANGED <<timer, lastChecked, file, env, crashes, sent, repeated,
                             everSent, unplaced>>

AllAsked(r) == run[r].at = "status" /\ run[r].todo = {}

\* Nothing to report: the run goes on to save its progress.
NothingToReport(r) == AllAsked(r) /\ run[r].reported = {}

\* Mutation: the progress is saved before the mail is sent.
MailReadySaved(r) == /\ AllAsked(r)
                     /\ run[r].reported # {}
                     /\ Goto(r, "fancy")
                     /\ file' = lastChecked
                     /\ UNCHANGED <<subscribed, timer, lastChecked, env, failures,
                                    crashes, history>>

MailReady(r) == /\ AllAsked(r)
                /\ run[r].reported # {}
                /\ Goto(r, "fancy")
                /\ UNCHANGED <<subscribed, timer, lastChecked, file, env, failures,
                               crashes, history>>

\* The HTML mail is accepted.
FancySent(r) == /\ run[r].at = "fancy"
                /\ sent' = sent \cup run[r].reported
                /\ repeated' = repeated \cup (sent \cap run[r].reported)
                /\ everSent' = everSent \cup run[r].reported
                /\ Goto(r, IF PlainTo THEN "plain" ELSE "save")
                /\ UNCHANGED <<subscribed, timer, lastChecked, file, env, failures,
                               crashes, lost, unplaced>>

PlainSent(r) == /\ run[r].at = "plain"
                /\ Goto(r, "save")
                /\ UNCHANGED <<subscribed, timer, lastChecked, file, env, failures,
                               crashes, history>>

\* A mail is refused: the run ends without saving its progress.
MailFails(r) == /\ run[r].at \in {"fancy", "plain"}
                /\ Failure
                /\ lost' = lost \cup (run[r].reported \ everSent)
                /\ End(r)
                /\ UNCHANGED <<timer, lastChecked, file, env, crashes, sent, repeated,
                               everSent, unplaced>>

\* writeFile, which nobody waits for, of the progress of all systems, that of
\* other runs included.  It truncates the file, unless it cannot even open it.
Save(r) == /\ run[r].at = "save" \/ NothingToReport(r)
           /\ file' \in {Torn, file}
           /\ run' = [run EXCEPT ![r] = [NewRun("saving") EXCEPT !.saving = lastChecked]]
           /\ subscribed' = TRUE
           /\ UNCHANGED <<timer, lastChecked, env, failures, crashes, history>>

Saved(r) == /\ run[r].at = "saving"
            /\ file' = run[r].saving
            /\ run' = [run EXCEPT ![r] = NewRun("idle")]
            /\ UNCHANGED <<subscribed, timer, lastChecked, env, failures, crashes,
                           history>>

\* The write fails: an error is logged, and the file stays as it is.
SaveFails(r) == /\ run[r].at = "saving"
                /\ Failure
                /\ run' = [run EXCEPT ![r] = NewRun("idle")]
                /\ UNCHANGED <<subscribed, timer, lastChecked, file, env, crashes, history>>

-----------------------------------------------------------------------------
(* The environment.                                                        *)

\* Mutation: the progress is not read from the file.
RestartWithoutFile == /\ crashes < MaxCrashes
                      /\ crashes' = crashes + 1
                      /\ lastChecked' = Nothing
                      /\ file' = IF file = Torn THEN Nothing ELSE file
                      /\ subscribed' = FALSE
                      /\ timer' = "off"
                      /\ run' = Runs("pools")
                      /\ sent' = {}
                      /\ repeated' = {}
                      /\ UNCHANGED <<env, failures, everSent, lost, unplaced>>

\* The process dies and is started again: the progress is read from the file,
\* which is removed when it does not parse.
CrashAndRestart == /\ crashes < MaxCrashes
                   /\ crashes' = crashes + 1
                   /\ lastChecked' = IF file = Torn THEN Nothing ELSE file
                   /\ file' = IF file = Torn THEN Nothing ELSE file
                   /\ subscribed' = FALSE
                   /\ timer' = "off"
                   /\ run' = Runs("pools")
                   /\ sent' = {}
                   /\ repeated' = {}
                   /\ UNCHANGED <<env, failures, everSent, lost, unplaced>>

Tick == /\ now < MaxTime
        /\ now' = now + 1
        /\ UNCHANGED <<subscribed, timer, lastChecked, file, run, dataTo, groups,
                       failures, crashes, history>>

NewData(s) == /\ dataTo[s] < now
              /\ dataTo' = [dataTo EXCEPT ![s] = now]
              /\ UNCHANGED <<subscribed, timer, lastChecked, file, run, now, groups,
                             failures, crashes, history>>

\* The importer makes a parity group active or inactive.
GroupChanges(g) == /\ changes < MaxChanges
                   /\ changes' = changes + 1
                   /\ active' = IF g \in active THEN active \ {g} ELSE active \cup {g}
                   /\ absent' = absent \cup (Group \ active')
                   /\ UNCHANGED <<subscribed, timer, lastChecked, file, run, now, dataTo,
                                  failures, crashes, history>>

RunStep(r) == \/ GotPools(r)
              \/ \E s \in System : SystemUp(r, s) \/ SystemDown(r, s) \/ GotEvents(r, s)
              \/ Aborted(r)
              \/ MailReady(r)
              \/ FancySent(r)
              \/ PlainSent(r)
              \/ MailFails(r)
              \/ Save(r)
              \/ Saved(r)
              \/ SaveFails(r)

Next == \/ Updated
        \/ Elapse
        \/ \E r \in Run : TimerFires(r) \/ RunStep(r)
        \/ CrashAndRestart
        \/ Tick
        \/ \E s \in System : NewData(s)
        \/ \E g \in Group : GroupChanges(g)

Spec == Init /\ [][Next]_vars

\* Requests are answered and mails accepted or refused in the end; 30 s pass; the
\* maintainers get new data and announce it.  That the timer fires is not assumed:
\* announcements that follow each other within 30 s put it off for ever.
Fairness == /\ \A r \in Run : WF_vars(RunStep(r))
            /\ WF_vars(Updated)
            /\ WF_vars(Elapse)
            /\ WF_vars(Tick)
            /\ \A s \in System : WF_vars(NewData(s))

FairSpec == Spec /\ Fairness

-----------------------------------------------------------------------------
(* Properties.                                                             *)

Phases == {"idle", "pools", "status", "events", "fancy", "plain", "save", "saving"}
Progress == [System -> 0 .. MaxTime]

TypeOK == /\ subscribed \in BOOLEAN
          /\ timer \in {"off", "set", "due"}
          /\ lastChecked \in Progress
          /\ file \in Progress \cup {Torn}
          /\ run \in [Run -> [at : Phases, now : 0 .. MaxTime, poolMap : SUBSET Group,
                              todo : SUBSET System, asking : SUBSET System,
                              from : 0 .. MaxTime, reported : SUBSET Event,
                              saving : Progress]]
          /\ now \in 0 .. MaxTime
          /\ dataTo \in Progress
          /\ failures \in 0 .. MaxFailures
          /\ crashes \in 0 .. MaxCrashes
          /\ changes \in 0 .. MaxChanges
          /\ {active, absent} \subseteq SUBSET Group
          /\ {sent, repeated, everSent, lost, unplaced} \subseteq SUBSET Event

Covers(progress, e) == e[3] <= progress[e[1]]

Gathered(e) == \E r \in Run : e \in run[r].reported

\* An event that nobody is going to mail for a known reason: a run failed or the
\* window closed, or no pool was found as the parity group was inactive at some time.
GivenUp(e) == e \in lost \/ (e \in unplaced /\ GroupOf(e) \in absent)

\* The progress of the process never passes over an event of a group that has
\* been active all the time: each event before lastChecked has been mailed, is held
\* by a run that is going to mail it, was given up by a run that failed or out of
\* the window, or was dropped as its group had no pool in a map read before.
ProgressAccounted ==
    \A e \in Event : Covers(lastChecked, e) => e \in everSent \/ GivenUp(e) \/ Gathered(e)

\* What is saved, or being saved, passes over no event that is only gathered:
\* no crash loses one.  This needs runs that do not overlap.
SavedAccounted ==
    \A e \in Event : \/ file # Torn /\ Covers(file, e)
                     \/ \E r \in Run : Covers(run[r].saving, e)
                     => e \in everSent \/ GivenUp(e)

\* As long as the process lives and runs do not overlap, no event is mailed
\* twice, whatever requests and mails fail.
MailedOnce == repeated = {}

\* A saved event is not mailed again by a later process: only an event that is
\* not covered by the file, or whose file was torn, can come a second time.
NoRepeatOfSaved ==
    [][\A e \in Event : file # Torn /\ Covers(file, e) /\ e \in everSent
          => \A r \in Run : FancySent(r) => e \notin run[r].reported]_vars

\* Every event is mailed in the end, unless it was given up, provided that the
\* announcements of the maintainers leave pauses of 30 s in which the timer fires.
EveryEventReported ==
    SF_vars(\E r \in Run : TimerFires(r)) => <>(\A e \in Event : e \in everSent \/ GivenUp(e))
=============================================================================
