------------------------ MODULE MaintainerConnection ------------------------
(***************************************************************************)
(* The connection of the backend to the maintainers of the storage         *)
(* systems: MaintainerService.updateMaintainerInfo, the websocket handlers *)
(* it registers, the retry timer and the debounced 'updated' timer, in one *)
(* backend process that may die of an uncaught error and be started again. *)
(*                                                                         *)
(* Several calls of updateMaintainerInfo can be in flight for one system   *)
(* (first load, websocket message, websocket close, retry).  Each is a     *)
(* slot of chain[s]; a call that fails becomes its own retry timer.        *)
(***************************************************************************)
EXTENDS Integers

CONSTANTS System,    \* the keys of maintainerMap
          Slot,      \* bound: concurrent update calls of one system
          FirstSlot, \* the slot of the call the constructor makes
          Socket,    \* bound: websockets of one system that still exist
          NoSocket   \* maintainerInfo has no entry for the system

ASSUME ConstantsAssumption == /\ FirstSlot \in Slot
                              /\ NoSocket \notin Socket

VARIABLES alive,    \* the backend process is running
          up,       \* environment: the maintainer of the system answers requests
          info,     \* maintainerInfo[s].ws, or NoSocket
          queued,   \* a 60 s timer of queueSystemUpdate is pending
          chain,    \* where each call of updateMaintainerInfo stands
          sock,     \* the websockets
          loading   \* systems whose first update has not settled

vars == <<alive, up, info, queued, chain, sock, loading>>

CallState == {"idle", "info", "datasets", "retry"}
SocketState == {"free", "connecting", "open", "lost", "closing"}

\* Listeners are attached from construction until 'close' or removeAllListeners.
Listening(s, k) == sock[s][k] \in {"connecting", "open", "lost"}

InFlight(s, i) == chain[s][i] \in {"info", "datasets"}

-----------------------------------------------------------------------------
Startup == /\ alive' = TRUE
           /\ info' = [s \in System |-> NoSocket]
           /\ queued' = [s \in System |-> FALSE]
           /\ chain' = [s \in System |-> [i \in Slot |->
                            IF i = FirstSlot THEN "info" ELSE "idle"]]
           /\ sock' = [s \in System |-> [k \in Socket |-> "free"]]
           /\ loading' = System

Init == /\ alive = TRUE
        /\ up \in [System -> BOOLEAN]
        /\ info = [s \in System |-> NoSocket]
        /\ queued = [s \in System |-> FALSE]
        /\ chain = [s \in System |-> [i \in Slot |->
                            IF i = FirstSlot THEN "info" ELSE "idle"]]
        /\ sock = [s \in System |-> [k \in Socket |-> "free"]]
        /\ loading = System

\* An uncaught exception ends the process; its memory is gone.
Crash == /\ alive' = FALSE
         /\ UNCHANGED <<up, info, queued, chain, sock, loading>>

-----------------------------------------------------------------------------
(* One call of updateMaintainerInfo.                                       *)

Goto(s, i, at) == chain' = [chain EXCEPT ![s][i] = at]

Settled(s, i) == loading' = IF i = FirstSlot THEN loading \ {s} ELSE loading

\* The first request is answered: the call goes on to request the datasets.
GotInfo(s, i) == /\ alive
                 /\ chain[s][i] = "info"
                 /\ up[s]
                 /\ Goto(s, i, "datasets")
                 /\ UNCHANGED <<alive, up, info, queued, sock, loading>>

\* Mutation: a websocket is made for every update.
GotDatasetsNewSocket(s, i) ==
    /\ alive
    /\ chain[s][i] = "datasets"
    /\ up[s]
    /\ \E k \in Socket : /\ sock[s][k] = "free"
                         /\ sock' = [sock EXCEPT ![s][k] = "connecting"]
                         /\ info' = [info EXCEPT ![s] = k]
    /\ queued' = [queued EXCEPT ![s] = TRUE]
    /\ Goto(s, i, "idle")
    /\ Settled(s, i)
    /\ UNCHANGED <<alive, up>>

\* The second answer, and all the code after it, which runs without a pause:
\* the websocket is made unless one is registered, and the timer restarts.
GotDatasets(s, i) ==
    /\ alive
    /\ chain[s][i] = "datasets"
    /\ up[s]
    /\ IF info[s] # NoSocket
       THEN UNCHANGED <<info, sock>>
       ELSE \E k \in Socket : /\ sock[s][k] = "free"
                              /\ sock' = [sock EXCEPT ![s][k] = "connecting"]
                              /\ info' = [info EXCEPT ![s] = k]
    /\ queued' = [queued EXCEPT ![s] = TRUE]
    /\ Goto(s, i, "idle")
    /\ Settled(s, i)
    /\ UNCHANGED <<alive, up>>

\* What the catch block does to the registered connection.
TearDown(s) == IF info[s] = NoSocket
               THEN UNCHANGED <<info, sock, queued>>
               ELSE /\ sock' = [sock EXCEPT ![s][info[s]] = "closing"]
                    /\ info' = [info EXCEPT ![s] = NoSocket]
                    /\ queued' = [queued EXCEPT ![s] = FALSE]

MayTearDown(s) == info[s] # NoSocket => sock[s][info[s]] # "connecting"

\* Mutation: the failed call sets no retry timer, in a state of its own or not.
RequestFailsStuck(s, i) == /\ alive
                           /\ InFlight(s, i)
                           /\ ~up[s]
                           /\ MayTearDown(s)
                           /\ TearDown(s)
                           /\ Goto(s, i, "failed")
                           /\ Settled(s, i)
                           /\ UNCHANGED <<alive, up>>

RequestFailsNoRetry(s, i) == /\ alive
                             /\ InFlight(s, i)
                             /\ ~up[s]
                             /\ MayTearDown(s)
                             /\ TearDown(s)
                             /\ Goto(s, i, "idle")
                             /\ Settled(s, i)
                             /\ UNCHANGED <<alive, up>>

\* Mutation: the call does not settle before a retry succeeds.
RequestFailsUnsettled(s, i) == /\ alive
                               /\ InFlight(s, i)
                               /\ ~up[s]
                               /\ MayTearDown(s)
                               /\ TearDown(s)
                               /\ Goto(s, i, "retry")
                               /\ UNCHANGED <<alive, up, loading>>

\* The catch block.  Whatever connection is registered now is torn down, also
\* one that another call made after this call had started.
RequestFails(s, i) ==
    /\ alive
    /\ InFlight(s, i)
    /\ ~up[s]
    /\ MayTearDown(s)
    /\ TearDown(s)
    /\ Goto(s, i, "retry")
    /\ Settled(s, i)
    /\ UNCHANGED <<alive, up>>

\* close() of a websocket that is still connecting emits 'error', which nobody
\* listens to.
RequestFailsConnecting(s, i) == /\ alive
                                /\ InFlight(s, i)
                                /\ ~up[s]
                                /\ info[s] # NoSocket
                                /\ sock[s][info[s]] = "connecting"
                                /\ Crash

RetryFires(s, i) == /\ alive
                    /\ chain[s][i] = "retry"
                    /\ Goto(s, i, "info")
                    /\ UNCHANGED <<alive, up, info, queued, sock, loading>>

-----------------------------------------------------------------------------
(* The websocket handlers.                                                 *)

SocketOpens(s, k) == /\ alive
                     /\ sock[s][k] = "connecting"
                     /\ up[s]
                     /\ sock' = [sock EXCEPT ![s][k] = "open"]
                     /\ UNCHANGED <<alive, up, info, queued, chain, loading>>

\* A refused handshake emits 'error', which nobody listens to.
SocketRefused(s, k) == /\ alive
                       /\ sock[s][k] = "connecting"
                       /\ ~up[s]
                       /\ Crash

\* on('message'): another update starts; those in flight go on.
SocketMessage(s, k, i) ==
    /\ alive
    /\ sock[s][k] = "open"
    /\ chain[s][i] = "idle"
    /\ Goto(s, i, "info")
    /\ UNCHANGED <<alive, up, info, queued, sock, loading>>

\* Mutation: the close handler starts no update.
SocketClosesQuietly(s, k, i) ==
    /\ alive
    /\ sock[s][k] = "lost"
    /\ sock' = [sock EXCEPT ![s][k] = "free"]
    /\ info' = [info EXCEPT ![s] = NoSocket]
    /\ UNCHANGED <<alive, up, queued, chain, loading>>

\* Mutation: the catch block leaves the close handler attached.
SocketClosesAny(s, k, i) ==
    /\ alive
    /\ sock[s][k] \in {"lost", "closing"}
    /\ chain[s][i] = "idle"
    /\ sock' = [sock EXCEPT ![s][k] = "free"]
    /\ info' = [info EXCEPT ![s] = NoSocket]
    /\ Goto(s, i, "info")
    /\ UNCHANGED <<alive, up, queued, loading>>

\* on('close'): the entry is deleted by its key, the 60 s timer is left alone.
SocketCloses(s, k, i) ==
    /\ alive
    /\ sock[s][k] = "lost"
    /\ chain[s][i] = "idle"
    /\ sock' = [sock EXCEPT ![s][k] = "free"]
    /\ info' = [info EXCEPT ![s] = NoSocket]
    /\ Goto(s, i, "info")
    /\ UNCHANGED <<alive, up, queued, loading>>

\* 'close' of a websocket whose listeners the catch block removed.
SocketClosesUnheard(s, k) == /\ alive
                             /\ sock[s][k] = "closing"
                             /\ sock' = [sock EXCEPT ![s][k] = "free"]
                             /\ UNCHANGED <<alive, up, info, queued, chain, loading>>

-----------------------------------------------------------------------------
(* The 60 s timer of queueSystemUpdate.                                    *)

\* The timer emits 'updated' with the features of the registered entry.
Announce(s) == /\ alive
               /\ queued[s]
               /\ info[s] # NoSocket
               /\ queued' = [queued EXCEPT ![s] = FALSE]
               /\ UNCHANGED <<alive, up, info, chain, sock, loading>>

\* The entry is gone: reading its features throws inside the timer.
AnnounceNothing(s) == /\ alive
                      /\ queued[s]
                      /\ info[s] = NoSocket
                      /\ Crash

-----------------------------------------------------------------------------
(* The environment.                                                        *)

\* Requests fail from now on; any of the open websockets may be lost with them.
GoesDown(s) ==
    /\ up[s]
    /\ up' = [up EXCEPT ![s] = FALSE]
    /\ \E broken \in SUBSET {k \in Socket : sock[s][k] = "open"} :
          sock' = [sock EXCEPT ![s] = [k \in Socket |->
                       IF k \in broken THEN "lost" ELSE sock[s][k]]]
    /\ UNCHANGED <<alive, info, queued, chain, loading>>

ComesUp(s) == /\ ~up[s]
              /\ up' = [up EXCEPT ![s] = TRUE]
              /\ UNCHANGED <<alive, info, queued, chain, sock, loading>>

\* The service manager starts the process again.
Restart == /\ ~alive
           /\ Startup
           /\ UNCHANGED up

CallStep(s, i) == \/ GotInfo(s, i)
                  \/ GotDatasets(s, i)
                  \/ RequestFails(s, i)
                  \/ RequestFailsConnecting(s, i)
                  \/ RetryFires(s, i)

SocketStep(s, k) == \/ SocketOpens(s, k)
                    \/ SocketRefused(s, k)
                    \/ SocketClosesUnheard(s, k)
                    \/ \E i \in Slot : SocketMessage(s, k, i) \/ SocketCloses(s, k, i)

Next == \/ \E s \in System :
              \/ \E i \in Slot : CallStep(s, i)
              \/ \E k \in Socket : SocketStep(s, k)
              \/ Announce(s)
              \/ AnnounceNothing(s)
              \/ GoesDown(s)
              \/ ComesUp(s)
        \/ Restart

Spec == Init /\ [][Next]_vars

\* A request is answered or refused in the end, a timer set fires in the end,
\* a handshake ends, a closing websocket closes, and the service manager
\* restarts the process.  Nothing is assumed of the maintainers' availability.
Fairness == /\ \A s \in System, i \in Slot : WF_vars(CallStep(s, i))
            /\ \A s \in System, k \in Socket :
                  WF_vars(SocketOpens(s, k) \/ SocketRefused(s, k)
                          \/ SocketClosesUnheard(s, k))
            /\ \A s \in System : WF_vars(Announce(s) \/ AnnounceNothing(s))
            /\ WF_vars(Restart)

FairSpec == Spec /\ Fairness

-----------------------------------------------------------------------------
(* Properties.                                                             *)

TypeOK == /\ alive \in BOOLEAN
          /\ up \in [System -> BOOLEAN]
          /\ info \in [System -> Socket \cup {NoSocket}]
          /\ queued \in [System -> BOOLEAN]
          /\ chain \in [System -> [Slot -> CallState]]
          /\ sock \in [System -> [Socket -> SocketState]]
          /\ loading \in SUBSET System

\* However update calls, failures and websocket events interleave, a websocket
\* with listeners is exactly the registered one: no websocket leaks with its
\* handlers attached, so no second 'close' handler ever deletes a newer entry,
\* and no entry refers to a websocket that is gone.
RegisteredIsListening ==
    \A s \in System, k \in Socket : info[s] = k <=> Listening(s, k)

\* No system is forgotten: at every moment it has a registered websocket (whose
\* 'close' starts an update), an update in flight or a retry timer.
NeverForgotten ==
    \A s \in System : info[s] = NoSocket => \E i \in Slot : chain[s][i] # "idle"

\* MaintainerService.loaded resolves whatever maintainers are unreachable,
\* unless the process dies first: failed first updates are swallowed.
LoadedResolves == [](alive = TRUE) => <>(loading = {})

\* When the maintainers stay reachable, the process stays up and every system is
\* registered for good in the end, whatever happened before: failures, half-open
\* calls, retries and crashes of the process included.
Reconnects ==
    (\A s \in System : <>[]up[s])
        => <>[](alive /\ \A s \in System : info[s] # NoSocket)

\* The session of a system is its registered websocket; what is in memory goes
\* with the process.
SessionOf(s) ==
    IF ~alive \/ info[s] = NoSocket \/ sock[s][info[s]] \in {"free", "closing"}
    THEN "none"
    ELSE IF sock[s][info[s]] = "connecting" THEN "opening" ELSE sock[s][info[s]]

Trying == {s \in System : alive /\ \E i \in Slot : chain[s][i] # "idle"}

Session == INSTANCE MaintainerSession
             WITH running <- alive, session <- [s \in System |-> SessionOf(s)],
                  trying <- Trying

\* All the calls, timers and websockets of a system amount to one session: it is
\* replaced only after it was given up, given up only when it had been open or the
\* process died, and no update ends for good while there is none.
ImplementsSession == Session!Spec

\* The timer that announces a system finds its entry (the event it emits
\* "satisfies UpdatedInfo"): it never runs after the entry was deleted.
TimerFindsEntry == [][\A s \in System : ~AnnounceNothing(s)]_vars
=============================================================================
