--------------------- MODULE MaintainerConnectionProofs ---------------------
(***************************************************************************)
(* Proofs, for every set of systems, update calls and websockets, of the   *)
(* safety of MaintainerConnection.  Each invariant is inductive relative   *)
(* to TypeOK, which the lemmas below carry along.                          *)
(***************************************************************************)
EXTENDS MaintainerConnection, TLAPS

\* Every variable keeps its type in every reachable state.
THEOREM TypeCorrect == Spec => []TypeOK
<1>1. Init => TypeOK
  BY ConstantsAssumption DEF Init, TypeOK, CallState, SocketState
<1>2. TypeOK /\ [Next]_vars => TypeOK'
  <2> SUFFICES ASSUME TypeOK, [Next]_vars PROVE TypeOK'
    OBVIOUS
  <2> USE DEF TypeOK, CallState, SocketState
  <2>1. CASE UNCHANGED vars
    BY <2>1 DEF vars
  <2>2. ASSUME NEW s \in System, NEW i \in Slot, CallStep(s, i)
        PROVE  TypeOK'
    <3>1. CASE GotInfo(s, i)
      BY <3>1 DEF GotInfo, Goto
    <3>2. CASE GotDatasets(s, i)
      <4>1. info' \in [System -> Socket \cup {NoSocket}]
            /\ sock' \in [System -> [Socket -> SocketState]]
        <5>1. CASE info[s] # NoSocket
          BY <3>2, <5>1 DEF GotDatasets
        <5>2. CASE info[s] = NoSocket
          <6> PICK k \in Socket :
                 /\ sock' = [sock EXCEPT ![s][k] = "connecting"]
                 /\ info' = [info EXCEPT ![s] = k]
            BY <3>2, <5>2 DEF GotDatasets
          <6> QED
            OBVIOUS
        <5> QED
          BY <5>1, <5>2
      <4>2. chain' \in [System -> [Slot -> CallState]] /\ loading' \in SUBSET System
        BY <3>2 DEF GotDatasets, Goto, Settled
      <4> QED
        BY <3>2, <4>1, <4>2 DEF GotDatasets
    <3>3. CASE RequestFails(s, i)
      <4>1. /\ info' \in [System -> Socket \cup {NoSocket}]
            /\ sock' \in [System -> [Socket -> SocketState]]
            /\ queued' \in [System -> BOOLEAN]
        <5>1. CASE info[s] = NoSocket
          BY <3>3, <5>1 DEF RequestFails, TearDown
        <5>2. CASE info[s] # NoSocket
          <6>1. info[s] \in Socket
            BY <5>2
          <6>2. /\ info' = [info EXCEPT ![s] = NoSocket]
                /\ sock' = [sock EXCEPT ![s][info[s]] = "closing"]
                /\ queued' = [queued EXCEPT ![s] = FALSE]
            BY <3>3, <5>2 DEF RequestFails, TearDown
          <6> QED
            BY <6>1, <6>2
        <5> QED
          BY <5>1, <5>2
      <4>2. chain' \in [System -> [Slot -> CallState]] /\ loading' \in SUBSET System
        BY <3>3 DEF RequestFails, Goto, Settled
      <4> QED
        BY <3>3, <4>1, <4>2 DEF RequestFails
    <3>4. CASE RequestFailsConnecting(s, i)
      BY <3>4 DEF RequestFailsConnecting, Crash
    <3>5. CASE RetryFires(s, i)
      BY <3>5 DEF RetryFires, Goto
    <3> QED
      BY <2>2, <3>1, <3>2, <3>3, <3>4, <3>5 DEF CallStep
  <2>3. ASSUME NEW s \in System, NEW k \in Socket, SocketStep(s, k)
        PROVE  TypeOK'
    <3>1. CASE SocketOpens(s, k)
      BY <3>1 DEF SocketOpens
    <3>2. CASE SocketRefused(s, k)
      BY <3>2 DEF SocketRefused, Crash
    <3>3. CASE SocketClosesUnheard(s, k)
      BY <3>3 DEF SocketClosesUnheard
    <3>4. ASSUME NEW i \in Slot, SocketMessage(s, k, i)
          PROVE  TypeOK'
      BY <3>4 DEF SocketMessage, Goto
    <3>5. ASSUME NEW i \in Slot, SocketCloses(s, k, i)
          PROVE  TypeOK'
      BY <3>5 DEF SocketCloses, Goto
    <3> QED
      BY <2>3, <3>1, <3>2, <3>3, <3>4, <3>5 DEF SocketStep
  <2>4. ASSUME NEW s \in System,
               Announce(s) \/ AnnounceNothing(s) \/ GoesDown(s) \/ ComesUp(s)
        PROVE  TypeOK'
    <3>1. CASE Announce(s)
      BY <3>1 DEF Announce
    <3>2. CASE AnnounceNothing(s)
      BY <3>2 DEF AnnounceNothing, Crash
    <3>3. CASE GoesDown(s)
      <4>1. sock' \in [System -> [Socket -> SocketState]]
        BY <3>3 DEF GoesDown
      <4> QED
        BY <3>3, <4>1 DEF GoesDown
    <3>4. CASE ComesUp(s)
      BY <3>4 DEF ComesUp
    <3> QED
      BY <2>4, <3>1, <3>2, <3>3, <3>4
  <2>5. CASE Restart
    BY <2>5, ConstantsAssumption DEF Restart, Startup
  <2> QED
    BY <2>1, <2>2, <2>3, <2>4, <2>5 DEF Next
<1> QED
  BY <1>1, <1>2, PTL DEF Spec

-----------------------------------------------------------------------------
\* A websocket has listeners exactly when it is the one maintainerInfo holds,
\* for any number of concurrent update calls: none leaks with its handlers.
THEOREM RegistrationCorrect == Spec => []RegisteredIsListening
<1>1. Init => RegisteredIsListening
  BY ConstantsAssumption DEF Init, RegisteredIsListening, Listening
<1>2. TypeOK /\ RegisteredIsListening /\ [Next]_vars => RegisteredIsListening'
  <2> SUFFICES ASSUME TypeOK, RegisteredIsListening, [Next]_vars,
                      NEW r \in System, NEW j \in Socket
               PROVE  info'[r] = j <=> Listening(r, j)'
    BY DEF RegisteredIsListening
  <2> USE ConstantsAssumption DEF TypeOK, SocketState, RegisteredIsListening, Listening
  <2>1. CASE UNCHANGED <<info, sock>>
    BY <2>1
  <2>2. ASSUME NEW s \in System, NEW i \in Slot, CallStep(s, i)
        PROVE  info'[r] = j <=> Listening(r, j)'
    <3>1. CASE GotInfo(s, i) \/ RequestFailsConnecting(s, i) \/ RetryFires(s, i)
      BY <3>1, <2>1 DEF GotInfo, RequestFailsConnecting, RetryFires, Crash
    <3>2. CASE GotDatasets(s, i)
      BY <3>2 DEF GotDatasets
    <3>3. CASE RequestFails(s, i)
      BY <3>3 DEF RequestFails, TearDown
    <3> QED
      BY <2>2, <3>1, <3>2, <3>3 DEF CallStep
  <2>3. ASSUME NEW s \in System, NEW k \in Socket, SocketStep(s, k)
        PROVE  info'[r] = j <=> Listening(r, j)'
    <3>1. CASE SocketOpens(s, k)
      BY <3>1 DEF SocketOpens
    <3>2. CASE SocketRefused(s, k)
      BY <3>2, <2>1 DEF SocketRefused, Crash
    <3>3. CASE SocketClosesUnheard(s, k)
      BY <3>3 DEF SocketClosesUnheard
    <3>4. ASSUME NEW i \in Slot, SocketMessage(s, k, i)
          PROVE  info'[r] = j <=> Listening(r, j)'
      BY <3>4, <2>1 DEF SocketMessage
    <3>5. ASSUME NEW i \in Slot, SocketCloses(s, k, i)
          PROVE  info'[r] = j <=> Listening(r, j)'
      BY <3>5 DEF SocketCloses
    <3> QED
      BY <2>3, <3>1, <3>2, <3>3, <3>4, <3>5 DEF SocketStep
  <2>4. ASSUME NEW s \in System, Announce(s) \/ AnnounceNothing(s) \/ ComesUp(s)
        PROVE  info'[r] = j <=> Listening(r, j)'
    BY <2>1, <2>4 DEF Announce, AnnounceNothing, ComesUp, Crash
  <2>5. ASSUME NEW s \in System, GoesDown(s)
        PROVE  info'[r] = j <=> Listening(r, j)'
    BY <2>5 DEF GoesDown
  <2>6. CASE Restart
    BY <2>6 DEF Restart, Startup
  <2> QED
    BY <2>1, <2>2, <2>3, <2>4, <2>5, <2>6 DEF Next, vars
<1> QED
  BY <1>1, <1>2, TypeCorrect, PTL DEF Spec

-----------------------------------------------------------------------------
\* A system without an entry always has an update call in flight or a retry
\* timer pending: no interleaving of failures and closes loses it.
THEOREM NothingForgotten == Spec => []NeverForgotten
<1>1. Init => NeverForgotten
  BY ConstantsAssumption DEF Init, NeverForgotten
<1>2. TypeOK /\ NeverForgotten /\ [Next]_vars => NeverForgotten'
  <2> SUFFICES ASSUME TypeOK, NeverForgotten, [Next]_vars,
                      NEW r \in System, info'[r] = NoSocket
               PROVE  \E j \in Slot : chain'[r][j] # "idle"
    BY DEF NeverForgotten
  <2> USE ConstantsAssumption DEF TypeOK, CallState, NeverForgotten, Goto
  <2>1. CASE UNCHANGED <<info, chain>>
    BY <2>1
  <2>2. ASSUME NEW s \in System, NEW i \in Slot, CallStep(s, i)
        PROVE  \E j \in Slot : chain'[r][j] # "idle"
    <3>1. CASE GotInfo(s, i)
      BY <3>1 DEF GotInfo
    <3>2. CASE GotDatasets(s, i)
      BY <3>2 DEF GotDatasets
    <3>3. CASE RequestFails(s, i)
      BY <3>3 DEF RequestFails, TearDown
    <3>4. CASE RequestFailsConnecting(s, i)
      BY <3>4, <2>1 DEF RequestFailsConnecting, Crash
    <3>5. CASE RetryFires(s, i)
      BY <3>5 DEF RetryFires
    <3> QED
      BY <2>2, <3>1, <3>2, <3>3, <3>4, <3>5 DEF CallStep
  <2>3. ASSUME NEW s \in System, NEW k \in Socket, SocketStep(s, k)
        PROVE  \E j \in Slot : chain'[r][j] # "idle"
    <3>1. CASE SocketOpens(s, k) \/ SocketRefused(s, k) \/ SocketClosesUnheard(s, k)
      BY <3>1, <2>1 DEF SocketOpens, SocketRefused, SocketClosesUnheard, Crash
    <3>2. ASSUME NEW i \in Slot, SocketMessage(s, k, i)
          PROVE  \E j \in Slot : chain'[r][j] # "idle"
      BY <3>2 DEF SocketMessage
    <3>3. ASSUME NEW i \in Slot, SocketCloses(s, k, i)
          PROVE  \E j \in Slot : chain'[r][j] # "idle"
      BY <3>3 DEF SocketCloses
    <3> QED
      BY <2>3, <3>1, <3>2, <3>3 DEF SocketStep
  <2>4. ASSUME NEW s \in System,
               Announce(s) \/ AnnounceNothing(s) \/ GoesDown(s) \/ ComesUp(s)
        PROVE  \E j \in Slot : chain'[r][j] # "idle"
    BY <2>1, <2>4 DEF Announce, AnnounceNothing, GoesDown, ComesUp, Crash
  <2>5. CASE Restart
    BY <2>5 DEF Restart, Startup
  <2> QED
    BY <2>1, <2>2, <2>3, <2>4, <2>5 DEF Next, vars
<1> QED
  BY <1>1, <1>2, TypeCorrect, PTL DEF Spec

-----------------------------------------------------------------------------
(* The refinement of MaintainerSession.                                    *)

\* The value the refinement gives to the abstract variable session.
sessions == [s \in System |-> SessionOf(s)]

\* The registered websocket of a system has listeners, so it is being opened,
\* open or lost: the session of a system with an entry is never "none".
LEMMA SessionOfRegistered ==
  ASSUME TypeOK, RegisteredIsListening, alive, NEW s \in System,
         info[s] # NoSocket
  PROVE  /\ info[s] \in Socket
         /\ sock[s][info[s]] \in {"connecting", "open", "lost"}
         /\ SessionOf(s) = IF sock[s][info[s]] = "connecting" THEN "opening"
                           ELSE sock[s][info[s]]
<1>1. info[s] \in Socket
  BY DEF TypeOK
<1>2. sock[s][info[s]] \in {"connecting", "open", "lost"}
  BY <1>1 DEF RegisteredIsListening, Listening
<1> QED
  BY <1>1, <1>2 DEF SessionOf

\* A websocket with listeners is the registered one.
LEMMA ListeningIsSession ==
  ASSUME TypeOK, RegisteredIsListening, alive, NEW s \in System, NEW k \in Socket,
         sock[s][k] \in {"connecting", "open", "lost"}
  PROVE  /\ info[s] = k
         /\ SessionOf(s) = IF sock[s][k] = "connecting" THEN "opening"
                           ELSE sock[s][k]
<1>1. info[s] = k /\ k # NoSocket
  BY ConstantsAssumption DEF RegisteredIsListening, Listening
<1> QED
  BY <1>1 DEF SessionOf

\* A step that touches the entry and the websockets of no other system changes
\* no other session.
LEMMA OtherSessions ==
  ASSUME NEW s \in System, alive' = alive,
         \A t \in System \ {s} : info'[t] = info[t] /\ sock'[t] = sock[t]
  PROVE  sessions' = [sessions EXCEPT ![s] = SessionOf(s)']
<1>1. \A t \in System \ {s} : SessionOf(t)' = SessionOf(t)
  BY DEF SessionOf
<1> QED
  BY <1>1 DEF sessions

\* A step that touches the calls of no other system changes of Trying only
\* whether it is tried.
LEMMA OtherTrying ==
  ASSUME NEW s \in System, alive' = alive,
         \A t \in System \ {s} : chain'[t] = chain[t]
  PROVE  /\ Trying' = IF alive /\ \E i \in Slot : chain'[s][i] # "idle"
                      THEN Trying \cup {s} ELSE Trying \ {s}
         /\ s \in Trying =>
              /\ Trying' \in {Trying, Trying \ {s}}
              /\ (alive /\ \E i \in Slot : chain'[s][i] # "idle") => Trying' = Trying
<1>1. Trying' = IF alive /\ \E i \in Slot : chain'[s][i] # "idle"
                THEN Trying \cup {s} ELSE Trying \ {s}
  BY DEF Trying
<1>2. s \in Trying => Trying \cup {s} = Trying
  OBVIOUS
<1> QED
  BY <1>1, <1>2

\* A step that leaves the calls alone and the process alive leaves Trying alone.
LEMMA SameTrying ==
  ASSUME UNCHANGED <<alive, chain>>
  PROVE  Trying' = Trying
BY DEF Trying

\* A step that leaves the entries, the websockets and the process alone leaves
\* every session alone.
LEMMA SameSessions ==
  ASSUME UNCHANGED <<alive, info, sock>>
  PROVE  sessions' = sessions
BY DEF sessions, SessionOf

\* One step of the process while it runs, as a step of the abstract specification.
LEMMA LivingStep ==
  ASSUME alive, alive' = alive, NEW s \in System,
         Session!Lives(s) \/ (sessions' = sessions /\ Trying' = Trying)
  PROVE  [Session!Next]_(Session!vars)
BY DEF Session!Next, Session!vars, sessions

\* What ends the process ends every session and every attempt.
LEMMA CrashStep ==
  ASSUME alive, Crash
  PROVE  Session!Next
<1>1. alive' = FALSE
  BY DEF Crash
<1>2. [s \in System |-> SessionOf(s)]' = Session!None
  BY <1>1 DEF Session!None, SessionOf
<1>3. Trying' = {}
  BY <1>1 DEF Trying
<1> QED
  BY <1>1, <1>2, <1>3 DEF Session!Next, Session!Die

\* The steps of an update call.
LEMMA CallRefines ==
  ASSUME TypeOK, RegisteredIsListening,
         NEW s \in System, NEW i \in Slot, CallStep(s, i)
  PROVE  [Session!Next]_(Session!vars)
<1> USE DEF TypeOK
<1>1. CASE GotInfo(s, i)
  <2>1. alive /\ alive' = alive /\ sessions' = sessions
    BY <1>1, SameSessions DEF GotInfo
  <2>2. Trying' = Trying
    <3>1. /\ s \in Trying
          /\ chain'[s][i] # "idle"
          /\ \A t \in System \ {s} : chain'[t] = chain[t]
      BY <1>1 DEF GotInfo, Goto, Trying
    <3> QED
      BY <3>1, <2>1, OtherTrying
  <2> QED
    BY <2>1, <2>2, LivingStep
<1>2. CASE GotDatasets(s, i)
  <2>1. alive /\ alive' = alive /\ s \in Trying
    BY <1>2 DEF GotDatasets, Trying
  <2>2. Trying' \in {Trying, Trying \ {s}}
    <3>1. \A t \in System \ {s} : chain'[t] = chain[t]
      BY <1>2 DEF GotDatasets, Goto
    <3> QED
      BY <3>1, <2>1, OtherTrying
  <2>3. IF SessionOf(s) = "none"
        THEN sessions' = [sessions EXCEPT ![s] = "opening"]
        ELSE sessions' = sessions
    <3>1. CASE info[s] # NoSocket
      <4>1. SessionOf(s) # "none"
        BY <3>1, <2>1, SessionOfRegistered
      <4>2. sessions' = sessions
        BY <1>2, <3>1, SameSessions DEF GotDatasets
      <4> QED
        BY <4>1, <4>2
    <3>2. CASE info[s] = NoSocket
      <4>1. SessionOf(s) = "none"
        BY <3>2 DEF SessionOf
      <4> PICK k \in Socket : /\ sock' = [sock EXCEPT ![s][k] = "connecting"]
                              /\ info' = [info EXCEPT ![s] = k]
        BY <1>2, <3>2 DEF GotDatasets
      <4>2. SessionOf(s)' = "opening"
        <5>1. info'[s] = k /\ sock'[s][k] = "connecting"
          OBVIOUS
        <5> QED
          BY <5>1, <2>1, ConstantsAssumption DEF SessionOf
      <4>3. sessions' = [sessions EXCEPT ![s] = SessionOf(s)']
        <5>1. \A t \in System \ {s} : info'[t] = info[t] /\ sock'[t] = sock[t]
          OBVIOUS
        <5> QED
          BY <5>1, <2>1, OtherSessions
      <4> QED
        BY <4>1, <4>2, <4>3
    <3> QED
      BY <3>1, <3>2
  <2>4. Session!Update(s)
    BY <2>1, <2>2, <2>3 DEF Session!Update, Session!Becomes, sessions
  <2> QED
    BY <2>1, <2>4, LivingStep DEF Session!Lives
<1>3. CASE RequestFails(s, i)
  <2>1. alive /\ alive' = alive /\ s \in Trying
    BY <1>3 DEF RequestFails, InFlight, Trying
  <2>2. Trying' = Trying
    <3>1. chain'[s][i] = "retry" /\ \A t \in System \ {s} : chain'[t] = chain[t]
      BY <1>3 DEF RequestFails, Goto
    <3> QED
      BY <3>1, <2>1, OtherTrying
  <2>3. CASE info[s] = NoSocket
    <3>1. sessions' = sessions
      BY <1>3, <2>3, SameSessions DEF RequestFails, TearDown
    <3> QED
      BY <3>1, <2>1, <2>2, LivingStep
  <2>4. CASE info[s] # NoSocket
    <3>1. /\ info' = [info EXCEPT ![s] = NoSocket]
          /\ sock' = [sock EXCEPT ![s][info[s]] = "closing"]
          /\ sock[s][info[s]] # "connecting"
      BY <1>3, <2>4 DEF RequestFails, TearDown, MayTearDown
    <3>2. SessionOf(s) \in {"open", "lost"}
      BY <3>1, <2>1, <2>4, SessionOfRegistered
    <3>3. SessionOf(s)' = "none"
      BY <3>1 DEF SessionOf
    <3>4. sessions' = [sessions EXCEPT ![s] = SessionOf(s)']
      <4>1. \A t \in System \ {s} : info'[t] = info[t] /\ sock'[t] = sock[t]
        BY <3>1
      <4> QED
        BY <4>1, <2>1, OtherSessions
    <3>5. Session!GiveUp(s)
      BY <2>1, <2>2, <3>2, <3>3, <3>4 DEF Session!GiveUp, Session!Becomes, sessions
    <3> QED
      BY <2>1, <3>5, LivingStep DEF Session!Lives
  <2> QED
    BY <2>3, <2>4
<1>4. CASE RequestFailsConnecting(s, i)
  BY <1>4, CrashStep DEF RequestFailsConnecting
<1>5. CASE RetryFires(s, i)
  <2>1. alive /\ alive' = alive /\ sessions' = sessions
    BY <1>5, SameSessions DEF RetryFires
  <2>2. Trying' = Trying
    <3>1. /\ s \in Trying
          /\ chain'[s][i] # "idle"
          /\ \A t \in System \ {s} : chain'[t] = chain[t]
      BY <1>5 DEF RetryFires, Goto, Trying
    <3> QED
      BY <3>1, <2>1, OtherTrying
  <2> QED
    BY <2>1, <2>2, LivingStep
<1> QED
  BY <1>1, <1>2, <1>3, <1>4, <1>5 DEF CallStep

\* The websocket handlers.
LEMMA SocketRefines ==
  ASSUME TypeOK, RegisteredIsListening,
         NEW s \in System, NEW k \in Socket, SocketStep(s, k)
  PROVE  [Session!Next]_(Session!vars)
<1> USE DEF TypeOK
<1>1. CASE SocketOpens(s, k)
  <2>1. alive /\ alive' = alive /\ Trying' = Trying
    BY <1>1, SameTrying DEF SocketOpens
  <2>2. info[s] = k /\ SessionOf(s) = "opening"
    BY <1>1, <2>1, ListeningIsSession DEF SocketOpens
  <2>3. SessionOf(s)' = "open"
    BY <1>1, <2>2, ConstantsAssumption DEF SocketOpens, SessionOf
  <2>4. sessions' = [sessions EXCEPT ![s] = SessionOf(s)']
    <3>1. \A t \in System \ {s} : info'[t] = info[t] /\ sock'[t] = sock[t]
      BY <1>1 DEF SocketOpens
    <3> QED
      BY <3>1, <2>1, OtherSessions
  <2>5. Session!Open(s)
    BY <2>1, <2>2, <2>3, <2>4 DEF Session!Open, Session!Becomes, sessions
  <2> QED
    BY <2>1, <2>5, LivingStep DEF Session!Lives
<1>2. CASE SocketRefused(s, k)
  BY <1>2, CrashStep DEF SocketRefused
<1>3. CASE SocketClosesUnheard(s, k)
  <2>1. alive /\ alive' = alive /\ Trying' = Trying
    BY <1>3, SameTrying DEF SocketClosesUnheard
  <2>2. info[s] # k
    BY <1>3 DEF SocketClosesUnheard, RegisteredIsListening, Listening
  <2>3. \A t \in System :
           info'[t] = info[t] /\ (info[t] # NoSocket => sock'[t][info[t]] = sock[t][info[t]])
    BY <1>3, <2>2 DEF SocketClosesUnheard
  <2>4. sessions' = sessions
    BY <2>1, <2>3 DEF sessions, SessionOf
  <2> QED
    BY <2>1, <2>4, LivingStep
<1>4. ASSUME NEW i \in Slot, SocketMessage(s, k, i)
      PROVE  [Session!Next]_(Session!vars)
  <2>1. alive /\ alive' = alive /\ sessions' = sessions
    BY <1>4, SameSessions DEF SocketMessage
  <2>2. SessionOf(s) = "open"
    BY <1>4, <2>1, ListeningIsSession DEF SocketMessage
  <2>3. Trying' = Trying \cup {s}
    <3>1. chain'[s][i] = "info" /\ \A t \in System \ {s} : chain'[t] = chain[t]
      BY <1>4 DEF SocketMessage, Goto
    <3> QED
      BY <3>1, <2>1, OtherTrying
  <2>4. Session!Notified(s)
    BY <2>1, <2>2, <2>3 DEF Session!Notified, sessions
  <2> QED
    BY <2>1, <2>4, LivingStep DEF Session!Lives
<1>5. ASSUME NEW i \in Slot, SocketCloses(s, k, i)
      PROVE  [Session!Next]_(Session!vars)
  <2>1. alive /\ alive' = alive
    BY <1>5 DEF SocketCloses
  <2>2. SessionOf(s) = "lost"
    BY <1>5, <2>1, ListeningIsSession DEF SocketCloses
  <2>3. SessionOf(s)' = "none"
    BY <1>5 DEF SocketCloses, SessionOf
  <2>4. sessions' = [sessions EXCEPT ![s] = SessionOf(s)']
    <3>1. \A t \in System \ {s} : info'[t] = info[t] /\ sock'[t] = sock[t]
      BY <1>5 DEF SocketCloses
    <3> QED
      BY <3>1, <2>1, OtherSessions
  <2>5. Trying' = Trying \cup {s}
    <3>1. chain'[s][i] = "info" /\ \A t \in System \ {s} : chain'[t] = chain[t]
      BY <1>5 DEF SocketCloses, Goto
    <3> QED
      BY <3>1, <2>1, OtherTrying
  <2>6. Session!GiveUp(s)
    BY <2>1, <2>2, <2>3, <2>4, <2>5 DEF Session!GiveUp, Session!Becomes, sessions
  <2> QED
    BY <2>1, <2>6, LivingStep DEF Session!Lives
<1> QED
  BY <1>1, <1>2, <1>3, <1>4, <1>5 DEF SocketStep

\* The 60 s timer and the environment.
LEMMA SystemRefines ==
  ASSUME TypeOK, RegisteredIsListening, NEW s \in System,
         Announce(s) \/ AnnounceNothing(s) \/ GoesDown(s) \/ ComesUp(s)
  PROVE  [Session!Next]_(Session!vars)
<1> USE DEF TypeOK
<1>1. CASE Announce(s) \/ ComesUp(s)
  BY <1>1, SameTrying, SameSessions DEF Announce, ComesUp, Session!vars, sessions
<1>2. CASE AnnounceNothing(s)
  BY <1>2, CrashStep DEF AnnounceNothing
<1>3. CASE GoesDown(s)
  <2>1. alive' = alive /\ Trying' = Trying
    BY <1>3, SameTrying DEF GoesDown
  <2> PICK broken \in SUBSET {k \in Socket : sock[s][k] = "open"} :
         sock' = [sock EXCEPT ![s] = [k \in Socket |->
                      IF k \in broken THEN "lost" ELSE sock[s][k]]]
    BY <1>3 DEF GoesDown
  <2>2. info' = info
    BY <1>3 DEF GoesDown
  <2>3. sessions' = [sessions EXCEPT ![s] = SessionOf(s)']
    <3>1. \A t \in System \ {s} : info'[t] = info[t] /\ sock'[t] = sock[t]
      BY <2>2
    <3> QED
      BY <3>1, <2>1, OtherSessions
  <2>4. sock'[s] = [k \in Socket |-> IF k \in broken THEN "lost" ELSE sock[s][k]]
    OBVIOUS
  <2>5. CASE alive /\ info[s] \in broken
    <3>1. info[s] \in Socket /\ sock[s][info[s]] = "open" /\ info[s] # NoSocket
      BY <2>5, ConstantsAssumption
    <3>2. SessionOf(s) = "open"
      BY <3>1, <2>5 DEF SessionOf
    <3>3. SessionOf(s)' = "lost"
      BY <3>1, <2>1, <2>2, <2>4, <2>5 DEF SessionOf
    <3>4. Session!Lose(s)
      BY <2>1, <2>3, <3>2, <3>3 DEF Session!Lose, Session!Becomes, sessions
    <3> QED
      BY <2>1, <2>5, <3>4, LivingStep DEF Session!Lives
  <2>6. CASE ~(alive /\ info[s] \in broken)
    <3>1. SessionOf(s)' = SessionOf(s)
      BY <2>1, <2>2, <2>4, <2>6 DEF SessionOf
    <3>2. sessions' = sessions
      BY <3>1, <2>3 DEF sessions
    <3> QED
      BY <3>2, <2>1 DEF Session!vars, sessions
  <2> QED
    BY <2>5, <2>6
<1> QED
  BY <1>1, <1>2, <1>3

\* All the calls, timers and websockets of every system, for any number of them,
\* amount to one session per system: every step of MaintainerConnection is a step
\* of MaintainerSession or changes nothing of it.
THEOREM SessionRefined == Spec => ImplementsSession
<1>1. Init => Session!Init
  <2> SUFFICES ASSUME Init PROVE Session!Init
    OBVIOUS
  <2>1. [s \in System |-> SessionOf(s)] = Session!None
    BY DEF Init, SessionOf, Session!None
  <2>2. Trying = System
    BY ConstantsAssumption DEF Init, Trying
  <2> QED
    BY <2>1, <2>2 DEF Init, Session!Init
<1>2. TypeOK /\ RegisteredIsListening /\ [Next]_vars => [Session!Next]_(Session!vars)
  <2> SUFFICES ASSUME TypeOK, RegisteredIsListening, [Next]_vars
               PROVE  [Session!Next]_(Session!vars)
    OBVIOUS
  <2>1. CASE UNCHANGED vars
    BY <2>1, SameTrying, SameSessions DEF vars, Session!vars, sessions
  <2>2. CASE Restart
    <3>1. ~alive /\ alive' = TRUE
      BY <2>2 DEF Restart, Startup
    <3>2. [s \in System |-> SessionOf(s)]' = Session!None
      BY <2>2 DEF Restart, Startup, SessionOf, Session!None
    <3>3. Trying' = System
      BY <2>2, ConstantsAssumption DEF Restart, Startup, Trying
    <3> QED
      BY <3>1, <3>2, <3>3 DEF Session!Next, Session!Restart
  <2> QED
    BY <2>1, <2>2, CallRefines, SocketRefines, SystemRefines DEF Next
<1> QED
  BY <1>1, <1>2, TypeCorrect, RegistrationCorrect, PTL
     DEF Spec, ImplementsSession, Session!Spec
=============================================================================
