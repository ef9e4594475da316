------------------------- MODULE MaintainerSession --------------------------
(***************************************************************************)
(* What MaintainerService promises for the maintainer of each system,      *)
(* whatever calls, timers and websockets it takes: one session at a time,  *)
(* which is given up only when it was open, and always to be made again.   *)
(* MaintainerConnection implements this specification.                     *)
(***************************************************************************)
CONSTANT System

VARIABLES running, \* the backend process is running
          session, \* "none", "opening", "open", or "lost" without notice
          trying   \* systems that a call or a timer is going to update

vars == <<running, session, trying>>

None == [s \in System |-> "none"]

Init == running = TRUE /\ session = None /\ trying = System

Becomes(s, state) == session' = [session EXCEPT ![s] = state]

\* An update succeeds, and updates of the system end if nothing else asks for one:
\* there is a session now.
Update(s) == /\ s \in trying
             /\ IF session[s] = "none" THEN Becomes(s, "opening") ELSE session' = session
             /\ trying' \in {trying, trying \ {s}}

Open(s) == session[s] = "opening" /\ Becomes(s, "open") /\ trying' = trying

Lose(s) == session[s] = "open" /\ Becomes(s, "lost") /\ trying' = trying

Notified(s) == session[s] = "open" /\ session' = session /\ trying' = trying \cup {s}

\* The loss is noticed, or an update fails: the next one makes a new session.
GiveUp(s) == /\ session[s] \in {"open", "lost"}
             /\ Becomes(s, "none")
             /\ trying' = trying \cup {s}

Die == running /\ running' = FALSE /\ session' = None /\ trying' = {}

Restart == ~running /\ running' = TRUE /\ session' = None /\ trying' = System

Lives(s) == Update(s) \/ Open(s) \/ Lose(s) \/ Notified(s) \/ GiveUp(s)

Next == \/ running /\ running' = running /\ \E s \in System : Lives(s)
        \/ Die
        \/ Restart

Spec == Init /\ [][Next]_vars
=============================================================================
