-------------------------- MODULE SessionTimetable --------------------------
(***************************************************************************)
(* What is promised of the sessions of one profile, whichever messages,    *)
(* jobs and sweeps bring it about: a session is opened once, with a start  *)
(* time that is past by then and stays; it goes LIVE from its moment on and*)
(* when no other session is; it ends when its slots are taken or its time  *)
(* is up.                                                                  *)
(***************************************************************************)
EXTENDS Naturals

CONSTANTS MaxId, StartAfter, StopAfter, MaxNow

VARIABLES
  clock,   \* the time
  session  \* session[i]: its status, and the moment it was opened

Sessions == 1..MaxId

\* Times beyond the end of the modelled time are taken to be its end.
Passed(t) == clock >= t \/ clock >= MaxNow

Change(i, status) == session' = [session EXCEPT ![i].status = status] /\ UNCHANGED clock

Init ==
  /\ clock = 0
  /\ session = [i \in Sessions |-> [status |-> "upcoming", start |-> 0]]

Tick == clock < MaxNow /\ clock' = clock + 1 /\ UNCHANGED session

Open(i) ==
  /\ session[i].status = "upcoming"
  /\ \E t \in 0..clock : session' = [session EXCEPT ![i] = [status |-> "opening", start |-> t]]
  /\ UNCHANGED clock

GoLive(i) ==
  /\ session[i].status = "opening"
  /\ \A j \in Sessions : session[j].status # "live"
  /\ Passed(session[i].start + StartAfter)
  /\ Change(i, "live")

FillUp(i) == session[i].status \in {"live", "time_reached"} /\ Change(i, "completed")

TimeUp(i) ==
  /\ session[i].status \in {"live", "completed"}
  /\ Passed(session[i].start + StartAfter + StopAfter)
  /\ Change(i, "time_reached")

Next == Tick \/ \E i \in Sessions : Open(i) \/ GoLive(i) \/ FillUp(i) \/ TimeUp(i)

Spec == Init /\ [][Next]_<<clock, session>>
=============================================================================
