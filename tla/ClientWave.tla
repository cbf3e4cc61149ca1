----------------------------- MODULE ClientWave -----------------------------
(***************************************************************************)
(* What the library promises a client about the waves it can see: the     *)
(* state amd_dbgapi_wave_get_info (STATE) returns, and the stop or resume  *)
(* call the client has in progress.  A wave is shown in one of the         *)
(* Running states or STOP, is HIDDEN (created halted at launch and not    *)
(* yet released), or is GONE (no longer found).                          *)
(*                                                                         *)
(*  - a shown stop appears only when the client is told of it (its event   *)
(*    is reported), and never while the client is in a call;              *)
(*  - a stop call does not itself change what is shown (the stop shows     *)
(*    once its event is reported);                                         *)
(*  - a shown STOP is left only by the client's resume of that wave, which *)
(*    shows the mode resumed in or makes the wave go away;                 *)
(*  - a hidden wave appears running, and is not stopped or resumed before; *)
(*  - a wave may go away at any time, and never comes back.                *)
(***************************************************************************)
CONSTANTS
  Waves,    \* the waves
  Running   \* the states shown for a wave that is not stopped

VARIABLES
  view,     \* the state shown for each wave, "HIDDEN" or "GONE"
  call      \* the stop or resume call in progress

vars == <<view, call>>

NoCall == [op |-> "none", w |-> "none", mode |-> "none"]

\* The client asks for a stop of a wave shown not stopped, or a resume of a
\* wave shown stopped.
Call(w, m) ==
  /\ call = NoCall
  /\ \/ m = "STOP" /\ view[w] \in Running
     \/ m \in Running /\ view[w] = "STOP"
  /\ call' = [op |-> IF m = "STOP" THEN "stop" ELSE "resume", w |-> w, mode |-> m]
  /\ UNCHANGED view

\* The call returns.
Return ==
  LET w == call.w
      shown == IF call.op = "stop" \/ view[w] = "GONE" THEN {view[w]}
               ELSE {call.mode, "GONE"}
  IN
  /\ call # NoCall
  /\ call' = NoCall
  /\ \E v \in shown : view' = [view EXCEPT ![w] = v]

\* The client is told of a stop.
Report(w) ==
  /\ call = NoCall
  /\ view[w] \in Running
  /\ view' = [view EXCEPT ![w] = "STOP"]
  /\ UNCHANGED call

\* A wave hidden at launch is released and shows running.
Appear(w) ==
  /\ view[w] = "HIDDEN"
  /\ \E s \in Running : view' = [view EXCEPT ![w] = s]
  /\ UNCHANGED call

Exit(w) ==
  /\ view[w] # "GONE"
  /\ view' = [view EXCEPT ![w] = "GONE"]
  /\ UNCHANGED call

Init ==
  /\ view \in [Waves -> Running \cup {"HIDDEN"}]
  /\ call = NoCall

Next ==
  \/ \E w \in Waves, m \in Running \cup {"STOP"} : Call(w, m)
  \/ Return
  \/ \E w \in Waves : Report(w) \/ Appear(w) \/ Exit(w)

Spec == Init /\ [][Next]_vars

=============================================================================
