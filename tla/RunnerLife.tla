------------------------------ MODULE RunnerLife ------------------------------
(***************************************************************************)
(* What one call of MessagePumpRunner.Run promises to a binder: the life   *)
(* of the handler process it launches and of the runner itself, without    *)
(* messages, probes and waits.  The runner ends only after its handler,    *)
(* and only when the transporter is closed or the context cancelled.       *)
(*                                                                         *)
(* A life is a record; Step relates it to the next one.  MessagePumpRunner *)
(* is shown to take no other steps, and KafkaSessions runs one life per    *)
(* partition and session.                                                  *)
(***************************************************************************)

HandlerStates == {"launching", "running", "serving", "gone"}
RunnerStates  == {"starting", "pumping", "ended"}

Lives == [handler : HandlerStates, runner : RunnerStates]

Start == [handler |-> "launching", runner |-> "starting"]

\* A process is launched only for a context that is not cancelled.
HandlerStep(r, s, cancelled) ==
  \/ r.handler = "launching" /\ ~cancelled /\ s = [r EXCEPT !.handler = "running"]
  \/ r.handler = "running" /\ s = [r EXCEPT !.handler = "serving"]
  \/ r.handler # "gone" /\ s = [r EXCEPT !.handler = "gone"]

MayEnd(r, closed, cancelled) ==
  r.runner = "pumping" /\ r.handler = "gone" /\ (closed \/ cancelled)

RunnerStep(r, s, closed, cancelled) ==
  \/ r.runner = "starting" /\ s = [r EXCEPT !.runner = "pumping"]
  \/ MayEnd(r, closed, cancelled) /\ s = [r EXCEPT !.runner = "ended"]

Step(r, s, closed, cancelled) ==
  HandlerStep(r, s, cancelled) \/ RunnerStep(r, s, closed, cancelled)
==============================================================================
