---------------------------- MODULE GracefulStop ----------------------------
(***************************************************************************)
(* What the process promises whoever stops it, with no goroutine, context  *)
(* or channel in sight.  It serves; asked to stop, it holds while its      *)
(* readiness fails, then stops, and once nothing is in flight it flushes   *)
(* its telemetry and exits with status 0.  A failure at any point skips    *)
(* the hold and makes the status an error.  A second signal, or one no     *)
(* handler catches, cuts it short.  Lifecycle implements this.             *)
(***************************************************************************)
CONSTANT Requests   \* identities of the requests that can be in flight

VARIABLES
  phase,      \* "up", "holding", "stopping" or "flushing"
  failed,     \* a server or a start-up step failed
  inFlight,   \* the requests being served
  status      \* "running", or how the process ended

vars == <<phase, failed, inFlight, status>>

Init ==
  /\ phase = "up" /\ failed = FALSE
  /\ inFlight = {} /\ status = "running"

Alive == status = "running"

(* Requests come and go until the flush of an orderly stop.                *)
Serve ==
  /\ Alive
  /\ phase = "flushing" => failed
  /\ inFlight' \in SUBSET Requests
  /\ UNCHANGED <<phase, failed, status>>

Hold ==
  /\ Alive /\ phase = "up"
  /\ phase' = "holding"
  /\ UNCHANGED <<failed, inFlight, status>>

(* The pre-drain delay is over.                                            *)
Stop ==
  /\ Alive /\ phase = "holding"
  /\ phase' = "stopping"
  /\ UNCHANGED <<failed, inFlight, status>>

(* A server fails: the rest stop at once.                                  *)
Fail ==
  /\ Alive /\ phase # "flushing"
  /\ failed' = TRUE
  /\ phase' = "stopping"
  /\ UNCHANGED <<inFlight, status>>

(* A start-up step fails before anything was served.                       *)
Abort ==
  /\ Alive /\ phase = "up" /\ inFlight = {}
  /\ failed' = TRUE
  /\ phase' = "flushing"
  /\ UNCHANGED <<inFlight, status>>

(* The servers have returned: all requests are answered unless one failed. *)
Flush ==
  /\ Alive /\ phase = "stopping"
  /\ failed \/ inFlight = {}
  /\ phase' = "flushing"
  /\ UNCHANGED <<failed, inFlight, status>>

Exit ==
  /\ Alive /\ phase = "flushing"
  /\ status' = IF failed THEN "error" ELSE "ok"
  /\ UNCHANGED <<phase, failed, inFlight>>

CutShort ==
  /\ Alive
  /\ status' \in {"forced", "killed"}
  /\ UNCHANGED <<phase, failed, inFlight>>

Next == Serve \/ Hold \/ Stop \/ Fail \/ Abort \/ Flush \/ Exit \/ CutShort

Spec == Init /\ [][Next]_vars
=============================================================================
