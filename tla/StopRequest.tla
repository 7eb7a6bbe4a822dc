---------------------------- MODULE StopRequest ----------------------------
(***************************************************************************)
(* The stop flag of a run (core/control/stop_request.hpp) and the two      *)
(* things outside the main thread that set it                              *)
(* (framework/runner/src/stop_sources.hpp): the SIGINT/SIGTERM handler and *)
(* the thread that reads stdin under --stop-on-stdin.                      *)
(*                                                                         *)
(* requestStop() is two atomic operations -- a compare-exchange of the     *)
(* reason, then a store of the flag -- so it is two steps here, and the    *)
(* handler, the reader and the run interleave between them.                *)
(***************************************************************************)
EXTENDS Naturals

VARIABLES
  reason,     \* gStopReason
  requested,  \* gStopRequested
  honoured,   \* gStopHonoured: a boundary check really cut work short
  handler,    \* the signal handler: idle, or between the two operations
  watcher,    \* the stdin thread: off, reading, inside requestStop, or gone
  signals     \* history: stop signals delivered so far, saturating at two

stopVars == <<reason, requested, honoured, handler, watcher, signals>>

Reasons == {"None", "Operator", "ConsoleGone"}

StopTypeOK ==
  /\ reason \in Reasons
  /\ requested \in BOOLEAN
  /\ honoured \in BOOLEAN
  /\ handler \in {"idle", "storing"}
  /\ watcher \in {"off", "reading", "stopping", "leaving", "gone"}
  /\ signals \in 0..2

\* The flag before the run begins; the reader runs only under --stop-on-stdin.
StopInit(onStdin) ==
  /\ reason = "None"
  /\ requested = FALSE
  /\ honoured = FALSE
  /\ handler = "idle"
  /\ watcher = IF onStdin THEN "reading" ELSE "off"
  /\ signals = 0

----------------------------------------------------------------------------
\* requestStop(why), first half: the first reason to arrive wins.
ClaimReason(why) == reason' = IF reason = "None" THEN why ELSE reason

\* requestStop(why), second half.
RaiseFlag == requested' = TRUE

CountSignal == signals' = IF signals < 2 THEN signals + 1 ELSE 2

\* onStopSignal with no stop asked for yet: the handler asks for one. The
\* same signal is held off while its handler runs.
SignalClaims ==
  /\ handler = "idle"
  /\ ~requested
  /\ ClaimReason("Operator")
  /\ CountSignal
  /\ handler' = "storing"
  /\ UNCHANGED <<requested, honoured, watcher>>

SignalStores ==
  /\ handler = "storing"
  /\ RaiseFlag
  /\ handler' = "idle"
  /\ UNCHANGED <<reason, honoured, watcher, signals>>

\* onStopSignal with a stop already asked for: the default action comes back
\* and the signal is raised again, which ends the process where it stands.
SignalKills ==
  /\ handler = "idle"
  /\ requested
  /\ CountSignal
  /\ UNCHANGED <<reason, requested, honoured, handler, watcher>>

\* The reader sees a "stop" line, or the end of its input.
StdinClaims(next, why) ==
  /\ watcher = "reading"
  /\ ClaimReason(why)
  /\ watcher' = next
  /\ UNCHANGED <<requested, honoured, handler, signals>>

StopLine  == StdinClaims("stopping", "Operator")
StdinEnds == StdinClaims("leaving", "ConsoleGone")

\* The reader goes back to its loop after a line and exits after the end.
StdinStores ==
  /\ watcher \in {"stopping", "leaving"}
  /\ RaiseFlag
  /\ watcher' = IF watcher = "stopping" THEN "reading" ELSE "gone"
  /\ UNCHANGED <<reason, honoured, handler, signals>>

\* Everything outside the main thread that leaves the process running.
StopSources == SignalClaims \/ SignalStores \/ StopLine \/ StdinEnds \/ StdinStores

----------------------------------------------------------------------------
\* stopNow() answering yes, and answering no.
StopNow ==
  /\ requested
  /\ honoured' = TRUE
  /\ UNCHANGED <<reason, requested, handler, watcher, signals>>

\* Mutant: the answer is always no.
DeafBoundary == UNCHANGED stopVars

NoStopYet ==
  /\ ~requested
  /\ UNCHANGED stopVars

============================================================================
