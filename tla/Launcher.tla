------------------------------ MODULE Launcher ------------------------------
(***************************************************************************)
(* The processes around a run: the launcher, which owns a console; the     *)
(* server it starts, and the run the server starts; the browser and its    *)
(* windows; and what takes all of them down with the launcher, on POSIX a  *)
(* watchdog at the other end of a pipe, on Windows the job they are in.    *)
(*                                                                         *)
(* The launcher looks once a second: LookGone, LookHung, LookInUse and     *)
(* LookQuiet are such looks.                                               *)
(* Other times are not modelled, but for three: a page that is reloaded is *)
(* back before the second look, a server listens before the first look of  *)
(* its launcher, and the SIGTERM of a launcher that has ended has reached  *)
(* its server by the time the next launcher looks.                         *)
(***************************************************************************)
EXTENDS Naturals, FiniteSets

CONSTANTS
  Launchers,               \* the times the program is started
  Windows,                 \* bound: windows open at a time
  ClosedGrace, ServerGone, \* kClosedGraceSeconds, kServerGoneSeconds, in looks
  MaxMishaps, MaxRuns,     \* bounds
  Systems,                 \* of "mac", "linux", "windows"
  Nobody

\* A page that is reloaded is missed by one look, so the grace is longer than that.
ASSUME LauncherAssumption ==
  /\ {ClosedGrace, ServerGone} \subseteq Nat \ {0} /\ ClosedGrace > 1 /\ {MaxMishaps, MaxRuns} \subseteq Nat
  /\ Systems \subseteq {"mac", "linux", "windows"}
  /\ Nobody \notin Launchers

VARIABLES
  system,
  main,     \* where each launcher's main() is
  left,     \* why it leaves
  watch,    \* watchConsole: seenAWindow, idleSeconds, goneSeconds
  holder,   \* who holds the lock
  group,    \* the launcher's end of its group, and what the watchdog has done
  pending,  \* members of the group that SIGTERM has not reached yet
  server,
  run,      \* the run of that server
  safing,   \* a --safe of that server is running
  browser,  \* whose group the Chrome on the profile is in
  window,
  counted,  \* the server that has the page's /api/presence open
  mishaps, runs

mainVars == <<main, left, watch, holder, group, pending>>
serverVars == <<server, run, safing>>
pageVars == <<browser, window, counted>>
launcherVars == <<system, mainVars, serverVars, pageVars, mishaps, runs>>

Places == {"out", "lock", "handOver", "group", "server", "wait", "chrome", "watch",
           "report", "leave", "unlock", "gone"}

LauncherTypeOK ==
  /\ system \in Systems
  /\ main \in [Launchers -> Places]
  /\ left \in [Launchers -> {"no", "closed", "stopped", "failed", "shown", "killed"}]
  /\ watch \in [Launchers -> [seen : BOOLEAN, idle : 0..ClosedGrace, gone : 0..ServerGone]]
  /\ holder \in Launchers \cup {Nobody}
  /\ group \in [Launchers -> {"none", "held", "closed", "termed", "swept"}]
  /\ pending \in [Launchers -> SUBSET {"server", "run", "safe", "chrome"}]
  /\ server \in [Launchers -> {"none", "starting", "up", "dead"}]
  /\ run \in [Launchers -> {"none", "working", "stopping", "winding", "done", "killed", "cut"}]
  /\ safing \in [Launchers -> BOOLEAN]
  /\ browser \in Launchers \cup {Nobody, "detached"}
  /\ window \in [Windows -> {"closed", "loading", "open", "reloading", "slow"}]
  /\ counted \in [Windows -> Launchers \cup {Nobody}]
  /\ mishaps \in 0..MaxMishaps /\ runs \in 0..MaxRuns

LauncherInit ==
  /\ system \in Systems
  /\ main = [l \in Launchers |-> "out"] /\ left = [l \in Launchers |-> "no"]
  /\ watch = [l \in Launchers |-> [seen |-> FALSE, idle |-> 0, gone |-> 0]]
  /\ holder = Nobody /\ group = [l \in Launchers |-> "none"] /\ pending = [l \in Launchers |-> {}]
  /\ server = [l \in Launchers |-> "none"] /\ run = [l \in Launchers |-> "none"]
  /\ safing = [l \in Launchers |-> FALSE]
  /\ browser = Nobody /\ window = [w \in Windows |-> "closed"]
  /\ counted = [w \in Windows |-> Nobody]
  /\ mishaps = 0 /\ runs = 0

Mishap == mishaps < MaxMishaps /\ mishaps' = mishaps + 1

----------------------------------------------------------------------------
(* The browser: one Chrome has the profile, and a second one started on it *)
(* hands its window over and exits.                                        *)

Active(s) == run[s] \in {"working", "stopping", "winding"}
Up == {s \in Launchers : server[s] = "up"}
Lookers(s) == {w \in Windows : counted[w] = s}

\* A window in the Chrome that has the profile, or in a new one in group g.
OpenWindow(g) ==
  /\ browser' = IF browser = Nobody THEN g ELSE browser
  /\ IF \A w \in Windows : window[w] # "closed" THEN UNCHANGED window
     ELSE \E w \in Windows : window[w] = "closed" /\ window' = [window EXCEPT ![w] = "loading"]

\* The pages of a server that is gone try to connect again.
Unlinked(s) == [w \in Windows |-> IF window[w] = "open" /\ counted[w] = s THEN "loading" ELSE window[w]]
Forgotten(s) == [w \in Windows |-> IF counted[w] = s THEN Nobody ELSE counted[w]]

ServerDies(s) ==
  /\ server' = [server EXCEPT ![s] = "dead"]
  /\ counted' = Forgotten(s)

----------------------------------------------------------------------------
(* main().                                                                 *)

Start(l) ==
  /\ main[l] = "out" /\ main' = [main EXCEPT ![l] = "lock"]
  /\ UNCHANGED <<system, left, watch, holder, group, pending, serverVars, pageVars, mishaps, runs>>

GoesTo(l, place) == main' = [main EXCEPT ![l] = place]
Leaves(l, why) == GoesTo(l, "report") /\ left' = [left EXCEPT ![l] = why]

\* SingleInstance: flock, or a named mutex.
TakeLock(l) ==
  /\ main[l] = "lock"
  /\ \/ /\ holder = Nobody /\ holder' = l /\ GoesTo(l, "group") /\ UNCHANGED <<left, mishaps>>
     \/ /\ holder # Nobody /\ GoesTo(l, "handOver") /\ UNCHANGED <<left, holder, mishaps>>
     \/ /\ Mishap /\ Leaves(l, "failed") /\ UNCHANGED holder
  /\ UNCHANGED <<system, watch, group, pending, serverVars, pageVars, runs>>

\* A console is there already: ask for a window of it, outside any group.
HandOver(l) ==
  /\ main[l] = "handOver"
  /\ \/ /\ OpenWindow("detached")
        /\ GoesTo(l, "leave") /\ left' = [left EXCEPT ![l] = "shown"] /\ UNCHANGED mishaps
     \/ /\ Mishap /\ Leaves(l, "failed") /\ UNCHANGED <<browser, window>>
  /\ UNCHANGED <<system, watch, holder, group, pending, serverVars, counted, runs>>

\* ProcessGroup: the pipe and the watchdog, or the job.
MakeGroup(l) ==
  /\ main[l] = "group"
  /\ \/ group' = [group EXCEPT ![l] = "held"] /\ GoesTo(l, "server") /\ UNCHANGED <<left, mishaps>>
     \/ Mishap /\ Leaves(l, "failed") /\ UNCHANGED group
  /\ UNCHANGED <<system, watch, holder, pending, serverVars, pageVars, runs>>

SpawnServer(l) ==
  /\ main[l] = "server"
  /\ \/ server' = [server EXCEPT ![l] = "starting"] /\ GoesTo(l, "wait") /\ UNCHANGED <<left, mishaps>>
     \/ Mishap /\ Leaves(l, "failed") /\ UNCHANGED server
  /\ UNCHANGED <<system, watch, holder, group, pending, run, safing, pageVars, runs>>

\* waitForServer: an answer on the port, whoever gives it.
WaitForServer(l) ==
  /\ main[l] = "wait"
  /\ \/ Up # {} /\ GoesTo(l, "chrome") /\ UNCHANGED <<left, mishaps>>
     \/ Up = {} /\ server[l] = "dead" /\ Leaves(l, "failed") /\ UNCHANGED mishaps
     \/ Mishap /\ Leaves(l, "failed")
  /\ UNCHANGED <<system, watch, holder, group, pending, serverVars, pageVars, runs>>

SpawnChrome(l) ==
  /\ main[l] = "chrome"
  /\ \/ OpenWindow(l) /\ GoesTo(l, "watch") /\ UNCHANGED <<left, mishaps>>
     \/ Mishap /\ Leaves(l, "failed") /\ UNCHANGED <<browser, window>>
  /\ UNCHANGED <<system, watch, holder, group, pending, serverVars, counted, runs>>

----------------------------------------------------------------------------
(* watchConsole().                                                         *)

InTime ==
  /\ Up # {} => \A w \in Windows : window[w] # "slow"
  /\ \A k \in Launchers : server[k] # "starting"
  /\ \A k \in Launchers : group[k] # "closed" /\ "server" \notin pending[k]

Look(l) ==
  /\ main[l] = "watch" /\ InTime
  /\ window' = [w \in Windows |-> IF window[w] = "reloading" THEN "slow" ELSE window[w]]
  /\ UNCHANGED <<system, holder, group, pending, serverVars, browser, counted, runs>>

Saw(l, s) == watch[l].seen \/ Lookers(s) # {}

\* Nobody listens.
LookGone(l) ==
  /\ Look(l) /\ Up = {} /\ UNCHANGED mishaps
  /\ watch' = [watch EXCEPT ![l].gone = @ + 1, ![l].idle = 0]
  /\ IF watch[l].gone + 1 >= ServerGone THEN Leaves(l, "stopped") ELSE UNCHANGED <<main, left>>

\* A server that has the connection and does not answer in time.
LookHung(l) ==
  /\ Look(l) /\ Up # {} /\ Mishap
  /\ watch' = [watch EXCEPT ![l].gone = 0, ![l].idle = 0]
  /\ UNCHANGED <<main, left>>

\* Mutant: a run does not keep its console.
Unseen(l, s) == Lookers(s) = {} /\ watch[l].seen
Quiet(l, s) == Lookers(s) = {} /\ ~Active(s) /\ watch[l].seen

LookInUse(l, s) ==
  /\ Look(l) /\ ~Quiet(l, s)
  /\ watch' = [watch EXCEPT ![l] = [seen |-> Saw(l, s), idle |-> 0, gone |-> 0]]
  /\ UNCHANGED <<main, left, mishaps>>

LookQuiet(l, s) ==
  /\ Look(l) /\ Quiet(l, s)
  /\ watch' = [watch EXCEPT ![l].idle = @ + 1, ![l].gone = 0]
  /\ IF watch[l].idle + 1 >= ClosedGrace THEN GoesTo(l, "leave") /\ left' = [left EXCEPT ![l] = "closed"]
     ELSE UNCHANGED <<main, left>>
  /\ UNCHANGED mishaps

WatchConsole(l) ==
  \/ LookGone(l) \/ LookHung(l)
  \/ \E s \in Up : LookInUse(l, s) \/ LookQuiet(l, s)

----------------------------------------------------------------------------
(* The end of a launcher, and of its group.                                *)

\* reportError: a line or a dialog of its own; on Windows a box it waits behind.
Report(l) ==
  /\ main[l] = "report" /\ GoesTo(l, "leave")
  /\ UNCHANGED <<system, left, watch, holder, group, pending, serverVars, pageVars, mishaps, runs>>

\* All of group l at once: SIGKILL, or the job's end.
Swept(l) ==
  /\ group' = [group EXCEPT ![l] = "swept"] /\ pending' = [pending EXCEPT ![l] = {}]
  /\ server' = [server EXCEPT ![l] = IF @ = "none" THEN @ ELSE "dead"]
  /\ run' = [run EXCEPT ![l] = IF Active(l) THEN "cut" ELSE @]
  /\ safing' = [safing EXCEPT ![l] = FALSE]
  /\ counted' = Forgotten(l)
  /\ IF browser = l THEN browser' = Nobody /\ window' = [w \in Windows |-> "closed"]
     ELSE window' = Unlinked(l) /\ UNCHANGED browser

\* Mutant: the server inherits the write end.
GroupShared(l) ==
  IF group[l] # "held" \/ server[l] \in {"starting", "up"}
  THEN UNCHANGED <<group, pending, serverVars, pageVars>>
  ELSE group' = [group EXCEPT ![l] = "closed"] /\ UNCHANGED <<pending, serverVars, pageVars>>

\* The last handle to the group is closed: the pipe's write end is the
\* launcher's alone (FD_CLOEXEC), and so is the job's.
GroupCloses(l) ==
  IF group[l] # "held" THEN UNCHANGED <<group, pending, serverVars, pageVars>>
  ELSE IF system = "windows" THEN Swept(l)
  ELSE group' = [group EXCEPT ![l] = "closed"] /\ UNCHANGED <<pending, serverVars, pageVars>>

\* main returns: ~ProcessGroup, then ~SingleInstance.
Leave(l) ==
  /\ main[l] = "leave" /\ GroupCloses(l) /\ GoesTo(l, "unlock")
  /\ UNCHANGED <<system, left, watch, holder, mishaps, runs>>

Freed(l) == IF holder = l THEN Nobody ELSE holder

Unlock(l) ==
  /\ main[l] = "unlock" /\ holder' = Freed(l) /\ GoesTo(l, "gone")
  /\ UNCHANGED <<system, left, watch, group, pending, serverVars, pageVars, mishaps, runs>>

\* It crashes, or is killed: the kernel closes what it held.
Die(l) ==
  /\ main[l] \notin {"out", "gone"} /\ Mishap
  /\ GroupCloses(l) /\ holder' = Freed(l) /\ GoesTo(l, "gone")
  /\ left' = [left EXCEPT ![l] = "killed"]
  /\ UNCHANGED <<system, watch, runs>>

\* runWatchdog: end of file on the lifeline, SIGTERM, the grace, SIGKILL.
Members(l) ==
  {p \in {"server", "run", "safe", "chrome"} :
     \/ p = "server" /\ server[l] \in {"starting", "up"}
     \/ p = "run" /\ Active(l)
     \/ p = "safe" /\ safing[l]
     \/ p = "chrome" /\ browser = l}

Terminate(l) ==
  /\ group[l] = "closed"
  /\ group' = [group EXCEPT ![l] = "termed"] /\ pending' = [pending EXCEPT ![l] = Members(l)]
  /\ UNCHANGED <<system, main, left, watch, holder, serverVars, pageVars, mishaps, runs>>

Sweep(l) ==
  /\ group[l] = "termed" /\ Swept(l)
  /\ UNCHANGED <<system, main, left, watch, holder, mishaps, runs>>

----------------------------------------------------------------------------
(* The children.                                                           *)

Signalled(l, p) == p \in pending[l] /\ pending' = [pending EXCEPT ![l] = @ \ {p}]

\* listen() shares the port (SO_REUSEPORT), so another server does not stop it.
ServerUp(l) ==
  /\ server[l] = "starting" /\ server' = [server EXCEPT ![l] = "up"]
  /\ UNCHANGED <<system, mainVars, run, safing, pageVars, mishaps, runs>>

\* It has no handler for SIGTERM; or it crashes.
ServerEnds(l) ==
  /\ server[l] \in {"starting", "up"} /\ ServerDies(l) /\ window' = Unlinked(l)
  /\ \/ Signalled(l, "server") /\ UNCHANGED mishaps
     \/ Mishap /\ UNCHANGED pending
  /\ UNCHANGED <<system, main, left, watch, holder, group, run, safing, browser, runs>>

\* The run's stdin is at its end: stop_sources, ConsoleGone.
StdinEnds(l) ==
  /\ run[l] = "working" /\ server[l] = "dead" /\ run' = [run EXCEPT ![l] = "winding"]
  /\ UNCHANGED <<system, mainVars, server, safing, pageVars, mishaps, runs>>

\* onStopSignal: a first request is a stop, one more ends the process.
RunSignalled(l) ==
  /\ Active(l) /\ Signalled(l, "run")
  /\ run' = [run EXCEPT ![l] = IF @ = "working" THEN "stopping" ELSE "cut"]
  /\ UNCHANGED <<system, main, left, watch, holder, group, server, safing, pageVars, mishaps, runs>>

\* Teardowns done and the rig safed.
RunEnds(l) ==
  /\ Active(l) /\ run' = [run EXCEPT ![l] = "done"]
  /\ UNCHANGED <<system, mainVars, server, safing, pageVars, mishaps, runs>>

\* --safe ends by itself, or by the signal, for which it has no handler yet.
SafeEnds(l) ==
  /\ safing[l] /\ safing' = [safing EXCEPT ![l] = FALSE]
  /\ UNCHANGED pending \/ Signalled(l, "safe")
  /\ UNCHANGED <<system, main, left, watch, holder, group, server, run, pageVars, mishaps, runs>>

ChromeSignalled(l) ==
  /\ browser = l /\ Signalled(l, "chrome")
  /\ browser' = Nobody /\ window' = [w \in Windows |-> "closed"]
  /\ UNCHANGED <<system, main, left, watch, holder, group, serverVars, counted, mishaps, runs>>

----------------------------------------------------------------------------
(* The operator and the pages.                                             *)

Connect(w, s) ==
  /\ window[w] \in {"loading", "reloading", "slow"} /\ s \in Up
  /\ window' = [window EXCEPT ![w] = "open"] /\ counted' = [counted EXCEPT ![w] = s]
  /\ UNCHANGED <<system, mainVars, serverVars, browser, mishaps, runs>>

\* The server's next ping finds that the page has gone.
Miss(w) ==
  /\ window[w] # "open" /\ counted[w] # Nobody /\ counted' = [counted EXCEPT ![w] = Nobody]
  /\ UNCHANGED <<system, mainVars, serverVars, browser, window, mishaps, runs>>

\* Not in the second in which the page opened: the launcher has seen it.
Reload(w) ==
  /\ \A l \in Launchers : main[l] = "watch" => watch[l].idle = 0
  /\ window[w] = "open" /\ window' = [window EXCEPT ![w] = "reloading"] /\ Mishap
  /\ UNCHANGED <<system, mainVars, serverVars, browser, counted, runs>>

\* But for macOS, a Chrome exits with its last window.
CloseWindow(w) ==
  /\ window[w] # "closed" /\ window' = [window EXCEPT ![w] = "closed"]
  /\ browser' = IF system # "mac" /\ \A x \in Windows \ {w} : window[x] = "closed" THEN Nobody ELSE browser
  /\ UNCHANGED <<system, mainVars, serverVars, counted, mishaps, runs>>

\* From an open page of server s: Run, Stop, and the emergency with its --safe.
PressRun(w) ==
  LET s == counted[w] IN
  /\ window[w] = "open" /\ ~Active(s) /\ runs < MaxRuns /\ runs' = runs + 1
  /\ run' = [run EXCEPT ![s] = "working"]
  /\ UNCHANGED <<system, mainVars, server, safing, pageVars, mishaps>>

PressStop(w) ==
  LET s == counted[w] IN
  /\ window[w] = "open" /\ run[s] = "working" /\ run' = [run EXCEPT ![s] = "stopping"]
  /\ UNCHANGED <<system, mainVars, server, safing, pageVars, mishaps, runs>>

PressEmergency(w) ==
  LET s == counted[w] IN
  /\ window[w] = "open" /\ Active(s)
  /\ run' = [run EXCEPT ![s] = "killed"] /\ safing' = [safing EXCEPT ![s] = TRUE]
  /\ UNCHANGED <<system, mainVars, server, pageVars, mishaps, runs>>

----------------------------------------------------------------------------
AllGone ==
  /\ \A l \in Launchers : main[l] = "gone" /\ group[l] \in {"none", "swept"}
  /\ UNCHANGED launcherVars

Main(l) ==
  \/ TakeLock(l) \/ HandOver(l) \/ MakeGroup(l) \/ SpawnServer(l) \/ WaitForServer(l) \/ SpawnChrome(l)
  \/ WatchConsole(l) \/ Report(l) \/ Leave(l) \/ Unlock(l)

LauncherNext ==
  \/ \E l \in Launchers :
       \/ Start(l) \/ Main(l) \/ Die(l) \/ Terminate(l) \/ Sweep(l)
       \/ ServerUp(l) \/ ServerEnds(l) \/ StdinEnds(l) \/ RunSignalled(l) \/ RunEnds(l)
       \/ SafeEnds(l) \/ ChromeSignalled(l)
  \/ \E w \in Windows :
       \/ \E s \in Launchers : Connect(w, s)
       \/ Miss(w) \/ Reload(w) \/ CloseWindow(w) \/ PressRun(w) \/ PressStop(w) \/ PressEmergency(w)
  \/ AllGone

LauncherSpec == LauncherInit /\ [][LauncherNext]_launcherVars

\* Processes get their turns, an error box is answered, a run that was asked to
\* stop stops, and a page that reloads comes back. A run left alone may go on.
LauncherFairness ==
  /\ \A l \in Launchers :
       /\ WF_launcherVars(Main(l)) /\ WF_launcherVars(Terminate(l)) /\ WF_launcherVars(Sweep(l)) /\ WF_launcherVars(ServerUp(l))
       /\ WF_launcherVars(StdinEnds(l)) /\ WF_launcherVars(run[l] # "working" /\ RunEnds(l)) /\ WF_launcherVars(SafeEnds(l))
  /\ \A w \in Windows :
       /\ WF_launcherVars(Miss(w))
       /\ WF_launcherVars(window[w] # "loading" /\ \E s \in Launchers : Connect(w, s))

LauncherFairSpec == LauncherSpec /\ LauncherFairness

----------------------------------------------------------------------------
(* What must hold.                                                         *)

\* Two consoles at once, or two of their runs on the rig, are one console and
\* what the last one has not lost yet: the lock outlasts the group, however
\* either launcher ends (README.md, "Refuses to be a second console").
Alive(l) == server[l] \in {"starting", "up"} \/ Active(l)
OneConsole ==
  \A l, k \in Launchers : l # k /\ Alive(l) /\ Alive(k) => left[l] # "no" \/ left[k] # "no"

\* A launcher ends its console because the windows are closed only with its run
\* over and no page open or being reloaded, and because the server has gone only
\* when it has: "a run must never die because a window closed" (main.cpp).
QuitsOnlyWhenDone ==
  \A l \in Launchers : left[l] = "no" =>
    /\ left'[l] = "closed" => ~Active(l) /\ \A w \in Windows : window[w] \in {"closed", "loading"}
    /\ left'[l] = "stopped" => server[l] = "dead"
ConsoleIsKept == []OneConsole /\ [][QuitsOnlyWhenDone]_launcherVars

\* Whatever a launcher started through its group goes down with it, however it
\* ended (platform.hpp, ProcessGroup).
NothingIsLeft ==
  \A l \in Launchers : main[l] = "gone" ~> ~Alive(l) /\ ~safing[l] /\ browser # l
\* A console that a window was seen of ends once nobody looks and nothing runs.
ClosedConsoleEnds ==
  \A l \in Launchers :
    <>[](main[l] = "watch" /\ watch[l].seen)
      => []<>((\E w \in Windows : window[w] # "closed") \/ \E s \in Launchers : Active(s))
ConsolesEnd == NothingIsLeft /\ ClosedConsoleEnds
=============================================================================
