----------------------------- MODULE RunSession -----------------------------
(***************************************************************************)
(* The web console's one run at a time and everyone who watches it         *)
(* (framework/webui/src/run_session.cpp, and the handlers of main.cpp that *)
(* drive it). Each request is served by a thread of its own: POST /api/run,*)
(* /api/stop, /safe and /api/emergency, GET /api/log, and an SSE           *)
(* connection per open page. mMutex is held across a whole start(), forks  *)
(* included; every other use of it is one critical section, one step here. *)
(*                                                                         *)
(* Bounds: each request is made and each page connects once; a run writes  *)
(* at most MaxLines[r][s] lines to stream s. A log line is                 *)
(* <<run, stream, number>>.                                                *)
(***************************************************************************)
EXTENDS ChildStream, Sequences

CONSTANTS
  Runs,         \* POST /api/run requests; each names the run it may start
  Safes,        \* POST /safe requests
  Emergencies,  \* POST /api/emergency requests
  Viewers,      \* open pages following the run
  Downloads,    \* GET /api/log requests
  Worlds,       \* the sets of clients that may come, for TLC to choose from
  NoRun

ASSUME ChildrenAreRequests ==
  /\ Children = Runs \cup Safes \cup Emergencies
  /\ Runs \cap (Safes \cup Emergencies) = {}
  /\ Safes \cap Emergencies = {}
  /\ NoRun \notin Children
ASSUME WorldsAreClients ==
  Worlds \subseteq SUBSET (Children \cup Viewers \cup Downloads)

VARIABLES
  mMutex,   \* the run whose start() holds it, or NoRun when it is free
  mActive,
  mChild,   \* the run whose ChildStream the session owns, or NoRun
  mLines,
  request,  \* where each request's handler is
  victim,   \* emergencies: the run it killed, or NoRun
  report,   \* emergencies: what kill() returned, and whether the run was over then
  page,     \* viewers: where the page is, its `from`, and the lines it was sent
  download  \* log requests: whether it has asked, and the run whose log it sent

sessionVars == <<mMutex, mActive, mChild, mLines>>
requestVars == <<request, victim, report>>
vars == <<childVars, sessionVars, requestVars, page, download>>

Lines == Runs \X Streams \X Nat

TypeOK ==
  /\ ChildTypeOK
  /\ mMutex \in Runs \cup {NoRun}
  /\ mActive \in BOOLEAN
  /\ mChild \in Runs \cup {NoRun}
  /\ mLines \in Seq(Lines)
  /\ request \in [Children -> {"absent", "asked", "joining", "waiting", "spawning", "answered", "refused"}]
  /\ victim \in [Emergencies -> Runs \cup {NoRun}]
  /\ report \in [Emergencies -> [killed : BOOLEAN, over : BOOLEAN]]
  /\ page \in [Viewers -> [state : {"absent", "asked", "following", "ended"},
                           from : Nat, got : Seq(Lines)]]
  /\ download \in [Downloads -> [state : {"absent", "asked", "checked", "answered"},
                                of : Runs \cup {NoRun}]]

Comes(who, world) == IF who \in world THEN "asked" ELSE "absent"

Init ==
  /\ ChildInit
  /\ mMutex = NoRun
  /\ mActive = FALSE
  /\ mChild = NoRun
  /\ mLines = <<>>
  /\ victim = [e \in Emergencies |-> NoRun]
  /\ report = [e \in Emergencies |-> [killed |-> FALSE, over |-> FALSE]]
  /\ \E world \in Worlds :
       /\ request = [c \in Children |-> Comes(c, world)]
       /\ page = [v \in Viewers |-> [state |-> Comes(v, world), from |-> 0, got |-> <<>>]]
       /\ download = [d \in Downloads |-> [state |-> Comes(d, world), of |-> NoRun]]

Goes(c, where) == request' = [request EXCEPT ![c] = where]
Free == mMutex = NoRun

----------------------------------------------------------------------------
(* POST /api/run: RunSession::start, under mMutex from end to end.         *)

Refuse(r) ==
  /\ request[r] = "asked"
  /\ Free
  /\ mActive
  /\ Goes(r, "refused")
  /\ UNCHANGED <<childVars, sessionVars, victim, report, page, download>>

\* The log a new run starts with.
NewLog == <<>>

Claim(r) ==
  /\ request[r] = "asked"
  /\ Free
  /\ ~mActive
  /\ mMutex' = r
  /\ mActive' = TRUE
  /\ mLines' = NewLog
  /\ Goes(r, "joining")
  /\ UNCHANGED <<childVars, mChild, victim, report, page, download>>

\* ~ChildStream of the previous run joins its reader.
ReplaceChild(r) ==
  /\ request[r] = "joining"
  /\ mChild # NoRun => reader[mChild] \in {"none", "done"}
  /\ mChild' = r
  /\ Goes(r, "spawning")
  /\ UNCHANGED <<childVars, mMutex, mActive, mLines, victim, report, page, download>>

Pipes(c) ==
  /\ request[c] = "spawning"
  /\ MakePipes(c)
  /\ UNCHANGED <<sessionVars, requestVars, page, download>>

Forks(c) == Fork(c) /\ UNCHANGED <<sessionVars, requestVars, page, download>>

Closes(c) == CloseEnds(c) /\ UNCHANGED <<sessionVars, requestVars, page, download>>

RunFails(r) ==
  /\ SpawnFails(r)
  /\ mActive' = FALSE
  /\ mChild' = NoRun
  /\ mMutex' = NoRun
  /\ Goes(r, "refused")
  /\ UNCHANGED <<mLines, victim, report, page, download>>

RunStarts(r) ==
  /\ StartReaders(r)
  /\ mMutex' = NoRun
  /\ Goes(r, "answered")
  /\ UNCHANGED <<mActive, mChild, mLines, victim, report, page, download>>

----------------------------------------------------------------------------
(* What the reader threads call back.                                      *)

\* OnLine and OnStderrLine.
Deliver(r, s) ==
  /\ Free
  /\ HandOn(r, s)
  /\ mLines' = Append(mLines, <<r, s, read'[r][s]>>)
  /\ UNCHANGED <<mMutex, mActive, mChild, requestVars, page, download>>

\* OnExit of a followed run. runBlocking's only keeps the exit code.
RunExits(r) ==
  /\ reader[r] = "exited"
  /\ Free
  /\ reader' = [reader EXCEPT ![r] = "leaving"]
  /\ mActive' = FALSE
  /\ UNCHANGED <<stage, proc, held, stdinHeld, wrote, read, errReader, stdinOpen, reaped, told>>
  /\ UNCHANGED <<mMutex, mChild, mLines, requestVars, page, download>>

SafeExits(c) ==
  /\ reader[c] = "exited"
  /\ reader' = [reader EXCEPT ![c] = "leaving"]
  /\ UNCHANGED <<stage, proc, held, stdinHeld, wrote, read, errReader, stdinOpen, reaped, told>>
  /\ UNCHANGED <<sessionVars, requestVars, page, download>>

Progress(c) == ReaderSteps(c) /\ UNCHANGED <<sessionVars, requestVars, page, download>>

StderrDone(c) == StderrEnds(c) /\ UNCHANGED <<sessionVars, requestVars, page, download>>

\* Mutant: OnExit takes mMutex a second time, after clearing mActive.
LocksAgain == Free

\* Nothing OnExit does after its one critical section needs mMutex.
NothingLeft == TRUE

Returns(c) ==
  /\ NothingLeft
  /\ ReaderReturns(c)
  /\ UNCHANGED <<sessionVars, requestVars, page, download>>

RunActs(r) ==
  /\ OwnSteps(r)
  /\ UNCHANGED <<sessionVars, requestVars, page, download>>

\* A --safe writes nothing anyone follows.
SafeActs(c) ==
  /\ Exit(c) \/ BecomeZombie(c)
  /\ UNCHANGED <<sessionVars, requestVars, page, download>>

----------------------------------------------------------------------------
(* POST /api/stop: one critical section; a page may ask at any time.       *)

Stop ==
  /\ Free
  /\ mActive
  /\ mChild # NoRun
  /\ StopDelivered(mChild)
  /\ UNCHANGED <<sessionVars, requestVars, page, download>>

----------------------------------------------------------------------------
(* POST /safe and POST /api/emergency: runBlocking, after a kill in the    *)
(* second. Neither is gated on the session.                                *)

SafeAsked(c) ==
  /\ request[c] = "asked"
  /\ Goes(c, "spawning")
  /\ UNCHANGED <<childVars, sessionVars, victim, report, page, download>>

SafeStarts(c) == StartReaders(c) /\ UNCHANGED <<sessionVars, requestVars, page, download>>

SafeFails(c) ==
  /\ SpawnFails(c)
  /\ Goes(c, "answered")
  /\ UNCHANGED <<sessionVars, victim, report, page, download>>

\* join() returns and the reply is sent.
SafeAnswered(c) ==
  /\ request[c] = "spawning"
  /\ reader[c] = "done"
  /\ Goes(c, "answered")
  /\ UNCHANGED <<childVars, sessionVars, victim, report, page, download>>

CanKill == mActive /\ mChild # NoRun /\ ~reaped[mChild]

NothingToKill(e) ==
  /\ request[e] = "asked"
  /\ Free
  /\ mChild # NoRun => MutexFree(mChild)
  /\ ~CanKill
  /\ Goes(e, "spawning")
  /\ UNCHANGED <<childVars, sessionVars, victim, report, page, download>>

Kill(e) ==
  /\ request[e] = "asked"
  /\ Free
  /\ CanKill
  /\ MutexFree(mChild)
  /\ Signal(mChild)
  /\ victim' = [victim EXCEPT ![e] = mChild]
  /\ Goes(e, "waiting")
  /\ UNCHANGED <<sessionVars, report, page, download>>

KillReturns(e, killed) ==
  /\ request[e] = "waiting"
  /\ Free
  /\ report' = [report EXCEPT ![e] = [killed |-> killed, over |-> proc[victim[e]] = "reaped"]]
  /\ Goes(e, "spawning")
  /\ UNCHANGED <<childVars, sessionVars, victim, page, download>>

\* The five seconds may be over at any time.
WaitIsOver(e) == TRUE

KillObserved(e) == ~mActive /\ KillReturns(e, TRUE)

KillGivesUp(e) == mActive /\ WaitIsOver(e) /\ KillReturns(e, FALSE)

----------------------------------------------------------------------------
(* GET /api/events: waitForUpdate and the frames it sends, once per round. *)

\* The lines from `from` on: none when the log is shorter than that.
Update(from) == SubSeq(mLines, from + 1, Len(mLines))

\* Woken, or after fifteen seconds with nothing new.
Follow(v) ==
  /\ page[v].state \in {"asked", "following"}
  /\ Free
  /\ page' = [page EXCEPT ![v] =
       [state |-> IF mActive THEN "following" ELSE "ended",
        from |-> Len(mLines),
        got |-> @.got \o Update(@.from)]]
  /\ UNCHANGED <<childVars, sessionVars, requestVars, download>>

----------------------------------------------------------------------------
(* GET /api/log: active() and lines() are two critical sections.           *)

LogChecked(d) ==
  /\ download[d].state = "asked"
  /\ Free
  /\ ~mActive
  /\ download' = [download EXCEPT ![d].state = "checked"]
  /\ UNCHANGED <<childVars, sessionVars, requestVars, page>>

\* The first line on stdout, runStart, names the log files.
Named == { r \in Runs : \E i \in 1..Len(mLines) : mLines[i] = <<r, "out", 1>> }

LogSent(d) ==
  /\ download[d].state = "checked"
  /\ Free
  /\ \E r \in IF Named = {} THEN {NoRun} ELSE Named :
       download' = [download EXCEPT ![d] = [state |-> "answered", of |-> r]]
  /\ UNCHANGED <<childVars, sessionVars, requestVars, page>>

----------------------------------------------------------------------------
Blocking == Safes \cup Emergencies

Finished ==
  /\ \A c \in Children : request[c] \in {"absent", "answered", "refused"}
  /\ \A c \in Children : reader[c] \in {"none", "done"}
  /\ UNCHANGED vars

Next ==
  \/ \E r \in Runs :
       \/ Refuse(r) \/ Claim(r) \/ ReplaceChild(r)
       \/ RunFails(r) \/ RunStarts(r) \/ RunExits(r) \/ RunActs(r)
       \/ \E s \in Streams : Deliver(r, s)
  \/ \E c \in Children :
       \/ Pipes(c) \/ Forks(c) \/ Closes(c)
       \/ Progress(c) \/ StderrDone(c) \/ Returns(c)
  \/ \E c \in Blocking :
       \/ SafeStarts(c) \/ SafeFails(c) \/ SafeExits(c) \/ SafeActs(c) \/ SafeAnswered(c)
  \/ \E c \in Safes : SafeAsked(c)
  \/ \E e \in Emergencies :
       \/ NothingToKill(e) \/ Kill(e) \/ KillObserved(e) \/ KillGivesUp(e)
  \/ \E v \in Viewers : Follow(v)
  \/ \E d \in Downloads : LogChecked(d) \/ LogSent(d)
  \/ Stop
  \/ Finished

Spec == Init /\ [][Next]_vars

EndsWhenTold(r) ==
  /\ told[r] \/ proc[r] # "alive"
  /\ Exit(r) \/ BecomeZombie(r)
  /\ UNCHANGED <<sessionVars, requestVars, page, download>>

\* The threads of the server: of a request, and the two that read a child.
RequestThread(c) ==
  \/ Pipes(c) \/ Forks(c) \/ Closes(c)
  \/ c \in Runs /\ (ReplaceChild(c) \/ RunFails(c) \/ RunStarts(c))
  \/ c \in Blocking /\ (SafeStarts(c) \/ SafeFails(c) \/ SafeAnswered(c))
  \/ c \in Emergencies /\ (KillObserved(c) \/ KillGivesUp(c))

ReaderThread(c) ==
  \/ Progress(c) \/ Returns(c)
  \/ c \in Runs /\ (Deliver(c, "out") \/ RunExits(c))
  \/ c \in Blocking /\ SafeExits(c)

StderrThread(c) == StderrDone(c) \/ (c \in Runs /\ Deliver(c, "err"))

Ending(c) == IF c \in Runs THEN EndsWhenTold(c) ELSE SafeActs(c)

\* Threads are scheduled (mMutex is free again for good after a bounded number
\* of starts, so weak fairness lets everyone have it), a --safe ends by itself,
\* and a run ends once it is told to or killed. A run left alone may go on
\* for ever, and nobody is bound to ask for anything.
Fairness ==
  \A c \in Children :
    /\ WF_vars(RequestThread(c))
    /\ WF_vars(ReaderThread(c))
    /\ WF_vars(StderrThread(c))
    /\ WF_vars(Ending(c))

FairSpec == Spec /\ Fairness

----------------------------------------------------------------------------
(* Safety.                                                                 *)

OnRig == { r \in Runs : proc[r] \in OnTheRig }

Slot == INSTANCE RunSlot WITH
  slot <- IF ~mActive THEN NoRun ELSE IF Free THEN mChild ELSE mMutex,
  onRig <- OnRig

\* One run at a time (run_session.hpp:17-20): a second run is let in only
\* when the first one's process has gone, whatever stops, kills, failed
\* starts and late readers there are.
OneRunAtATime == Slot!Spec

\* A SIGKILL never goes to a pid that has been reaped and may be another
\* process's by now (child_stream.cpp:592-598).
KillOnlyOurs ==
  [][\A e \in Emergencies :
       victim'[e] # victim[e] => proc[victim'[e]] \notin {"none", "reaped"}]_vars

\* What mLines holds is the owned run's and nobody else's, each stream in
\* the order it was written: no late line of the run before ever lands in
\* the new run's log (run_session.cpp:58-86). Once the run is no longer active
\* it is all the run wrote, stderr included: StillRunning = FALSE means there
\* is nothing more to ask for (run_session.hpp:49, child_stream.cpp:585-588).
LogIsTheRuns ==
  /\ \A i \in 1..Len(mLines) :
       /\ mLines[i][1] = mChild
       /\ mLines[i][3] > 1 => \E j \in 1..(i - 1) :
            mLines[j] = <<mLines[i][1], mLines[i][2], mLines[i][3] - 1>>
  /\ ~mActive /\ mChild # NoRun =>
       Len(mLines) = wrote[mChild]["out"] + wrote[mChild]["err"]

\* A page that was told the run is over, while that run is still the last
\* one, has been sent its whole log (run_session.cpp:146-153).
EndedPageSawItAll ==
  \A v \in Viewers :
    page[v].state = "ended" /\ ~mActive /\ mLines # <<>> /\ page[v].got # <<>>
      /\ page[v].got[1] = mLines[1]
    => page[v].got = mLines

\* A run's log is that run's, all of it, and what a page has of it (a reader
\* thread for each stream, one log, a thread for each page: child_stream.cpp:585).
LogIsWhole == LogIsTheRuns /\ EndedPageSawItAll

\* When kill() reports success the process it killed is gone, so the --safe
\* that follows has the rig to itself as far as that run is concerned
\* (run_session.hpp:79-84).
KilledIsGone ==
  \A e \in Emergencies : report[e].killed => report[e].over

----------------------------------------------------------------------------
(* Liveness, under Fairness.                                               *)

\* A run that is told to stop, is killed or ends by itself is seen to have
\* ended: its readers reach the end of pipes other children may hold too.
EndIsNoticed ==
  \A r \in Runs : told[r] \/ proc[r] \in {"dying", "exiting", "zombie"} ~> reader[r] = "done"

\* No request waits for ever: start(), which joins the last run's reader under
\* the mutex that reader's handlers take (run_session.cpp:61-66), gets it back,
\* and an emergency is answered, also if another page starts a run before it
\* wakes, unless a run that was forked while the emergency's own pipes were
\* open goes on holding them.
WaitsEnd ==
  /\ \A r \in Runs : request[r] = "joining" ~> Free
  /\ \A e \in Emergencies :
       request[e] = "waiting" ~> \/ request[e] = "answered"
                                \/ held[e] \cap Runs # {}

============================================================================
