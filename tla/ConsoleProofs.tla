---------------------------- MODULE ConsoleProofs ---------------------------
(***************************************************************************)
(* Proofs about RunSession and ChildStream, for any number of requests,    *)
(* pages and lines: the console lets one run onto the rig at a time, kills *)
(* only a process of its own that still exists and says so truthfully, and *)
(* its log and the pages that follow it hold that run's lines, all of      *)
(* them.  And proofs about Launcher, for any number of launchers.          *)
(***************************************************************************)
EXTENDS RunSession, Launcher, SequenceTheorems, TLAPS

\* How far start() has got says whether there is a process and readers.
Spawned(c) ==
  /\ stage[c] \in {"unused", "piped", "failed"} <=> proc[c] = "none"
  /\ stage[c] = "started" <=> reader[c] # "none"
  /\ reader[c] = "none" <=> errReader[c] = "none"
  /\ reader[c] = "none" => read[c]["out"] = 0 /\ read[c]["err"] = 0

\* The reader thread alone reaps, and says so before it reports the exit.
Reaping(c) ==
  /\ proc[c] = "reaped" <=> reader[c] \in {"locked", "exited", "leaving", "done"}
  /\ reaped[c] = TRUE <=> reader[c] \in {"exited", "leaving", "done"}

\* A process that can still write holds its own pipes, so a stream has ended
\* only after the process, with everything it wrote handed on.
Streamed(c) ==
  /\ stage[c] \in {"piped", "forked"} => Server \in held[c]
  /\ proc[c] \in {"alive", "dying"} => c \in held[c]
  /\ reader[c] \notin {"none", "reading"} =>
       proc[c] \in {"exiting", "zombie", "reaped"} /\ read[c]["out"] = wrote[c]["out"]
  /\ errReader[c] = "done" =>
       proc[c] \in {"exiting", "zombie", "reaped"} /\ read[c]["err"] = wrote[c]["err"]
  /\ reader[c] \notin {"none", "reading", "joining"} => errReader[c] = "done"

ChildInv == ChildTypeOK /\ \A c \in Children : Spawned(c) /\ Reaping(c) /\ Streamed(c)

\* Where start() of a run is: it holds the mutex from the claim to the answer.
Starting(r) ==
  /\ request[r] \in {"absent", "asked"} => stage[r] = "unused"
  /\ request[r] = "joining" => mMutex = r /\ stage[r] = "unused"
  /\ request[r] = "spawning" =>
       mMutex = r /\ mChild = r /\ stage[r] \in {"unused", "piped", "forked", "closed"}
  /\ request[r] = "answered" => stage[r] = "started"
  /\ request[r] = "refused" => stage[r] \in {"unused", "failed"}
  /\ request[r] # "waiting"

\* Every run but the owned one is over, its reader joined, or never began.
Over(r) == stage[r] \in {"unused", "failed"} \/ r = mChild \/ reader[r] = "done"

\* The owned run's exit has been reported, or there is none.
Reported == mChild = NoRun \/ reader[mChild] \in {"leaving", "done"}

\* mActive covers the owned run from the claim to the exit report.
Owned ==
  /\ ~Free => mActive /\ mLines = <<>> /\ request[mMutex] \in {"joining", "spawning"}
  /\ ~Free /\ request[mMutex] = "joining" => Reported
  /\ ~mActive => Reported
  /\ mActive /\ Free => mChild # NoRun /\ stage[mChild] = "started" /\ ~Reported

\* An emergency that waits has killed a run that was started.
Victims ==
  \A e \in Emergencies :
    request[e] = "waiting" => victim[e] \in Runs /\ stage[victim[e]] = "started"

SessionInv ==
  /\ TypeOK
  /\ \A r \in Runs : Starting(r) /\ Over(r)
  /\ Owned
  /\ Victims

\* The log has what the readers of the owned run have handed on, once each
\* and every stream in order.
LogSoFar ==
  /\ \A i \in 1..Len(mLines) : mLines[i][1] = mChild
  /\ Free /\ mChild # NoRun =>
       /\ Len(mLines) = read[mChild]["out"] + read[mChild]["err"]
       /\ \A s \in Streams : \A n \in 1..read[mChild][s] :
            \E i \in 1..Len(mLines) : mLines[i] = <<mChild, s, n>>
  /\ \A i \in 1..Len(mLines) :
       mLines[i][3] > 1 => \E j \in 1..(i - 1) :
         mLines[j] = <<mLines[i][1], mLines[i][2], mLines[i][3] - 1>>

\* A page whose first line is the owned run's has a prefix of its log, and
\* the whole of it once it was told the run is over.
PageSoFar(v) ==
  /\ page[v].got = <<>> => page[v].from = 0
  /\ page[v].got # <<>> => stage[page[v].got[1][1]] = "started"
  /\ page[v].got # <<>> /\ page[v].got[1][1] = mChild /\ Free =>
       /\ page[v].from <= Len(mLines)
       /\ page[v].got = SubSeq(mLines, 1, page[v].from)
       /\ page[v].state = "ended" => ~mActive /\ page[v].from = Len(mLines)

IInv ==
  /\ ChildInv /\ SessionInv /\ LogSoFar /\ \A v \in Viewers : PageSoFar(v)
  /\ KilledIsGone

----------------------------------------------------------------------------
(* One child.                                                              *)

\* The reader thread reports the exit, whoever is told of it.
Reports(c) ==
  /\ reader[c] = "exited"
  /\ reader' = [reader EXCEPT ![c] = "leaving"]
  /\ UNCHANGED <<stage, proc, held, stdinHeld, wrote, read, errReader, stdinOpen, reaped, told>>

\* Everything that can happen to a child.
ChildStep(c) ==
  \/ MakePipes(c) \/ SpawnFails(c) \/ Fork(c) \/ CloseEnds(c) \/ StartReaders(c)
  \/ Exit(c) \/ BecomeZombie(c) \/ Signal(c) \/ StopDelivered(c)
  \/ \E s \in Streams : WriteLine(c, s) \/ HandOn(c, s)
  \/ StdoutEnds(c) \/ StderrEnds(c) \/ JoinStderr(c) \/ Waitpid(c) \/ MarkReaped(c)
  \/ Reports(c) \/ ReaderReturns(c)
  \/ UNCHANGED childVars

\* A child's step keeps the types of all of them.
LEMMA ChildTypes ==
  ASSUME ChildTypeOK, NEW c \in Children, ChildStep(c)
  PROVE  ChildTypeOK'
<1> USE DEF ChildTypeOK, Streams, Holders
<1>1. CASE MakePipes(c)
  BY <1>1 DEF MakePipes
<1>2. CASE SpawnFails(c)
  BY <1>2 DEF SpawnFails
<1>3. CASE Fork(c)
  BY <1>3 DEF Fork
<1>4. CASE CloseEnds(c)
  BY <1>4 DEF CloseEnds, ParentCloses
<1>5. CASE StartReaders(c)
  BY <1>5 DEF StartReaders
<1>6. CASE \E s \in Streams : WriteLine(c, s)
  <2>1. PICK s \in Streams : WriteLine(c, s)
    BY <1>6
  <2>2. wrote' \in [Children -> [Streams -> Nat]] /\ UNCHANGED read
    BY <2>1 DEF WriteLine
  <2>3. \A d \in Children, t \in Streams :
          read[d][t] <= wrote'[d][t] /\ wrote'[d][t] <= MaxLines[d][t]
    <3> SUFFICES ASSUME NEW d \in Children, NEW t \in Streams
                 PROVE  read[d][t] <= wrote'[d][t] /\ wrote'[d][t] <= MaxLines[d][t]
      OBVIOUS
    <3>1. /\ read[d][t] \in Nat /\ wrote[d][t] \in Nat /\ MaxLines[d][t] \in Nat
          /\ read[d][t] <= wrote[d][t] /\ wrote[d][t] <= MaxLines[d][t]
      BY MaxLinesIsBound
    <3>2. CASE d = c /\ t = s
      <4>1. wrote'[d][t] = wrote[d][t] + 1 /\ wrote[d][t] < MaxLines[d][t]
        BY <2>1, <3>2 DEF WriteLine
      <4> QED
        BY <3>1, <4>1
    <3>3. CASE ~(d = c /\ t = s)
      <4>1. wrote'[d][t] = wrote[d][t]
        BY <2>1, <3>3 DEF WriteLine
      <4> QED
        BY <3>1, <4>1
    <3> QED
      BY <3>2, <3>3
  <2> QED
    BY <2>1, <2>2, <2>3 DEF WriteLine
<1>7. CASE Exit(c)
  BY <1>7 DEF Exit
<1>8. CASE BecomeZombie(c)
  BY <1>8 DEF BecomeZombie
<1>9. CASE \E s \in Streams : HandOn(c, s)
  BY <1>9 DEF HandOn, CanRead
<1>10. CASE StdoutEnds(c)
  BY <1>10 DEF StdoutEnds, AfterStdout, AtEof
<1>11. CASE StderrEnds(c)
  BY <1>11 DEF StderrEnds, AtEof
<1>12. CASE JoinStderr(c)
  BY <1>12 DEF JoinStderr, AfterStderr
<1>13. CASE Waitpid(c)
  BY <1>13 DEF Waitpid
<1>14. CASE MarkReaped(c)
  BY <1>14 DEF MarkReaped
<1>15. CASE Reports(c)
  BY <1>15 DEF Reports
<1>16. CASE ReaderReturns(c)
  BY <1>16 DEF ReaderReturns
<1>17. CASE StopDelivered(c)
  BY <1>17 DEF StopDelivered
<1>18. CASE Signal(c)
  BY <1>18 DEF Signal
<1>19. CASE UNCHANGED childVars
  BY <1>19 DEF childVars
<1> QED
  BY <1>1, <1>2, <1>3, <1>4, <1>5, <1>6, <1>7, <1>8, <1>9, <1>10,
     <1>11, <1>12, <1>13, <1>14, <1>15, <1>16, <1>17, <1>18, <1>19 DEF ChildStep

\* A child's step keeps what relates its process, its pipes and its readers.
LEMMA ChildKeeps ==
  ASSUME ChildInv, NEW c \in Children, ChildStep(c), NEW d \in Children
  PROVE  Spawned(d)' /\ Reaping(d)' /\ Streamed(d)'
<1>0. Spawned(d) /\ Reaping(d) /\ Streamed(d) /\ Spawned(c) /\ Reaping(c) /\ Streamed(c)
  BY DEF ChildInv
<1> USE <1>0, ServerIsNoChild DEF ChildInv, ChildTypeOK, Streams, Holders, Spawned, Reaping, Streamed
<1>1. CASE MakePipes(c)
  BY <1>1 DEF MakePipes
<1>2. CASE SpawnFails(c)
  BY <1>2 DEF SpawnFails
<1>3. CASE Fork(c)
  BY <1>3 DEF Fork
<1>4. CASE CloseEnds(c)
  BY <1>4 DEF CloseEnds, ParentCloses
<1>5. CASE StartReaders(c)
  BY <1>5 DEF StartReaders
<1>6. CASE \E s \in Streams : WriteLine(c, s)
  BY <1>6 DEF WriteLine
<1>7. CASE Exit(c)
  BY <1>7 DEF Exit
<1>8. CASE BecomeZombie(c)
  BY <1>8 DEF BecomeZombie
<1>9. CASE \E s \in Streams : HandOn(c, s)
  BY <1>9 DEF HandOn, CanRead
<1>10. CASE StdoutEnds(c)
  BY <1>10 DEF StdoutEnds, AfterStdout, AtEof
<1>11. CASE StderrEnds(c)
  BY <1>11 DEF StderrEnds, AtEof
<1>12. CASE JoinStderr(c)
  BY <1>12 DEF JoinStderr, AfterStderr
<1>13. CASE Waitpid(c)
  BY <1>13 DEF Waitpid
<1>14. CASE MarkReaped(c)
  BY <1>14 DEF MarkReaped
<1>15. CASE Reports(c)
  BY <1>15 DEF Reports
<1>16. CASE ReaderReturns(c)
  BY <1>16 DEF ReaderReturns
<1>17. CASE StopDelivered(c)
  BY <1>17 DEF StopDelivered
<1>18. CASE Signal(c)
  BY <1>18 DEF Signal
<1>19. CASE UNCHANGED childVars
  BY <1>19 DEF childVars
<1> QED
  BY <1>1, <1>2, <1>3, <1>4, <1>5, <1>6, <1>7, <1>8, <1>9, <1>10,
     <1>11, <1>12, <1>13, <1>14, <1>15, <1>16, <1>17, <1>18, <1>19 DEF ChildStep

LEMMA ChildInvStep ==
  ASSUME ChildInv, NEW c \in Children, ChildStep(c)
  PROVE  ChildInv'
BY ChildTypes, ChildKeeps DEF ChildInv

----------------------------------------------------------------------------
(* The session.                                                            *)

\* Whoever acts, at most one child is acted on, in one of those ways.
LEMMA NextIsChildStep ==
  ASSUME TypeOK, [Next]_vars
  PROVE  (\E x \in Children : ChildStep(x)) \/ UNCHANGED childVars
<1> DEFINE Some == (\E x \in Children : ChildStep(x)) \/ UNCHANGED childVars
<1> USE ChildrenAreRequests DEF Blocking
<1>1. ASSUME NEW r \in Runs,
             Refuse(r) \/ Claim(r) \/ ReplaceChild(r)
      PROVE  Some
  BY <1>1 DEF Refuse, Claim, ReplaceChild
<1>2. ASSUME NEW r \in Runs,
             \/ RunFails(r) \/ RunStarts(r) \/ RunExits(r) \/ RunActs(r)
             \/ \E s \in Streams : Deliver(r, s)
      PROVE  ChildStep(r)
  BY <1>2 DEF RunFails, RunStarts, RunExits, RunActs, OwnSteps, Deliver, ChildStep, Reports
<1>3. ASSUME NEW c \in Children,
             Pipes(c) \/ Forks(c) \/ Closes(c) \/ Progress(c) \/ StderrDone(c) \/ Returns(c)
      PROVE  ChildStep(c)
  BY <1>3 DEF Pipes, Forks, Closes, Progress, ReaderSteps, StderrDone, Returns, ChildStep
<1>4. ASSUME NEW c \in Blocking,
             SafeStarts(c) \/ SafeFails(c) \/ SafeExits(c) \/ SafeActs(c)
      PROVE  ChildStep(c)
  BY <1>4 DEF SafeStarts, SafeFails, SafeExits, SafeActs, ChildStep, Reports
<1>5. ASSUME NEW c \in Children, SafeAnswered(c) \/ SafeAsked(c)
      PROVE  Some
  BY <1>5 DEF SafeAnswered, SafeAsked
<1>6. ASSUME NEW e \in Emergencies, NothingToKill(e) \/ KillObserved(e) \/ KillGivesUp(e)
      PROVE  Some
  BY <1>6 DEF NothingToKill, KillObserved, KillGivesUp, KillReturns
<1>7. ASSUME NEW e \in Emergencies, Kill(e)
      PROVE  mChild \in Children /\ ChildStep(mChild)
  BY <1>7 DEF Kill, CanKill, ChildStep, TypeOK
<1>8. CASE Stop
  BY <1>8 DEF Stop, ChildStep, TypeOK
<1>9. CASE \/ \E v \in Viewers : Follow(v)
           \/ \E d \in Downloads : LogChecked(d) \/ LogSent(d)
           \/ Finished \/ UNCHANGED vars
  BY <1>9 DEF Follow, LogChecked, LogSent, Finished, vars
<1>10. Runs \subseteq Children /\ Blocking \subseteq Children /\ Safes \subseteq Children
  OBVIOUS
<1> HIDE DEF Blocking
<1> QED
  BY <1>1, <1>2, <1>3, <1>4, <1>5, <1>6, <1>7, <1>8, <1>9, <1>10, Zenon DEF Next

\* A page's update is of lines.
LEMMA UpdateType ==
  ASSUME TypeOK, NEW from \in Nat
  PROVE  Update(from) \in Seq(Lines)
<1>1. mLines \in Seq(Lines) /\ Len(mLines) \in Nat
  BY DEF TypeOK
<1>2. \A i \in (from + 1)..Len(mLines) : mLines[i] \in Lines
  BY <1>1, ElementOfSeq
<1> QED
  BY <1>1, <1>2, SubSeqProperties DEF Update

\* Every step keeps the types.
LEMMA TypesStep ==
  ASSUME TypeOK, ChildTypeOK', [Next]_vars
  PROVE  TypeOK'
<1> USE ChildrenAreRequests DEF TypeOK, Blocking, Free, childVars, sessionVars, requestVars
<1>1. ASSUME NEW r \in Runs, Refuse(r)
      PROVE  TypeOK'
  BY <1>1 DEF Refuse, Goes
<1>2. ASSUME NEW r \in Runs, Claim(r)
      PROVE  TypeOK'
  BY <1>2 DEF Claim, Goes, NewLog
<1>3. ASSUME NEW r \in Runs, ReplaceChild(r)
      PROVE  TypeOK'
  BY <1>3 DEF ReplaceChild, Goes
<1>4. ASSUME NEW r \in Runs, RunFails(r)
      PROVE  TypeOK'
  BY <1>4 DEF RunFails, SpawnFails, Goes
<1>5. ASSUME NEW r \in Runs, RunStarts(r)
      PROVE  TypeOK'
  BY <1>5 DEF RunStarts, StartReaders, Goes
<1>6. ASSUME NEW r \in Runs, RunExits(r)
      PROVE  TypeOK'
  BY <1>6 DEF RunExits
<1>7. ASSUME NEW r \in Runs, RunActs(r)
      PROVE  TypeOK'
  BY <1>7 DEF RunActs, OwnSteps, WriteLine, Exit, BecomeZombie
<1>8. ASSUME NEW r \in Runs, NEW s \in Streams, Deliver(r, s)
      PROVE  TypeOK'
  <2>1. <<r, s, read'[r][s]>> \in Lines
    BY <1>8 DEF ChildTypeOK, Lines
  <2>2. mLines' \in Seq(Lines)
    BY <1>8, <2>1, AppendProperties DEF Deliver, TypeOK
  <2> QED
    BY <1>8, <2>2 DEF Deliver
<1>9. ASSUME NEW c \in Children, Pipes(c)
      PROVE  TypeOK'
  BY <1>9 DEF Pipes, MakePipes
<1>10. ASSUME NEW c \in Children, Forks(c)
       PROVE  TypeOK'
  BY <1>10 DEF Forks, Fork
<1>11. ASSUME NEW c \in Children, Closes(c)
       PROVE  TypeOK'
  BY <1>11 DEF Closes, CloseEnds
<1>12. ASSUME NEW c \in Children, Progress(c)
       PROVE  TypeOK'
  BY <1>12 DEF Progress, ReaderSteps, StdoutEnds, AfterStdout, JoinStderr, AfterStderr,
              Waitpid, MarkReaped
<1>13. ASSUME NEW c \in Children, StderrDone(c)
       PROVE  TypeOK'
  BY <1>13 DEF StderrDone, StderrEnds
<1>14. ASSUME NEW c \in Children, Returns(c)
       PROVE  TypeOK'
  BY <1>14 DEF Returns, ReaderReturns
<1>15. ASSUME NEW c \in Blocking, SafeStarts(c)
       PROVE  TypeOK'
  BY <1>15 DEF SafeStarts, StartReaders
<1>16. ASSUME NEW c \in Blocking, SafeFails(c)
       PROVE  TypeOK'
  BY <1>16 DEF SafeFails, SpawnFails, Goes
<1>17. ASSUME NEW c \in Blocking, SafeExits(c)
       PROVE  TypeOK'
  BY <1>17 DEF SafeExits
<1>18. ASSUME NEW c \in Blocking, SafeActs(c)
       PROVE  TypeOK'
  BY <1>18 DEF SafeActs, Exit, BecomeZombie
<1>19. ASSUME NEW c \in Blocking, SafeAnswered(c)
       PROVE  TypeOK'
  BY <1>19 DEF SafeAnswered, Goes
<1>20. ASSUME NEW c \in Safes, SafeAsked(c)
       PROVE  TypeOK'
  BY <1>20 DEF SafeAsked, Goes
<1>21. ASSUME NEW e \in Emergencies, NothingToKill(e)
       PROVE  TypeOK'
  BY <1>21 DEF NothingToKill, Goes
<1>22. ASSUME NEW e \in Emergencies, Kill(e)
       PROVE  TypeOK'
  BY <1>22 DEF Kill, CanKill, MutexFree, Signal, Goes
<1>23. ASSUME NEW e \in Emergencies, KillObserved(e) \/ KillGivesUp(e)
       PROVE  TypeOK'
  <2>1. PICK k \in BOOLEAN : KillReturns(e, k)
    BY <1>23 DEF KillObserved, KillGivesUp
  <2>2. [killed |-> k, over |-> proc[victim[e]] = "reaped"] \in [killed : BOOLEAN, over : BOOLEAN]
    OBVIOUS
  <2>3. report' \in [Emergencies -> [killed : BOOLEAN, over : BOOLEAN]]
    BY <2>1, <2>2 DEF KillReturns
  <2>4. request' \in [Children -> {"absent", "asked", "joining", "waiting", "spawning",
                                   "answered", "refused"}]
    BY <2>1 DEF KillReturns, Goes
  <2> QED
    BY <2>1, <2>3, <2>4 DEF KillReturns
<1>24. ASSUME NEW v \in Viewers, Follow(v)
       PROVE  TypeOK'
  <2>1. page[v].from \in Nat /\ page[v].got \in Seq(Lines) /\ Len(mLines) \in Nat
    OBVIOUS
  <2>2. page[v].got \o Update(page[v].from) \in Seq(Lines)
    BY <2>1, UpdateType, ConcatProperties
  <2>3. page' \in [Viewers -> [state : {"absent", "asked", "following", "ended"},
                               from : Nat, got : Seq(Lines)]]
    BY <1>24, <2>1, <2>2 DEF Follow
  <2> QED
    BY <1>24, <2>3 DEF Follow
<1>25. ASSUME NEW d \in Downloads, LogChecked(d)
       PROVE  TypeOK'
  BY <1>25 DEF LogChecked
<1>26. ASSUME NEW d \in Downloads, LogSent(d)
       PROVE  TypeOK'
  <2>1. PICK q \in Runs \cup {NoRun} :
          download' = [download EXCEPT ![d] = [state |-> "answered", of |-> q]]
    BY <1>26 DEF LogSent, Named
  <2> QED
    BY <1>26, <2>1 DEF LogSent
<1>27. CASE Stop
  BY <1>27 DEF Stop, StopDelivered
<1>28. CASE Finished \/ UNCHANGED vars
  BY <1>28 DEF Finished, vars
<1> QED
  BY <1>1, <1>2, <1>3, <1>4, <1>5, <1>6, <1>7, <1>8, <1>9, <1>10, <1>11, <1>12, <1>13,
     <1>14, <1>15, <1>16, <1>17, <1>18, <1>19, <1>20, <1>21, <1>22, <1>23, <1>24, <1>25, <1>26,
     <1>27, <1>28
     DEF Next

\* Between its pipes and its readers, a run's start() holds the mutex.
LEMMA HalfStarted ==
  ASSUME SessionInv, NEW r \in Runs, stage[r] \in {"piped", "forked", "closed"}
  PROVE  /\ request[r] = "spawning" /\ mMutex = r /\ mChild = r /\ mActive = TRUE
         /\ r # NoRun /\ r \in Children /\ ~Free /\ mLines = <<>>
<1>1. r \in Children /\ r # NoRun
  BY ChildrenAreRequests
<1>2. request[r] = "spawning"
  BY <1>1 DEF SessionInv, TypeOK, Starting
<1>3. mMutex = r /\ mChild = r
  BY <1>2 DEF SessionInv, Starting
<1> QED
  BY <1>1, <1>2, <1>3 DEF SessionInv, Owned, Free, TypeOK

\* Each run's start goes its way, and the runs before it stay over.
LEMMA StartingStep ==
  ASSUME ChildInv, SessionInv, NEW q \in Runs, [Next]_vars
  PROVE  Starting(q)' /\ Over(q)'
<1> USE ChildrenAreRequests DEF SessionInv, TypeOK, ChildInv, ChildTypeOK, Free, Blocking, Starting, Over,
            Owned, Reported, Spawned, Reaping, childVars, sessionVars, requestVars
<1>1. ASSUME NEW r \in Runs, Refuse(r)
      PROVE  Starting(q)' /\ Over(q)'
  BY <1>1 DEF Refuse, Goes
<1>2. ASSUME NEW r \in Runs, Claim(r)
      PROVE  Starting(q)' /\ Over(q)'
  BY <1>2 DEF Claim, Goes, NewLog
<1>3. ASSUME NEW r \in Runs, ReplaceChild(r)
      PROVE  Starting(q)' /\ Over(q)'
  BY <1>3 DEF ReplaceChild, Goes
<1>4. ASSUME NEW r \in Runs, RunFails(r)
      PROVE  Starting(q)' /\ Over(q)'
  <2>1. r \in Children /\ mMutex = r /\ mChild = r
    BY <1>4, HalfStarted DEF RunFails, SpawnFails
  <2>2. CASE q = r
    BY <1>4, <2>1, <2>2 DEF RunFails, SpawnFails, Goes
  <2>3. CASE q # r
    <3>1. /\ stage'[q] = stage[q] /\ reader'[q] = reader[q] /\ request'[q] = request[q]
          /\ request[q] \notin {"joining", "spawning"} /\ q # mChild
      BY <1>4, <2>1, <2>3 DEF RunFails, SpawnFails, Goes
    <3> QED
      BY <3>1
  <2> QED
    BY <2>2, <2>3
<1>5. ASSUME NEW r \in Runs, RunStarts(r)
      PROVE  Starting(q)' /\ Over(q)'
  BY <1>5 DEF RunStarts, StartReaders, Goes
<1>6. ASSUME NEW r \in Runs, RunExits(r)
      PROVE  Starting(q)' /\ Over(q)'
  BY <1>6 DEF RunExits
<1>7. ASSUME NEW r \in Runs, RunActs(r)
      PROVE  Starting(q)' /\ Over(q)'
  BY <1>7 DEF RunActs, OwnSteps, WriteLine, Exit, BecomeZombie
<1>8. ASSUME NEW r \in Runs, NEW s \in Streams, Deliver(r, s)
      PROVE  Starting(q)' /\ Over(q)'
  BY <1>8 DEF Deliver, HandOn, CanRead
<1>9. ASSUME NEW c \in Children, Pipes(c)
      PROVE  Starting(q)' /\ Over(q)'
  BY <1>9 DEF Pipes, MakePipes
<1>10. ASSUME NEW c \in Children, Forks(c)
       PROVE  Starting(q)' /\ Over(q)'
  BY <1>10 DEF Forks, Fork
<1>11. ASSUME NEW c \in Children, Closes(c)
       PROVE  Starting(q)' /\ Over(q)'
  BY <1>11 DEF Closes, CloseEnds
<1>12. ASSUME NEW c \in Children, Progress(c)
       PROVE  Starting(q)' /\ Over(q)'
  BY <1>12 DEF Progress, ReaderSteps, StdoutEnds, AfterStdout, JoinStderr, AfterStderr,
              Waitpid, MarkReaped
<1>13. ASSUME NEW c \in Children, StderrDone(c)
       PROVE  Starting(q)' /\ Over(q)'
  BY <1>13 DEF StderrDone, StderrEnds
<1>14. ASSUME NEW c \in Children, Returns(c)
       PROVE  Starting(q)' /\ Over(q)'
  BY <1>14 DEF Returns, ReaderReturns
<1>15. ASSUME NEW c \in Blocking, SafeStarts(c)
       PROVE  Starting(q)' /\ Over(q)'
  BY <1>15 DEF SafeStarts, StartReaders
<1>16. ASSUME NEW c \in Blocking, SafeFails(c)
       PROVE  Starting(q)' /\ Over(q)'
  BY <1>16 DEF SafeFails, SpawnFails, Goes
<1>17. ASSUME NEW c \in Blocking, SafeExits(c)
       PROVE  Starting(q)' /\ Over(q)'
  BY <1>17 DEF SafeExits
<1>18. ASSUME NEW c \in Blocking, SafeActs(c)
       PROVE  Starting(q)' /\ Over(q)'
  BY <1>18 DEF SafeActs, Exit, BecomeZombie
<1>19. ASSUME NEW c \in Blocking, SafeAnswered(c)
       PROVE  Starting(q)' /\ Over(q)'
  BY <1>19 DEF SafeAnswered, Goes
<1>20. ASSUME NEW c \in Safes, SafeAsked(c)
       PROVE  Starting(q)' /\ Over(q)'
  BY <1>20 DEF SafeAsked, Goes
<1>21. ASSUME NEW e \in Emergencies, NothingToKill(e)
       PROVE  Starting(q)' /\ Over(q)'
  BY <1>21 DEF NothingToKill, Goes
<1>22. ASSUME NEW e \in Emergencies, Kill(e)
       PROVE  Starting(q)' /\ Over(q)'
  BY <1>22 DEF Kill, CanKill, MutexFree, Signal, Goes
<1>23. ASSUME NEW e \in Emergencies, KillObserved(e) \/ KillGivesUp(e)
       PROVE  Starting(q)' /\ Over(q)'
  BY <1>23 DEF KillObserved, KillGivesUp, KillReturns, Goes
<1>24. ASSUME NEW v \in Viewers, Follow(v)
       PROVE  Starting(q)' /\ Over(q)'
  BY <1>24 DEF Follow
<1>25. ASSUME NEW d \in Downloads, LogChecked(d)
       PROVE  Starting(q)' /\ Over(q)'
  BY <1>25 DEF LogChecked
<1>26. ASSUME NEW d \in Downloads, LogSent(d)
       PROVE  Starting(q)' /\ Over(q)'
  BY <1>26 DEF LogSent
<1>27. CASE Stop
  BY <1>27 DEF Stop, StopDelivered
<1>28. CASE Finished \/ UNCHANGED vars
  BY <1>28 DEF Finished, vars
<1> QED
  BY <1>1, <1>2, <1>3, <1>4, <1>5, <1>6, <1>7, <1>8, <1>9, <1>10, <1>11, <1>12, <1>13,
     <1>14, <1>15, <1>16, <1>17, <1>18, <1>19, <1>20, <1>21, <1>22, <1>23, <1>24, <1>25, <1>26,
     <1>27, <1>28
     DEF Next

\* mActive goes on covering the owned run.
LEMMA OwnedStep ==
  ASSUME ChildInv, SessionInv, [Next]_vars
  PROVE  Owned'
<1> USE ChildrenAreRequests DEF SessionInv, TypeOK, ChildInv, ChildTypeOK, Free, Blocking, Starting, Over,
            Owned, Reported, Spawned, Reaping, childVars, sessionVars, requestVars
<1>1. ASSUME NEW r \in Runs, Refuse(r)
      PROVE  Owned'
  BY <1>1 DEF Refuse, Goes
<1>2. ASSUME NEW r \in Runs, Claim(r)
      PROVE  Owned'
  BY <1>2 DEF Claim, Goes, NewLog
<1>3. ASSUME NEW r \in Runs, ReplaceChild(r)
      PROVE  Owned'
  BY <1>3 DEF ReplaceChild, Goes
<1>4. ASSUME NEW r \in Runs, RunFails(r)
      PROVE  Owned'
  BY <1>4 DEF RunFails, SpawnFails, Goes
<1>5. ASSUME NEW r \in Runs, RunStarts(r)
      PROVE  Owned'
  <2>1. /\ r \in Children /\ r # NoRun /\ mMutex = r /\ mChild = r /\ mActive = TRUE
        /\ stage[r] = "closed"
    BY <1>5, HalfStarted DEF RunStarts, StartReaders
  <2>2. /\ mChild' = r /\ mActive' = TRUE /\ mMutex' = NoRun
        /\ reader'[r] = "reading" /\ stage'[r] = "started"
    BY <1>5, <2>1 DEF RunStarts, StartReaders
  <2> QED
    BY <2>1, <2>2
<1>6. ASSUME NEW r \in Runs, RunExits(r)
      PROVE  Owned'
  BY <1>6 DEF RunExits
<1>7. ASSUME NEW r \in Runs, RunActs(r)
      PROVE  Owned'
  BY <1>7 DEF RunActs, OwnSteps, WriteLine, Exit, BecomeZombie
<1>8. ASSUME NEW r \in Runs, NEW s \in Streams, Deliver(r, s)
      PROVE  Owned'
  BY <1>8 DEF Deliver, HandOn, CanRead
<1>9. ASSUME NEW c \in Children, Pipes(c)
      PROVE  Owned'
  BY <1>9 DEF Pipes, MakePipes
<1>10. ASSUME NEW c \in Children, Forks(c)
       PROVE  Owned'
  BY <1>10 DEF Forks, Fork
<1>11. ASSUME NEW c \in Children, Closes(c)
       PROVE  Owned'
  BY <1>11 DEF Closes, CloseEnds
<1>12. ASSUME NEW c \in Children, Progress(c)
       PROVE  Owned'
  BY <1>12 DEF Progress, ReaderSteps, StdoutEnds, AfterStdout, JoinStderr, AfterStderr,
              Waitpid, MarkReaped
<1>13. ASSUME NEW c \in Children, StderrDone(c)
       PROVE  Owned'
  BY <1>13 DEF StderrDone, StderrEnds
<1>14. ASSUME NEW c \in Children, Returns(c)
       PROVE  Owned'
  BY <1>14 DEF Returns, ReaderReturns
<1>15. ASSUME NEW c \in Blocking, SafeStarts(c)
       PROVE  Owned'
  BY <1>15 DEF SafeStarts, StartReaders
<1>16. ASSUME NEW c \in Blocking, SafeFails(c)
       PROVE  Owned'
  BY <1>16 DEF SafeFails, SpawnFails, Goes
<1>17. ASSUME NEW c \in Blocking, SafeExits(c)
       PROVE  Owned'
  BY <1>17 DEF SafeExits
<1>18. ASSUME NEW c \in Blocking, SafeActs(c)
       PROVE  Owned'
  BY <1>18 DEF SafeActs, Exit, BecomeZombie
<1>19. ASSUME NEW c \in Blocking, SafeAnswered(c)
       PROVE  Owned'
  BY <1>19 DEF SafeAnswered, Goes
<1>20. ASSUME NEW c \in Safes, SafeAsked(c)
       PROVE  Owned'
  BY <1>20 DEF SafeAsked, Goes
<1>21. ASSUME NEW e \in Emergencies, NothingToKill(e)
       PROVE  Owned'
  BY <1>21 DEF NothingToKill, Goes
<1>22. ASSUME NEW e \in Emergencies, Kill(e)
       PROVE  Owned'
  BY <1>22 DEF Kill, CanKill, MutexFree, Signal, Goes
<1>23. ASSUME NEW e \in Emergencies, KillObserved(e) \/ KillGivesUp(e)
       PROVE  Owned'
  BY <1>23 DEF KillObserved, KillGivesUp, KillReturns, Goes
<1>24. ASSUME NEW v \in Viewers, Follow(v)
       PROVE  Owned'
  BY <1>24 DEF Follow
<1>25. ASSUME NEW d \in Downloads, LogChecked(d)
       PROVE  Owned'
  BY <1>25 DEF LogChecked
<1>26. ASSUME NEW d \in Downloads, LogSent(d)
       PROVE  Owned'
  BY <1>26 DEF LogSent
<1>27. CASE Stop
  BY <1>27 DEF Stop, StopDelivered
<1>28. CASE Finished \/ UNCHANGED vars
  BY <1>28 DEF Finished, vars
<1> QED
  BY <1>1, <1>2, <1>3, <1>4, <1>5, <1>6, <1>7, <1>8, <1>9, <1>10, <1>11, <1>12, <1>13,
     <1>14, <1>15, <1>16, <1>17, <1>18, <1>19, <1>20, <1>21, <1>22, <1>23, <1>24, <1>25, <1>26,
     <1>27, <1>28
     DEF Next

\* An emergency that waits, and its reply, are about a run that was started.
LEMMA VictimsStep ==
  ASSUME ChildInv, SessionInv, KilledIsGone, [Next]_vars
  PROVE  Victims' /\ KilledIsGone'
<1> USE ChildrenAreRequests DEF SessionInv, TypeOK, ChildInv, ChildTypeOK, Free, Blocking, Starting, Over,
            Owned, Reported, Victims, Spawned, Reaping, KilledIsGone, childVars,
            sessionVars, requestVars
<1>1. ASSUME NEW r \in Runs, Refuse(r)
      PROVE  Victims' /\ KilledIsGone'
  BY <1>1 DEF Refuse, Goes
<1>2. ASSUME NEW r \in Runs, Claim(r)
      PROVE  Victims' /\ KilledIsGone'
  BY <1>2 DEF Claim, Goes, NewLog
<1>3. ASSUME NEW r \in Runs, ReplaceChild(r)
      PROVE  Victims' /\ KilledIsGone'
  BY <1>3 DEF ReplaceChild, Goes
<1>4. ASSUME NEW r \in Runs, RunFails(r)
      PROVE  Victims' /\ KilledIsGone'
  BY <1>4 DEF RunFails, SpawnFails, Goes
<1>5. ASSUME NEW r \in Runs, RunStarts(r)
      PROVE  Victims' /\ KilledIsGone'
  BY <1>5 DEF RunStarts, StartReaders, Goes
<1>6. ASSUME NEW r \in Runs, RunExits(r)
      PROVE  Victims' /\ KilledIsGone'
  BY <1>6 DEF RunExits
<1>7. ASSUME NEW r \in Runs, RunActs(r)
      PROVE  Victims' /\ KilledIsGone'
  BY <1>7 DEF RunActs, OwnSteps, WriteLine, Exit, BecomeZombie
<1>8. ASSUME NEW r \in Runs, NEW s \in Streams, Deliver(r, s)
      PROVE  Victims' /\ KilledIsGone'
  BY <1>8 DEF Deliver, HandOn, CanRead
<1>9. ASSUME NEW c \in Children, Pipes(c)
      PROVE  Victims' /\ KilledIsGone'
  BY <1>9 DEF Pipes, MakePipes
<1>10. ASSUME NEW c \in Children, Forks(c)
       PROVE  Victims' /\ KilledIsGone'
  BY <1>10 DEF Forks, Fork
<1>11. ASSUME NEW c \in Children, Closes(c)
       PROVE  Victims' /\ KilledIsGone'
  BY <1>11 DEF Closes, CloseEnds
<1>12. ASSUME NEW c \in Children, Progress(c)
       PROVE  Victims' /\ KilledIsGone'
  BY <1>12 DEF Progress, ReaderSteps, StdoutEnds, AfterStdout, JoinStderr, AfterStderr,
              Waitpid, MarkReaped
<1>13. ASSUME NEW c \in Children, StderrDone(c)
       PROVE  Victims' /\ KilledIsGone'
  BY <1>13 DEF StderrDone, StderrEnds
<1>14. ASSUME NEW c \in Children, Returns(c)
       PROVE  Victims' /\ KilledIsGone'
  BY <1>14 DEF Returns, ReaderReturns
<1>15. ASSUME NEW c \in Blocking, SafeStarts(c)
       PROVE  Victims' /\ KilledIsGone'
  BY <1>15 DEF SafeStarts, StartReaders
<1>16. ASSUME NEW c \in Blocking, SafeFails(c)
       PROVE  Victims' /\ KilledIsGone'
  BY <1>16 DEF SafeFails, SpawnFails, Goes
<1>17. ASSUME NEW c \in Blocking, SafeExits(c)
       PROVE  Victims' /\ KilledIsGone'
  BY <1>17 DEF SafeExits
<1>18. ASSUME NEW c \in Blocking, SafeActs(c)
       PROVE  Victims' /\ KilledIsGone'
  BY <1>18 DEF SafeActs, Exit, BecomeZombie
<1>19. ASSUME NEW c \in Blocking, SafeAnswered(c)
       PROVE  Victims' /\ KilledIsGone'
  BY <1>19 DEF SafeAnswered, Goes
<1>20. ASSUME NEW c \in Safes, SafeAsked(c)
       PROVE  Victims' /\ KilledIsGone'
  BY <1>20 DEF SafeAsked, Goes
<1>21. ASSUME NEW e \in Emergencies, NothingToKill(e)
       PROVE  Victims' /\ KilledIsGone'
  BY <1>21 DEF NothingToKill, Goes
<1>22. ASSUME NEW e \in Emergencies, Kill(e)
       PROVE  Victims' /\ KilledIsGone'
  BY <1>22 DEF Kill, CanKill, MutexFree, Signal, Goes
<1>23. ASSUME NEW e \in Emergencies, KillObserved(e) \/ KillGivesUp(e)
       PROVE  Victims' /\ KilledIsGone'
  <2>1. PICK k \in BOOLEAN : KillReturns(e, k) /\ (k = TRUE => mActive = FALSE)
    BY <1>23 DEF KillObserved, KillGivesUp
  <2>2. victim[e] \in Runs /\ victim[e] \in Children /\ stage[victim[e]] = "started"
    BY <2>1 DEF KillReturns
  <2>3. k = TRUE => proc[victim[e]] = "reaped"
    <3> SUFFICES ASSUME k = TRUE PROVE proc[victim[e]] = "reaped"
      OBVIOUS
    <3>1. Free /\ Reported
      BY <2>1 DEF KillReturns
    <3>2. Over(victim[e])
      BY <2>2
    <3>3. CASE victim[e] = mChild
      BY <2>2, <3>1, <3>3
    <3>4. CASE reader[victim[e]] = "done"
      BY <2>2, <3>4
    <3> QED
      BY <2>2, <3>2, <3>3, <3>4
  <2>4. report' = [report EXCEPT ![e] = [killed |-> k, over |-> proc[victim[e]] = "reaped"]]
    BY <2>1 DEF KillReturns
  <2>5. KilledIsGone'
    <3> SUFFICES ASSUME NEW f \in Emergencies, report'[f].killed PROVE report'[f].over
      BY Zenon DEF KilledIsGone
    <3>1. CASE f = e
      <4>1. report'[f] = [killed |-> k, over |-> proc[victim[e]] = "reaped"]
        BY <2>4, <3>1
      <4>2. report'[f].killed = k /\ report'[f].over = (proc[victim[e]] = "reaped")
        BY <4>1
      <4> QED
        BY <2>3, <4>2, Zenon
    <3>2. CASE f # e
      <4>1. report'[f] = report[f]
        BY <2>4, <3>2
      <4> QED
        BY <4>1
    <3> QED
      BY <3>1, <3>2
  <2>6. Victims'
    BY <2>1 DEF KillReturns, Goes
  <2> QED
    BY <2>5, <2>6
<1>24. ASSUME NEW v \in Viewers, Follow(v)
       PROVE  Victims' /\ KilledIsGone'
  BY <1>24 DEF Follow
<1>25. ASSUME NEW d \in Downloads, LogChecked(d)
       PROVE  Victims' /\ KilledIsGone'
  BY <1>25 DEF LogChecked
<1>26. ASSUME NEW d \in Downloads, LogSent(d)
       PROVE  Victims' /\ KilledIsGone'
  BY <1>26 DEF LogSent
<1>27. CASE Stop
  BY <1>27 DEF Stop, StopDelivered
<1>28. CASE Finished \/ UNCHANGED vars
  BY <1>28 DEF Finished, vars
<1> QED
  BY <1>1, <1>2, <1>3, <1>4, <1>5, <1>6, <1>7, <1>8, <1>9, <1>10, <1>11, <1>12, <1>13,
     <1>14, <1>15, <1>16, <1>17, <1>18, <1>19, <1>20, <1>21, <1>22, <1>23, <1>24, <1>25, <1>26,
     <1>27, <1>28
     DEF Next

\* The steps that touch the log, who owns it, or what a page has of it.
LogMoves ==
  \/ UNCHANGED <<sessionVars, read, page>>
  \/ \E r \in Runs :
       \/ Claim(r) \/ ReplaceChild(r) \/ RunFails(r) \/ RunStarts(r) \/ RunExits(r)
       \/ \E s \in Streams : Deliver(r, s)
  \/ \E v \in Viewers : Follow(v)

\* No other step does.
LEMMA NextMovesLog ==
  ASSUME [Next]_vars
  PROVE  LogMoves
<1> USE DEF LogMoves, childVars, sessionVars, requestVars
<1>1. ASSUME NEW r \in Runs, Refuse(r)
      PROVE  LogMoves
  BY <1>1 DEF Refuse, Goes
<1>2. ASSUME NEW r \in Runs, Claim(r)
      PROVE  LogMoves
  BY <1>2
<1>3. ASSUME NEW r \in Runs, ReplaceChild(r)
      PROVE  LogMoves
  BY <1>3
<1>4. ASSUME NEW r \in Runs, RunFails(r)
      PROVE  LogMoves
  BY <1>4
<1>5. ASSUME NEW r \in Runs, RunStarts(r)
      PROVE  LogMoves
  BY <1>5
<1>6. ASSUME NEW r \in Runs, RunExits(r)
      PROVE  LogMoves
  BY <1>6
<1>7. ASSUME NEW r \in Runs, RunActs(r)
      PROVE  LogMoves
  BY <1>7 DEF RunActs, OwnSteps, WriteLine, Exit, BecomeZombie
<1>8. ASSUME NEW r \in Runs, NEW s \in Streams, Deliver(r, s)
      PROVE  LogMoves
  BY <1>8
<1>9. ASSUME NEW c \in Children, Pipes(c)
      PROVE  LogMoves
  BY <1>9 DEF Pipes, MakePipes
<1>10. ASSUME NEW c \in Children, Forks(c)
       PROVE  LogMoves
  BY <1>10 DEF Forks, Fork
<1>11. ASSUME NEW c \in Children, Closes(c)
       PROVE  LogMoves
  BY <1>11 DEF Closes, CloseEnds
<1>12. ASSUME NEW c \in Children, Progress(c)
       PROVE  LogMoves
  BY <1>12 DEF Progress, ReaderSteps, StdoutEnds, AfterStdout, JoinStderr, AfterStderr,
              Waitpid, MarkReaped
<1>13. ASSUME NEW c \in Children, StderrDone(c)
       PROVE  LogMoves
  BY <1>13 DEF StderrDone, StderrEnds
<1>14. ASSUME NEW c \in Children, Returns(c)
       PROVE  LogMoves
  BY <1>14 DEF Returns, ReaderReturns
<1>15. ASSUME NEW c \in Blocking, SafeStarts(c)
       PROVE  LogMoves
  BY <1>15 DEF SafeStarts, StartReaders
<1>16. ASSUME NEW c \in Blocking, SafeFails(c)
       PROVE  LogMoves
  BY <1>16 DEF SafeFails, SpawnFails, Goes
<1>17. ASSUME NEW c \in Blocking, SafeExits(c)
       PROVE  LogMoves
  BY <1>17 DEF SafeExits
<1>18. ASSUME NEW c \in Blocking, SafeActs(c)
       PROVE  LogMoves
  BY <1>18 DEF SafeActs, Exit, BecomeZombie
<1>19. ASSUME NEW c \in Blocking, SafeAnswered(c)
       PROVE  LogMoves
  BY <1>19 DEF SafeAnswered, Goes
<1>20. ASSUME NEW c \in Safes, SafeAsked(c)
       PROVE  LogMoves
  BY <1>20 DEF SafeAsked, Goes
<1>21. ASSUME NEW e \in Emergencies, NothingToKill(e)
       PROVE  LogMoves
  BY <1>21 DEF NothingToKill, Goes
<1>22. ASSUME NEW e \in Emergencies, Kill(e)
       PROVE  LogMoves
  BY <1>22 DEF Kill, CanKill, MutexFree, Signal, Goes
<1>23. ASSUME NEW e \in Emergencies, KillObserved(e) \/ KillGivesUp(e)
       PROVE  LogMoves
  BY <1>23 DEF KillObserved, KillGivesUp, KillReturns, Goes
<1>24. ASSUME NEW v \in Viewers, Follow(v)
       PROVE  LogMoves
  BY <1>24
<1>25. ASSUME NEW d \in Downloads, LogChecked(d)
       PROVE  LogMoves
  BY <1>25 DEF LogChecked
<1>26. ASSUME NEW d \in Downloads, LogSent(d)
       PROVE  LogMoves
  BY <1>26 DEF LogSent
<1>27. CASE Stop
  BY <1>27 DEF Stop, StopDelivered
<1>28. CASE Finished \/ UNCHANGED vars
  BY <1>28 DEF Finished, vars
<1> QED
  BY <1>1, <1>2, <1>3, <1>4, <1>5, <1>6, <1>7, <1>8, <1>9, <1>10, <1>11, <1>12, <1>13,
     <1>14, <1>15, <1>16, <1>17, <1>18, <1>19, <1>20, <1>21, <1>22, <1>23, <1>24, <1>25, <1>26,
     <1>27, <1>28
     DEF Next

\* A child that was started stays so.
LEMMA StartedStays ==
  ASSUME TypeOK, [Next]_vars, NEW c \in Children, stage[c] = "started"
  PROVE  stage'[c] = "started"
<1>1. CASE UNCHANGED childVars
  BY <1>1 DEF childVars
<1>2. ASSUME NEW x \in Children, ChildStep(x)
      PROVE  stage'[c] = "started"
  BY <1>2 DEF ChildStep, MakePipes, SpawnFails, Fork, CloseEnds, StartReaders, Exit, BecomeZombie,
       Signal, StopDelivered, WriteLine, HandOn, StdoutEnds, StderrEnds, JoinStderr, Waitpid,
       MarkReaped, Reports, ReaderReturns, childVars, TypeOK, ChildTypeOK
<1> QED
  BY <1>1, <1>2, NextIsChildStep

\* A reader that hands a line on is the owned run's, which is still active.
LEMMA DeliversOwn ==
  ASSUME ChildInv, SessionInv, NEW r \in Runs, NEW s \in Streams, Deliver(r, s)
  PROVE  r = mChild /\ r # NoRun /\ r \in Children /\ mActive = TRUE
<1>1. r \in Children /\ r # NoRun
  BY ChildrenAreRequests
<1>2. Spawned(r) /\ Streamed(r)
  BY <1>1 DEF ChildInv
<1>3. reader[r] \notin {"none", "leaving", "done"} /\ stage[r] = "started"
  BY <1>1, <1>2 DEF Deliver, HandOn, CanRead, Spawned, Streamed
<1>4. r = mChild
  BY <1>1, <1>3 DEF SessionInv, Over
<1>5. ~Reported
  BY <1>1, <1>3, <1>4 DEF Reported
<1> QED
  BY <1>1, <1>4, <1>5 DEF SessionInv, Owned, TypeOK

\* What a delivery does to the log.
LEMMA DeliveredLine ==
  ASSUME ChildInv, SessionInv, NEW r \in Runs, NEW s \in Streams, Deliver(r, s)
  PROVE  /\ mLines \in Seq(Lines) /\ Len(mLines) \in Nat
         /\ read[r]["out"] \in Nat /\ read[r]["err"] \in Nat
         /\ mLines' = Append(mLines, <<r, s, read[r][s] + 1>>)
         /\ Len(mLines') = Len(mLines) + 1
         /\ \A i \in 1..Len(mLines) : mLines'[i] = mLines[i]
         /\ mLines'[Len(mLines) + 1] = <<r, s, read[r][s] + 1>>
         /\ read'[r][s] = read[r][s] + 1
         /\ \A t \in Streams : t # s => read'[r][t] = read[r][t]
<1>1. r \in Children
  BY DeliversOwn
<1>2. read \in [Children -> [Streams -> Nat]] /\ mLines \in Seq(Lines)
  BY DEF SessionInv, TypeOK, ChildTypeOK
<1>3. read[r][s] \in Nat /\ read[r]["out"] \in Nat /\ read[r]["err"] \in Nat
  BY <1>1, <1>2 DEF Streams
<1>4. read' = [read EXCEPT ![r][s] = @ + 1]
  BY DEF Deliver, HandOn
<1>5. read'[r][s] = read[r][s] + 1 /\ \A t \in Streams : t # s => read'[r][t] = read[r][t]
  BY <1>1, <1>2, <1>4
<1>6. mLines' = Append(mLines, <<r, s, read[r][s] + 1>>)
  BY <1>5 DEF Deliver
<1>7. <<r, s, read[r][s] + 1>> \in Lines
  BY <1>3 DEF Lines
<1> QED
  BY <1>2, <1>3, <1>5, <1>6, <1>7, AppendProperties

\* The log goes on holding what the owned run's readers have handed on.
LEMMA LogStep ==
  ASSUME ChildInv, SessionInv, LogSoFar, [Next]_vars, ChildTypeOK'
  PROVE  LogSoFar'
<1>1. CASE UNCHANGED <<sessionVars, read, page>>
  BY <1>1 DEF LogSoFar, Free, sessionVars
<1>2. ASSUME NEW r \in Runs, Claim(r)
      PROVE  LogSoFar'
  <2>1. mLines' = <<>> /\ mMutex' # NoRun
    BY <1>2, ChildrenAreRequests DEF Claim, NewLog
  <2> QED
    BY <2>1 DEF LogSoFar, Free
<1>3. ASSUME NEW r \in Runs, ReplaceChild(r)
      PROVE  LogSoFar'
  <2>1. mLines' = <<>> /\ mMutex' # NoRun
    BY <1>3, ChildrenAreRequests DEF ReplaceChild, SessionInv, Starting, Owned, Free
  <2> QED
    BY <2>1 DEF LogSoFar, Free
<1>4. ASSUME NEW r \in Runs, RunFails(r)
      PROVE  LogSoFar'
  <2>1. mLines' = <<>> /\ mChild' = NoRun
    BY <1>4, HalfStarted DEF RunFails, SpawnFails
  <2> QED
    BY <2>1 DEF LogSoFar
<1>5. ASSUME NEW r \in Runs, RunStarts(r)
      PROVE  LogSoFar'
  <2>1. /\ r \in Children /\ mLines = <<>> /\ mChild = r /\ stage[r] = "closed"
        /\ UNCHANGED <<read, mLines, mChild>>
    BY <1>5, HalfStarted DEF RunStarts, StartReaders
  <2>2. read[r]["out"] = 0 /\ read[r]["err"] = 0
    BY <2>1 DEF ChildInv, Spawned, ChildTypeOK
  <2> QED
    BY <2>1, <2>2 DEF LogSoFar, Streams
<1>6. ASSUME NEW r \in Runs, RunExits(r)
      PROVE  LogSoFar'
  BY <1>6 DEF RunExits, LogSoFar, Free
<1>7. ASSUME NEW r \in Runs, NEW s \in Streams, Deliver(r, s)
      PROVE  LogSoFar'
  <2> DEFINE n == read[r][s] + 1
  <2>1. /\ r = mChild /\ r # NoRun /\ UNCHANGED <<mMutex, mChild>> /\ Free
    BY <1>7, DeliversOwn DEF Deliver
  <2>2. /\ Len(mLines) \in Nat /\ read[r]["out"] \in Nat /\ read[r]["err"] \in Nat
        /\ read[r][s] \in Nat
        /\ Len(mLines') = Len(mLines) + 1
        /\ \A i \in 1..Len(mLines) : mLines'[i] = mLines[i]
        /\ mLines'[Len(mLines) + 1] = <<r, s, n>>
        /\ read'[r][s] = n
        /\ \A t \in Streams : t # s => read'[r][t] = read[r][t]
    BY <1>7, DeliveredLine DEF Streams
  <2>3. \A i \in 1..Len(mLines') : i \in 1..Len(mLines) \/ i = Len(mLines) + 1
    BY <2>2
  <2>4. /\ Len(mLines) = read[r]["out"] + read[r]["err"]
        /\ \A t \in Streams : \A k \in 1..read[r][t] :
             \E i \in 1..Len(mLines) : mLines[i] = <<r, t, k>>
    BY <2>1 DEF LogSoFar
  <2>5. \A i \in 1..Len(mLines') : mLines'[i][1] = mChild'
    <3>1. \A i \in 1..Len(mLines) : mLines[i][1] = r
      BY <2>1 DEF LogSoFar
    <3>2. mLines'[Len(mLines) + 1][1] = r /\ mChild' = r
      BY <2>1, <2>2
    <3> QED
      BY <2>2, <2>3, <3>1, <3>2
  <2>6. Len(mLines') = read'[r]["out"] + read'[r]["err"]
    <3>1. CASE s = "out"
      <4>1. /\ read'[r]["out"] = read[r]["out"] + 1 /\ read'[r]["err"] = read[r]["err"]
        BY <2>2, <3>1 DEF Streams
      <4> QED
        BY <2>2, <2>4, <4>1
    <3>2. CASE s = "err"
      <4>1. /\ read'[r]["err"] = read[r]["err"] + 1 /\ read'[r]["out"] = read[r]["out"]
        BY <2>2, <3>2 DEF Streams
      <4> QED
        BY <2>2, <2>4, <4>1, SMTT(30)
    <3> QED
      BY <3>1, <3>2 DEF Streams
  <2>7. ASSUME NEW t \in Streams, NEW k \in 1..read'[r][t]
        PROVE  \E i \in 1..Len(mLines') : mLines'[i] = <<r, t, k>>
    <3>1. CASE t = s /\ k = n
      <4>1. Len(mLines) + 1 \in 1..Len(mLines') /\ mLines'[Len(mLines) + 1] = <<r, t, k>>
        BY <2>2, <3>1
      <4> QED
        BY <4>1
    <3>2. CASE ~(t = s /\ k = n)
      <4>1. k \in 1..read[r][t]
        <5>1. CASE t = s
          BY <2>2, <3>2, <5>1
        <5>2. CASE t # s
          BY <2>2, <5>2
        <5> QED
          BY <5>1, <5>2
      <4>2. PICK i \in 1..Len(mLines) : mLines[i] = <<r, t, k>>
        BY <2>4, <4>1
      <4>3. i \in 1..Len(mLines') /\ mLines'[i] = <<r, t, k>>
        BY <2>2, <4>2
      <4> QED
        BY <4>3
    <3> QED
      BY <3>1, <3>2
  <2>8. ASSUME NEW i \in 1..Len(mLines'), mLines'[i][3] > 1
        PROVE  \E j \in 1..(i - 1) : mLines'[j] = <<mLines'[i][1], mLines'[i][2], mLines'[i][3] - 1>>
    <3>1. CASE i \in 1..Len(mLines)
      <4>1. mLines'[i] = mLines[i]
        BY <2>2, <3>1
      <4>2. PICK j \in 1..(i - 1) : mLines[j] = <<mLines[i][1], mLines[i][2], mLines[i][3] - 1>>
        BY <2>8, <3>1, <4>1 DEF LogSoFar
      <4>3. j \in 1..Len(mLines)
        BY <2>2, <3>1
      <4>4. mLines'[j] = <<mLines'[i][1], mLines'[i][2], mLines'[i][3] - 1>>
        BY <2>2, <4>1, <4>2, <4>3
      <4> QED
        BY <4>4
    <3>2. CASE i = Len(mLines) + 1
      <4>1. mLines'[i] = <<r, s, n>>
        BY <2>2, <3>2
      <4>2. n > 1 /\ mLines'[i][1] = r /\ mLines'[i][2] = s /\ mLines'[i][3] = n
        BY <2>8, <4>1
      <4>3. n - 1 = read[r][s] /\ read[r][s] \in 1..read[r][s]
        BY <2>2, <4>2
      <4>4. PICK j \in 1..Len(mLines) : mLines[j] = <<r, s, n - 1>>
        BY <2>4, <4>3
      <4>5. j \in 1..(i - 1) /\ mLines'[j] = <<r, s, n - 1>>
        BY <2>2, <3>2, <4>4
      <4> QED
        BY <4>2, <4>5
    <3> QED
      BY <2>3, <3>1, <3>2
  <2> QED
    BY <2>1, <2>5, <2>6, <2>7, <2>8 DEF LogSoFar
<1>8. ASSUME NEW v \in Viewers, Follow(v)
      PROVE  LogSoFar'
  BY <1>8 DEF Follow, LogSoFar, Free, sessionVars, childVars
<1> QED
  BY <1>1, <1>2, <1>3, <1>4, <1>5, <1>6, <1>7, <1>8, NextMovesLog DEF LogMoves

\* Where the run of a page's first line stands.
LEMMA PageTypes ==
  ASSUME TypeOK, NEW v \in Viewers
  PROVE  /\ page[v].from \in Nat /\ page[v].got \in Seq(Lines)
         /\ page[v].got # <<>> =>
              /\ Len(page[v].got) \in Nat /\ 1 \in 1..Len(page[v].got)
              /\ page[v].got[1][1] \in Runs /\ page[v].got[1][1] \in Children
              /\ page[v].got[1][1] # NoRun
<1>1. page[v].from \in Nat /\ page[v].got \in Seq(Lines) /\ Len(page[v].got) \in Nat
  BY DEF TypeOK
<1>2. ASSUME page[v].got # <<>>
      PROVE  1 \in 1..Len(page[v].got)
  BY <1>1, <1>2
<1>3. ASSUME page[v].got # <<>>
      PROVE  page[v].got[1] \in Lines
  BY <1>1, <1>2, <1>3, ElementOfSeq
<1> QED
  BY <1>1, <1>2, <1>3, ChildrenAreRequests DEF Lines

\* A page goes on having a prefix of the log it follows.
LEMMA PageStep ==
  ASSUME ChildInv, SessionInv, LogSoFar, NEW v \in Viewers, PageSoFar(v), [Next]_vars
  PROVE  PageSoFar(v)'
<1> DEFINE p == page[v]
           mine == p.got[1][1]
<1>0. /\ p.from \in Nat /\ p.got \in Seq(Lines) /\ mLines \in Seq(Lines) /\ Len(mLines) \in Nat
      /\ p.got # <<>> => mine \in Runs /\ mine # NoRun /\ stage[mine] = "started"
                         /\ stage'[mine] = "started"
  BY PageTypes, StartedStays DEF SessionInv, TypeOK, PageSoFar
<1>1. CASE UNCHANGED <<sessionVars, read, page>>
  BY <1>0, <1>1 DEF PageSoFar, Free, sessionVars
<1>2. ASSUME NEW r \in Runs, Claim(r)
      PROVE  PageSoFar(v)'
  <2>1. mMutex' # NoRun /\ UNCHANGED page
    BY <1>2, ChildrenAreRequests DEF Claim
  <2> QED
    BY <1>0, <2>1 DEF PageSoFar, Free
<1>3. ASSUME NEW r \in Runs, ReplaceChild(r)
      PROVE  PageSoFar(v)'
  <2>1. mMutex' # NoRun /\ UNCHANGED page
    BY <1>3, ChildrenAreRequests DEF ReplaceChild, SessionInv, Starting
  <2> QED
    BY <1>0, <2>1 DEF PageSoFar, Free
<1>4. ASSUME NEW r \in Runs, RunFails(r)
      PROVE  PageSoFar(v)'
  <2>1. mChild' = NoRun /\ UNCHANGED page
    BY <1>4 DEF RunFails
  <2> QED
    BY <1>0, <2>1 DEF PageSoFar
<1>5. ASSUME NEW r \in Runs, RunStarts(r)
      PROVE  PageSoFar(v)'
  <2>1. /\ mChild' = r /\ stage[r] = "closed" /\ UNCHANGED page
    BY <1>5, HalfStarted DEF RunStarts, StartReaders
  <2> QED
    BY <1>0, <2>1 DEF PageSoFar
<1>6. ASSUME NEW r \in Runs, RunExits(r)
      PROVE  PageSoFar(v)'
  <2>1. mActive' = FALSE /\ UNCHANGED <<page, mLines, mChild, mMutex>>
    BY <1>6 DEF RunExits
  <2> QED
    BY <1>0, <2>1 DEF PageSoFar, Free
<1>7. ASSUME NEW r \in Runs, NEW s \in Streams, Deliver(r, s)
      PROVE  PageSoFar(v)'
  <2>1. /\ mActive = TRUE /\ Free
        /\ UNCHANGED <<page, mChild, mMutex, mActive>>
    BY <1>7, DeliversOwn DEF Deliver
  <2>2. /\ mLines' = Append(mLines, <<r, s, read[r][s] + 1>>)
        /\ Len(mLines') = Len(mLines) + 1
        /\ read[r][s] \in Nat
        /\ \A i \in 1..Len(mLines) : mLines'[i] = mLines[i]
    BY <1>7, DeliveredLine DEF Streams
  <2>3. ASSUME p.got # <<>>, mine = mChild
        PROVE  /\ p.from <= Len(mLines') /\ p.got = SubSeq(mLines', 1, p.from)
               /\ p.state # "ended"
    <3>1. p.from <= Len(mLines) /\ p.got = SubSeq(mLines, 1, p.from) /\ p.state # "ended"
      BY <2>1, <2>3, Zenon DEF PageSoFar
    <3>2. mLines' \in Seq(Lines)
      <4>1. <<r, s, read[r][s] + 1>> \in Lines
        BY <2>2 DEF Lines
      <4> QED
        BY <1>0, <2>2, <4>1, AppendProperties
    <3>3. SubSeq(mLines', 1, p.from) = SubSeq(mLines, 1, p.from)
      <4> DEFINE a == SubSeq(mLines', 1, p.from)
                 b == SubSeq(mLines, 1, p.from)
      <4>1. \A i \in 1..p.from : mLines[i] \in Lines /\ mLines'[i] \in Lines
        BY <1>0, <2>2, <3>1, <3>2, ElementOfSeq
      <4>2. a \in Seq(Lines) /\ Len(a) = p.from /\ \A i \in 1..p.from : a[i] = mLines'[i]
        BY <1>0, <2>2, <3>1, <3>2, <4>1, SubSeqProperties
      <4>3. b \in Seq(Lines) /\ Len(b) = p.from /\ \A i \in 1..p.from : b[i] = mLines[i]
        BY <1>0, <3>1, <4>1, SubSeqProperties
      <4>4. \A i \in 1..p.from : a[i] = b[i]
        BY <1>0, <2>2, <3>1, <4>2, <4>3
      <4> HIDE DEF a, b
      <4> QED
        BY <4>2, <4>3, <4>4, SeqEqual
    <3>4. p.from <= Len(mLines')
      BY <1>0, <2>2, <3>1
    <3> QED
      BY <3>1, <3>3, <3>4, Zenon
  <2> QED
    BY <1>0, <2>1, <2>3 DEF PageSoFar
<1>8. ASSUME NEW w \in Viewers, Follow(w)
      PROVE  PageSoFar(v)'
  <2>1. Free /\ UNCHANGED <<sessionVars, stage>>
    BY <1>8 DEF Follow, childVars
  <2>2. CASE w # v
    <3>1. page'[v] = page[v]
      BY <1>8, <2>2 DEF Follow, SessionInv, TypeOK
    <3> QED
      BY <1>0, <2>1, <3>1 DEF PageSoFar, Free, sessionVars
  <2>3. CASE w = v
    <3> DEFINE q == page'[v]
               new == SubSeq(mLines, p.from + 1, Len(mLines))
    <3>1. /\ q.from = Len(mLines) /\ q.got = p.got \o new
          /\ q.state = "ended" <=> ~mActive
      BY <1>8, <2>3 DEF Follow, Update, SessionInv, TypeOK
    <3>2. new \in Seq(Lines)
      BY <1>0, UpdateType DEF SessionInv, Update
    <3>3. mLines # <<>> => /\ mLines[1] \in Lines /\ mLines[1][1] = mChild /\ mChild \in Runs
                           /\ mChild # NoRun /\ stage[mChild] = "started"
      <4> SUFFICES ASSUME mLines # <<>>
                   PROVE  /\ mLines[1] \in Lines /\ mLines[1][1] = mChild /\ mChild \in Runs
                          /\ mChild # NoRun /\ stage[mChild] = "started"
        OBVIOUS
      <4>1. 1 \in 1..Len(mLines)
        BY <1>0
      <4>2. mLines[1] \in Lines
        BY <1>0, <4>1, ElementOfSeq
      <4>3. mLines[1][1] = mChild
        BY <4>1 DEF LogSoFar
      <4>4. mChild \in Runs /\ mChild # NoRun /\ mChild \in Children
        BY <4>2, <4>3, ChildrenAreRequests DEF Lines
      <4>5. CASE mActive
        BY <2>1, <4>2, <4>3, <4>4, <4>5 DEF SessionInv, Owned
      <4>6. CASE ~mActive
        BY <4>2, <4>3, <4>4, <4>6 DEF SessionInv, Owned, Reported, ChildInv, Spawned
      <4> QED
        BY <4>2, <4>3, <4>4, <4>5, <4>6
    <3>4. CASE p.got = <<>>
      <4>1. p.from = 0
        BY <3>4 DEF PageSoFar
      <4>2. new = mLines
        BY <1>0, <4>1, SubSeqFull
      <4>3. q.got = mLines
        BY <1>0, <3>1, <3>4, <4>2, ConcatEmptySeq
      <4>4. mLines = SubSeq(mLines, 1, Len(mLines))
        BY <1>0, SubSeqFull
      <4>5. mLines = <<>> => Len(mLines) = 0
        OBVIOUS
      <4> HIDE DEF new, q
      <4>6. /\ q.got = <<>> => q.from = 0
            /\ q.got # <<>> => stage[q.got[1][1]] = "started"
            /\ q.got = SubSeq(mLines, 1, q.from) /\ q.from <= Len(mLines)
            /\ q.state = "ended" => ~mActive /\ q.from = Len(mLines)
        BY <1>0, <3>1, <3>3, <4>3, <4>4, <4>5
      <4> QED
        BY <2>1, <4>6 DEF PageSoFar, q, sessionVars
    <3>5. CASE p.got # <<>>
      <4>1. 1 \in 1..Len(p.got)
        BY <3>5, PageTypes DEF SessionInv
      <4>2. q.got # <<>> /\ q.got[1] = p.got[1]
        BY <1>0, <3>1, <3>2, <4>1, ConcatProperties
      <4>3. ASSUME mine = mChild
            PROVE  q.got = SubSeq(mLines, 1, q.from)
        <5>1. p.from <= Len(mLines) /\ p.got = SubSeq(mLines, 1, p.from)
          BY <2>1, <3>5, <4>3, Zenon DEF PageSoFar
        <5>2. SubSeq(mLines, 1, p.from) \o new = SubSeq(mLines, 1, Len(mLines))
          <6>1. /\ 1 \in 1..(Len(mLines) + 1) /\ p.from \in (1 - 1)..Len(mLines)
                /\ Len(mLines) \in p.from..Len(mLines)
            BY <1>0, <5>1
          <6> QED
            BY <1>0, <6>1, ConcatAdjacentSubSeq DEF new
        <5> QED
          BY <3>1, <5>1, <5>2
      <4> HIDE DEF new, q
      <4> QED
        BY <1>0, <2>1, <3>1, <3>5, <4>2, <4>3 DEF PageSoFar, q, sessionVars
    <3> QED
      BY <3>4, <3>5
  <2> QED
    BY <2>2, <2>3
<1> QED
  BY <1>1, <1>2, <1>3, <1>4, <1>5, <1>6, <1>7, <1>8, NextMovesLog DEF LogMoves

----------------------------------------------------------------------------
(* The invariant.                                                          *)

LEMMA IInvInit == Init => IInv
<1> SUFFICES ASSUME Init PROVE IInv
  OBVIOUS
<1> USE ChildrenAreRequests DEF Init, ChildInit
<1>1. ChildTypeOK
  <2>1. \A c \in Children, s \in Streams : MaxLines[c][s] \in Nat
    BY MaxLinesIsBound
  <2> QED
    BY <2>1 DEF ChildTypeOK, Holders, Streams
<1>2. ChildInv
  BY <1>1 DEF ChildInv, Spawned, Reaping, Streamed, Streams
<1>3. PICK world \in Worlds :
        /\ request = [c \in Children |-> Comes(c, world)]
        /\ page = [v \in Viewers |-> [state |-> Comes(v, world), from |-> 0, got |-> <<>>]]
        /\ download = [d \in Downloads |-> [state |-> Comes(d, world), of |-> NoRun]]
  OBVIOUS
<1>4. \A x : Comes(x, world) \in {"absent", "asked"}
  BY DEF Comes
<1>5. <<>> \in Seq(Lines)
  OBVIOUS
<1>6. /\ request \in [Children -> {"absent", "asked"}]
      /\ page \in [Viewers -> [state : {"absent", "asked", "following", "ended"},
                               from : Nat, got : Seq(Lines)]]
      /\ download \in [Downloads -> [state : {"absent", "asked", "checked", "answered"},
                                     of : Runs \cup {NoRun}]]
  BY <1>3, <1>4, <1>5
<1>7. TypeOK
  BY <1>1, <1>5, <1>6 DEF TypeOK
<1>8. SessionInv
  BY <1>6, <1>7 DEF SessionInv, Starting, Over, Owned, Reported, Victims, Free
<1>9. LogSoFar
  BY DEF LogSoFar
<1>10. \A v \in Viewers : PageSoFar(v)
  BY <1>3 DEF PageSoFar
<1>11. KilledIsGone
  BY DEF KilledIsGone
<1> HIDE DEF Init
<1> QED
  BY <1>2, <1>8, <1>9, <1>10, <1>11 DEF IInv

LEMMA IInvStep == IInv /\ [Next]_vars => IInv'
<1> SUFFICES ASSUME IInv, [Next]_vars PROVE IInv'
  OBVIOUS
<1>1. ChildInv'
  <2>1. CASE UNCHANGED childVars
    BY <2>1 DEF IInv, ChildInv, ChildTypeOK, Spawned, Reaping, Streamed, childVars
  <2>2. CASE \E x \in Children : ChildStep(x)
    BY <2>2, ChildInvStep DEF IInv
  <2> QED
    BY <2>1, <2>2, NextIsChildStep DEF IInv, SessionInv
<1>2. TypeOK'
  BY <1>1, TypesStep DEF IInv, SessionInv, ChildInv
<1>3. SessionInv'
  BY <1>2, StartingStep, OwnedStep, VictimsStep DEF IInv, SessionInv
<1>4. LogSoFar'
  BY <1>1, LogStep DEF IInv, ChildInv
<1>5. \A v \in Viewers : PageSoFar(v)'
  BY PageStep DEF IInv
<1>6. KilledIsGone'
  BY VictimsStep DEF IInv
<1> QED
  BY <1>1, <1>3, <1>4, <1>5, <1>6 DEF IInv

LEMMA ConsoleInvariant == Spec => []IInv
BY IInvInit, IInvStep, PTL DEF Spec

----------------------------------------------------------------------------
(* What it shows.                                                          *)

\* Every variable of the session and of its children stays in its type.
THEOREM ConsoleTyped == Spec => []TypeOK
<1>1. IInv => TypeOK
  BY DEF IInv, SessionInv
<1> QED
  BY <1>1, ConsoleInvariant, PTL

\* A page that was told the run is over has all of its log, and the log is that
\* run's lines, every stream in order, complete once the run is over: readers of
\* two streams and of two runs never mix in it (Session::onLine and onExit).
THEOREM LogHoldsTheRun == Spec => []LogIsWhole
<1>1. ASSUME IInv PROVE LogIsTheRuns
  <2>1. \A i \in 1..Len(mLines) :
          /\ mLines[i][1] = mChild
          /\ mLines[i][3] > 1 => \E j \in 1..(i - 1) :
               mLines[j] = <<mLines[i][1], mLines[i][2], mLines[i][3] - 1>>
    BY <1>1 DEF IInv, LogSoFar
  <2>2. ASSUME ~mActive, mChild # NoRun
        PROVE  Len(mLines) = wrote[mChild]["out"] + wrote[mChild]["err"]
    <3>1. Free /\ reader[mChild] \in {"leaving", "done"} /\ mChild \in Children
      BY <1>1, <2>2, ChildrenAreRequests DEF IInv, SessionInv, TypeOK, Owned, Reported
    <3>2. read[mChild]["out"] = wrote[mChild]["out"] /\ read[mChild]["err"] = wrote[mChild]["err"]
      BY <1>1, <3>1 DEF IInv, ChildInv, Streamed
    <3> QED
      BY <1>1, <2>2, <3>1, <3>2 DEF IInv, LogSoFar
  <2> QED
    BY <2>1, <2>2 DEF LogIsTheRuns
<1>2. ASSUME IInv PROVE EndedPageSawItAll
  <2> SUFFICES ASSUME NEW v \in Viewers, page[v].state = "ended", ~mActive, mLines # <<>>,
                      page[v].got # <<>>, page[v].got[1] = mLines[1]
               PROVE  page[v].got = mLines
    BY DEF EndedPageSawItAll
  <2>1. Free /\ mLines \in Seq(Lines) /\ 1 \in 1..Len(mLines)
    BY <1>2 DEF IInv, SessionInv, Owned, TypeOK
  <2>2. page[v].got[1][1] = mChild
    BY <1>2, <2>1 DEF IInv, LogSoFar
  <2>3. page[v].got = SubSeq(mLines, 1, Len(mLines))
    BY <1>2, <2>1, <2>2 DEF IInv, PageSoFar
  <2> QED
    BY <2>1, <2>3, SubSeqFull
<1> QED
  BY <1>1, <1>2, ConsoleInvariant, PTL DEF LogIsWhole

\* When kill() reports success the run it killed has been reaped, also if it
\* ended by itself or another page started a run meanwhile (Session::kill).
THEOREM KillTellsTrue == Spec => []KilledIsGone
<1>1. IInv => KilledIsGone
  BY DEF IInv
<1> QED
  BY <1>1, ConsoleInvariant, PTL

\* SIGKILL goes to a process of ours that exists: the reader's waitpid and the
\* kill exclude each other through Platform::Mutex (ChildStream::kill).
THEOREM KillHitsOurs == Spec => KillOnlyOurs
<1>1. ASSUME IInv, [Next]_vars, NEW e \in Emergencies, victim'[e] # victim[e]
      PROVE  proc[victim'[e]] \notin {"none", "reaped"}
  <2>1. Kill(e)
    <3>1. \A f \in Emergencies : Kill(f) => victim' = [victim EXCEPT ![f] = mChild]
      BY DEF Kill
    <3>2. victim \in [Emergencies -> Runs \cup {NoRun}]
      BY <1>1 DEF IInv, SessionInv, TypeOK
    <3>3. (\E f \in Emergencies : Kill(f)) \/ UNCHANGED victim
      BY <1>1 DEF Next, Refuse, Claim, ReplaceChild, RunFails, RunStarts, RunExits, RunActs, Deliver,
         Pipes, Forks, Closes, Progress, StderrDone, Returns, SafeStarts, SafeFails, SafeExits, SafeActs,
         SafeAnswered, SafeAsked, NothingToKill, KillObserved, KillGivesUp, KillReturns, Follow,
         LogChecked, LogSent, Stop, Finished, vars, requestVars
    <3> QED
      BY <1>1, <3>1, <3>2, <3>3
  <2>2. victim'[e] = mChild /\ mChild \in Runs /\ mChild \in Children
    BY <1>1, <2>1, ChildrenAreRequests DEF Kill, CanKill, IInv, SessionInv, TypeOK
  <2>3. stage[mChild] = "started"
    BY <1>1, <2>1 DEF Kill, CanKill, IInv, SessionInv, Owned
  <2>4. reader[mChild] # "locked" /\ ~reaped[mChild]
    BY <2>1 DEF Kill, CanKill, MutexFree
  <2>5. proc[mChild] \notin {"none", "reaped"}
    BY <1>1, <2>2, <2>3, <2>4 DEF IInv, ChildInv, Spawned, Reaping
  <2> QED
    BY <2>2, <2>5
<1>2. IInv /\ [Next]_vars => [\A e \in Emergencies :
         victim'[e] # victim[e] => proc[victim'[e]] \notin {"none", "reaped"}]_vars
  BY <1>1
<1> QED
  BY <1>2, ConsoleInvariant, PTL DEF Spec, KillOnlyOurs

----------------------------------------------------------------------------
(* One run at a time.                                                      *)

\* The run that has been let in, as RunSlot sees it.
InSlot == IF ~mActive THEN NoRun ELSE IF Free THEN mChild ELSE mMutex

SlotStep == [Slot!Next]_<<InSlot, OnRig>>

\* The steps that let a run in or out, or that start or end its process.
SlotMoves ==
  \/ UNCHANGED <<mActive, mMutex, mChild>> /\ OnRig' = OnRig
  \/ \E r \in Runs :
       \/ Claim(r) \/ ReplaceChild(r) \/ RunFails(r) \/ RunStarts(r) \/ RunExits(r)
       \/ Forks(r)
       \/ Progress(r) /\ Waitpid(r)

\* No other step does.
LEMMA NextMovesSlot ==
  ASSUME TypeOK, [Next]_vars
  PROVE  SlotMoves
<1> USE ChildrenAreRequests DEF SlotMoves, TypeOK, ChildTypeOK, OnRig, OnTheRig, Blocking, childVars,
            sessionVars, requestVars
<1>1. ASSUME NEW r \in Runs, Refuse(r)
      PROVE  SlotMoves
  BY <1>1 DEF Refuse, Goes
<1>2. ASSUME NEW r \in Runs, Claim(r)
      PROVE  SlotMoves
  BY <1>2
<1>3. ASSUME NEW r \in Runs, ReplaceChild(r)
      PROVE  SlotMoves
  BY <1>3
<1>4. ASSUME NEW r \in Runs, RunFails(r)
      PROVE  SlotMoves
  BY <1>4
<1>5. ASSUME NEW r \in Runs, RunStarts(r)
      PROVE  SlotMoves
  BY <1>5
<1>6. ASSUME NEW r \in Runs, RunExits(r)
      PROVE  SlotMoves
  BY <1>6
<1>7. ASSUME NEW r \in Runs, RunActs(r)
      PROVE  SlotMoves
  BY <1>7 DEF RunActs, OwnSteps, WriteLine, Exit, BecomeZombie
<1>8. ASSUME NEW r \in Runs, NEW s \in Streams, Deliver(r, s)
      PROVE  SlotMoves
  BY <1>8 DEF Deliver, HandOn, CanRead
<1>9. ASSUME NEW c \in Children, Pipes(c)
      PROVE  SlotMoves
  BY <1>9 DEF Pipes, MakePipes
<1>10. ASSUME NEW c \in Children, Forks(c)
       PROVE  SlotMoves
  <2>1. CASE c \in Runs
    BY <1>10, <2>1, Zenon
  <2>2. CASE c \notin Runs
    BY <1>10, <2>2 DEF Forks, Fork
  <2> QED
    BY <2>1, <2>2
<1>11. ASSUME NEW c \in Children, Closes(c)
       PROVE  SlotMoves
  BY <1>11 DEF Closes, CloseEnds
<1>12. ASSUME NEW c \in Children, Progress(c)
       PROVE  SlotMoves
  <2>1. CASE c \in Runs /\ Waitpid(c)
    BY <1>12, <2>1, Zenon
  <2>2. CASE c \notin Runs /\ Waitpid(c)
    BY <1>12, <2>2 DEF Progress, Waitpid
  <2>3. CASE ~Waitpid(c)
    BY <1>12, <2>3 DEF Progress, ReaderSteps, StdoutEnds, JoinStderr, MarkReaped
  <2> QED
    BY <2>1, <2>2, <2>3
<1>13. ASSUME NEW c \in Children, StderrDone(c)
       PROVE  SlotMoves
  BY <1>13 DEF StderrDone, StderrEnds
<1>14. ASSUME NEW c \in Children, Returns(c)
       PROVE  SlotMoves
  BY <1>14 DEF Returns, ReaderReturns
<1>15. ASSUME NEW c \in Blocking, SafeStarts(c)
       PROVE  SlotMoves
  BY <1>15 DEF SafeStarts, StartReaders
<1>16. ASSUME NEW c \in Blocking, SafeFails(c)
       PROVE  SlotMoves
  BY <1>16 DEF SafeFails, SpawnFails, Goes
<1>17. ASSUME NEW c \in Blocking, SafeExits(c)
       PROVE  SlotMoves
  BY <1>17 DEF SafeExits
<1>18. ASSUME NEW c \in Blocking, SafeActs(c)
       PROVE  SlotMoves
  BY <1>18 DEF SafeActs, Exit, BecomeZombie
<1>19. ASSUME NEW c \in Blocking, SafeAnswered(c)
       PROVE  SlotMoves
  BY <1>19 DEF SafeAnswered, Goes
<1>20. ASSUME NEW c \in Safes, SafeAsked(c)
       PROVE  SlotMoves
  BY <1>20 DEF SafeAsked, Goes
<1>21. ASSUME NEW e \in Emergencies, NothingToKill(e)
       PROVE  SlotMoves
  BY <1>21 DEF NothingToKill, Goes
<1>22. ASSUME NEW e \in Emergencies, Kill(e)
       PROVE  SlotMoves
  BY <1>22 DEF Kill, CanKill, MutexFree, Signal, Goes
<1>23. ASSUME NEW e \in Emergencies, KillObserved(e) \/ KillGivesUp(e)
       PROVE  SlotMoves
  BY <1>23 DEF KillObserved, KillGivesUp, KillReturns, Goes
<1>24. ASSUME NEW v \in Viewers, Follow(v)
       PROVE  SlotMoves
  BY <1>24 DEF Follow
<1>25. ASSUME NEW d \in Downloads, LogChecked(d)
       PROVE  SlotMoves
  BY <1>25 DEF LogChecked
<1>26. ASSUME NEW d \in Downloads, LogSent(d)
       PROVE  SlotMoves
  BY <1>26 DEF LogSent
<1>27. CASE Stop
  BY <1>27 DEF Stop, StopDelivered
<1>28. CASE Finished \/ UNCHANGED vars
  BY <1>28 DEF Finished, vars
<1> QED
  BY <1>1, <1>2, <1>3, <1>4, <1>5, <1>6, <1>7, <1>8, <1>9, <1>10, <1>11, <1>12, <1>13,
     <1>14, <1>15, <1>16, <1>17, <1>18, <1>19, <1>20, <1>21, <1>22, <1>23, <1>24, <1>25, <1>26,
     <1>27, <1>28
     DEF Next

\* Only the run that has been let in has a process, and it is let out only
\* when that one is gone.
LEMMA SlotHolds ==
  ASSUME ChildInv, SessionInv
  PROVE  /\ OnRig \subseteq {InSlot}
         /\ \A r \in OnRig : r = mChild /\ ~Reported /\ mActive /\ stage[r] \in {"forked", "closed", "started"}
<1> SUFFICES ASSUME NEW r \in OnRig
             PROVE  /\ r = mChild /\ ~Reported /\ mActive /\ r = InSlot
                    /\ stage[r] \in {"forked", "closed", "started"}
  OBVIOUS
<1>1. r \in Runs /\ r \in Children /\ r # NoRun /\ proc[r] \in OnTheRig
  BY ChildrenAreRequests DEF OnRig
<1>2. reader[r] \notin {"leaving", "done"} /\ stage[r] \in {"forked", "closed", "started"}
  BY <1>1 DEF ChildInv, ChildTypeOK, Spawned, Reaping, OnTheRig
<1>3. r = mChild
  BY <1>1, <1>2 DEF SessionInv, Over
<1>4. ~Reported
  BY <1>1, <1>2, <1>3 DEF Reported
<1>5. mActive
  BY <1>4 DEF SessionInv, Owned
<1>6. CASE Free
  BY <1>2, <1>3, <1>4, <1>5, <1>6 DEF InSlot
<1>7. CASE ~Free
  <2>1. mMutex \in Runs /\ request[mMutex] = "spawning"
    BY <1>4, <1>7 DEF SessionInv, Owned, TypeOK, Free
  <2>2. mMutex = mChild
    BY <2>1 DEF SessionInv, Starting
  <2> QED
    BY <1>2, <1>3, <1>4, <1>5, <1>7, <2>2 DEF InSlot
<1> QED
  BY <1>6, <1>7

\* Every step is one of the slot's, or none of its business.
LEMMA SlotKept ==
  ASSUME ChildInv, SessionInv, [Next]_vars
  PROVE  SlotStep
<1> USE DEF SlotStep, Slot!Next
<1>1. CASE UNCHANGED <<mActive, mMutex, mChild>> /\ OnRig' = OnRig
  BY <1>1 DEF InSlot, Free
<1>2. ASSUME NEW r \in Runs, Claim(r)
      PROVE  SlotStep
  <2>1. InSlot = NoRun /\ InSlot' = r /\ OnRig' = OnRig
    BY <1>2, ChildrenAreRequests DEF Claim, InSlot, Free, OnRig, childVars
  <2> QED
    BY <2>1 DEF Slot!Claim, InSlot
<1>3. ASSUME NEW r \in Runs, ReplaceChild(r)
      PROVE  SlotStep
  <2>1. mMutex = r /\ r # NoRun
    BY <1>3, ChildrenAreRequests DEF ReplaceChild, SessionInv, Starting
  <2>2. InSlot' = InSlot /\ OnRig' = OnRig
    BY <1>3, <2>1 DEF ReplaceChild, InSlot, Free, OnRig, childVars
  <2> QED
    BY <2>2
<1>4. ASSUME NEW r \in Runs, RunFails(r)
      PROVE  SlotStep
  <2>1. r \in Children /\ r # NoRun /\ mMutex = r /\ mChild = r /\ mActive
    BY <1>4, HalfStarted DEF RunFails, SpawnFails
  <2>2. OnRig = {}
    BY <1>4, <2>1, SlotHolds DEF RunFails, SpawnFails
  <2>3. InSlot = r /\ InSlot' = NoRun /\ OnRig' = OnRig
    BY <1>4, <2>1 DEF RunFails, SpawnFails, InSlot, Free, OnRig
  <2> QED
    BY <2>1, <2>2, <2>3 DEF Slot!Release, InSlot
<1>5. ASSUME NEW r \in Runs, RunStarts(r)
      PROVE  SlotStep
  <2>1. r # NoRun /\ mMutex = r /\ mChild = r
    BY <1>5, HalfStarted DEF RunStarts, StartReaders
  <2>2. InSlot' = InSlot /\ OnRig' = OnRig
    BY <1>5, <2>1 DEF RunStarts, StartReaders, InSlot, Free, OnRig
  <2> QED
    BY <2>2
<1>6. ASSUME NEW r \in Runs, RunExits(r)
      PROVE  SlotStep
  <2>1. r \in Children /\ r # NoRun
    BY ChildrenAreRequests
  <2>2. reader[r] = "exited" /\ Free /\ proc[r] = "reaped" /\ stage[r] = "started"
    BY <1>6, <2>1 DEF RunExits, ChildInv, Spawned, Reaping
  <2>3. r = mChild
    BY <2>1, <2>2 DEF SessionInv, Over
  <2>4. mActive
    BY <2>1, <2>2, <2>3 DEF SessionInv, Owned, Reported
  <2>5. OnRig = {}
    BY <2>2, <2>3, SlotHolds DEF OnRig, OnTheRig
  <2>6. InSlot = r /\ InSlot' = NoRun /\ OnRig' = OnRig
    BY <1>6, <2>2, <2>3, <2>4 DEF RunExits, InSlot, Free, OnRig
  <2> QED
    BY <2>1, <2>5, <2>6 DEF Slot!Release, InSlot
<1>7. ASSUME NEW r \in Runs, Forks(r)
      PROVE  SlotStep
  <2>1. /\ r \in Children /\ r # NoRun /\ mMutex = r /\ mChild = r /\ mActive /\ ~Free
        /\ stage[r] = "piped" /\ proc' = [proc EXCEPT ![r] = "alive"]
    BY <1>7, HalfStarted DEF Forks, Fork
  <2>2. OnRig = {}
    BY <2>1, SlotHolds
  <2>3. OnRig' = {r}
    BY <2>1, <2>2 DEF OnRig, OnTheRig, ChildInv, ChildTypeOK
  <2>4. InSlot = r /\ InSlot' = InSlot
    BY <1>7, <2>1 DEF Forks, InSlot, Free, sessionVars
  <2> QED
    BY <2>2, <2>3, <2>4 DEF Slot!Launch, InSlot
<1>8. ASSUME NEW r \in Runs, Progress(r), Waitpid(r)
      PROVE  SlotStep
  <2>1. r \in Children /\ proc[r] = "zombie" /\ proc' = [proc EXCEPT ![r] = "reaped"]
    BY <1>8, ChildrenAreRequests DEF Waitpid
  <2>2. r \in OnRig
    BY <2>1 DEF OnRig, OnTheRig
  <2>3. OnRig' = {}
    BY <2>1, <2>2, SlotHolds DEF OnRig, OnTheRig, ChildInv, ChildTypeOK
  <2>4. InSlot' = InSlot
    BY <1>8 DEF Progress, InSlot, Free, sessionVars
  <2> QED
    BY <2>2, <2>3, <2>4 DEF Slot!End, InSlot
<1> QED
  BY <1>1, <1>2, <1>3, <1>4, <1>5, <1>6, <1>7, <1>8, NextMovesSlot DEF SlotMoves, SessionInv

\* Whatever stops, kills, failed starts and late readers there are, a run is let
\* in only when the last one's process has gone (Session::start and onExit).
THEOREM ConsoleRunsOne == Spec => OneRunAtATime
<1>1. Init => Slot!Init
  BY ChildrenAreRequests DEF Init, ChildInit, Slot!Init, OnRig, OnTheRig
<1>2. IInv /\ [Next]_vars => SlotStep
  BY SlotKept DEF IInv
<1>3. SlotStep => [Slot!Next]_(Slot!vars)
  BY DEF SlotStep, Slot!vars, InSlot
<1> QED
  BY <1>1, <1>2, <1>3, ConsoleInvariant, PTL DEF Spec, OneRunAtATime, Slot!Spec

----------------------------------------------------------------------------
(* Launchers: whoever has the lock has the group, the group has the server, *)
(* and the server has the pages.                                            *)

Early == {"out", "lock", "handOver", "group", "server"}
Owning == {"server", "wait", "chrome", "watch"}

\* Before a launcher has spawned its server it has nothing, and has not looked.
Unspawned(l) ==
  /\ main[l] \in Early => server[l] = "none" /\ run[l] = "none"
  /\ main[l] \in Early \ {"server"} => group[l] = "none"
  /\ main[l] \in Early \cup {"wait", "chrome"} => watch[l] = [seen |-> FALSE, idle |-> 0, gone |-> 0]
  /\ main[l] \in {"wait", "chrome", "watch"} => server[l] # "none"

\* Whoever has a group of his own has the lock, from before until after.
Locked(l) ==
  /\ main[l] = "group" => holder = l
  /\ main[l] \in Owning => group[l] = "held"
  /\ group[l] = "held" => holder = l /\ main[l] \in Owning \cup {"report", "leave"}
  /\ left[l] = "no" => main[l] \in Early \cup Owning

\* A server lives as long as its group, but for a SIGTERM on its way.
Housed(l) ==
  server[l] \in {"starting", "up"} =>
    \/ group[l] \in {"held", "closed"}
    \/ group[l] = "termed" /\ "server" \in pending[l]

\* A launcher that has counted a look, and not left, has not counted enough; nor
\* is a page being reloaded that was there at that look.
Counting(l) ==
  main[l] = "watch" =>
    /\ watch[l].idle < ClosedGrace /\ watch[l].gone < ServerGone
    /\ watch[l].idle > 0 => \A w \in Windows : window[w] # "reloading"

\* A page is connected to a server that is up.
Linked(w) ==
  /\ counted[w] # Nobody => server[counted[w]] = "up"
  /\ window[w] = "open" => counted[w] # Nobody

LauncherInv ==
  /\ LauncherTypeOK
  /\ \A l \in Launchers : Unspawned(l) /\ Locked(l) /\ Housed(l) /\ Counting(l)
  /\ \A w \in Windows : Linked(w)

USE DEF Early, Owning, mainVars, serverVars, pageVars

LEMMA ConstantsInNat ==
  ClosedGrace \in Nat /\ ClosedGrace > 1 /\ ServerGone \in Nat /\ ServerGone > 0 /\ MaxMishaps \in Nat /\ MaxRuns \in Nat
BY LauncherAssumption

Counts == [seen : BOOLEAN, idle : 0..ClosedGrace, gone : 0..ServerGone]

LEMMA CountsOn ==
  ASSUME NEW w \in Counts, w.idle < ClosedGrace, w.gone < ServerGone
  PROVE  /\ [w EXCEPT !.gone = @ + 1, !.idle = 0] \in Counts
         /\ [w EXCEPT !.idle = @ + 1, !.gone = 0] \in Counts
         /\ [w EXCEPT !.gone = 0, !.idle = 0] \in Counts
         /\ \A seen \in BOOLEAN : [seen |-> seen, idle |-> 0, gone |-> 0] \in Counts
         /\ w.seen \in BOOLEAN
<1>1. 0 \in 0..ClosedGrace /\ 0 \in 0..ServerGone /\ w.idle + 1 \in 0..ClosedGrace /\ w.gone + 1 \in 0..ServerGone
  BY ConstantsInNat DEF Counts
<1> QED
  BY <1>1 DEF Counts

LEMMA LauncherBegins ==
  ASSUME LauncherInit PROVE LauncherInv
<1>1. LauncherTypeOK
  BY LauncherAssumption DEF LauncherInit, LauncherTypeOK, Places
<1> QED
  BY LauncherAssumption, <1>1 DEF LauncherInit, LauncherInv, Unspawned, Locked, Housed, Counting, Linked

LEMMA StartKept ==
  ASSUME LauncherInv, NEW l \in Launchers, Start(l) PROVE LauncherInv'
<1> USE DEF Start
<1>1. LauncherTypeOK'
  <2>1. UNCHANGED <<system, left, watch, holder, group, pending, server, run, safing, browser, window, counted, mishaps, runs>>
    OBVIOUS
  <2>2. main' \in [Launchers -> Places]
    BY DEF LauncherInv, LauncherTypeOK, Places
  <2> QED
    BY <2>1, <2>2 DEF LauncherInv, LauncherTypeOK
<1>2. \A k \in Launchers : Unspawned(k)'
  BY LauncherAssumption DEF LauncherInv, LauncherTypeOK, Places, Unspawned, Linked, Locked
<1>3. \A k \in Launchers : Locked(k)'
  BY LauncherAssumption DEF LauncherInv, LauncherTypeOK, Places, Unspawned, Locked
<1>4. \A k \in Launchers : Housed(k)'
  BY DEF LauncherInv, LauncherTypeOK, Places, Unspawned, Locked, Housed
<1>5. \A k \in Launchers : Counting(k)'
  BY ConstantsInNat DEF LauncherInv, LauncherTypeOK, Places, Unspawned, Counting
<1>6. \A v \in Windows : Linked(v)'
  BY LauncherAssumption DEF LauncherInv, LauncherTypeOK, Linked
<1> QED
  BY <1>1, <1>2, <1>3, <1>4, <1>5, <1>6 DEF LauncherInv

LEMMA TakeLockKept ==
  ASSUME LauncherInv, NEW l \in Launchers, TakeLock(l) PROVE LauncherInv'
<1> USE DEF TakeLock, GoesTo, Leaves, Mishap
<1>1. LauncherTypeOK'
  <2>1. UNCHANGED <<system, watch, group, pending, server, run, safing, browser, window, counted, runs>>
    OBVIOUS
  <2>2. main' \in [Launchers -> Places]
    BY DEF LauncherInv, LauncherTypeOK, Places
  <2>3. left' \in [Launchers -> {"no", "closed", "stopped", "failed", "shown", "killed"}]
    BY DEF LauncherInv, LauncherTypeOK
  <2>4. holder' \in Launchers \cup {Nobody}
    BY DEF LauncherInv, LauncherTypeOK
  <2>5. mishaps' \in 0..MaxMishaps
    BY ConstantsInNat DEF LauncherInv, LauncherTypeOK
  <2> QED
    BY <2>1, <2>2, <2>3, <2>4, <2>5 DEF LauncherInv, LauncherTypeOK
<1>2. \A k \in Launchers : Unspawned(k)'
  BY LauncherAssumption DEF LauncherInv, LauncherTypeOK, Places, Unspawned, Linked, Locked
<1>3. \A k \in Launchers : Locked(k)'
  BY LauncherAssumption DEF LauncherInv, LauncherTypeOK, Places, Unspawned, Locked
<1>4. \A k \in Launchers : Housed(k)'
  BY DEF LauncherInv, LauncherTypeOK, Places, Unspawned, Locked, Housed
<1>5. \A k \in Launchers : Counting(k)'
  BY ConstantsInNat DEF LauncherInv, LauncherTypeOK, Places, Unspawned, Counting
<1>6. \A v \in Windows : Linked(v)'
  BY LauncherAssumption DEF LauncherInv, LauncherTypeOK, Linked
<1> QED
  BY <1>1, <1>2, <1>3, <1>4, <1>5, <1>6 DEF LauncherInv

LEMMA HandOverKept ==
  ASSUME LauncherInv, NEW l \in Launchers, HandOver(l) PROVE LauncherInv'
<1> USE DEF HandOver, GoesTo, Leaves, Mishap, OpenWindow
<1>1. LauncherTypeOK'
  <2>1. UNCHANGED <<system, watch, holder, group, pending, server, run, safing, counted, runs>>
    OBVIOUS
  <2>2. main' \in [Launchers -> Places]
    BY DEF LauncherInv, LauncherTypeOK, Places
  <2>3. left' \in [Launchers -> {"no", "closed", "stopped", "failed", "shown", "killed"}]
    BY DEF LauncherInv, LauncherTypeOK
  <2>4. browser' \in Launchers \cup {Nobody, "detached"}
    BY DEF LauncherInv, LauncherTypeOK
  <2>5. window' \in [Windows -> {"closed", "loading", "open", "reloading", "slow"}]
    BY DEF LauncherInv, LauncherTypeOK
  <2>6. mishaps' \in 0..MaxMishaps
    BY ConstantsInNat DEF LauncherInv, LauncherTypeOK
  <2> QED
    BY <2>1, <2>2, <2>3, <2>4, <2>5, <2>6 DEF LauncherInv, LauncherTypeOK
<1>2. \A k \in Launchers : Unspawned(k)'
  BY LauncherAssumption DEF LauncherInv, LauncherTypeOK, Places, Unspawned, Linked, Locked
<1>3. \A k \in Launchers : Locked(k)'
  BY LauncherAssumption DEF LauncherInv, LauncherTypeOK, Places, Unspawned, Locked
<1>4. \A k \in Launchers : Housed(k)'
  BY DEF LauncherInv, LauncherTypeOK, Places, Unspawned, Locked, Housed
<1>5. \A k \in Launchers : Counting(k)'
  BY ConstantsInNat DEF LauncherInv, LauncherTypeOK, Places, Unspawned, Counting
<1>6. \A v \in Windows : Linked(v)'
  BY LauncherAssumption DEF LauncherInv, LauncherTypeOK, Linked
<1> QED
  BY <1>1, <1>2, <1>3, <1>4, <1>5, <1>6 DEF LauncherInv

LEMMA MakeGroupKept ==
  ASSUME LauncherInv, NEW l \in Launchers, MakeGroup(l) PROVE LauncherInv'
<1> USE DEF MakeGroup, GoesTo, Leaves, Mishap
<1>1. LauncherTypeOK'
  <2>1. UNCHANGED <<system, watch, holder, pending, server, run, safing, browser, window, counted, runs>>
    OBVIOUS
  <2>2. main' \in [Launchers -> Places]
    BY DEF LauncherInv, LauncherTypeOK, Places
  <2>3. left' \in [Launchers -> {"no", "closed", "stopped", "failed", "shown", "killed"}]
    BY DEF LauncherInv, LauncherTypeOK
  <2>4. group' \in [Launchers -> {"none", "held", "closed", "termed", "swept"}]
    BY DEF LauncherInv, LauncherTypeOK
  <2>5. mishaps' \in 0..MaxMishaps
    BY ConstantsInNat DEF LauncherInv, LauncherTypeOK
  <2> QED
    BY <2>1, <2>2, <2>3, <2>4, <2>5 DEF LauncherInv, LauncherTypeOK
<1>2. \A k \in Launchers : Unspawned(k)'
  BY LauncherAssumption DEF LauncherInv, LauncherTypeOK, Places, Unspawned, Linked, Locked
<1>3. \A k \in Launchers : Locked(k)'
  BY LauncherAssumption DEF LauncherInv, LauncherTypeOK, Places, Unspawned, Locked
<1>4. \A k \in Launchers : Housed(k)'
  BY DEF LauncherInv, LauncherTypeOK, Places, Unspawned, Locked, Housed
<1>5. \A k \in Launchers : Counting(k)'
  BY ConstantsInNat DEF LauncherInv, LauncherTypeOK, Places, Unspawned, Counting
<1>6. \A v \in Windows : Linked(v)'
  BY LauncherAssumption DEF LauncherInv, LauncherTypeOK, Linked
<1> QED
  BY <1>1, <1>2, <1>3, <1>4, <1>5, <1>6 DEF LauncherInv

LEMMA SpawnServerKept ==
  ASSUME LauncherInv, NEW l \in Launchers, SpawnServer(l) PROVE LauncherInv'
<1> USE DEF SpawnServer, GoesTo, Leaves, Mishap
<1>1. LauncherTypeOK'
  <2>1. UNCHANGED <<system, watch, holder, group, pending, run, safing, browser, window, counted, runs>>
    OBVIOUS
  <2>2. main' \in [Launchers -> Places]
    BY DEF LauncherInv, LauncherTypeOK, Places
  <2>3. left' \in [Launchers -> {"no", "closed", "stopped", "failed", "shown", "killed"}]
    BY DEF LauncherInv, LauncherTypeOK
  <2>4. server' \in [Launchers -> {"none", "starting", "up", "dead"}]
    <3>1. server' \in {server, [server EXCEPT ![l] = "starting"]}
      OBVIOUS
    <3>2. server \in [Launchers -> {"none", "starting", "up", "dead"}]
      BY DEF LauncherInv, LauncherTypeOK
    <3> QED
      BY <3>1, <3>2
  <2>5. mishaps' \in 0..MaxMishaps
    BY ConstantsInNat DEF LauncherInv, LauncherTypeOK
  <2> QED
    BY <2>1, <2>2, <2>3, <2>4, <2>5 DEF LauncherInv, LauncherTypeOK
<1>2. \A k \in Launchers : Unspawned(k)'
  BY LauncherAssumption DEF LauncherInv, LauncherTypeOK, Places, Unspawned, Linked, Locked
<1>3. \A k \in Launchers : Locked(k)'
  BY LauncherAssumption DEF LauncherInv, LauncherTypeOK, Places, Unspawned, Locked
<1>4. ASSUME NEW k \in Launchers PROVE Housed(k)'
  <2>1. group' = group /\ pending' = pending /\ group[l] = "held" /\ server \in [Launchers -> {"none", "starting", "up", "dead"}]
    BY DEF LauncherInv, LauncherTypeOK, Locked
  <2>2. CASE k = l
    <3>1. group'[k] = "held"
      BY <2>1, <2>2
    <3> QED
      BY <3>1 DEF Housed
  <2>3. CASE k # l
    <3>1. server'[k] = server[k]
      BY <2>1, <2>3
    <3> QED
      BY <2>1, <3>1 DEF LauncherInv, Housed
  <2> QED
    BY <2>2, <2>3
<1>5. \A k \in Launchers : Counting(k)'
  BY ConstantsInNat DEF LauncherInv, LauncherTypeOK, Places, Unspawned, Counting
<1>6. ASSUME NEW v \in Windows PROVE Linked(v)'
  <2>1. counted' = counted /\ window' = window /\ server[l] = "none" /\ server \in [Launchers -> {"none", "starting", "up", "dead"}]
    BY DEF LauncherInv, LauncherTypeOK, Unspawned
  <2>2. counted[v] \in Launchers \cup {Nobody}
    BY DEF LauncherInv, LauncherTypeOK
  <2>3. counted[v] # Nobody => counted[v] # l /\ counted[v] \in Launchers
    BY <2>1, <2>2 DEF LauncherInv, Linked
  <2>4. counted[v] # Nobody => server'[counted[v]] = server[counted[v]]
    BY <2>1, <2>3
  <2> QED
    BY <2>1, <2>4 DEF LauncherInv, Linked
<1> QED
  BY <1>1, <1>2, <1>3, <1>4, <1>5, <1>6 DEF LauncherInv

LEMMA WaitForServerKept ==
  ASSUME LauncherInv, NEW l \in Launchers, WaitForServer(l) PROVE LauncherInv'
<1> USE DEF WaitForServer, GoesTo, Leaves, Mishap
<1>1. LauncherTypeOK'
  <2>1. UNCHANGED <<system, watch, holder, group, pending, server, run, safing, browser, window, counted, runs>>
    OBVIOUS
  <2>2. main' \in [Launchers -> Places]
    <3>1. main' \in {main, [main EXCEPT ![l] = "chrome"], [main EXCEPT ![l] = "report"]}
      OBVIOUS
    <3>2. main \in [Launchers -> Places]
      BY DEF LauncherInv, LauncherTypeOK
    <3> QED
      BY <3>1, <3>2 DEF Places
  <2>3. left' \in [Launchers -> {"no", "closed", "stopped", "failed", "shown", "killed"}]
    BY DEF LauncherInv, LauncherTypeOK
  <2>4. mishaps' \in 0..MaxMishaps
    BY ConstantsInNat DEF LauncherInv, LauncherTypeOK
  <2> QED
    BY <2>1, <2>2, <2>3, <2>4 DEF LauncherInv, LauncherTypeOK
<1>2. \A k \in Launchers : Unspawned(k)'
  BY LauncherAssumption DEF LauncherInv, LauncherTypeOK, Places, Unspawned, Linked, Locked
<1>3. \A k \in Launchers : Locked(k)'
  BY LauncherAssumption DEF LauncherInv, LauncherTypeOK, Places, Unspawned, Locked
<1>4. \A k \in Launchers : Housed(k)'
  BY DEF LauncherInv, LauncherTypeOK, Places, Unspawned, Locked, Housed
<1>5. \A k \in Launchers : Counting(k)'
  BY ConstantsInNat DEF LauncherInv, LauncherTypeOK, Places, Unspawned, Counting
<1>6. \A v \in Windows : Linked(v)'
  BY LauncherAssumption DEF LauncherInv, LauncherTypeOK, Linked
<1> QED
  BY <1>1, <1>2, <1>3, <1>4, <1>5, <1>6 DEF LauncherInv

LEMMA SpawnChromeKept ==
  ASSUME LauncherInv, NEW l \in Launchers, SpawnChrome(l) PROVE LauncherInv'
<1> USE DEF SpawnChrome, GoesTo, Leaves, Mishap, OpenWindow
<1>1. LauncherTypeOK'
  <2>1. UNCHANGED <<system, watch, holder, group, pending, server, run, safing, counted, runs>>
    OBVIOUS
  <2>2. main' \in [Launchers -> Places]
    BY DEF LauncherInv, LauncherTypeOK, Places
  <2>3. left' \in [Launchers -> {"no", "closed", "stopped", "failed", "shown", "killed"}]
    BY DEF LauncherInv, LauncherTypeOK
  <2>4. browser' \in Launchers \cup {Nobody, "detached"}
    BY DEF LauncherInv, LauncherTypeOK
  <2>5. window' \in [Windows -> {"closed", "loading", "open", "reloading", "slow"}]
    BY DEF LauncherInv, LauncherTypeOK
  <2>6. mishaps' \in 0..MaxMishaps
    BY ConstantsInNat DEF LauncherInv, LauncherTypeOK
  <2> QED
    BY <2>1, <2>2, <2>3, <2>4, <2>5, <2>6 DEF LauncherInv, LauncherTypeOK
<1>2. \A k \in Launchers : Unspawned(k)'
  BY LauncherAssumption DEF LauncherInv, LauncherTypeOK, Places, Unspawned, Linked, Locked
<1>3. \A k \in Launchers : Locked(k)'
  BY LauncherAssumption DEF LauncherInv, LauncherTypeOK, Places, Unspawned, Locked
<1>4. \A k \in Launchers : Housed(k)'
  BY DEF LauncherInv, LauncherTypeOK, Places, Unspawned, Locked, Housed
<1>5. \A k \in Launchers : Counting(k)'
  BY ConstantsInNat DEF LauncherInv, LauncherTypeOK, Places, Unspawned, Counting
<1>6. \A v \in Windows : Linked(v)'
  BY LauncherAssumption DEF LauncherInv, LauncherTypeOK, Linked
<1> QED
  BY <1>1, <1>2, <1>3, <1>4, <1>5, <1>6 DEF LauncherInv

LEMMA LookGoneKept ==
  ASSUME LauncherInv, NEW l \in Launchers, LookGone(l) PROVE LauncherInv'
<1> USE DEF LookGone, Look, GoesTo, Leaves
<1>1. LauncherTypeOK'
  <2>1. UNCHANGED <<system, holder, group, pending, server, run, safing, browser, counted, mishaps, runs>>
    OBVIOUS
  <2>2. main' \in [Launchers -> Places]
    BY DEF LauncherInv, LauncherTypeOK, Places
  <2>3. left' \in [Launchers -> {"no", "closed", "stopped", "failed", "shown", "killed"}]
    BY DEF LauncherInv, LauncherTypeOK
  <2>4. watch' \in [Launchers -> Counts]
    <3> DEFINE now == [watch[l] EXCEPT !.gone = @ + 1, !.idle = 0]
    <3>1. watch' = [watch EXCEPT ![l] = now] /\ main[l] = "watch"
      OBVIOUS
    <3>2. watch[l] \in Counts /\ watch[l].idle < ClosedGrace /\ watch[l].gone < ServerGone
      BY <3>1 DEF LauncherInv, LauncherTypeOK, Counting, Counts
    <3>3. now \in Counts
      BY <3>2, CountsOn DEF Saw
    <3>4. watch \in [Launchers -> Counts]
      BY DEF LauncherInv, LauncherTypeOK, Counts
    <3> HIDE DEF now
    <3>5. watch' \in [Launchers -> Counts]
      BY <3>1, <3>3, <3>4
    <3> QED
      BY <3>5
  <2>5. window' \in [Windows -> {"closed", "loading", "open", "reloading", "slow"}]
    BY DEF LauncherInv, LauncherTypeOK
  <2> QED
    BY <2>1, <2>2, <2>3, <2>4, <2>5 DEF LauncherInv, LauncherTypeOK, Counts
<1>2. ASSUME NEW k \in Launchers PROVE Unspawned(k)'
  <2>1. server' = server /\ run' = run /\ group' = group /\ main[l] = "watch"
    OBVIOUS
  <2>2. CASE k = l
    <3>1. main'[l] \in {"watch", "report", "leave"}
      BY <2>1 DEF LauncherInv, LauncherTypeOK
    <3> QED
      BY <2>1, <2>2, <3>1 DEF LauncherInv, Unspawned
  <2>3. CASE k # l
    <3>1. main'[k] = main[k] /\ watch'[k] = watch[k]
      BY <2>3 DEF LauncherInv, LauncherTypeOK
    <3> QED
      BY <2>1, <3>1 DEF LauncherInv, Unspawned
  <2> QED
    BY <2>2, <2>3
<1>3. \A k \in Launchers : Locked(k)'
  BY LauncherAssumption DEF LauncherInv, LauncherTypeOK, Places, Unspawned, Locked
<1>4. \A k \in Launchers : Housed(k)'
  BY DEF LauncherInv, LauncherTypeOK, Places, Unspawned, Locked, Housed
<1>5. \A k \in Launchers : Counting(k)'
  BY ConstantsInNat DEF LauncherInv, LauncherTypeOK, Places, Unspawned, Counting
<1>6. \A v \in Windows : Linked(v)'
  BY LauncherAssumption DEF LauncherInv, LauncherTypeOK, Linked
<1> QED
  BY <1>1, <1>2, <1>3, <1>4, <1>5, <1>6 DEF LauncherInv

LEMMA LookHungKept ==
  ASSUME LauncherInv, NEW l \in Launchers, LookHung(l) PROVE LauncherInv'
<1> USE DEF LookHung, Look, Mishap
<1>1. LauncherTypeOK'
  <2>1. UNCHANGED <<system, main, left, holder, group, pending, server, run, safing, browser, counted, runs>>
    OBVIOUS
  <2>2. watch' \in [Launchers -> Counts]
    <3> DEFINE now == [watch[l] EXCEPT !.gone = 0, !.idle = 0]
    <3>1. watch' = [watch EXCEPT ![l] = now] /\ main[l] = "watch"
      OBVIOUS
    <3>2. watch[l] \in Counts /\ watch[l].idle < ClosedGrace /\ watch[l].gone < ServerGone
      BY <3>1 DEF LauncherInv, LauncherTypeOK, Counting, Counts
    <3>3. now \in Counts
      BY <3>2, CountsOn DEF Saw
    <3>4. watch \in [Launchers -> Counts]
      BY DEF LauncherInv, LauncherTypeOK, Counts
    <3> HIDE DEF now
    <3>5. watch' \in [Launchers -> Counts]
      BY <3>1, <3>3, <3>4
    <3> QED
      BY <3>5
  <2>3. window' \in [Windows -> {"closed", "loading", "open", "reloading", "slow"}]
    BY DEF LauncherInv, LauncherTypeOK
  <2>4. mishaps' \in 0..MaxMishaps
    BY ConstantsInNat DEF LauncherInv, LauncherTypeOK
  <2> QED
    BY <2>1, <2>2, <2>3, <2>4 DEF LauncherInv, LauncherTypeOK, Counts
<1>2. ASSUME NEW k \in Launchers PROVE Unspawned(k)'
  <2>1. server' = server /\ run' = run /\ group' = group /\ main[l] = "watch"
    OBVIOUS
  <2>2. CASE k = l
    <3>1. main'[l] \in {"watch", "report", "leave"}
      BY <2>1 DEF LauncherInv, LauncherTypeOK
    <3> QED
      BY <2>1, <2>2, <3>1 DEF LauncherInv, Unspawned
  <2>3. CASE k # l
    <3>1. main'[k] = main[k] /\ watch'[k] = watch[k]
      BY <2>3 DEF LauncherInv, LauncherTypeOK
    <3> QED
      BY <2>1, <3>1 DEF LauncherInv, Unspawned
  <2> QED
    BY <2>2, <2>3
<1>3. \A k \in Launchers : Locked(k)'
  BY LauncherAssumption DEF LauncherInv, LauncherTypeOK, Places, Unspawned, Locked
<1>4. \A k \in Launchers : Housed(k)'
  BY DEF LauncherInv, LauncherTypeOK, Places, Unspawned, Locked, Housed
<1>5. \A k \in Launchers : Counting(k)'
  BY ConstantsInNat DEF LauncherInv, LauncherTypeOK, Places, Unspawned, Counting
<1>6. \A v \in Windows : Linked(v)'
  BY LauncherAssumption DEF LauncherInv, LauncherTypeOK, Linked
<1> QED
  BY <1>1, <1>2, <1>3, <1>4, <1>5, <1>6 DEF LauncherInv

LEMMA LookInUseKept ==
  ASSUME LauncherInv, NEW l \in Launchers, NEW s \in Launchers, LookInUse(l, s) PROVE LauncherInv'
<1> USE DEF LookInUse, Look
<1>1. LauncherTypeOK'
  <2>1. UNCHANGED <<system, main, left, holder, group, pending, server, run, safing, browser, counted, mishaps, runs>>
    OBVIOUS
  <2>2. watch' \in [Launchers -> Counts]
    <3> DEFINE now == [seen |-> Saw(l, s), idle |-> 0, gone |-> 0]
    <3>1. watch' = [watch EXCEPT ![l] = now] /\ main[l] = "watch"
      OBVIOUS
    <3>2. watch[l] \in Counts /\ watch[l].idle < ClosedGrace /\ watch[l].gone < ServerGone
      BY <3>1 DEF LauncherInv, LauncherTypeOK, Counting, Counts
    <3>3. now \in Counts
      BY <3>2, CountsOn DEF Saw
    <3>4. watch \in [Launchers -> Counts]
      BY DEF LauncherInv, LauncherTypeOK, Counts
    <3> HIDE DEF now
    <3>5. watch' \in [Launchers -> Counts]
      BY <3>1, <3>3, <3>4
    <3> QED
      BY <3>5
  <2>3. window' \in [Windows -> {"closed", "loading", "open", "reloading", "slow"}]
    BY DEF LauncherInv, LauncherTypeOK
  <2> QED
    BY <2>1, <2>2, <2>3 DEF LauncherInv, LauncherTypeOK, Counts
<1>2. ASSUME NEW k \in Launchers PROVE Unspawned(k)'
  <2>1. server' = server /\ run' = run /\ group' = group /\ main[l] = "watch"
    OBVIOUS
  <2>2. CASE k = l
    <3>1. main'[l] \in {"watch", "report", "leave"}
      BY <2>1 DEF LauncherInv, LauncherTypeOK
    <3> QED
      BY <2>1, <2>2, <3>1 DEF LauncherInv, Unspawned
  <2>3. CASE k # l
    <3>1. main'[k] = main[k] /\ watch'[k] = watch[k]
      BY <2>3 DEF LauncherInv, LauncherTypeOK
    <3> QED
      BY <2>1, <3>1 DEF LauncherInv, Unspawned
  <2> QED
    BY <2>2, <2>3
<1>3. \A k \in Launchers : Locked(k)'
  BY LauncherAssumption DEF LauncherInv, LauncherTypeOK, Places, Unspawned, Locked
<1>4. \A k \in Launchers : Housed(k)'
  BY DEF LauncherInv, LauncherTypeOK, Places, Unspawned, Locked, Housed
<1>5. \A k \in Launchers : Counting(k)'
  BY ConstantsInNat DEF LauncherInv, LauncherTypeOK, Places, Unspawned, Counting
<1>6. \A v \in Windows : Linked(v)'
  BY LauncherAssumption DEF LauncherInv, LauncherTypeOK, Linked
<1> QED
  BY <1>1, <1>2, <1>3, <1>4, <1>5, <1>6 DEF LauncherInv

LEMMA LookQuietKept ==
  ASSUME LauncherInv, NEW l \in Launchers, NEW s \in Launchers, LookQuiet(l, s) PROVE LauncherInv'
<1> USE DEF LookQuiet, Look, GoesTo
<1>1. LauncherTypeOK'
  <2>1. UNCHANGED <<system, holder, group, pending, server, run, safing, browser, counted, mishaps, runs>>
    OBVIOUS
  <2>2. main' \in [Launchers -> Places]
    BY DEF LauncherInv, LauncherTypeOK, Places
  <2>3. left' \in [Launchers -> {"no", "closed", "stopped", "failed", "shown", "killed"}]
    BY DEF LauncherInv, LauncherTypeOK
  <2>4. watch' \in [Launchers -> Counts]
    <3> DEFINE now == [watch[l] EXCEPT !.idle = @ + 1, !.gone = 0]
    <3>1. watch' = [watch EXCEPT ![l] = now] /\ main[l] = "watch"
      OBVIOUS
    <3>2. watch[l] \in Counts /\ watch[l].idle < ClosedGrace /\ watch[l].gone < ServerGone
      BY <3>1 DEF LauncherInv, LauncherTypeOK, Counting, Counts
    <3>3. now \in Counts
      BY <3>2, CountsOn DEF Saw
    <3>4. watch \in [Launchers -> Counts]
      BY DEF LauncherInv, LauncherTypeOK, Counts
    <3> HIDE DEF now
    <3>5. watch' \in [Launchers -> Counts]
      BY <3>1, <3>3, <3>4
    <3> QED
      BY <3>5
  <2>5. window' \in [Windows -> {"closed", "loading", "open", "reloading", "slow"}]
    BY DEF LauncherInv, LauncherTypeOK
  <2> QED
    BY <2>1, <2>2, <2>3, <2>4, <2>5 DEF LauncherInv, LauncherTypeOK, Counts
<1>2. ASSUME NEW k \in Launchers PROVE Unspawned(k)'
  <2>1. server' = server /\ run' = run /\ group' = group /\ main[l] = "watch"
    OBVIOUS
  <2>2. CASE k = l
    <3>1. main'[l] \in {"watch", "report", "leave"}
      BY <2>1 DEF LauncherInv, LauncherTypeOK
    <3> QED
      BY <2>1, <2>2, <3>1 DEF LauncherInv, Unspawned
  <2>3. CASE k # l
    <3>1. main'[k] = main[k] /\ watch'[k] = watch[k]
      BY <2>3 DEF LauncherInv, LauncherTypeOK
    <3> QED
      BY <2>1, <3>1 DEF LauncherInv, Unspawned
  <2> QED
    BY <2>2, <2>3
<1>3. \A k \in Launchers : Locked(k)'
  BY LauncherAssumption DEF LauncherInv, LauncherTypeOK, Places, Unspawned, Locked
<1>4. \A k \in Launchers : Housed(k)'
  BY DEF LauncherInv, LauncherTypeOK, Places, Unspawned, Locked, Housed
<1>5. \A k \in Launchers : Counting(k)'
  BY ConstantsInNat DEF LauncherInv, LauncherTypeOK, Places, Unspawned, Counting
<1>6. \A v \in Windows : Linked(v)'
  BY LauncherAssumption DEF LauncherInv, LauncherTypeOK, Linked
<1> QED
  BY <1>1, <1>2, <1>3, <1>4, <1>5, <1>6 DEF LauncherInv

LEMMA ReportKept ==
  ASSUME LauncherInv, NEW l \in Launchers, Report(l) PROVE LauncherInv'
<1> USE DEF Report, GoesTo
<1>1. LauncherTypeOK'
  <2>1. UNCHANGED <<system, left, watch, holder, group, pending, server, run, safing, browser, window, counted, mishaps, runs>>
    OBVIOUS
  <2>2. main' \in [Launchers -> Places]
    BY DEF LauncherInv, LauncherTypeOK, Places
  <2> QED
    BY <2>1, <2>2 DEF LauncherInv, LauncherTypeOK
<1>2. \A k \in Launchers : Unspawned(k)'
  BY LauncherAssumption DEF LauncherInv, LauncherTypeOK, Places, Unspawned, Linked, Locked
<1>3. \A k \in Launchers : Locked(k)'
  BY LauncherAssumption DEF LauncherInv, LauncherTypeOK, Places, Unspawned, Locked
<1>4. \A k \in Launchers : Housed(k)'
  BY DEF LauncherInv, LauncherTypeOK, Places, Unspawned, Locked, Housed
<1>5. \A k \in Launchers : Counting(k)'
  BY ConstantsInNat DEF LauncherInv, LauncherTypeOK, Places, Unspawned, Counting
<1>6. \A v \in Windows : Linked(v)'
  BY LauncherAssumption DEF LauncherInv, LauncherTypeOK, Linked
<1> QED
  BY <1>1, <1>2, <1>3, <1>4, <1>5, <1>6 DEF LauncherInv

LEMMA LeaveKept ==
  ASSUME LauncherInv, NEW l \in Launchers, Leave(l) PROVE LauncherInv'
<1> USE DEF Leave, GoesTo, GroupCloses, Swept, Forgotten, Unlinked, Active
<1>1. LauncherTypeOK'
  <2>1. UNCHANGED <<system, left, watch, holder, mishaps, runs>>
    OBVIOUS
  <2>2. main' \in [Launchers -> Places]
    BY DEF LauncherInv, LauncherTypeOK, Places
  <2>3. group' \in [Launchers -> {"none", "held", "closed", "termed", "swept"}]
    <3>1. group' \in {group, [group EXCEPT ![l] = "swept"], [group EXCEPT ![l] = "closed"]}
      OBVIOUS
    <3>2. group \in [Launchers -> {"none", "held", "closed", "termed", "swept"}]
      BY DEF LauncherInv, LauncherTypeOK
    <3> QED
      BY <3>1, <3>2
  <2>4. pending' \in [Launchers -> SUBSET {"server", "run", "safe", "chrome"}]
    <3>1. pending' \in {pending, [pending EXCEPT ![l] = {}]}
      OBVIOUS
    <3>2. pending \in [Launchers -> SUBSET {"server", "run", "safe", "chrome"}]
      BY DEF LauncherInv, LauncherTypeOK
    <3> QED
      BY <3>1, <3>2
  <2>5. server' \in [Launchers -> {"none", "starting", "up", "dead"}]
    BY DEF LauncherInv, LauncherTypeOK
  <2>6. run' \in [Launchers -> {"none", "working", "stopping", "winding", "done", "killed", "cut"}]
    BY DEF LauncherInv, LauncherTypeOK
  <2>7. safing' \in [Launchers -> BOOLEAN]
    BY DEF LauncherInv, LauncherTypeOK
  <2>8. browser' \in Launchers \cup {Nobody, "detached"}
    BY DEF LauncherInv, LauncherTypeOK
  <2>9. window' \in [Windows -> {"closed", "loading", "open", "reloading", "slow"}]
    BY DEF LauncherInv, LauncherTypeOK
  <2>10. counted' \in [Windows -> Launchers \cup {Nobody}]
    BY DEF LauncherInv, LauncherTypeOK
  <2> QED
    BY <2>1, <2>2, <2>3, <2>4, <2>5, <2>6, <2>7, <2>8, <2>9, <2>10 DEF LauncherInv, LauncherTypeOK
<1>2. \A k \in Launchers : Unspawned(k)'
  BY LauncherAssumption DEF LauncherInv, LauncherTypeOK, Places, Unspawned, Linked, Locked
<1>3. \A k \in Launchers : Locked(k)'
  BY LauncherAssumption DEF LauncherInv, LauncherTypeOK, Places, Unspawned, Locked
<1>4. \A k \in Launchers : Housed(k)'
  BY DEF LauncherInv, LauncherTypeOK, Places, Unspawned, Locked, Housed
<1>5. \A k \in Launchers : Counting(k)'
  BY ConstantsInNat DEF LauncherInv, LauncherTypeOK, Places, Unspawned, Counting
<1>6. \A v \in Windows : Linked(v)'
  BY LauncherAssumption DEF LauncherInv, LauncherTypeOK, Linked
<1> QED
  BY <1>1, <1>2, <1>3, <1>4, <1>5, <1>6 DEF LauncherInv

LEMMA UnlockKept ==
  ASSUME LauncherInv, NEW l \in Launchers, Unlock(l) PROVE LauncherInv'
<1> USE DEF Unlock, GoesTo, Freed
<1>1. LauncherTypeOK'
  <2>1. UNCHANGED <<system, left, watch, group, pending, server, run, safing, browser, window, counted, mishaps, runs>>
    OBVIOUS
  <2>2. main' \in [Launchers -> Places]
    BY DEF LauncherInv, LauncherTypeOK, Places
  <2>3. holder' \in Launchers \cup {Nobody}
    BY DEF LauncherInv, LauncherTypeOK
  <2> QED
    BY <2>1, <2>2, <2>3 DEF LauncherInv, LauncherTypeOK
<1>2. \A k \in Launchers : Unspawned(k)'
  BY LauncherAssumption DEF LauncherInv, LauncherTypeOK, Places, Unspawned, Linked, Locked
<1>3. \A k \in Launchers : Locked(k)'
  BY LauncherAssumption DEF LauncherInv, LauncherTypeOK, Places, Unspawned, Locked
<1>4. \A k \in Launchers : Housed(k)'
  BY DEF LauncherInv, LauncherTypeOK, Places, Unspawned, Locked, Housed
<1>5. \A k \in Launchers : Counting(k)'
  BY ConstantsInNat DEF LauncherInv, LauncherTypeOK, Places, Unspawned, Counting
<1>6. \A v \in Windows : Linked(v)'
  BY LauncherAssumption DEF LauncherInv, LauncherTypeOK, Linked
<1> QED
  BY <1>1, <1>2, <1>3, <1>4, <1>5, <1>6 DEF LauncherInv

LEMMA DieKept ==
  ASSUME LauncherInv, NEW l \in Launchers, Die(l) PROVE LauncherInv'
<1> USE DEF Die, GoesTo, Mishap, Freed, GroupCloses, Swept, Forgotten, Unlinked, Active
<1>1. LauncherTypeOK'
  <2>1. UNCHANGED <<system, watch, runs>>
    OBVIOUS
  <2>2. main' \in [Launchers -> Places]
    BY DEF LauncherInv, LauncherTypeOK, Places
  <2>3. left' \in [Launchers -> {"no", "closed", "stopped", "failed", "shown", "killed"}]
    BY DEF LauncherInv, LauncherTypeOK
  <2>4. holder' \in Launchers \cup {Nobody}
    BY DEF LauncherInv, LauncherTypeOK
  <2>5. group' \in [Launchers -> {"none", "held", "closed", "termed", "swept"}]
    <3>1. group' \in {group, [group EXCEPT ![l] = "swept"], [group EXCEPT ![l] = "closed"]}
      OBVIOUS
    <3>2. group \in [Launchers -> {"none", "held", "closed", "termed", "swept"}]
      BY DEF LauncherInv, LauncherTypeOK
    <3> QED
      BY <3>1, <3>2
  <2>6. pending' \in [Launchers -> SUBSET {"server", "run", "safe", "chrome"}]
    <3>1. pending' \in {pending, [pending EXCEPT ![l] = {}]}
      OBVIOUS
    <3>2. pending \in [Launchers -> SUBSET {"server", "run", "safe", "chrome"}]
      BY DEF LauncherInv, LauncherTypeOK
    <3> QED
      BY <3>1, <3>2
  <2>7. server' \in [Launchers -> {"none", "starting", "up", "dead"}]
    BY DEF LauncherInv, LauncherTypeOK
  <2>8. run' \in [Launchers -> {"none", "working", "stopping", "winding", "done", "killed", "cut"}]
    BY DEF LauncherInv, LauncherTypeOK
  <2>9. safing' \in [Launchers -> BOOLEAN]
    BY DEF LauncherInv, LauncherTypeOK
  <2>10. browser' \in Launchers \cup {Nobody, "detached"}
    BY DEF LauncherInv, LauncherTypeOK
  <2>11. window' \in [Windows -> {"closed", "loading", "open", "reloading", "slow"}]
    BY DEF LauncherInv, LauncherTypeOK
  <2>12. counted' \in [Windows -> Launchers \cup {Nobody}]
    BY DEF LauncherInv, LauncherTypeOK
  <2>13. mishaps' \in 0..MaxMishaps
    BY ConstantsInNat DEF LauncherInv, LauncherTypeOK
  <2> QED
    BY <2>1, <2>2, <2>3, <2>4, <2>5, <2>6, <2>7, <2>8, <2>9, <2>10, <2>11, <2>12, <2>13 DEF LauncherInv, LauncherTypeOK
<1>2. \A k \in Launchers : Unspawned(k)'
  BY LauncherAssumption DEF LauncherInv, LauncherTypeOK, Places, Unspawned, Linked, Locked
<1>3. \A k \in Launchers : Locked(k)'
  BY LauncherAssumption DEF LauncherInv, LauncherTypeOK, Places, Unspawned, Locked
<1>4. \A k \in Launchers : Housed(k)'
  BY DEF LauncherInv, LauncherTypeOK, Places, Unspawned, Locked, Housed
<1>5. \A k \in Launchers : Counting(k)'
  BY ConstantsInNat DEF LauncherInv, LauncherTypeOK, Places, Unspawned, Counting
<1>6. \A v \in Windows : Linked(v)'
  BY LauncherAssumption DEF LauncherInv, LauncherTypeOK, Linked
<1> QED
  BY <1>1, <1>2, <1>3, <1>4, <1>5, <1>6 DEF LauncherInv

LEMMA TerminateKept ==
  ASSUME LauncherInv, NEW l \in Launchers, Terminate(l) PROVE LauncherInv'
<1> USE DEF Terminate, Members
<1>1. LauncherTypeOK'
  <2>1. UNCHANGED <<system, main, left, watch, holder, server, run, safing, browser, window, counted, mishaps, runs>>
    OBVIOUS
  <2>2. group' \in [Launchers -> {"none", "held", "closed", "termed", "swept"}]
    BY DEF LauncherInv, LauncherTypeOK
  <2>3. pending' \in [Launchers -> SUBSET {"server", "run", "safe", "chrome"}]
    BY DEF LauncherInv, LauncherTypeOK
  <2> QED
    BY <2>1, <2>2, <2>3 DEF LauncherInv, LauncherTypeOK
<1>2. \A k \in Launchers : Unspawned(k)'
  BY LauncherAssumption DEF LauncherInv, LauncherTypeOK, Places, Unspawned, Linked, Locked
<1>3. \A k \in Launchers : Locked(k)'
  BY LauncherAssumption DEF LauncherInv, LauncherTypeOK, Places, Unspawned, Locked
<1>4. \A k \in Launchers : Housed(k)'
  BY DEF LauncherInv, LauncherTypeOK, Places, Unspawned, Locked, Housed
<1>5. \A k \in Launchers : Counting(k)'
  BY ConstantsInNat DEF LauncherInv, LauncherTypeOK, Places, Unspawned, Counting
<1>6. \A v \in Windows : Linked(v)'
  BY LauncherAssumption DEF LauncherInv, LauncherTypeOK, Linked
<1> QED
  BY <1>1, <1>2, <1>3, <1>4, <1>5, <1>6 DEF LauncherInv

LEMMA SweepKept ==
  ASSUME LauncherInv, NEW l \in Launchers, Sweep(l) PROVE LauncherInv'
<1> USE DEF Sweep, Swept, Forgotten, Unlinked, Active
<1>1. LauncherTypeOK'
  <2>1. UNCHANGED <<system, main, left, watch, holder, mishaps, runs>>
    OBVIOUS
  <2>2. group' \in [Launchers -> {"none", "held", "closed", "termed", "swept"}]
    BY DEF LauncherInv, LauncherTypeOK
  <2>3. pending' \in [Launchers -> SUBSET {"server", "run", "safe", "chrome"}]
    BY DEF LauncherInv, LauncherTypeOK
  <2>4. server' \in [Launchers -> {"none", "starting", "up", "dead"}]
    BY DEF LauncherInv, LauncherTypeOK
  <2>5. run' \in [Launchers -> {"none", "working", "stopping", "winding", "done", "killed", "cut"}]
    BY DEF LauncherInv, LauncherTypeOK
  <2>6. safing' \in [Launchers -> BOOLEAN]
    BY DEF LauncherInv, LauncherTypeOK
  <2>7. browser' \in Launchers \cup {Nobody, "detached"}
    BY DEF LauncherInv, LauncherTypeOK
  <2>8. window' \in [Windows -> {"closed", "loading", "open", "reloading", "slow"}]
    BY DEF LauncherInv, LauncherTypeOK
  <2>9. counted' \in [Windows -> Launchers \cup {Nobody}]
    BY DEF LauncherInv, LauncherTypeOK
  <2> QED
    BY <2>1, <2>2, <2>3, <2>4, <2>5, <2>6, <2>7, <2>8, <2>9 DEF LauncherInv, LauncherTypeOK
<1>2. \A k \in Launchers : Unspawned(k)'
  BY LauncherAssumption DEF LauncherInv, LauncherTypeOK, Places, Unspawned, Linked, Locked
<1>3. \A k \in Launchers : Locked(k)'
  BY LauncherAssumption DEF LauncherInv, LauncherTypeOK, Places, Unspawned, Locked
<1>4. \A k \in Launchers : Housed(k)'
  BY DEF LauncherInv, LauncherTypeOK, Places, Unspawned, Locked, Housed
<1>5. \A k \in Launchers : Counting(k)'
  BY ConstantsInNat DEF LauncherInv, LauncherTypeOK, Places, Unspawned, Counting
<1>6. \A v \in Windows : Linked(v)'
  BY LauncherAssumption DEF LauncherInv, LauncherTypeOK, Linked
<1> QED
  BY <1>1, <1>2, <1>3, <1>4, <1>5, <1>6 DEF LauncherInv

LEMMA ServerUpKept ==
  ASSUME LauncherInv, NEW l \in Launchers, ServerUp(l) PROVE LauncherInv'
<1> USE DEF ServerUp
<1>1. LauncherTypeOK'
  <2>1. UNCHANGED <<system, main, left, watch, holder, group, pending, run, safing, browser, window, counted, mishaps, runs>>
    OBVIOUS
  <2>2. server' \in [Launchers -> {"none", "starting", "up", "dead"}]
    BY DEF LauncherInv, LauncherTypeOK
  <2> QED
    BY <2>1, <2>2 DEF LauncherInv, LauncherTypeOK
<1>2. \A k \in Launchers : Unspawned(k)'
  BY LauncherAssumption DEF LauncherInv, LauncherTypeOK, Places, Unspawned, Linked, Locked
<1>3. \A k \in Launchers : Locked(k)'
  BY LauncherAssumption DEF LauncherInv, LauncherTypeOK, Places, Unspawned, Locked
<1>4. \A k \in Launchers : Housed(k)'
  BY DEF LauncherInv, LauncherTypeOK, Places, Unspawned, Locked, Housed
<1>5. \A k \in Launchers : Counting(k)'
  BY ConstantsInNat DEF LauncherInv, LauncherTypeOK, Places, Unspawned, Counting
<1>6. \A v \in Windows : Linked(v)'
  BY LauncherAssumption DEF LauncherInv, LauncherTypeOK, Linked
<1> QED
  BY <1>1, <1>2, <1>3, <1>4, <1>5, <1>6 DEF LauncherInv

LEMMA ServerEndsKept ==
  ASSUME LauncherInv, NEW l \in Launchers, ServerEnds(l) PROVE LauncherInv'
<1> USE DEF ServerEnds, ServerDies, Forgotten, Unlinked, Signalled, Mishap
<1>1. LauncherTypeOK'
  <2>1. UNCHANGED <<system, main, left, watch, holder, group, run, safing, browser, runs>>
    OBVIOUS
  <2>2. server' \in [Launchers -> {"none", "starting", "up", "dead"}]
    BY DEF LauncherInv, LauncherTypeOK
  <2>3. counted' \in [Windows -> Launchers \cup {Nobody}]
    BY DEF LauncherInv, LauncherTypeOK
  <2>4. window' \in [Windows -> {"closed", "loading", "open", "reloading", "slow"}]
    BY DEF LauncherInv, LauncherTypeOK
  <2>5. pending' \in [Launchers -> SUBSET {"server", "run", "safe", "chrome"}]
    BY DEF LauncherInv, LauncherTypeOK
  <2>6. mishaps' \in 0..MaxMishaps
    BY ConstantsInNat DEF LauncherInv, LauncherTypeOK
  <2> QED
    BY <2>1, <2>2, <2>3, <2>4, <2>5, <2>6 DEF LauncherInv, LauncherTypeOK
<1>2. \A k \in Launchers : Unspawned(k)'
  BY LauncherAssumption DEF LauncherInv, LauncherTypeOK, Places, Unspawned, Linked, Locked
<1>3. \A k \in Launchers : Locked(k)'
  BY LauncherAssumption DEF LauncherInv, LauncherTypeOK, Places, Unspawned, Locked
<1>4. \A k \in Launchers : Housed(k)'
  BY DEF LauncherInv, LauncherTypeOK, Places, Unspawned, Locked, Housed
<1>5. \A k \in Launchers : Counting(k)'
  BY ConstantsInNat DEF LauncherInv, LauncherTypeOK, Places, Unspawned, Counting
<1>6. \A v \in Windows : Linked(v)'
  BY LauncherAssumption DEF LauncherInv, LauncherTypeOK, Linked
<1> QED
  BY <1>1, <1>2, <1>3, <1>4, <1>5, <1>6 DEF LauncherInv

LEMMA StdinEndsKept ==
  ASSUME LauncherInv, NEW l \in Launchers, StdinEnds(l) PROVE LauncherInv'
<1> USE DEF StdinEnds
<1>1. LauncherTypeOK'
  <2>1. UNCHANGED <<system, main, left, watch, holder, group, pending, server, safing, browser, window, counted, mishaps, runs>>
    OBVIOUS
  <2>2. run' \in [Launchers -> {"none", "working", "stopping", "winding", "done", "killed", "cut"}]
    BY DEF LauncherInv, LauncherTypeOK
  <2> QED
    BY <2>1, <2>2 DEF LauncherInv, LauncherTypeOK
<1>2. \A k \in Launchers : Unspawned(k)'
  BY LauncherAssumption DEF LauncherInv, LauncherTypeOK, Places, Unspawned, Linked, Locked
<1>3. \A k \in Launchers : Locked(k)'
  BY LauncherAssumption DEF LauncherInv, LauncherTypeOK, Places, Unspawned, Locked
<1>4. \A k \in Launchers : Housed(k)'
  BY DEF LauncherInv, LauncherTypeOK, Places, Unspawned, Locked, Housed
<1>5. \A k \in Launchers : Counting(k)'
  BY ConstantsInNat DEF LauncherInv, LauncherTypeOK, Places, Unspawned, Counting
<1>6. \A v \in Windows : Linked(v)'
  BY LauncherAssumption DEF LauncherInv, LauncherTypeOK, Linked
<1> QED
  BY <1>1, <1>2, <1>3, <1>4, <1>5, <1>6 DEF LauncherInv

LEMMA RunSignalledKept ==
  ASSUME LauncherInv, NEW l \in Launchers, RunSignalled(l) PROVE LauncherInv'
<1> USE DEF RunSignalled, Signalled, Active
<1>1. LauncherTypeOK'
  <2>1. UNCHANGED <<system, main, left, watch, holder, group, server, safing, browser, window, counted, mishaps, runs>>
    OBVIOUS
  <2>2. run' \in [Launchers -> {"none", "working", "stopping", "winding", "done", "killed", "cut"}]
    BY DEF LauncherInv, LauncherTypeOK
  <2>3. pending' \in [Launchers -> SUBSET {"server", "run", "safe", "chrome"}]
    BY DEF LauncherInv, LauncherTypeOK
  <2> QED
    BY <2>1, <2>2, <2>3 DEF LauncherInv, LauncherTypeOK
<1>2. \A k \in Launchers : Unspawned(k)'
  BY LauncherAssumption DEF LauncherInv, LauncherTypeOK, Places, Unspawned, Linked, Locked
<1>3. \A k \in Launchers : Locked(k)'
  BY LauncherAssumption DEF LauncherInv, LauncherTypeOK, Places, Unspawned, Locked
<1>4. \A k \in Launchers : Housed(k)'
  BY DEF LauncherInv, LauncherTypeOK, Places, Unspawned, Locked, Housed
<1>5. \A k \in Launchers : Counting(k)'
  BY ConstantsInNat DEF LauncherInv, LauncherTypeOK, Places, Unspawned, Counting
<1>6. \A v \in Windows : Linked(v)'
  BY LauncherAssumption DEF LauncherInv, LauncherTypeOK, Linked
<1> QED
  BY <1>1, <1>2, <1>3, <1>4, <1>5, <1>6 DEF LauncherInv

LEMMA RunEndsKept ==
  ASSUME LauncherInv, NEW l \in Launchers, RunEnds(l) PROVE LauncherInv'
<1> USE DEF RunEnds, Active
<1>1. LauncherTypeOK'
  <2>1. UNCHANGED <<system, main, left, watch, holder, group, pending, server, safing, browser, window, counted, mishaps, runs>>
    OBVIOUS
  <2>2. run' \in [Launchers -> {"none", "working", "stopping", "winding", "done", "killed", "cut"}]
    BY DEF LauncherInv, LauncherTypeOK
  <2> QED
    BY <2>1, <2>2 DEF LauncherInv, LauncherTypeOK
<1>2. \A k \in Launchers : Unspawned(k)'
  BY LauncherAssumption DEF LauncherInv, LauncherTypeOK, Places, Unspawned, Linked, Locked
<1>3. \A k \in Launchers : Locked(k)'
  BY LauncherAssumption DEF LauncherInv, LauncherTypeOK, Places, Unspawned, Locked
<1>4. \A k \in Launchers : Housed(k)'
  BY DEF LauncherInv, LauncherTypeOK, Places, Unspawned, Locked, Housed
<1>5. \A k \in Launchers : Counting(k)'
  BY ConstantsInNat DEF LauncherInv, LauncherTypeOK, Places, Unspawned, Counting
<1>6. \A v \in Windows : Linked(v)'
  BY LauncherAssumption DEF LauncherInv, LauncherTypeOK, Linked
<1> QED
  BY <1>1, <1>2, <1>3, <1>4, <1>5, <1>6 DEF LauncherInv

LEMMA SafeEndsKept ==
  ASSUME LauncherInv, NEW l \in Launchers, SafeEnds(l) PROVE LauncherInv'
<1> USE DEF SafeEnds, Signalled
<1>1. LauncherTypeOK'
  <2>1. UNCHANGED <<system, main, left, watch, holder, group, server, run, browser, window, counted, mishaps, runs>>
    OBVIOUS
  <2>2. safing' \in [Launchers -> BOOLEAN]
    BY DEF LauncherInv, LauncherTypeOK
  <2>3. pending' \in [Launchers -> SUBSET {"server", "run", "safe", "chrome"}]
    BY DEF LauncherInv, LauncherTypeOK
  <2> QED
    BY <2>1, <2>2, <2>3 DEF LauncherInv, LauncherTypeOK
<1>2. \A k \in Launchers : Unspawned(k)'
  BY LauncherAssumption DEF LauncherInv, LauncherTypeOK, Places, Unspawned, Linked, Locked
<1>3. \A k \in Launchers : Locked(k)'
  BY LauncherAssumption DEF LauncherInv, LauncherTypeOK, Places, Unspawned, Locked
<1>4. \A k \in Launchers : Housed(k)'
  BY DEF LauncherInv, LauncherTypeOK, Places, Unspawned, Locked, Housed
<1>5. \A k \in Launchers : Counting(k)'
  BY ConstantsInNat DEF LauncherInv, LauncherTypeOK, Places, Unspawned, Counting
<1>6. \A v \in Windows : Linked(v)'
  BY LauncherAssumption DEF LauncherInv, LauncherTypeOK, Linked
<1> QED
  BY <1>1, <1>2, <1>3, <1>4, <1>5, <1>6 DEF LauncherInv

LEMMA ChromeSignalledKept ==
  ASSUME LauncherInv, NEW l \in Launchers, ChromeSignalled(l) PROVE LauncherInv'
<1> USE DEF ChromeSignalled, Signalled
<1>1. LauncherTypeOK'
  <2>1. UNCHANGED <<system, main, left, watch, holder, group, server, run, safing, counted, mishaps, runs>>
    OBVIOUS
  <2>2. browser' \in Launchers \cup {Nobody, "detached"}
    BY DEF LauncherInv, LauncherTypeOK
  <2>3. window' \in [Windows -> {"closed", "loading", "open", "reloading", "slow"}]
    BY DEF LauncherInv, LauncherTypeOK
  <2>4. pending' \in [Launchers -> SUBSET {"server", "run", "safe", "chrome"}]
    BY DEF LauncherInv, LauncherTypeOK
  <2> QED
    BY <2>1, <2>2, <2>3, <2>4 DEF LauncherInv, LauncherTypeOK
<1>2. \A k \in Launchers : Unspawned(k)'
  BY LauncherAssumption DEF LauncherInv, LauncherTypeOK, Places, Unspawned, Linked, Locked
<1>3. \A k \in Launchers : Locked(k)'
  BY LauncherAssumption DEF LauncherInv, LauncherTypeOK, Places, Unspawned, Locked
<1>4. \A k \in Launchers : Housed(k)'
  BY DEF LauncherInv, LauncherTypeOK, Places, Unspawned, Locked, Housed
<1>5. \A k \in Launchers : Counting(k)'
  BY ConstantsInNat DEF LauncherInv, LauncherTypeOK, Places, Unspawned, Counting
<1>6. \A v \in Windows : Linked(v)'
  BY LauncherAssumption DEF LauncherInv, LauncherTypeOK, Linked
<1> QED
  BY <1>1, <1>2, <1>3, <1>4, <1>5, <1>6 DEF LauncherInv

LEMMA ConnectKept ==
  ASSUME LauncherInv, NEW w \in Windows, NEW s \in Launchers, Connect(w, s) PROVE LauncherInv'
<1> USE DEF Connect, Up
<1>1. LauncherTypeOK'
  <2>1. UNCHANGED <<system, main, left, watch, holder, group, pending, server, run, safing, browser, mishaps, runs>>
    OBVIOUS
  <2>2. window' \in [Windows -> {"closed", "loading", "open", "reloading", "slow"}]
    BY DEF LauncherInv, LauncherTypeOK
  <2>3. counted' \in [Windows -> Launchers \cup {Nobody}]
    BY DEF LauncherInv, LauncherTypeOK
  <2> QED
    BY <2>1, <2>2, <2>3 DEF LauncherInv, LauncherTypeOK
<1>2. \A k \in Launchers : Unspawned(k)'
  BY LauncherAssumption DEF LauncherInv, LauncherTypeOK, Places, Unspawned, Linked, Locked
<1>3. \A k \in Launchers : Locked(k)'
  BY LauncherAssumption DEF LauncherInv, LauncherTypeOK, Places, Unspawned, Locked
<1>4. \A k \in Launchers : Housed(k)'
  BY DEF LauncherInv, LauncherTypeOK, Places, Unspawned, Locked, Housed
<1>5. \A k \in Launchers : Counting(k)'
  BY ConstantsInNat DEF LauncherInv, LauncherTypeOK, Places, Unspawned, Counting
<1>6. \A v \in Windows : Linked(v)'
  BY LauncherAssumption DEF LauncherInv, LauncherTypeOK, Linked
<1> QED
  BY <1>1, <1>2, <1>3, <1>4, <1>5, <1>6 DEF LauncherInv

LEMMA MissKept ==
  ASSUME LauncherInv, NEW w \in Windows, Miss(w) PROVE LauncherInv'
<1> USE DEF Miss
<1>1. LauncherTypeOK'
  <2>1. UNCHANGED <<system, main, left, watch, holder, group, pending, server, run, safing, browser, window, mishaps, runs>>
    OBVIOUS
  <2>2. counted' \in [Windows -> Launchers \cup {Nobody}]
    BY DEF LauncherInv, LauncherTypeOK
  <2> QED
    BY <2>1, <2>2 DEF LauncherInv, LauncherTypeOK
<1>2. \A k \in Launchers : Unspawned(k)'
  BY LauncherAssumption DEF LauncherInv, LauncherTypeOK, Places, Unspawned, Linked, Locked
<1>3. \A k \in Launchers : Locked(k)'
  BY LauncherAssumption DEF LauncherInv, LauncherTypeOK, Places, Unspawned, Locked
<1>4. \A k \in Launchers : Housed(k)'
  BY DEF LauncherInv, LauncherTypeOK, Places, Unspawned, Locked, Housed
<1>5. \A k \in Launchers : Counting(k)'
  BY ConstantsInNat DEF LauncherInv, LauncherTypeOK, Places, Unspawned, Counting
<1>6. \A v \in Windows : Linked(v)'
  BY LauncherAssumption DEF LauncherInv, LauncherTypeOK, Linked
<1> QED
  BY <1>1, <1>2, <1>3, <1>4, <1>5, <1>6 DEF LauncherInv

LEMMA ReloadKept ==
  ASSUME LauncherInv, NEW w \in Windows, Reload(w) PROVE LauncherInv'
<1> USE DEF Reload, Mishap
<1>1. LauncherTypeOK'
  <2>1. UNCHANGED <<system, main, left, watch, holder, group, pending, server, run, safing, browser, counted, runs>>
    OBVIOUS
  <2>2. window' \in [Windows -> {"closed", "loading", "open", "reloading", "slow"}]
    BY DEF LauncherInv, LauncherTypeOK
  <2>3. mishaps' \in 0..MaxMishaps
    BY ConstantsInNat DEF LauncherInv, LauncherTypeOK
  <2> QED
    BY <2>1, <2>2, <2>3 DEF LauncherInv, LauncherTypeOK
<1>2. \A k \in Launchers : Unspawned(k)'
  BY LauncherAssumption DEF LauncherInv, LauncherTypeOK, Places, Unspawned, Linked, Locked
<1>3. \A k \in Launchers : Locked(k)'
  BY LauncherAssumption DEF LauncherInv, LauncherTypeOK, Places, Unspawned, Locked
<1>4. \A k \in Launchers : Housed(k)'
  BY DEF LauncherInv, LauncherTypeOK, Places, Unspawned, Locked, Housed
<1>5. \A k \in Launchers : Counting(k)'
  BY ConstantsInNat DEF LauncherInv, LauncherTypeOK, Places, Unspawned, Counting
<1>6. \A v \in Windows : Linked(v)'
  BY LauncherAssumption DEF LauncherInv, LauncherTypeOK, Linked
<1> QED
  BY <1>1, <1>2, <1>3, <1>4, <1>5, <1>6 DEF LauncherInv

LEMMA CloseWindowKept ==
  ASSUME LauncherInv, NEW w \in Windows, CloseWindow(w) PROVE LauncherInv'
<1> USE DEF CloseWindow
<1>1. LauncherTypeOK'
  <2>1. UNCHANGED <<system, main, left, watch, holder, group, pending, server, run, safing, counted, mishaps, runs>>
    OBVIOUS
  <2>2. window' \in [Windows -> {"closed", "loading", "open", "reloading", "slow"}]
    BY DEF LauncherInv, LauncherTypeOK
  <2>3. browser' \in Launchers \cup {Nobody, "detached"}
    BY DEF LauncherInv, LauncherTypeOK
  <2> QED
    BY <2>1, <2>2, <2>3 DEF LauncherInv, LauncherTypeOK
<1>2. \A k \in Launchers : Unspawned(k)'
  BY LauncherAssumption DEF LauncherInv, LauncherTypeOK, Places, Unspawned, Linked, Locked
<1>3. \A k \in Launchers : Locked(k)'
  BY LauncherAssumption DEF LauncherInv, LauncherTypeOK, Places, Unspawned, Locked
<1>4. \A k \in Launchers : Housed(k)'
  BY DEF LauncherInv, LauncherTypeOK, Places, Unspawned, Locked, Housed
<1>5. \A k \in Launchers : Counting(k)'
  BY ConstantsInNat DEF LauncherInv, LauncherTypeOK, Places, Unspawned, Counting
<1>6. \A v \in Windows : Linked(v)'
  BY LauncherAssumption DEF LauncherInv, LauncherTypeOK, Linked
<1> QED
  BY <1>1, <1>2, <1>3, <1>4, <1>5, <1>6 DEF LauncherInv

LEMMA PressRunKept ==
  ASSUME LauncherInv, NEW w \in Windows, PressRun(w) PROVE LauncherInv'
<1> USE DEF PressRun, Active
<1>1. LauncherTypeOK'
  <2>1. UNCHANGED <<system, main, left, watch, holder, group, pending, server, safing, browser, window, counted, mishaps>>
    OBVIOUS
  <2>2. run' \in [Launchers -> {"none", "working", "stopping", "winding", "done", "killed", "cut"}]
    BY DEF LauncherInv, LauncherTypeOK
  <2>3. runs' \in 0..MaxRuns
    BY ConstantsInNat DEF LauncherInv, LauncherTypeOK
  <2> QED
    BY <2>1, <2>2, <2>3 DEF LauncherInv, LauncherTypeOK
<1>2. \A k \in Launchers : Unspawned(k)'
  BY LauncherAssumption DEF LauncherInv, LauncherTypeOK, Places, Unspawned, Linked, Locked
<1>3. \A k \in Launchers : Locked(k)'
  BY LauncherAssumption DEF LauncherInv, LauncherTypeOK, Places, Unspawned, Locked
<1>4. \A k \in Launchers : Housed(k)'
  BY DEF LauncherInv, LauncherTypeOK, Places, Unspawned, Locked, Housed
<1>5. \A k \in Launchers : Counting(k)'
  BY ConstantsInNat DEF LauncherInv, LauncherTypeOK, Places, Unspawned, Counting
<1>6. \A v \in Windows : Linked(v)'
  BY LauncherAssumption DEF LauncherInv, LauncherTypeOK, Linked
<1> QED
  BY <1>1, <1>2, <1>3, <1>4, <1>5, <1>6 DEF LauncherInv

LEMMA PressStopKept ==
  ASSUME LauncherInv, NEW w \in Windows, PressStop(w) PROVE LauncherInv'
<1> USE DEF PressStop
<1>1. LauncherTypeOK'
  <2>1. UNCHANGED <<system, main, left, watch, holder, group, pending, server, safing, browser, window, counted, mishaps, runs>>
    OBVIOUS
  <2>2. run' \in [Launchers -> {"none", "working", "stopping", "winding", "done", "killed", "cut"}]
    BY DEF LauncherInv, LauncherTypeOK
  <2> QED
    BY <2>1, <2>2 DEF LauncherInv, LauncherTypeOK
<1>2. \A k \in Launchers : Unspawned(k)'
  BY LauncherAssumption DEF LauncherInv, LauncherTypeOK, Places, Unspawned, Linked, Locked
<1>3. \A k \in Launchers : Locked(k)'
  BY LauncherAssumption DEF LauncherInv, LauncherTypeOK, Places, Unspawned, Locked
<1>4. \A k \in Launchers : Housed(k)'
  BY DEF LauncherInv, LauncherTypeOK, Places, Unspawned, Locked, Housed
<1>5. \A k \in Launchers : Counting(k)'
  BY ConstantsInNat DEF LauncherInv, LauncherTypeOK, Places, Unspawned, Counting
<1>6. \A v \in Windows : Linked(v)'
  BY LauncherAssumption DEF LauncherInv, LauncherTypeOK, Linked
<1> QED
  BY <1>1, <1>2, <1>3, <1>4, <1>5, <1>6 DEF LauncherInv

LEMMA PressEmergencyKept ==
  ASSUME LauncherInv, NEW w \in Windows, PressEmergency(w) PROVE LauncherInv'
<1> USE DEF PressEmergency, Active
<1>1. LauncherTypeOK'
  <2>1. UNCHANGED <<system, main, left, watch, holder, group, pending, server, browser, window, counted, mishaps, runs>>
    OBVIOUS
  <2>2. run' \in [Launchers -> {"none", "working", "stopping", "winding", "done", "killed", "cut"}]
    BY DEF LauncherInv, LauncherTypeOK
  <2>3. safing' \in [Launchers -> BOOLEAN]
    BY DEF LauncherInv, LauncherTypeOK
  <2> QED
    BY <2>1, <2>2, <2>3 DEF LauncherInv, LauncherTypeOK
<1>2. \A k \in Launchers : Unspawned(k)'
  BY LauncherAssumption DEF LauncherInv, LauncherTypeOK, Places, Unspawned, Linked, Locked
<1>3. \A k \in Launchers : Locked(k)'
  BY LauncherAssumption DEF LauncherInv, LauncherTypeOK, Places, Unspawned, Locked
<1>4. \A k \in Launchers : Housed(k)'
  BY DEF LauncherInv, LauncherTypeOK, Places, Unspawned, Locked, Housed
<1>5. \A k \in Launchers : Counting(k)'
  BY ConstantsInNat DEF LauncherInv, LauncherTypeOK, Places, Unspawned, Counting
<1>6. \A v \in Windows : Linked(v)'
  BY LauncherAssumption DEF LauncherInv, LauncherTypeOK, Linked
<1> QED
  BY <1>1, <1>2, <1>3, <1>4, <1>5, <1>6 DEF LauncherInv

LEMMA LauncherStep ==
  ASSUME LauncherInv, [LauncherNext]_launcherVars
  PROVE  LauncherInv'
<1>1. ASSUME NEW l \in Launchers, WatchConsole(l) PROVE LauncherInv'
  <2>1. ASSUME NEW s \in Up, LookInUse(l, s) \/ LookQuiet(l, s) PROVE LauncherInv'
    <3>1. s \in Launchers
      BY DEF Up
    <3> QED
      BY <2>1, <3>1, LookInUseKept, LookQuietKept
  <2> QED
    BY <1>1, <2>1, LookGoneKept, LookHungKept DEF WatchConsole
<1>2. ASSUME NEW l \in Launchers, Main(l) PROVE LauncherInv'
  BY <1>1, <1>2, TakeLockKept, HandOverKept, MakeGroupKept, SpawnServerKept, WaitForServerKept, SpawnChromeKept, ReportKept, LeaveKept, UnlockKept DEF Main
<1>3. ASSUME NEW l \in Launchers, Start(l) \/ Die(l) \/ Terminate(l) \/ Sweep(l) PROVE LauncherInv'
  BY <1>3, StartKept, DieKept, TerminateKept, SweepKept
<1>4. ASSUME NEW l \in Launchers,
             \/ ServerUp(l) \/ ServerEnds(l) \/ StdinEnds(l) \/ RunSignalled(l) \/ RunEnds(l)
             \/ SafeEnds(l) \/ ChromeSignalled(l)
      PROVE  LauncherInv'
  BY <1>4, ServerUpKept, ServerEndsKept, StdinEndsKept, RunSignalledKept, RunEndsKept, SafeEndsKept, ChromeSignalledKept
<1>5. ASSUME NEW w \in Windows, NEW s \in Launchers, Connect(w, s) PROVE LauncherInv'
  BY <1>5, ConnectKept
<1>6. ASSUME NEW w \in Windows,
             Miss(w) \/ Reload(w) \/ CloseWindow(w) \/ PressRun(w) \/ PressStop(w) \/ PressEmergency(w)
      PROVE  LauncherInv'
  BY <1>6, MissKept, ReloadKept, CloseWindowKept, PressRunKept, PressStopKept, PressEmergencyKept
<1>7. CASE UNCHANGED launcherVars
  <2>1. LauncherTypeOK'
    BY <1>7 DEF launcherVars, LauncherInv, LauncherTypeOK
  <2>2. (\A l \in Launchers : Unspawned(l)' /\ Locked(l)' /\ Housed(l)' /\ Counting(l)') /\ \A w \in Windows : Linked(w)'
    BY <1>7 DEF launcherVars, LauncherInv, Unspawned, Locked, Housed, Counting, Linked
  <2> QED
    BY <2>1, <2>2 DEF LauncherInv
<1>8. CASE AllGone
  BY <1>7, <1>8 DEF AllGone
<1> QED
  BY <1>2, <1>3, <1>4, <1>5, <1>6, <1>7, <1>8 DEF LauncherNext

LEMMA AliveHolds ==
  ASSUME LauncherInv, NEW l \in Launchers, Alive(l), left[l] = "no"
  PROVE  holder = l
<1>1. main[l] \notin Early
  BY DEF LauncherInv, Unspawned, Alive, Active
<1> QED
  BY <1>1 DEF LauncherInv, Locked

LEMMA LockKeepsOne ==
  ASSUME LauncherInv
  PROVE  OneConsole
BY AliveHolds DEF OneConsole

\* While a launcher looks, no server is up but its own.
LEMMA LooksAtOwn ==
  ASSUME LauncherInv, NEW l \in Launchers, main[l] = "watch", InTime, NEW s \in Up
  PROVE  s = l
<1>1. s \in Launchers /\ server[s] = "up"
  BY DEF Up
<1>2. group[s] # "closed" /\ "server" \notin pending[s]
  BY <1>1 DEF InTime
<1>3. group[s] = "held" /\ group[l] = "held"
  BY <1>1, <1>2 DEF LauncherInv, Housed, Locked
<1> QED
  BY <1>1, <1>3 DEF LauncherInv, Locked

LEMMA LooksLeave ==
  ASSUME LauncherInv, NEW l \in Launchers, NEW k \in Launchers, left[l] = "no",
         WatchConsole(k)
  PROVE  /\ left'[l] = "closed" => ~Active(l) /\ \A w \in Windows : window[w] \in {"closed", "loading"}
         /\ left'[l] = "stopped" => server[l] = "dead"
<1>1. main[k] = "watch" /\ InTime
  BY DEF WatchConsole, LookGone, LookHung, LookInUse, LookQuiet, Look
<1>2. left \in [Launchers -> {"no", "closed", "stopped", "failed", "shown", "killed"}]
  BY DEF LauncherInv, LauncherTypeOK
<1>3. CASE LookGone(k)
  <2>1. Up = {} /\ left' \in {left, [left EXCEPT ![k] = "stopped"]}
    BY <1>3 DEF LookGone, Leaves
  <2>2. left'[l] # "closed" /\ (left'[l] = "stopped" => k = l)
    BY <1>2, <2>1
  <2>3. server[k] # "none" /\ server[k] # "starting" /\ server[k] # "up"
    BY <1>1, <2>1 DEF LauncherInv, Unspawned, InTime, Up
  <2>4. server[k] = "dead"
    BY <2>3 DEF LauncherInv, LauncherTypeOK
  <2> QED
    BY <2>2, <2>4
<1>4. CASE LookHung(k) \/ \E s \in Up : LookInUse(k, s)
  BY <1>2, <1>4 DEF LookHung, LookInUse
<1>5. ASSUME NEW s \in Up, LookQuiet(k, s)
      PROVE  /\ left'[l] = "closed" => ~Active(l) /\ \A w \in Windows : window[w] \in {"closed", "loading"}
             /\ left'[l] = "stopped" => server[l] = "dead"
  <2>1. s = k
    BY <1>1, LooksAtOwn
  <2>2. CASE left' = left
    BY <2>2, <1>2
  <2>3. CASE left' = [left EXCEPT ![k] = "closed"] /\ watch[k].idle + 1 >= ClosedGrace
    <3>1. left'[l] # "stopped" /\ (left'[l] = "closed" => k = l)
      BY <1>2, <2>3
    <3>2. Lookers(k) = {} /\ ~Active(k)
      BY <1>5, <2>1 DEF LookQuiet, Quiet
    <3>3. ASSUME NEW w \in Windows PROVE window[w] \in {"closed", "loading"}
      <4>1. window[w] # "slow"
        BY <1>1, <1>5 DEF InTime
      <4>2. watch[k].idle > 0
        <5>1. watch[k].idle \in 0..ClosedGrace
          BY DEF LauncherInv, LauncherTypeOK
        <5> QED
          BY <5>1, <2>3, ConstantsInNat
      <4>3. window[w] # "reloading"
        BY <1>1, <4>2 DEF LauncherInv, Counting
      <4>4. window[w] # "open"
        <5>1. SUFFICES ASSUME window[w] = "open" PROVE FALSE
          OBVIOUS
        <5>2. counted[w] \in Launchers /\ server[counted[w]] = "up"
          BY <5>1 DEF LauncherInv, Linked, LauncherTypeOK
        <5>3. counted[w] = k
          BY <1>1, <5>2, LooksAtOwn DEF Up
        <5> QED
          BY <3>2, <5>3 DEF Lookers
      <4>5. window[w] \in {"closed", "loading", "open", "reloading", "slow"}
        BY DEF LauncherInv, LauncherTypeOK
      <4> QED
        BY <4>1, <4>3, <4>4, <4>5
    <3> QED
      BY <3>1, <3>2, <3>3
  <2> QED
    BY <1>5, <2>2, <2>3 DEF LookQuiet
<1> QED
  BY <1>3, <1>4, <1>5 DEF WatchConsole

LEMMA QuitsKept ==
  ASSUME LauncherInv, LauncherNext
  PROVE  QuitsOnlyWhenDone
<1> SUFFICES ASSUME NEW l \in Launchers, left[l] = "no"
             PROVE  /\ left'[l] = "closed" => ~Active(l) /\ \A w \in Windows : window[w] \in {"closed", "loading"}
                    /\ left'[l] = "stopped" => server[l] = "dead"
  BY DEF QuitsOnlyWhenDone
<1>1. left \in [Launchers -> {"no", "closed", "stopped", "failed", "shown", "killed"}]
  BY DEF LauncherInv, LauncherTypeOK
<1>2. ASSUME NEW k \in Launchers, WatchConsole(k)
      PROVE  /\ left'[l] = "closed" => ~Active(l) /\ \A w \in Windows : window[w] \in {"closed", "loading"}
             /\ left'[l] = "stopped" => server[l] = "dead"
  BY <1>2, LooksLeave
<1>3. ASSUME NEW k \in Launchers, NEW why \in {"failed", "shown", "killed"}, left' \in {left, [left EXCEPT ![k] = why]}
      PROVE  left'[l] \notin {"closed", "stopped"}
  BY <1>1, <1>3
<1>4. ASSUME NEW k \in Launchers, Main(k) PROVE WatchConsole(k) \/ \E why \in {"failed", "shown", "killed"} : left' \in {left, [left EXCEPT ![k] = why]}
  BY <1>4 DEF Main, TakeLock, HandOver, MakeGroup, SpawnServer, WaitForServer, SpawnChrome, Report, Leave, Unlock, Leaves
<1>5. ASSUME NEW k \in Launchers,
             \/ Start(k) \/ Die(k) \/ Terminate(k) \/ Sweep(k)
             \/ ServerUp(k) \/ ServerEnds(k) \/ StdinEnds(k) \/ RunSignalled(k) \/ RunEnds(k)
             \/ SafeEnds(k) \/ ChromeSignalled(k)
      PROVE  \E why \in {"failed", "shown", "killed"} : left' \in {left, [left EXCEPT ![k] = why]}
  BY <1>5 DEF Start, Die, Terminate, Sweep, ServerUp, ServerEnds, StdinEnds, RunSignalled, RunEnds, SafeEnds, ChromeSignalled
<1>6. ASSUME NEW w \in Windows,
             \/ \E s \in Launchers : Connect(w, s)
             \/ Miss(w) \/ Reload(w) \/ CloseWindow(w) \/ PressRun(w) \/ PressStop(w) \/ PressEmergency(w)
      PROVE  left' = left
  BY <1>6 DEF Connect, Miss, Reload, CloseWindow, PressRun, PressStop, PressEmergency
<1>7. CASE \E k \in Launchers : Main(k)
  <2>1. PICK k \in Launchers : Main(k)
    BY <1>7
  <2> QED
    BY <2>1, <1>2, <1>3, <1>4
<1>8. CASE \E k \in Launchers :
             \/ Start(k) \/ Die(k) \/ Terminate(k) \/ Sweep(k)
             \/ ServerUp(k) \/ ServerEnds(k) \/ StdinEnds(k) \/ RunSignalled(k) \/ RunEnds(k)
             \/ SafeEnds(k) \/ ChromeSignalled(k)
  BY <1>8, <1>5, <1>3
<1>9. CASE left' = left
  BY <1>9, <1>1
<1>10. CASE AllGone
  BY <1>9, <1>10 DEF AllGone, launcherVars
<1> QED
  BY <1>6, <1>7, <1>8, <1>9, <1>10 DEF LauncherNext

\* However launchers, servers, runs and windows come and go, they stay what they
\* are meant to be; a launcher counts its looks no further than it waits.
THEOREM LaunchersTyped ==
    LauncherSpec => []LauncherTypeOK
<1>1. LauncherInit => LauncherInv
  BY LauncherBegins
<1>2. LauncherInv /\ [LauncherNext]_launcherVars => LauncherInv'
  BY LauncherStep
<1>3. LauncherInv => LauncherTypeOK
  BY DEF LauncherInv
<1> QED
  BY <1>1, <1>2, <1>3, PTL DEF LauncherSpec

\* Whoever starts the launcher however often, and whatever of it dies: no two
\* launchers have a console going that neither is leaving, and none leaves its own
\* for want of a window or a server while there is one, or a run (main.cpp,
\* watchConsole; SingleInstance and ProcessGroup).
THEOREM ConsolesAreKept ==
    LauncherSpec => ConsoleIsKept
<1>1. LauncherInit => LauncherInv
  BY LauncherBegins
<1>2. LauncherInv /\ [LauncherNext]_launcherVars => LauncherInv'
  BY LauncherStep
<1>3. LauncherInv => OneConsole
  BY LockKeepsOne
<1>4. LauncherInv /\ [LauncherNext]_launcherVars => [QuitsOnlyWhenDone]_launcherVars
  BY QuitsKept
<1> QED
  BY <1>1, <1>2, <1>3, <1>4, PTL DEF LauncherSpec, ConsoleIsKept

============================================================================
