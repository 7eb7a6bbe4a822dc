---------------------------- MODULE ChildStream ----------------------------
(***************************************************************************)
(* The processes the web console spawns (framework/webui/src/              *)
(* child_stream.cpp, the POSIX half): run_scripts as a followed run, or as *)
(* a short --safe that a request waits for. A child is named after the     *)
(* request that makes it.                                                  *)
(*                                                                         *)
(* start() makes pipes, forks and closes the parent's copies in separate   *)
(* system calls, and other request threads fork in between: who holds the  *)
(* write end of each pipe is therefore state. Lines are counted; their     *)
(* text, and a last line without its newline, are left out. The three      *)
(* pipes of a child are made in one step and the two write ends closed in  *)
(* one step; the descriptors a child holds between fork and exec only are  *)
(* left out.                                                               *)
(***************************************************************************)
EXTENDS Naturals, FiniteSets

CONSTANTS
  Children,  \* every child this server may spawn
  Server,    \* the server itself, as a holder of pipe ends
  MaxLines   \* bound: lines each child writes to each of its streams

ASSUME ServerIsNoChild == Server \notin Children

Streams == {"out", "err"}

ASSUME MaxLinesIsBound == MaxLines \in [Children -> [Streams -> Nat]]

VARIABLES
  stage,      \* how far start() has got with each child
  proc,       \* the process itself
  held,       \* who holds the write ends of its stdout and stderr
  stdinHeld,  \* who holds the write end of its stdin
  wrote,      \* lines it has written to each stream
  read,       \* lines the reader threads have handed on
  reader,     \* mReader: where readLoop is
  errReader,  \* mStderrReader: whether readStderrLoop has ended
  stdinOpen,  \* Platform::StdinFd >= 0
  reaped,     \* Platform::Reaped
  told        \* a "stop" line is in the child's stdin

childVars == <<stage, proc, held, stdinHeld, wrote, read, reader, errReader,
               stdinOpen, reaped, told>>

Holders == Children \cup {Server}
OnTheRig == {"alive", "dying", "exiting", "zombie"}

ChildTypeOK ==
  /\ stage \in [Children -> {"unused", "piped", "forked", "closed", "started", "failed"}]
  /\ proc \in [Children -> {"none", "alive", "dying", "exiting", "zombie", "reaped"}]
  /\ held \in [Children -> SUBSET Holders]
  /\ stdinHeld \in [Children -> SUBSET Holders]
  /\ wrote \in [Children -> [Streams -> Nat]]
  /\ \A c \in Children, s \in Streams : read[c][s] <= wrote[c][s] /\ wrote[c][s] <= MaxLines[c][s]
  /\ read \in [Children -> [Streams -> Nat]]
  /\ reader \in [Children -> {"none", "reading", "joining", "polling", "locked",
                              "exited", "leaving", "done"}]
  /\ errReader \in [Children -> {"none", "reading", "done"}]
  /\ stdinOpen \in [Children -> BOOLEAN]
  /\ reaped \in [Children -> BOOLEAN]
  /\ told \in [Children -> BOOLEAN]

ChildInit ==
  /\ stage = [c \in Children |-> "unused"]
  /\ proc = [c \in Children |-> "none"]
  /\ held = [c \in Children |-> {}]
  /\ stdinHeld = [c \in Children |-> {}]
  /\ wrote = [c \in Children |-> [s \in Streams |-> 0]]
  /\ read = [c \in Children |-> [s \in Streams |-> 0]]
  /\ reader = [c \in Children |-> "none"]
  /\ errReader = [c \in Children |-> "none"]
  /\ stdinOpen = [c \in Children |-> FALSE]
  /\ reaped = [c \in Children |-> FALSE]
  /\ told = [c \in Children |-> FALSE]

----------------------------------------------------------------------------
(* start(), on a request's thread.                                         *)

MakePipes(c) ==
  /\ stage[c] = "unused"
  /\ stage' = [stage EXCEPT ![c] = "piped"]
  /\ held' = [held EXCEPT ![c] = {Server}]
  /\ stdinHeld' = [stdinHeld EXCEPT ![c] = {Server}]
  /\ UNCHANGED <<proc, wrote, read, reader, errReader, stdinOpen, reaped, told>>

\* pipe() or fork() fails: everything opened is closed again.
SpawnFails(c) ==
  /\ stage[c] = "piped"
  /\ stage' = [stage EXCEPT ![c] = "failed"]
  /\ held' = [held EXCEPT ![c] = @ \ {Server}]
  /\ stdinHeld' = [stdinHeld EXCEPT ![c] = @ \ {Server}]
  /\ UNCHANGED <<proc, wrote, read, reader, errReader, stdinOpen, reaped, told>>

\* A stdin end is marked close-on-exec when its own start() gets that far;
\* the stdout and stderr ends never are.
Inherited(k) == stage[k] \in {"piped", "forked", "closed"}

\* The child keeps its own output ends and every end the server has open.
Fork(c) ==
  /\ stage[c] = "piped"
  /\ stage' = [stage EXCEPT ![c] = "forked"]
  /\ proc' = [proc EXCEPT ![c] = "alive"]
  /\ held' = [k \in Children |->
                IF Server \in held[k] THEN held[k] \cup {c} ELSE held[k]]
  /\ stdinHeld' = [k \in Children |->
                     IF k # c /\ Inherited(k) /\ Server \in stdinHeld[k]
                       THEN stdinHeld[k] \cup {c} ELSE stdinHeld[k]]
  /\ UNCHANGED <<wrote, read, reader, errReader, stdinOpen, reaped, told>>

\* Mutant: the parent keeps its copies of the write ends.
ParentKeeps(c) == held[c]

\* The parent's copies of the write ends go.
ParentCloses(c) == held[c] \ {Server}

CloseEnds(c) ==
  /\ stage[c] = "forked"
  /\ stage' = [stage EXCEPT ![c] = "closed"]
  /\ held' = [held EXCEPT ![c] = ParentCloses(c)]
  /\ UNCHANGED <<proc, stdinHeld, wrote, read, reader, errReader, stdinOpen, reaped, told>>

StartReaders(c) ==
  /\ stage[c] = "closed"
  /\ stage' = [stage EXCEPT ![c] = "started"]
  /\ stdinOpen' = [stdinOpen EXCEPT ![c] = TRUE]
  /\ reader' = [reader EXCEPT ![c] = "reading"]
  /\ errReader' = [errReader EXCEPT ![c] = "reading"]
  /\ UNCHANGED <<proc, held, stdinHeld, wrote, read, reaped, told>>

----------------------------------------------------------------------------
(* The process. What it does is its own affair; that it writes, exits and  *)
(* can be killed is all the console relies on.                             *)

WriteLine(c, s) ==
  /\ proc[c] \in {"alive", "dying"}
  /\ wrote[c][s] < MaxLines[c][s]
  /\ wrote' = [wrote EXCEPT ![c][s] = @ + 1]
  /\ UNCHANGED <<stage, proc, held, stdinHeld, read, reader, errReader, stdinOpen, reaped, told>>

\* Its descriptors close before it can be waited for.
Exit(c) ==
  /\ proc[c] \in {"alive", "dying"}
  /\ proc' = [proc EXCEPT ![c] = "exiting"]
  /\ held' = [k \in Children |-> held[k] \ {c}]
  /\ stdinHeld' = [k \in Children |-> stdinHeld[k] \ {c}]
  /\ UNCHANGED <<stage, wrote, read, reader, errReader, stdinOpen, reaped, told>>

BecomeZombie(c) ==
  /\ proc[c] = "exiting"
  /\ proc' = [proc EXCEPT ![c] = "zombie"]
  /\ UNCHANGED <<stage, held, stdinHeld, wrote, read, reader, errReader, stdinOpen, reaped, told>>

----------------------------------------------------------------------------
(* readLoop and readStderrLoop.                                            *)

CanRead(c, s) ==
  /\ IF s = "out" THEN reader[c] = "reading" ELSE errReader[c] = "reading"
  /\ read[c][s] < wrote[c][s]

HandOn(c, s) ==
  /\ CanRead(c, s)
  /\ read' = [read EXCEPT ![c][s] = @ + 1]
  /\ UNCHANGED <<stage, proc, held, stdinHeld, wrote, reader, errReader, stdinOpen, reaped, told>>

AtEof(c, s) == held[c] = {} /\ read[c][s] = wrote[c][s]

\* Mutant: the stderr reader is not waited for.
AfterStdoutHasty == "polling"

AfterStdout == "joining"

\* Mutant: the exit is reported as soon as both streams have ended.
AfterStderrHasty == "exited"

AfterStderr == "polling"

\* End of stdout: both of this child's descriptors close, under the lock.
StdoutEnds(c) ==
  /\ reader[c] = "reading"
  /\ AtEof(c, "out")
  /\ reader' = [reader EXCEPT ![c] = AfterStdout]
  /\ stdinOpen' = [stdinOpen EXCEPT ![c] = FALSE]
  /\ stdinHeld' = [stdinHeld EXCEPT ![c] = @ \ {Server}]
  /\ UNCHANGED <<stage, proc, held, wrote, read, errReader, reaped, told>>

StderrEnds(c) ==
  /\ errReader[c] = "reading"
  /\ AtEof(c, "err")
  /\ errReader' = [errReader EXCEPT ![c] = "done"]
  /\ UNCHANGED <<stage, proc, held, stdinHeld, wrote, read, reader, stdinOpen, reaped, told>>

JoinStderr(c) ==
  /\ reader[c] = "joining"
  /\ errReader[c] = "done"
  /\ reader' = [reader EXCEPT ![c] = AfterStderr]
  /\ UNCHANGED <<stage, proc, held, stdinHeld, wrote, read, errReader, stdinOpen, reaped, told>>

\* A poll that finds the process gone, with Platform::Mutex held.
Waitpid(c) ==
  /\ reader[c] = "polling"
  /\ proc[c] = "zombie"
  /\ proc' = [proc EXCEPT ![c] = "reaped"]
  /\ reader' = [reader EXCEPT ![c] = "locked"]
  /\ UNCHANGED <<stage, held, stdinHeld, wrote, read, errReader, stdinOpen, reaped, told>>

MarkReaped(c) ==
  /\ reader[c] = "locked"
  /\ reaped' = [reaped EXCEPT ![c] = TRUE]
  /\ reader' = [reader EXCEPT ![c] = "exited"]
  /\ UNCHANGED <<stage, proc, held, stdinHeld, wrote, read, errReader, stdinOpen, told>>

\* The thread ends, its last handler having returned.
ReaderReturns(c) ==
  /\ reader[c] = "leaving"
  /\ reader' = [reader EXCEPT ![c] = "done"]
  /\ UNCHANGED <<stage, proc, held, stdinHeld, wrote, read, errReader, stdinOpen, reaped, told>>

----------------------------------------------------------------------------
(* requestStop() and kill(), on a request's thread.                        *)

\* Mutant: kill() does not take Platform::Mutex.
MutexIgnored(c) == TRUE

\* Platform::Mutex is free: only Waitpid keeps it from step to step.
MutexFree(c) == reader[c] # "locked"

\* The write fails once nothing reads the other end.
StopDelivered(c) ==
  /\ MutexFree(c)
  /\ stdinOpen[c]
  /\ proc[c] \in {"alive", "dying"}
  /\ told' = [told EXCEPT ![c] = TRUE]
  /\ UNCHANGED <<stage, proc, held, stdinHeld, wrote, read, reader, errReader, stdinOpen, reaped>>

\* kill( Pid, SIGKILL): on a process that has exited and is not reaped it
\* succeeds and does nothing.
Signal(c) ==
  /\ proc' = [proc EXCEPT ![c] = IF @ = "alive" THEN "dying" ELSE @]
  /\ UNCHANGED <<stage, held, stdinHeld, wrote, read, reader, errReader, stdinOpen, reaped, told>>

\* What a child does by itself once told to end, killed or on its way out.
OwnSteps(c) ==
  \/ \E s \in Streams : WriteLine(c, s)
  \/ Exit(c)
  \/ BecomeZombie(c)

\* The steps of readLoop that touch nothing but the child's own state.
ReaderSteps(c) ==
  \/ StdoutEnds(c)
  \/ JoinStderr(c)
  \/ Waitpid(c)
  \/ MarkReaped(c)

============================================================================
