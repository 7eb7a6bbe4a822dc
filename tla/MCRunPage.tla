------------------------------ MODULE MCRunPage ------------------------------
(***************************************************************************)
(* The page at two levels, one per behaviour: what it is told of the runs  *)
(* it starts, of a catalog of two tests, and the logs and events of one    *)
(* run on their way to it.  And what its command line is held to for every *)
(* form of it.                                                             *)
(***************************************************************************)
EXTENDS RunPage

MCTests == <<"t1", "t2">>

CONSTANTS Groups, LogTests, Numbers, MaxHooks, PipeSize,
          NoGroup, NoTest, NoPhase, NoVerb, Adhoc

VARIABLES
  which,  \* the level of this behaviour: "runs", "logs"
  opt, stage, journal, thrown, passed, queue, turn, hooks, sarif, rtf, pipe, reader

\* What stands for nothing is none of what it stands beside.
ASSUME LogsAssumption == NoGroup \notin Groups /\ NoTest \notin LogTests /\ NoPhase \notin {"setup", "teardown"}

logVars == <<opt, stage, journal, thrown, passed, queue, turn, hooks, sarif, rtf, pipe, reader>>
mcVars == <<which, vars, logVars>>

G == INSTANCE RunLogs WITH Tests <- LogTests, page <- reader

McInit ==
  /\ which \in {"runs", "logs"}
  /\ Init /\ G!Init
  /\ which = "runs" => ~opt.quiet /\ ~opt.logs

McNext ==
  \/ which = "runs" /\ Next /\ UNCHANGED <<which, logVars>>
  \/ which = "logs" /\ G!Next /\ UNCHANGED <<which, vars>>

McSpec == McInit /\ [][McNext]_mcVars

\* What the page has of a run is what the run did, from its first hook on, in order
\* and with nothing missing that can be read (event_stream.hpp, consume).
PageIsPrefix == G!PageIsPrefix

\* The end of the run on the page means whole logs that say what it says, each
\* log is what its sink was told, and their verdicts agree (journal.hpp, runEnd).
RecordsAgree == G!RecordsAgree

\* Every flag the page writes is one the binary offers, a value to a field and
\* none to a switch: its forms do not share the declaration, they repeat it.
ASSUME PageFlagsAreOffered ==
  \A f \in {g \in Forms : ~FormRefused(g)} : \A s \in ToSet(Settings(f)) :
    \E o \in Offered : s.flag \in o.spellings /\ (s.value = None <=> o.kind = "switch")

\* Safing is asked for alone, and read as nothing else.
ASSUME SafeCommandIsSafe == ParseOptions(BuildSafeCommand) = [Defaults EXCEPT !.SafeOnly = TRUE]

\* A list is split at its commas, a repeatable one gathers its occurrences whole.
ASSUME ListsAreRead ==
  LET o == Parse(<<With("--address", "gpib:0,5"), With("--select", <<"t1", None, "t2">>), With("--address", "sim"),
                   Bare("--no-colour")>>)
  IN  o = [Defaults EXCEPT !.Selection = <<"t1", "t2">>, !.Addresses = <<"gpib:0,5", "sim">>, !.Colour = FALSE]

=============================================================================
