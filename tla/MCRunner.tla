------------------------------ MODULE MCRunner ------------------------------
(* Small runs of Runner for TLC: three groups, the middle one left out of   *)
(* the partial selections and a test id the other two share, and the        *)
(* command lines that take different paths.                                 *)
EXTENDS Runner

McTests == {"a", "b", "x", "typo"}
McCatalog == <<<<"a", "b">>, <<"x">>, <<"b">>>>

\* The last group has no setup: an absent hook takes the other branch.
McHooks == ((0..3) \X {"setup", "teardown"}) \ {<<3, "setup">>}

Command(select, repeat, untilFailure, reading, stopOnStdin) ==
  [select |-> select, repeat |-> repeat, untilFailure |-> untilFailure,
   reading |-> reading, stopOnStdin |-> stopOnStdin]

\* A misspelt selection, two passes with and without --until-failure, a
\* soak, and each source of readings.
McOptions ==
  { Command({"a", "typo"}, 0, FALSE, "live", FALSE),
    Command({"b"}, 2, FALSE, "live", FALSE),
    Command({"a", "b"}, 2, TRUE, "record", TRUE),
    Command({"b"}, 0, TRUE, "live", TRUE),
    Command({"a", "b"}, 0, FALSE, "replay", TRUE),
    Command({"a"}, 0, FALSE, "skeleton", FALSE) }

============================================================================
