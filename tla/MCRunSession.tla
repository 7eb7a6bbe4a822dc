--------------------------- MODULE MCRunSession ---------------------------
(* Small consoles for TLC: at most two runs, an emergency, a --safe, a page *)
(* and a download, in the combinations of clients that meet each other.     *)
EXTENDS RunSession

McRuns == {"r1", "r2"}
McSafes == {"s"}
McEmergencies == {"e"}
McChildren == McRuns \cup McSafes \cup McEmergencies
McPages == {"v"}
McDownloads == {"d"}

\* The first run says something on each stream, the second only on stdout.
FewLines ==
  [c \in McChildren |-> [s \in Streams |->
     IF c = "r1" \/ (c = "r2" /\ s = "out") THEN 1 ELSE 0]]

\* Two runs and an emergency; two runs and a page that follows them; one run
\* with a --safe and a download.
Meetings == {{"r1", "r2", "e"}, {"r1", "r2", "v"}, {"r1", "s", "d"}}

============================================================================
