----------------------------- MODULE MCSession -----------------------------
(* Two groups over three slots: a rail that both tests of the first group, *)
(* its teardown and the second group's setup read, a current read in       *)
(* either order with it, and a payload.                                    *)
EXTENDS Session

Scope(test, group, role) == [test |-> test, group |-> group, role |-> role]

McSuite ==
  <<Scope(RunScope, "A", "setup"), Scope("t1", "A", "test"), Scope("t2", "A", "test"),
    Scope(RunScope, "A", "teardown"),
    Scope(RunScope, "B", "setup"), Scope("t3", "B", "test"), Scope(RunScope, "B", "teardown")>>

McPaths ==
  [s \in Scopes |->
     CASE s = Scope("t1", "A", "test") -> {<<"rail", "amps">>, <<"amps", "rail">>}
       [] s = Scope("t2", "A", "test") -> {<<"rail", "reply">>}
       [] s = Scope(RunScope, "A", "teardown") -> {<<"rail">>}
       [] s = Scope(RunScope, "B", "setup") -> {<<"rail">>}
       [] s = Scope("t3", "B", "test") -> {<<"amps">>}
       [] s = RunHook("teardown") -> {<<"reply">>}
       [] OTHER -> {<<>>}]

McRequests ==
  {[select |-> {}, repeat |-> 1], [select |-> {"t2"}, repeat |-> 2],
   [select |-> {"t3"}, repeat |-> 1]}
McInjections == {[one |-> {}, list |-> {}], [one |-> {"rail"}, list |-> {"amps"}]}
=============================================================================
