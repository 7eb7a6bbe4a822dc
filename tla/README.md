# Thorium: a TLA+ model of the run, its rig, its instruments and the console

Thorium runs hardware test suites. A suite's scripts drive and measure a bench of
instruments through verbs (`Apply`, `Connect`, `Measure`, ...); `run_scripts`
executes the suite's catalog and a journal turns the checks a script makes into
verdicts and logs; a web console starts `run_scripts` as a child process and shows
what it prints; a launcher opens the console in a browser. This directory holds
TLA+ modules translated from the C++ sources (and, for the page, its JavaScript),
TLC configurations that check them on small instances, and TLAPS proofs of what
matters most for every instance.

Paths below are relative to the repository; `framework/core/include/core/` and the
like are shortened to `core/`.

## 1. The system

| component | state it keeps | operations | what is hard about it |
|---|---|---|---|
| Run control (`runner/src/main.cpp`) | place in passes, groups, tests; the fold of verdicts; the teardown and safing guards on the stack | hooks, scripts, boundaries, unwinding, exit status | three ways out of a script, each past different closing calls; guards that run during unwinding and still change the verdict |
| Stop requests (`core/control/stop_request.hpp`, `runner/src/stop_sources.hpp`) | reason, flag, honoured, armed | signal handler, stdin thread, boundary checks, `Delay` | two stores from two threads and a handler, read by the main thread in between |
| Journal and sinks (`core/journal/`, `event_sink`, `rtf_sink`, `sarif_sink`, `human_sink`) | open group, test, phase; checks of the open test; open files, pending results | begin/end of run, group, test, phase; post; one callback per sink and event | what stays open when a closing call is skipped; what a file holds when the run ends early |
| Switch fabric (`hal/fabric/switch_fabric.hpp`, `hal/src/fabric/rig_switching.cpp`) | a use count per element; relays on the bench | `connect`, `disconnect`, `openAll` | routes share relays; any exchange may be refused, or moved and unanswered, half way through a route |
| Verbs (`core/verbs/`) | the bench attachment; the readings' routes | Apply, Remove, Connect, Disconnect, Measure, Setup, Arm, Await, Fetch | a relay moved while its source is on; a low-impedance reading onto a live pin; a trigger that comes late |
| Safing and interlock (`hal/src/verbs/safing.cpp`, `interlock.cpp`) | which sources are on, as drivers remember | `safeRig`, the guard, `--safe` | outputs before relays, go on after any failure, after a run that died |
| Instrument drivers (`instruments/`) | what was programmed, what is on, a preparation mark, the block in hand | set, arm, await, fetch, safe, capture, restore | memory against the instrument's own state; two faces on one unit |
| Box connections, SCPI, transports (`hal/driver/`, `hal/io/`) | one session per box, its reply stream, bytes read and not handed over | open, send, receive, query, error queue | faces that share a session; late replies; half a line when time runs out |
| Preflight and addresses (`hal/src/verbs/preflight.cpp`, `hal/topology/`) | bindings, open sessions | bind, contact, identify, report | five sources of one address; pools; no run half bound |
| Sessions and recordings (`core/session/`) | programmed answers per slot, the row stream, its file, the sidecar directory | fetch, record, load, inject, spill | a replay must give each test its own rows or fail |
| Criteria, quantities, wiring, catalog | tables | pure | compile-time checks |
| Console run session (`webui/src/run_session.*`, `child_stream.*`, `main.cpp`) | the one run, its log, its pipes | start, stop, kill, follow, download, `--safe` | a thread per request and three per child, forks between a pipe's creation and its closing, pids that are reused |
| Command line (`runner/src/cli.hpp`, `webui/src/protocol/command.cpp`) | the flags' declaration | build, parse | one program writes what another one reads |
| Console page (`webui/static/js/`) | the form, the run's record, its state | Run, Stop, Kill, Emergency, reload; events | requests that overtake each other; an answer about a run that is no longer the one shown |
| Launcher (`launcher/`) | server, window, watchdog or job, the lock | start, watch, end | who may end whose process, and what is left when either dies |

How they interact: the launcher starts the server in its process group and watches
it once a second; the page posts to the server; the server's threads call the run
session, which forks `run_scripts` with a command line built from the request and
reads its events; the run binds its instruments, then calls hooks and scripts; a
script's verbs ask the bench whether it is attached, post to the journal (which
hands each event to the sinks in turn), move routes through the fabric and fetch
readings through the session bank; the bank asks an instrument, or a file, and the
recorder asks the journal which test is open; a driver speaks over its box's link,
which other faces share. Guards on the run's stack call teardown hooks and, last,
`safeRig`.

What makes each part correct: a run that exits zero really passed; every bracket
opened is closed, innermost first, and a safing pass follows the last; a stop is one
latch and always ends the run; shared relays are closed exactly while somebody holds
them; outputs go off before relays open; an answer answers its own question and a
fault names the command that caused it; a capture is of the Arm that asked for it,
and its scale is the one it was taken with; a run talks to the units its header
names; a replay hands out recorded rows in order and to those who took them; the
logs, the event stream and the page say the same of a run; one run at a time on the
rig, a kill only hits that run, and its log is complete when it is over; what the
operator ticked is what runs, and what the page says of it is so; a console is not
given up while someone looks or something runs, and nothing of it is left behind
when it is. `PROJECT.json` lists the hazards behind these, each at its line, with
the properties that cover it.

## 2. Modules

| module | models |
|---|---|
| `StopRequest` | the stop latch and its writers; claiming the reason and raising the flag are two steps |
| `StopContract` | abstract: one latch, one reason, work cut short only after it is set |
| `Runner` | one run from the signal handlers' installation to the exit status, with the journal's state; extends `StopRequest` |
| `RunContract` | abstract: brackets nest, the rig is touched only inside one and by a safing pass after the last, which may not reach all of it; a status comes after that |
| `RunnerProofs`, `MCRunner` | proofs; catalog and command lines |
| `RouteHolders` | abstract: who holds a route through which element, and that routes are taken whole or not at all |
| `SwitchFabric` | relays, use counts, and `connect`/`disconnect`/`openAll` one exchange at a time |
| `Rig` | the verbs, a supply's driver, the interlock, safing, and a sequence of processes on one bench; extends `SwitchFabric` |
| `RigProofs`, `MCRig` | proofs, of `SwitchFabric` too; two supplies and three readings that share relays |
| `BoxConnection` | the links that the faces of one box share, and the marks of the families that prepared them |
| `ScpiSession` | a call as a sequence of exchanges over a link: commands, questions, the error queue, late answers; extends `BoxConnection` |
| `Drivers` | what each SCPI driver says, operation by operation; extends `ScpiSession` |
| `Transport` | bytes and lines under a session: connecting, sending and receiving in pieces |
| `MCWire`, `WireProofs` | composes `Drivers` and `Transport`, one level per behaviour; proofs |
| `AcquireContract` | abstract: what Arm and Await promise, whatever the scope |
| `Oscilloscope` | the DSOX1202G's Arm, Await, Fetch and Measure, each exchange a step |
| `Digitiser` | the PicoScope: a scope and a generator on one unit, each SDK call one that may be refused |
| `Source` | an output of the generators, the supply and the AC source: Apply's order, limits, Remove, safe, simulated readings, and `SourceSnapshot` |
| `MCInstruments`, `InstrumentProofs` | composes the three, one instrument per behaviour, the scopes against `AcquireContract`; proofs |
| `Preflight`, `MCPreflight`, `PreflightProofs` | sources of addresses, pools, contact, identity, header, the run's end and `--safe`; a desk of six faces; proofs |
| `Session`, `MCSession`, `SessionProofs` | a run that records, what it leaves in file and directory, and one that replays; two groups over three slots; proofs |
| `ChildStream` | a child process, its pipes and who holds their ends, the two threads that read them, reaping |
| `RunSession` | the mutex, the log, and every request thread; extends `ChildStream` |
| `RunSlot` | abstract: one run at a time on the rig |
| `MCRunSession`, `ConsoleProofs` | small consoles: which clients come; proofs, of `Launcher` too |
| `CommandLine` | the declaration of the flags, the parser, and what the console builds |
| `RunPage` | the page's form, requests and record, the server's answers, and the run as what it says; extends `CommandLine` |
| `RunLogs` | the journal's hooks on their way through the sinks, to files and, over a pipe, to the page |
| `MCRunPage`, `PageInvariants`, `PageProofs` | composes `RunPage` and `RunLogs`, one level per behaviour, and states what holds of every form; the invariants of both, and the proofs |
| `Ordered` | the places of a sequence that are kept, in order: filters that can be reasoned about by counting |
| `Launcher` | two starts of the launcher, with server, run, `--safe`, browser, window, lock, and the watchdog or the job |

**The run.** `pc` is the main thread; each action is what it does up to the next
point where something else can be seen or can happen: a boundary's `stopNow()`, a
hook's or a script's start, its checks (`Tallied`), its way of ending (return, stop,
exception), each guard's destructor, the safing pass, the exit. The journal's
functions are operators used inside those actions. A hook or a script is open: any
mix of checks, of energising and de-energising, and any way out. The signal handler
and the stdin thread step between any two of these. Two groups may have a test of one
id (a group may not: its tests are members of one struct, `IdsAssumption`), so a
verdict's record carries its group and pass.

**The rig.** A script is any sequence of verbs and may go on after one that threw (a
catch, or the teardown hooks). `connect` and `disconnect` are one exchange per
action; an exchange does what it should, is refused, or moves the relay and is not
answered. `relay` and `rail` are the bench and outlive a process; `mUseCount` and
`mEnabled` are its memory and do not. A process may die at any step and another be
started, as a run (attached or not) or as `--safe`. Ghosts: `held` (routes that are
held), `doubt` (outputs that may be on although no driver remembers), `lost` (boxes
that did not obey the safing), `suspect` (relays that may be closed although the
books say open).

**The wire.** A driver's call is data: the sequence of exchanges `Drivers` gives for
each operation of each family, preceded by what opens and prepares the link if
nothing has. `ScpiSession` runs it, and at each exchange the box obeys, refuses
(which puts an error in its queue), answers late, or is gone. Between calls a
sibling face closes, replaces the transport or moves to another address. An answer is
one of five kinds with two marks, since what matters is whether it is the answer to
the question that reads it. `Transport` is a level below: bytes of lines, cut
anywhere.

**The instruments.** `Oscilloscope` follows each of the driver's exchanges with an
instrument that runs, stops or waits for one trigger by itself. `Digitiser`'s SDK
calls happen inside a call of the driver, each of which may be refused, so a call's
outcomes are those of every prefix; channels are pushed in ascending order as far as
the one that throws; its `scope` is the driver's memory, `unit` the
hardware, and a Setup, a Measure or a closing may come between an Arm and its Await;
the ghost `touched` remembers that it has, until the next Arm. In `Source` an Apply is the named settings in the order the driver sends
them; `unit` clamps, rescales and trips; the snapshot is taken and put back around
any of it.

**The address plan.** `binding` is computed from flags, exports, site and table as
the code does it; contact and identity are steps, and which unit answers at which
address is chosen at the start (`world`). The run itself is one step that energises.
A safing tells an output to go off down the session of its box, if one is open
(`OpenSession`, `told`); whether the unit obeys is `Rig`'s subject.

**The readings.** A run is the sequence of scopes (hooks and tests) its selection
reaches, each reading one of its `Paths`, chosen anew in the recording and in the
replay: scripts branch on what they read and are edited in between. A reading is
stood for by its row's number, a payload also by its content. Scopes end by
returning, by a setup's failure, by an exception (which leaves the journal's test
open) or by a stop (which does not). The stream's buffer is why `LoseBuffer` may
leave any prefix, and the head of one more row. The directory of payloads outlives
recordings, so it may hold a file cut short, or other octets under a payload's name.

**The console.** Each request handler, each child's two reader threads and each
child process is a process of the model. `mMutex` is a variable only for `start()`,
which holds it across forks; every other critical section is one step. The write
ends of each child's pipes have holders, because children that are forked between
another's `pipe()` and `close()` inherit them.

**The page.** `RunPage` has requests and replies as sets, so that they overtake each
other; the server and its one child are a step per request and per line. A form is
mapped to flags as the page's scripts and `protocol/command.cpp` do it, and the flags are
parsed as the runner does. `RunLogs` has each hook handed to one sink after the
other, so that a kill may fall between two.

**The launcher.** `main[l]` is where a launcher is, `watch[l]` its counters, both
advanced by a look once a second. The group (POSIX: process group and watchdog;
Windows: job) is what ends a launcher's children when it ends. The browser outlives
the launcher that found it running.

## 3. Runs

| run | instance and bounds | shows |
|---|---|---|
| `runner` | three groups (two, one and one test; the last repeats an id of the first), the middle one left out by partial selections, the last without a setup; six command lines (misspelt selection, two passes with and without `--until-failure`, two soaks, a replay, a skeleton); exceptions outside `std::exception` | exit status, what is on record, the guards (`RunContract`), a stop is heeded and ends every run |
| `console` | two starts with an emergency; two with a page; a start with a `--safe` and a download; a line on each stream | one run at a time (`RunSlot`), kills, the log, the page; ends are noticed and requests answered |
| `rig` | two supplies whose leads share a crosspoint with a meter's route, one of them connected twice, two readings in one RF bank, one behind a card nobody switches | use counts, shared routes (`RouteHolders`), the interlock, safing |
| `session` | two groups, three tests, slots for a rail, a current and a payload too long for a row; three requests; an injection of one value and a list, or none | a replay's rows: in order, once, to those who took them, none missing that should be there, payloads as given |
| `wire` | each of four pairs of faces, an address or a simulated bench; queue depth 3, two late answers, two waiting errors. Below: a name with two candidates, each kind of address, three lines each way, two breaks | answers, blame, shared links, and lines; every call ends |
| `instruments` | a scope of either kind, two channels, two ranges, three Arms; four kinds of source, two frequencies and levels, one use each, with a snapshot | `AcquireContract`, what the PicoScope's driver believes, what scripts asked of a source, what a snapshot restores |
| `preflight` | six faces on four boxes, a pool of two, a site, six flags and three exports, three units at any address, any of them silent | the bound plan is what runs, and what a run that ends tells to go off |
| `page` | two tests, two passes, two starts, two of (stop, kill, emergency, reload, death); in one run: one group, one test, seven hooks, a pipe of three pieces, readings that are a number or a NaN | what was asked runs, what the page says is so, what it has of a run, and that the run's records agree |
| `launcher` | two launchers, one window, grace of three looks (`ServerGone` two), one mishap, one run; macOS, Linux, Windows | no two consoles, none given up early, nothing left |
| `session_spill` (violation) | as `session` | a payload that cannot be written spoils a recording that is closed as good |
| `preflight_safe` (violation) | as `preflight` | after a run that died, `--safe` tells no output anything |
| `logs_nan` (violation) | `RunLogs` with a NaN | one NaN reading and the machine log is not JSON |

Why the bounds are enough. Runner: two passes are the first and a later one; three
groups, of which a selection leaves out one in the middle, are the first, one that is
skipped, and the last; the counter saturates in a soak, so the endless case is
checked too. Rig: two holders over one element and two uses by one holder are all
`mUseCount` tells apart, a path of two elements has a first, a last, and an undo that
has something to undo; the proofs cover every other size. Session: a slot read by a
test before, by the replayed test, by a hook inside and by a hook outside the
selection, with two passes of the replayed test; the skeleton starts with an empty
directory, the recording with what earlier ones left. Console: two runs are the one
that ends and the one that comes next; a third actor is added in the combinations in
which the sources have them meet, since the fully crowded console is beyond TLC.
Wire: a late answer matters to the next question and to the one after it, a queue to
its depth and one below. Instruments: an Arm, the one that replaces it, and the one
after that; a channel that is changed and one that is not. Page: a run and the one
that is started while the answer about it is still out; two troubles are a click and
the thing that overtakes it. Launcher: a launcher and the one started while it ends;
three looks leave room for a reload within the grace; one mishap, since two can take
apart any pair of processes.

`CHECK_DEADLOCK FALSE` is set where the system really stops: in `console` each
request is made once and then the server waits, in `wire` a transport has used up
its lines or failed to open, in `instruments` the Arms or the uses are used up. The other modules
end in an explicit step that changes nothing.

A property that is a conjunction is one question asked in parts, each a definition of
its own with its own comment (`RecordIsTrue`, `LogIsWhole`, `BeliefsHold`, ...).
Type invariants stand in the modules (`TypeOK`). Those of `Runner`, the rig, the
console's run session, `Preflight`, `Session`, `RunPage` and `Launcher` are proved, the wire's and the instruments'
inductive invariants state the types of what they are about; the others were checked with TLC while the modules were written and can be added
to any of the configurations. The inductive invariants of the proofs were checked with
TLC on the runs of the same modules before they were proved.

Each property of a passing run is shown able to fail by a mutant in `PROJECT.json`: a
plausible slip in one definition (a dropped guard, a count taken before the exchange,
a join forgotten, settings sent in another order, a filter ignored). The operators
whose comment begins with *Mutant* are only for that and nothing else uses them.

The three violations are disagreements between the code and what it says of itself;
`findings` quotes the lines. Constants let a reader widen the instruments: a range
among `TooLarge` is one a channel refuses, `Couplings` may hold `TRUE` (AC) and
`Displays` `FALSE` (a channel switched off).

## 4. Fairness

- `Runner`: weak fairness of the main thread (hooks, scripts and delays end: a script
  that never returns stops any runner) and of a `requestStop` that has been entered
  (the operating system runs the handler and the thread). Nobody is bound to ask for
  a stop.
- `RunSession`: weak fairness of every request thread, every reader thread, of a
  `--safe` (a short process) and of a run that was told to stop or killed; a run left
  alone may go on for ever. Weak fairness suffices for `mMutex` because there are
  finitely many starts, after which it stays free. `WaitsEnd` carries an exception in
  its statement: a run that inherited an emergency's pipes may hold them for as long
  as it lives.
- `MCWire`: weak fairness of a call's exchanges: each returns, times out or throws,
  and a caller goes on. The box need not answer.
- `Launcher`: weak fairness of a launcher's steps (an error box is answered), of the
  watchdog and of what SIGTERM reaches, of a server that is coming up, of a run that
  was told to stop and of a `--safe`, of a page noticing that its server has gone and
  of one that reloads. A run left alone may go on, and nobody is bound to close a
  window.

`Rig`, `Session`, `Oscilloscope`, `Digitiser`, `Source`, `Preflight`, `RunPage` and
`RunLogs` state no liveness: their steps are one thread's and nothing there waits, or
(the page) waiting is what the operator does.

## 5. Proofs

All with `tlapm` (Z3, Zenon, LS4), for every value of the constants that meets the
named assumptions, which TLC evaluates on the runs' instances. A theorem of a
specification is proved by initiation, one step per action, and consequence; the step
lemmas are named after the operations. `PROJECT.json` lists the theorems.

**`RunnerProofs`** (extends `Runner`). Assumptions: `Runner`'s, on the catalog (any
groups of any tests, ids unique within a group), the hooks and the command lines.
Theorems: `TypeCorrect`; `StopsOnlyScripts` (the stop is armed in scripts only);
`LatchImplemented` (the two-step latch implements `StopContract`);
`ExitZeroIsHonest`; `ContractImplemented` (the run implements `RunContract`);
`RecordHolds`; `StopsBeginNothing` (no setup and no script begins
once the flag is up).
`ExitZeroMeansPassed` speaks of the end, so its invariant `IInv` has to say at every
place what the folds will be worth: `Fresh` (nothing has happened yet before the run
opens), `Folded` (each failure so far is in the accumulator that is in scope, or in
the one it will be copied into), `Unwinding` (a thrown run can only unwind),
`LoopsLeft` (a loop left early was left by a stop or a failure), `EarlierPasses` and
`ThisPass` (every selected test of the passes and groups behind has its passing
verdict, or there is a failure), and `Status`. What is on record needs as much again:
`PassesCountDown` and `Behind` (no verdict is of a test the run has not come to),
`CutIsLost` (the test at which a stop was honoured has no verdict, and will have
none), `FailureIsLast` (a pass with a failure is the one under way) and `JournalInStep`
(what the journal has open is where the main thread is). That the rig is cold at a
run's end is no property of `Runner`, whose safing may fail to reach an output; how
far it reaches is `RunEndsIdle`'s, of `Rig`.

**`RigProofs`, the fabric** (of `SwitchFabric` alone), with `FabricAssumption` (each of
finitely many uses has a path, a sequence of elements; driven elements and banks are
of the elements; the mark for no use is none of them).
`FabricCounts`, `FabricFollowsBooks` and `FabricKeepsPromise` (the fabric implements
`RouteHolders`, for any number of routes over any relays). `BooksInv` states the
count of each element as the cardinality of the uses that hold it, those of the route
in hand up to where it stands; `BenchOK` and `CountedIsClosed` tie relays to counts,
except where an exchange left doubt; `SharesOK` says that the elements in use are
those of held routes plus a part of the moving one, none of it at one end of the
operation and all at the other, which is what makes its last step a legal step of
`RouteHolders`.

**`RigProofs`, the bench** (extends `Rig`), with `RigAssumption`. `RigInv`
adds to the fabric's invariant: `RelaysOK` (until safing has opened the relays and
not yet forgotten the books they agree), `BenchUsed` (a route only moves in an
attached script), `RailsKnown` (a driver knows of its output, or there is doubt),
`TapOff` (while a low-impedance reading is routed no driver remembers its rail on),
`HotKnown` (a source that is on while its route moves was found on when the verb
asked) and `SafingOK` (how far the safing has come). From it: every property the
run `rig` checks, and two it does not: `HotSwitchFound` (a source's relay moves with
the output on only in a verb that found it on, so that the event it posts says so; one
that throws posts none: section 6) and `DetachedMovesNothing`.

**`ConsoleProofs`, the console** (extends `RunSession`), for any number of starts, stops, kills,
followers, downloads, emergencies and lines; no assumption beyond `RunSession`'s
own. Theorems: `ConsoleTyped`, `LogHoldsTheRun`, `KillTellsTrue`, `KillHitsOurs` and
`ConsoleRunsOne` (the session implements `RunSlot`). `IInv` is in three parts.
`ChildInv` is about one child and says nothing of who asks: how far `start()` has got
decides whether there is a process and readers (`Spawned`), the reader alone reaps
(`Reaping`), and an end of file comes only after every holder of the pipe has gone,
with all that was written handed on (`Streamed`). `SessionInv` ties the children to
the session: who holds `mMutex` and how far (`Starting`), that the runs before the
current one are over or never were (`Over`), that `mActive` is up exactly while the
current run has not reported (`Owned`), and what a request that is killing may still
rely on (`Victims`). `LogSoFar` and `PageSoFar` say that the log is the current run's
lines as far as they were read, and a page's part of it a prefix. That a `--safe`
holds another run's pipes makes ends late and nothing else, so no part needs to
mention it.

**`ConsoleProofs`, its launchers** (extends `Launcher`), for any number of launchers,
windows, mishaps and runs, on each system. Assumption: `LauncherAssumption`; that the
grace is longer than one look is what a page needs to be back from a reload, and
`kClosedGraceSeconds` is 3. Theorems: `LaunchersTyped`, and `ConsolesAreKept`, which
is an invariant and an action property. `LauncherInv` goes from the lock to the page:
who has a group has the lock from before until after (`Locked`), a server is up only
as long as its group has not closed or SIGTERM is on its way (`Housed`), nothing is
there before it was started (`Unspawned`), a page is connected to a server that is up
(`Linked`), and one that was being reloaded at a look has been missed by it, so that no
other look is counted before it is back (`Counting`). With the second and the third,
the server that a launcher asks is its own (`LooksAtOwn`), although an older one may
listen on the same port.

**`PreflightProofs`** (extends `Preflight`). Assumptions: `TablesBuild` and
`TablesFit` (what the rig's tables have to be to compile: one row for each face, a
table address its driver takes, which `BackPanel` and `ReachableOver` check at compile
time), `MovesAreAddresses` (a flag, an export or a site names an address) and
`UnitsAreThemselves`; that a pool lists real units is a restriction of the model.
Theorems: `PreflightTyped`, `PlanHolds`, `SafesDriven`. `IInv` is the type invariant
with: `Rowwise` (faces before the row in hand are bound as `Resolve` says, at an
address their driver takes; later ones untouched), `Books` (a serial is claimed by one
box, and a box's first contact is what its other faces find), `Sessions` (a session is
with the unit at the driver's address) and `Safings` (what was energised is on a session
that is still open, and what a run that has ended energised was told).

**`InstrumentProofs`** (extends `MCInstruments`), for any channels, ranges, settings,
kinds of source and number of Arms. Theorems: `CapturesAreOfTheirArm` and
`PromiseKept` (either scope implements `AcquireContract`), `BeliefsAreTrue`,
`SourcesDoAsAsked` and `SnapshotsPutBack`. Assumption: `InstrumentsAssumption`, the
scopes' constants, and that a source's values are numbers and its kinds and shapes
those of the drivers. No theorem assumes that a script leaves the PicoScope alone
between Arm and Await; what becomes of the record of an Arm that was not left alone is told in section 6,
and `BeliefsAreTrue` and `PromiseKept` except that record until the next Arm
(`touched`), nothing else. `KeysightInv` says, at each
exchange of a call, what the instrument can be doing: stopped with this Arm's record
once an Arm has begun and stopped, waiting for its trigger only while an Arm, an
exchange that threw or a safing whose `:STOP` was lost accounts for it. `PicoInv` says
what the driver's memory is worth:
the settings it has noted are in the unit, but for channels half of whose push was
refused (`Noted`); a channel that was never set up is off, and a closed unit has
nothing (`Unset`); and, as long as nothing was touched (`Undisturbed`), a record it holds
is at the scale the channels still have, with no
block running (`Held`), and an Arm that waits has its block running at the unit's
settings (`Waiting`). A call that touches an Arm owes only what `Noted` and `Unset` say
of the settings (`Alike`, `Goes`). `Attached` and `Unattached` say which of these a
simulated scope has. `SourceInv` is what a snapshot's values are between noting and restoring.
`PlayInv` adds what an Apply came to. An Apply is a recursive function over the commands
of its program, of which there are seven at most, so that the function is exhibited
(`ToldSteps`) and each command taken by itself: it sets its own setting and moves only
settings that are said after it (`SaidSets`, with `Moves`), and one within the
driver's limits finds the unit at the load, shape and amplitude that those limits were
worked out for (`GeneratorTakes`). A supply obeys everything, and goes on unless its
level is above its trip level (`SupplyPlays`).

**`WireProofs`** (extends `MCWire`), for any faces, addresses, boxes, settings, depths
of queue, and numbers of lines and breaks. Assumptions: those of the modules, of which
two were added for the proof. `DriversAssumption`: the six SCPI drivers are among the
families. `QueueFits`: an error waits at most as deep as the queue is, which is what
`clearErrors` reads (`scpi.cpp`: as often as a queue is deep, and once more); were it
deeper, a drained queue would not be empty and a fault could be blamed on another
command. Theorems: `SharedInStepHolds`, `ToldTheTruth` and `BlamedFairly`, from
`SessionsInOrder`; `TransportIsTrue`, from `TransportStaysWhole`. `SessionInv` says at
each exchange of a call what the rest of the call can count on. `LinksInOrder` and
`Marked`: a face is on its own address's link, and a family's mark is on a session
whose model it has seen. `Unread`: an answer that nobody has read came late. `Empty`
and `Ready`: as long as nothing has come late or been left behind, a prepared
session's error queue is empty between calls, and what is in it during one is of the
command before (`Expected`). `Formed`: what is left of a call has one of the shapes the
drivers give (`Shaped`, `OfSafing`), asks for the model before it puts its mark
(`Meets`), and, where it asks why after a timeout, drains the queue or looks again,
follows a question that ran out of time (`Blames`, `Blaming`); the look of a meter's
reading follows its answer (`Looked`).
`Truthful`: as long as none was late, the call has read its own answers, and each of
its checked commands was obeyed, is still to come, or has failed and will be thrown
about (`Accounted`, `Pending`, `Doomed`). `TransportInv` has three parts. `Received`: what is pending and what is on the
way is, as one stream, the lines after those handed over, whole and in order; a piece,
a timeout or a `recv` that cuts anywhere moves the cut and leaves the stream.
`Delivered`: until a send fails half way, each byte that is out is at its place, and
what is left of the command in hand belongs right behind. `Opening`: while candidates
are tried nothing is open, and afterwards only what the transport holds.

**`SessionProofs`** (extends `Session`), for any suite, readings, request, stimulus and
leftovers. Assumption: `SessionAssumption` (every group of the suite has its teardown;
a script is of a test, a hook of none). Theorems: `SessionTyped`, `PayloadsComeBack`,
`ReplaysKeepOrder`, `ReadingsAreOwn` and `NeverFalselyStarved`. The slots' queues are
written by rank instead of by a filter (`InOrder` of `Ordered`: the i-th of a set of places is the
one with i of them up to it), so that lemmas on cardinalities stand in for induction:
`RankOrder`, `RankOnto`, `InOrderPlaces`. `IInv` has five parts: `Typed`; `RunShape` (a
run ends in a teardown, and the journal's test is open inside that test, or in the
teardowns after it threw); `RowsMade` (a row is stamped with its own test, but for the
hooks' rows after a test threw, and those all bear that test's stamp to the end; a
payload written whole has its file); `FileHolds` (a row's number is its place, and it
has lost its value only where the recording was cut off or the payload could not be
written); `Replays` (what a slot has in its queue is its kept rows but for those
handed out, and each was handed out in the place of its rank). `OwnReadings` and
`NoFalseStarvation` then follow from one lemma, `SameRank`: up to a row that was handed
out, the rows the file keeps for a slot and those the replayed part of the suite made
there are the same ones.

**`PageProofs`** (extends `MCRunPage` through `PageInvariants`, which holds what the
proofs speak of), for any catalog, forms, number of starts and of
troubles, and any groups, tests, hooks and size of pipe. Assumptions: `PageAssumption` (an id names one test of the catalog, which
the page, that keeps boxes and verdicts by id, takes for granted; the marks for nothing,
text and an overlong number are no values) and `LogsAssumption` (what stands for no
group, test or phase is none). Theorems: `PageTyped`, `KillsComeFirst`, `RunsAsAsked` and
`PageIsTrue` of `Spec`, `PagesArePrefixes` and `RecordsAlwaysAgree` of `McSpec`. The parser and the runner's filters are written by rank, as the
slots' queues are, so that what the page wrote can be found in what the runner reads
without induction. `Base` is what every step keeps: the types (`Typed`), that a number
of a start or of a page's load is one that was given out (`Numbered`), that a request
is of a start nothing is known about yet (`Fresh`), and which `--safe` is of which
emergency (`Safings`). `RunsAsAsked` adds `Asking`, that a run which has yet to read its
command line has the one of its form. `PageIsTrue` needs to know the run and the page. `RunInv` is of the
run alone: each of its lines is at its place (`LinesInOrder`: a start, then for each
pass and test its beginning and end, then the result), how far it has come, counted in
lines (`Stage`), and a run that passed has said so of every test of every pass
(`Passing`). `PageInv` is of the page: what it shows is what the lines it has read make
of it (`Showing`), a page waits for one request or one reply until it watches
(`Waits`), what it ticked and expects is what the run was asked for, times its passes
(`AsAskedFor`), and an outcome is only there when the run is gone (`OverIsGone`).

`PagesArePrefixes` is about the hooks that can be read, `Said`: a reading may be a NaN,
whose line is no JSON, and the page drops it (`logs_nan` shows what else that costs). Its
invariant, `LogBase`, is about the *wire*: the pieces the page has kept and those still in the pipe, one after the
other, whatever the pipe does with them. The hooks not told of yet are the last of the
run's (`QueueIsRest`). The wire is pairs of pieces, a half and a whole line, and ends in
half a line only when the run is dead (`InPairs`); the j-th line of it that is a hook and
can be read is the one that many places in `Said` after those the page has, and all
together they are what the stream has been told and can be read, `SaidTo` (`WireIsRest`).
More hooks leave the places in `Said` as they are (`SaidStays`). A read moves a cut along the wire: `TakenPieces` says,
by counting, that what is before the cut becomes events in order and what is after it
keeps its places.

`RecordsAlwaysAgree` builds on `LogBase`: the run's end has no reading, so a page that
has it has as many events as there are hooks to read, and the sinks before the stream were
told of it. Its invariant `RecordBase` is about the run's hooks and the two logs. `Story` is the journal's: the
end comes last, every test that ended began somewhere with nothing but its own events in
between, of which its verdict is the sum (`TestsHold`), and so far the same is true of
the test that is open, whose checks and failures the journal counts (`OpenHolds`).
`SarifHolds` is what the machine log has of the hooks it was told: as many results as
there are hooks that make one, each in the place of its hook's rank (`ResultsHold`),
every rule once (`RulesHold`), and a group that is the journal's unless the hook that
changes it is the one still to come (`GroupHolds`) - without it nothing says that a
test's first result bears the group of the others. `RtfHolds` is what the human log has:
the lines of the hooks it was told, once its header is there. The journal hands out a
hook only when the last one has been told to every sink, so each of the steps either
lengthens the hooks, where `ResultsIn` and `LinesIn` up to what was told stay the same,
or tells one sink of one hook, where they gain at most its place. The verdict then
follows by translating places: the last test's start before the i-th hook, among the
results, is the rank of the start `TestsHold` names, and the results after it are the
events in between.

Every safety property and every action property that a passing run checks is thereby
proved as well. Out of this prover's reach, and so only model-checked: liveness
(`StopIsHeeded`, `EndIsNoticed`, `WaitsEnd`, `CallsEnd`, `ConsolesEnd`), `ENABLED`, and
what a recursive definition or a fold computes for every input.

## 6. What is not modelled, and what the models assume

Components: the `components` list of `PROJECT.json` has one line for each, with the
reason. Left out altogether: criteria and quantities (pure functions over doubles, no
state, nothing a finite model would tell apart), deployments (data), the build, and
vendored libraries. Within the modelled ones:

- Runner: the listing modes; timestamps; the log files' text.
- Rig: a `Disconnect` of a route nobody holds (callers pair them); two holders of one
  RF bank at a time (the rig's wiring excludes it); changes at the front panel; a
  box that two supplies share. An `Apply` beyond the supply's rating changes nothing
  and is left out.
- Wire: number formats; loading the VISA library; what a partly sent command and the
  next one read as together. A question that was answered may leave an error in the
  queue, and the meter of the 34980A alone looks for it: elsewhere the next checked
  command is blamed, which `BlameIsFair` excepts (the ghost `littered`).
- Instruments: unit conversions, lower bounds and percent checks; the PicoScope's
  resolutions; what a generator keeps besides its termination; that a channel which was
  switched off since the Arm has no scale left to read the block with
  (`oscilloscope.cpp:790`, an empty optional).
- Preflight: the text of addresses and identities; the compile-time checks.
- Session: the values themselves; recording into memory; sources that only C++
  callers inject. What a torn row can look like follows libstdc++ (the only library
  the build accepts), whose file buffer breaks between fields, not inside one. A
  script does not catch what a fetch throws. One content is too long for a row.
- Console: the Windows half; the text of lines and a last line without a newline;
  descriptors that a child holds between `fork` and `exec`.
- Logs: that the human log is whole at any instant holds between hooks, as long as
  one hook's lines fit the stream's buffer. `webui::EventStream` is used by tests
  only; lines are split by `ChildStream::readLoop`, and the page drops what it cannot
  parse. `RtfSink` looks at no error of its stream: a disk that is full for a while
  leaves a human log cut short, or with a gap at its end, while the run's end still goes
  out. `RunLogs` has no such failure, and `RecordsAgree` is of a human log that could be
  written.
- Page: drawing, filters, the catalog tree.
- Launcher: finding Chrome, its flags and its profile lock, dialogs, the texts of
  errors. The three assumptions on time are in the module's header.

Disagreements between a comment and the code, or surprises, that were met and have no
run of their own:

The run
- `main.cpp:1894` catches `std::exception` only, so a script that throws anything
  else ends in `std::terminate` without safing (148-149 speak of every exit).
- `stop_sources.hpp:25-26`: after a stop from stdin the first signal counts as the
  second and kills the run un-safed.
- `core/verbs/measure.hpp:187`: the comment says other exceptions leak the route; the
  code (363-391) releases it for every exception.

The rig and the wire
- The supply's `removeOutput` forgets the output before it has told the instrument,
  and the interlock, said to ask the instrument
  (`keysight_edu36311a.cpp:299-303`), reads that memory: `LowTapIsCold` says exactly
  when that is wrong.
- `SwitchFabric::close`: "a refused close leaves the element open on the books as it
  is on the bench" is not so for an exchange that moved the relay and timed out.
- `core/verbs/interlock.hpp:36` says "So hot switching is *recorded*, never refused",
  but in `route.hpp:107-114`, 224-231 a Connect or Disconnect that throws half way, after
  relays have moved under a live output, posts no event: its hot switching is in no log.
- `scpi.cpp:173`: after a time-out the reply to `SYST:ERR?` may be the late answer to
  the query.
- `keysight_33522b.cpp:392-404`: an `*OPC?` of a safing that runs out of time leaves
  `safe()` by an exception.

The instruments
- `snapshot.hpp:43-50`: the trip level of a supply is not restored; after a script
  that removed the output and left its lead connected, the restore connects the lead
  once more, and the use count the comment wants balanced is one too high.
- `waveform_generator.hpp:362-380`, 812-815: levels are checked against the
  termination remembered so far, which before the first Apply is 50 Ohm whatever the
  unit has. The DSOX1202G generator's safing resets the unit (`:WGEN:RST`) and keeps
  its memory of load, frequency and function.
- `pico_5244d_oscilloscope.hpp:65-67` says "a changed range is never measured against a
  record taken at the old one", but in `pico_5244d/src/oscilloscope.cpp:221-225`, 790 a
  Setup between Arm and Await drops what is held, keeps the armed block and has it
  scaled with the range set since; a `Measure` there takes the armed block's place. An AC flag is not reset when the unit is opened again.
- A DSOX1202G Arm that fails while it asks whether it is armed, and a safing whose
  `:STOP` is lost, leave the trigger armed (the ghost `unsure`), and `safe()` tells
  nobody.

Addresses
- `boxes.hpp:62-65`: a POOL "binds every face" of its box, a simulated one included;
  `preflight.cpp:765` leaves a face whose row says Simulated as it is.

Readings
- `main.cpp:1482` and `session.hpp:877`: a killed run "leaves the readings it had
  already taken", "on disk already". Rows stay in the stream's buffer (about eight
  kilobytes) until it runs over or `closeReadingStream` flushes; the test of it uses
  a string stream. `LoseBuffer` models what is left. A payload or trace row cut at its
  value parses as an empty one.
- `session.cpp:190`: rows of hooks the replayed selection does not reach are kept, so
  a replayed test or hook that reads the same point is given another group's reading;
  `OwnReadings` carries that exception (`LentToOthers`).
- `recording.hpp:89-97`: readings of teardown hooks after a script has thrown are
  recorded as the thrown test's, since its journal entry is still open.
- `recording.cpp:322`: a run killed while writing a sidecar payload leaves a short
  file that later runs report as a hash collision.

Logs
- `journal.hpp:436-438` against `main.cpp:968`: after a throw the run's teardown is
  journalled inside the group that threw.
- A machine log that cannot be written at the run's end terminates the process, and
  the page gets no end of run. One that cannot be opened leaves the file of a failed
  run.
- The human log carries Read, Await and Fetch too, where its documents speak of
  Measure and Verify.

The console and the page
- `run_session.cpp:126`: `kill()` returns false although it killed the run, if
  another page's start has set `mActive` again before it wakes (`run_session.hpp:80`).
- `webui/src/main.cpp:257-267`: `/api/log` asks `active()` and then `lines()` in two
  critical sections and may serve a run that has just begun.
- `child_stream.cpp:542`: the run's stdin end is marked close-on-exec after the
  fork; another child may inherit it in between.
- `webui/src/main.cpp:192-193`: a run forked while a `/safe` has its pipes open holds
  that `/safe`'s answer until it ends.
- `run_session.hpp:25-29`, `run_session.cpp:147`: a page that wakes in the next run
  misses its first lines. `webui/README.md:23`: events come "from wherever this
  connection joined"; the code sends from line 0.
- An emergency pressed while a start is on its way kills nothing and safes an idle
  rig, and the run starts after it. One that comes between a run's `runEnd` and its
  reaping is answered with "run killed ... This run wrote no logs" although it did
  (`model/run.js:84`); `RunPage` has a run's last line and its end in one step. `/safe` answers "ok" when a `--safe` merely
  started. A repeat count past 64 bits passes the page and is refused by the runner.
- "STOPPED" with none failed is also shown when a script threw after Stop; the answer
  to a late Stop may touch a newer run's record; a dropped stream is taken for the end.

The launcher
- `webui/README.md:121-126`: a closed, crashed or killed server ends the run like any
  stop. The launcher's group (`posix/platform.cpp:74-83`) sends SIGTERM, waits two
  seconds and kills; a job on Windows kills at once; and if the server died first, the
  SIGTERM is the run's second stop and kills it un-safed. `Launcher` has such runs as
  "cut".
- A `--safe` is not "running" to `/api/status`, so closing the window may cut it.
- The server listens with `SO_REUSEPORT`, so a new launcher may be answered by the
  old server while it dies; starting again within the two seconds puts a new
  console's run beside the old one that is winding down.
- A window closed before its page connected leaves launcher and server running
  unseen. A page opened and reloaded within one second of the count is taken for
  closed. A browser that a second launcher's page started outside the group stays.

## 7. Plan

What is left, most useful first.

1. The Windows half of `child_stream.cpp` against the same properties.
