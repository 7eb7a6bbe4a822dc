----------------------------- MODULE CommandLine -----------------------------
(***************************************************************************)
(* The command line between the console and a run.  The flags of           *)
(* run_scripts are declared once, as the annotated members of its Options; *)
(* what parses an argument and what describes the flags to another program *)
(* are both generated from that declaration (cli.hpp).  The console does   *)
(* not include it: it writes flags and values, and what matters is that    *)
(* the run reads what the console meant.                                   *)
(*                                                                         *)
(* A value is a token, a number, or (of a list) the sequence of what stands*)
(* between its commas; None is the empty text.                             *)
(***************************************************************************)
EXTENDS Ordered, SequencesExt

CONSTANTS
  Variants, \* the criteria variants the binary was built with
  None      \* no value

----------------------------------------------------------------------------
(* The declaration.                                                        *)

Member(spellings, kind, traits) == [spellings |-> spellings, kind |-> kind, traits |-> traits]
Switch(flag, traits) == Member({flag}, "switch", traits)
Field(flag) == Member({flag}, "text", {})

Vocabulary ==
  [Selection |-> Member({"--select"}, "list", {}),
   ListOnly |-> Switch("--list-tests", {"query"}), SafeOnly |-> Switch("--safe", {}),
   ShowHelp |-> Switch("--help", {"query"}), DescribeOptions |-> Switch("--describe-options", {"query"}),
   DescribeCriteria |-> Switch("--describe-criteria", {"query"}),
   CriteriaVariant |-> Field("--criteria"), Repeat |-> Member({"--repeat"}, "number", {"positive"}),
   UntilFailure |-> Switch("--until-failure", {}), StopOnStdin |-> Switch("--stop-on-stdin", {}),
   RecordPath |-> Field("--record"), ReplayPath |-> Field("--replay"),
   SkeletonPath |-> Field("--skeleton"), InjectPath |-> Field("--inject"),
   LogDir |-> Field("--log-dir"), SarifPath |-> Field("--sarif"), RtfPath |-> Field("--rtf"),
   WriteLogs |-> Switch("--no-logs", {"clears"}), EventsPath |-> Field("--events"),
   Colour |-> Member({"--no-color", "--no-colour"}, "switch", {"clears"}), Quiet |-> Switch("--quiet", {}),
   DutSerial |-> Field("--dut-serial"), OperatorName |-> Field("--operator"),
   Addresses |-> Member({"--address"}, "list", {"repeatable"}), Site |-> Field("--site")]

Members == DOMAIN Vocabulary
Has(m, trait) == trait \in Vocabulary[m].traits
IsSwitch(m) == Vocabulary[m].kind = "switch"

\* What every instantiation of the parser is asserted to be.
VocabularyIsSane ==
  \A m \in Members :
    /\ Has(m, "clears") \/ Has(m, "query") => IsSwitch(m)
    /\ Has(m, "positive") => ~IsSwitch(m)

\* A spelling names one member: the parser takes the first that matches.
SpellingsAreUnique ==
  \A m, n \in Members : m # n => Vocabulary[m].spellings \cap Vocabulary[n].spellings = {}

ASSUME VocabularyHolds == VocabularyIsSane /\ SpellingsAreUnique

\* What the flags are to another program: a form offers all but the questions.
OptionsModel == {Vocabulary[m] : m \in Members}
Offered == {o \in OptionsModel : "query" \notin o.traits}

----------------------------------------------------------------------------
(* cli::parse.                                                             *)

\* An argument as it is written: a flag alone, or a flag, "=" and a value.
Bare(flag) == [flag |-> flag, bare |-> TRUE, value |-> None]
With(flag, value) == [flag |-> flag, bare |-> FALSE, value |-> value]

\* Options as its member initialisers leave it.
DefaultOf(m) ==
  CASE IsSwitch(m) -> Has(m, "clears")
    [] Vocabulary[m].kind = "list" -> <<>>
    [] OTHER -> None
Defaults == [m \in Members |-> DefaultOf(m)]

\* A switch matches whole; what takes a value, by its name and the "=".
Matches(m, arg) == arg.flag \in Vocabulary[m].spellings /\ (IsSwitch(m) <=> arg.bare)

SplitCommaList(value) == Picked(value, ToSet(value) \ {None})

\* A whole number of 64 bits, and not zero where that means nothing.
NumberIsGood(m, value) == value \in Nat /\ (Has(m, "positive") => value > 0)

\* An argument that a member takes; any other ends the parsing.
Understood(arg) ==
  \E m \in Members : Matches(m, arg) /\ (Vocabulary[m].kind = "number" => NumberIsGood(m, arg.value))

\* What the arguments that match a member give it, in their order.
GivenTo(m, argv) ==
  At([i \in DOMAIN argv |-> argv[i].value], {i \in DOMAIN argv : Matches(m, argv[i])})

\* Each assigns, so that the last one counts, but for the repeatable.
Read(m, values) ==
  CASE IsSwitch(m) -> ~Has(m, "clears")
    [] Has(m, "repeatable") -> values
    [] Vocabulary[m].kind = "list" /\ ~Has(m, "repeatable") -> SplitCommaList(Last(values))
    [] Vocabulary[m].kind \in {"text", "number"} -> Last(values)

\* std::nullopt: a command line refused.
Refused == <<>>

Parse(argv) ==
  IF \E i \in DOMAIN argv : ~Understood(argv[i]) THEN Refused
  ELSE [m \in Members |-> LET values == GivenTo(m, argv) IN IF values = <<>> THEN DefaultOf(m) ELSE Read(m, values)]

----------------------------------------------------------------------------
(* parseOptions: what spans two flags, or only another component knows.    *)

Given(options, members) == \E m \in members : options[m] # None

Contradicts(options) ==
  \/ Given(options, {"RecordPath"}) /\ Given(options, {"ReplayPath"})
  \/ Given(options, {"SkeletonPath"}) /\ Given(options, {"RecordPath", "ReplayPath"})
  \/ Given(options, {"InjectPath"}) /\ Given(options, {"RecordPath", "SkeletonPath"})
  \/ options.EventsPath = "-" /\ ~options.Quiet

ParseOptions(argv) ==
  LET options == Parse(argv) IN
  IF options = Refused \/ Contradicts(options) \/ options.CriteriaVariant \notin Variants \cup {None}
  THEN Refused ELSE options

\* isSelected, over the catalog: its order, and everything when none is named.
Selected(options, catalog) ==
  IF options.Selection = <<>> THEN catalog
  ELSE Picked(catalog, ToSet(options.Selection))

----------------------------------------------------------------------------
(* buildRunCommand.                                                        *)

Setting(flag, value) == [flag |-> flag, value |-> value]

StreamFlags == <<Bare("--quiet"), Bare("--no-color"), With("--events", "-"), Bare("--stop-on-stdin")>>

\* A setting with no value is its flag.
Argument(setting) == IF setting.value = None THEN Bare(setting.flag) ELSE With(setting.flag, setting.value)

BuildRunCommand(selection, settings) ==
  StreamFlags
    \o (IF selection = <<>> THEN <<>> ELSE <<With("--select", selection)>>)
    \o [i \in DOMAIN settings |-> Argument(settings[i])]

BuildSafeCommand == <<Bare("--safe")>>

=============================================================================
