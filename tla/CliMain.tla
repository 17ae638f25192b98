------------------------------- MODULE CliMain -------------------------------
(***************************************************************************)
(* One run of the fission binary (src/pkg/fission-cli/main.go): the app    *)
(* NewCliApp builds parses its global flags, runs cliHook (which rejects  *)
(* flags given several values through flagValueParser), and dispatches to *)
(* a built-in command, or to handleNoCommand: version, plugin metadata,  *)
(* help, or handleCommandNotFound, which runs an external plugin with the *)
(* global flags rebuilt in front of its arguments.                        *)
(***************************************************************************)
EXTENDS Naturals, Sequences, SequencesExt, TLC

CONSTANTS
    FlagTokens,    \* argument words that start with "-"
    ValueTokens,   \* argument words that do not
    CmdWords,      \* first words to try: commands, plugins, typos
    Installed,     \* plugins plugin.Find finds on the PATH
    Registry,      \* plugins plugin.SearchRegistries knows a URL for
    Servers,       \* values of --server ("" is the default)
    Verbosities,   \* values of --verbosity (1 is the default)
    MaxArgs,       \* bound on the words after the first
    PkgSubWords,   \* words to try after "pkg"
    PkgFlagWords,  \* flag words given to a pkg subcommand
    PkgValueWords, \* other words given to a pkg subcommand
    MaxPkgArgs     \* bound on the words after the pkg subcommand

ASSUME FlagTokens \cap ValueTokens = {}
ASSUME PkgFlagWords \cap PkgValueWords = {}

VARIABLES
    pc,         \* the next step of the run
    args,       \* ctx.Args(): the words after the global flags
    server,     \* --server
    verbosity,  \* --verbosity
    pluginFlag, \* --plugin
    versionFlag,\* --version
    exec,       \* {} or {the argument list a plugin was run with}
    pkgFlags,   \* the flags a pkg subcommand's handler finds set
    out         \* what the run did

vars == <<pc, args, server, verbosity, pluginFlag, versionFlag, exec, pkgFlags, out>>

-----------------------------------------------------------------------------
\* app.Commands: the names and aliases of the built-in commands; cmdPlugin
\* is defined outside src/ and is taken to be named "plugin".
BuiltinCommands ==
    {"function", "fn", "httptrigger", "ht", "route", "timetrigger", "tt",
     "timer", "mqtrigger", "mqt", "messagequeue", "recorder", "records",
     "replay", "environment", "env", "watch", "w", "package", "pkg", "spec",
     "specs", "support", "plugin", "canary-config"}

\* app.Flags in order; urfave/cli adds help and version, which
\* GlobalFlagNames leaves out.
GlobalFlagNames == <<"server", "verbosity", "plugin">>

IsFlag(w) == w \in FlagTokens \cup PkgFlagWords \cup {"--server", "--verbosity", "--plugin"}

\* pkgNamespaceFlag (line 84) and envNamespaceFlag (83, whose names
\* cmd.GetCliFlagName builds outside src/; taken as "envNamespace, envns").
NamespaceFlagNames ==
    [pkgNamespace |-> {"pkgNamespace", "pkgns"},
     envNamespace |-> {"envNamespace", "envns"}]

\* The names of the package flags, lines 256-263.
PkgFlagNames ==
    [name |-> {"name"}, force |-> {"force", "f"}, env |-> {"env"},
     src |-> {"sourcearchive", "src"}, deploy |-> {"deployarchive", "deploy"},
     buildcmd |-> {"buildcmd"}, output |-> {"output", "o"},
     orphan |-> {"orphan"}] @@ NamespaceFlagNames

\* The cli.BoolFlags among them (lines 257 and 263).
PkgBoolFlags == {"force", "orphan"}

\* pkgSubCommands, lines 264-272: the flags each subcommand defines.
PkgSubCommands ==
    [create    |-> {"pkgNamespace", "env", "envNamespace", "src", "deploy", "buildcmd"},
     update    |-> {"name", "pkgNamespace", "env", "envNamespace", "src",
                    "deploy", "buildcmd", "force"},
     rebuild   |-> {"name", "pkgNamespace"},
     getsrc    |-> {"name", "pkgNamespace", "output"},
     getdeploy |-> {"name", "pkgNamespace", "output"},
     info      |-> {"name", "pkgNamespace"},
     list      |-> {"orphan", "pkgNamespace"},
     delete    |-> {"name", "pkgNamespace", "force", "orphan"}]

\* Go's flag package accepts a name after one dash or two.
FlagWords(f) == {d \o n : d \in {"-", "--"}, n \in PkgFlagNames[f]}

Defines(fs, w) == \E f \in fs : w \in FlagWords(f)

FlagOf(w) == CHOOSE f \in DOMAIN PkgFlagNames : w \in FlagWords(f)

\* urfave/cli v1 Command.Run (not in src/) reorders the arguments before
\* parsing them: up to 1.21 every flag word moves to the front together
\* with the next word when that is not a flag word; from 1.22 only the
\* words of the command's own flags fs move.  The version the binary is
\* built with is not fixed in src/, so both are possible.
ReorderStep(fs, newer, acc, w) ==
        CASE acc.val /\ ~IsFlag(w) ->
                 [acc EXCEPT !.front = Append(@, w), !.val = FALSE]
          [] (IF newer THEN Defines(fs, w) ELSE IsFlag(w)) ->
                 [acc EXCEPT !.front = Append(@, w), !.val = TRUE]
          [] OTHER ->
                 [acc EXCEPT !.back = Append(@, w), !.val = acc.val /\ newer]

Reorder(a, fs, newer) ==
    LET r == FoldLeft(LAMBDA acc, w : ReorderStep(fs, newer, acc, w),
                      [front |-> <<>>, back |-> <<>>, val |-> FALSE], a)
    IN r.front \o r.back

\* flag.FlagSet.Parse (Go library): a flag word not defined is an error,
\* a bool flag takes no value, any other flag takes the next word; the
\* first word that is not a flag word ends the flags.
RECURSIVE GoParse(_, _, _)
GoParse(a, fs, set) ==
    CASE a = <<>> \/ ~IsFlag(Head(a)) -> [err |-> FALSE, set |-> set]
      [] ~Defines(fs, Head(a))        -> [err |-> TRUE, set |-> set]
      [] FlagOf(Head(a)) \in PkgBoolFlags ->
             GoParse(Tail(a), fs, set \cup {FlagOf(Head(a))})
      [] Len(a) = 1                   -> [err |-> TRUE, set |-> set]
      [] OTHER -> GoParse(Tail(Tail(a)), fs, set \cup {FlagOf(Head(a))})

\* Variant: the end of the arguments not appended.
FlagIndexesNoEnd(a) ==
    SelectSeq([i \in 1..Len(a) |-> i], LAMBDA i : IsFlag(a[i]))

\* flagValueParser, lines 419-428: the indexes of the flags, then the end.
FlagIndexes(a) ==
    Append(SelectSeq([i \in 1..Len(a) |-> i], LAMBDA i : IsFlag(a[i])),
           Len(a) + 1)

\* Lines 430-442: a flag more than two places before the next flag, or
\* the end, has been given extra arguments.
RECURSIVE ErrorFlags(_, _)
ErrorFlags(a, ix) ==
    IF Len(ix) < 2 THEN <<>>
    ELSE (IF ix[2] - ix[1] > 2 THEN <<a[ix[1]]>> ELSE <<>>)
         \o ErrorFlags(a, Tail(ix))

\* Lines 410-450: the flags named in the error; none means no error.
flagValueParser(a) ==
    IF Len(a) = 0 THEN <<>> ELSE ErrorFlags(a, FlagIndexes(a))

\* handleCommandNotFound, lines 381-392: "--name value" for every global
\* flag but plugin whose value prints as a non-empty string.
GlobalValue(n) ==
    CASE n = "server"    -> server
      [] n = "verbosity" -> ToString(verbosity)
      [] n = "plugin"    -> IF pluginFlag THEN "true" ELSE "false"

\* Variant: plugin not skipped.
GlobalArgsWithPlugin ==
    FoldLeft(LAMBDA acc, n :
                 IF GlobalValue(n) = "" THEN acc
                 ELSE acc \o <<"--" \o n, GlobalValue(n)>>,
             <<>>, GlobalFlagNames)

GlobalArgs ==
    FoldLeft(LAMBDA acc, n :
                 IF n = "plugin" \/ GlobalValue(n) = "" THEN acc
                 ELSE acc \o <<"--" \o n, GlobalValue(n)>>,
             <<>>, GlobalFlagNames)

-----------------------------------------------------------------------------
Init ==
    /\ pc = "Start"
    /\ args \in {<<>>} \cup {<<c>> \o r : c \in CmdWords,
                                       r \in BoundedSeq(FlagTokens \cup ValueTokens, MaxArgs)}
                    \cup {<<"pkg", s>> \o r : s \in PkgSubWords,
                                       r \in BoundedSeq(PkgFlagWords \cup PkgValueWords, MaxPkgArgs)}
    /\ server \in Servers
    /\ verbosity \in Verbosities
    /\ pluginFlag \in BOOLEAN
    /\ versionFlag \in BOOLEAN
    /\ exec = {}
    /\ pkgFlags = {}
    /\ out = "none"

Finish(o, code) ==
    /\ out' = o
    /\ pc' = IF code = 0 THEN "Done" ELSE "Fatal"

\* urfave/cli App.Run (not in src/): --version is answered by the
\* VersionPrinter before app.Before runs.
Start ==
    /\ pc = "Start"
    /\ pc' = IF versionFlag THEN "Version" ELSE "Hook"
    /\ UNCHANGED <<args, server, verbosity, pluginFlag, versionFlag, exec, pkgFlags, out>>

\* cliHook, lines 42-54: log.Fatal when flagValueParser reports a flag.
Hook ==
    /\ pc = "Hook"
    /\ IF flagValueParser(args) = <<>>
       THEN pc' = "Route" /\ UNCHANGED out
       ELSE Finish("badflags", 1)
    /\ UNCHANGED <<args, server, verbosity, pluginFlag, versionFlag, exec, pkgFlags>>

\* App.Run after app.Before (lines 313-332): a first word naming a command
\* runs it; anything else goes to app.Action, handleNoCommand.
Route ==
    /\ pc = "Route"
    /\ CASE Len(args) > 0 /\ args[1] \in {"package", "pkg"} ->
              pc' = "PkgRoute" /\ UNCHANGED out
         [] Len(args) > 0 /\ args[1] \in BuiltinCommands -> Finish("command", 0)
         [] OTHER -> pc' = "NoCommand" /\ UNCHANGED out
    /\ UNCHANGED <<args, server, verbosity, pluginFlag, versionFlag, exec, pkgFlags>>

\* The package command (line 323) runs a sub-app over pkgSubCommands
\* (urfave/cli App.RunAsSubcommand, not in src/): it parses its own flags,
\* of which it has none, then runs the subcommand its first word names;
\* with no word it prints its help, with an unknown one it exits with
\* "No help topic".
PkgRoute ==
    /\ pc = "PkgRoute"
    /\ CASE Len(args) = 1                     -> Finish("help", 0)
         [] IsFlag(args[2])                   -> Finish("badflags", 1)
         [] args[2] \in DOMAIN PkgSubCommands -> pc' = "PkgParse" /\ UNCHANGED out
         [] OTHER                             -> Finish("nohelp", 1)
    /\ UNCHANGED <<args, server, verbosity, pluginFlag, versionFlag, exec, pkgFlags>>

\* Command.Run of a pkg subcommand: its words after the name are reordered
\* and parsed against the flags it defines; an error ends the run, else
\* the handler (pkgCreate, pkgUpdate, ...) runs with the flags set.
PkgParse ==
    LET fs == PkgSubCommands[args[2]]
        a  == SubSeq(args, 3, Len(args))
    IN /\ pc = "PkgParse"
       /\ \E newer \in BOOLEAN :
             LET p == GoParse(Reorder(a, fs, newer), fs, {}) IN
             IF p.err THEN Finish("badflags", 1) /\ UNCHANGED pkgFlags
                      ELSE Finish("pkgcmd", 0) /\ pkgFlags' = p.set
       /\ UNCHANGED <<args, server, verbosity, pluginFlag, versionFlag, exec>>

\* handleNoCommand, lines 335-357.
NoCommand ==
    /\ pc = "NoCommand"
    /\ CASE versionFlag    -> pc' = "Version" /\ UNCHANGED out
         [] pluginFlag     -> Finish("metadata", 0)
         [] Len(args) > 0  -> pc' = "NotFound" /\ UNCHANGED out
         [] OTHER          -> Finish("help", 0)
    /\ UNCHANGED <<args, server, verbosity, pluginFlag, versionFlag, exec, pkgFlags>>

\* handleCommandNotFound, lines 360-379: plugin.Find fails with
\* ErrPluginNotFound (then the registries are searched) or another error.
NotFound ==
    /\ pc = "NotFound"
    /\ \/ args[1] \in Installed /\ pc' = "Exec" /\ UNCHANGED out
       \/ args[1] \in Installed /\ Finish("finderror", 1)
       \/ /\ args[1] \notin Installed
          /\ Finish(IF args[1] \in Registry THEN "installhint" ELSE "nohelp", 1)
    /\ UNCHANGED <<args, server, verbosity, pluginFlag, versionFlag, exec, pkgFlags>>

\* Variant: the plugin's own name passed on too.
ExecWholeArgs ==
    /\ pc = "Exec"
    /\ exec' = {GlobalArgs \o args}
    /\ \E code \in {0, 1} : Finish("plugin", code)
    /\ UNCHANGED <<args, server, verbosity, pluginFlag, versionFlag, pkgFlags>>

\* Lines 381-398: plugin.Exec with the rebuilt global flags and the rest
\* of the arguments; a failing plugin makes the CLI exit 1.
Exec ==
    /\ pc = "Exec"
    /\ exec' = {GlobalArgs \o Tail(args)}
    /\ \E code \in {0, 1} : Finish("plugin", code)
    /\ UNCHANGED <<args, server, verbosity, pluginFlag, versionFlag, pkgFlags>>

\* versionPrinter, lines 400-408.
Version ==
    /\ pc = "Version"
    /\ Finish("version", 0)
    /\ UNCHANGED <<args, server, verbosity, pluginFlag, versionFlag, exec, pkgFlags>>

Terminated ==
    /\ pc \in {"Done", "Fatal"}
    /\ UNCHANGED vars

Next ==
    \/ Start \/ Hook \/ Route \/ PkgRoute \/ PkgParse \/ NoCommand \/ NotFound \/ Exec \/ Version
    \/ Terminated

Spec == Init /\ [][Next]_vars

-----------------------------------------------------------------------------
Outcomes == {"none", "badflags", "command", "pkgcmd", "metadata", "finderror",
             "installhint", "nohelp", "plugin", "version", "help"}

\* The words a plugin can be given: global flags and their values, and the
\* words after the plugin's name.
ExecWords == {"--server", "--verbosity"} \cup Servers
             \cup {ToString(v) : v \in Verbosities} \cup FlagTokens \cup ValueTokens

TypeOK ==
    /\ pc \in {"Start", "Hook", "Route", "PkgRoute", "PkgParse", "NoCommand", "NotFound", "Exec",
               "Version", "Done", "Fatal"}
    /\ args \in Seq(CmdWords \cup FlagTokens \cup ValueTokens \cup {"pkg"}
                     \cup PkgSubWords \cup PkgFlagWords \cup PkgValueWords)
    /\ pkgFlags \subseteq DOMAIN PkgFlagNames
    /\ server \in Servers /\ verbosity \in Verbosities
    /\ pluginFlag \in BOOLEAN /\ versionFlag \in BOOLEAN
    /\ exec \subseteq Seq(ExecWords)
    /\ out \in Outcomes

\* The reference of flagValueParser, from its comment and its message
\* ("The argument should have only one input value"): the flags that are
\* followed by two or more non-flag words, in the order they appear.
RefErrorPositions(a) ==
    {i \in DOMAIN a : /\ IsFlag(a[i]) /\ i + 2 <= Len(a)
                      /\ ~IsFlag(a[i + 1]) /\ ~IsFlag(a[i + 2])}

RefErrorFlags(a) ==
    LET pos == SetToSortSeq(RefErrorPositions(a), <) IN
    [k \in DOMAIN pos |-> a[pos[k]]]

\* cliHook rejects exactly the arguments the reference rejects, naming the
\* same flags in the same order: the gap scan over flag indexes with the
\* end appended (main.go 419-442) is the "more than one value" rule.
FlagParserMatchesReference ==
    pc = "Hook" => flagValueParser(args) = RefErrorFlags(args)

\* How a plugin that takes fission's global flags parses its arguments:
\* "--server v" and "--verbosity v" take a value, "--plugin" is a bool;
\* parsing stops at the first other word.
RECURSIVE PluginParse(_, _)
PluginParse(a, g) ==
    IF a # <<>> /\ Head(a) \in {"--server", "--verbosity"} /\ Len(a) >= 2
    THEN PluginParse(Tail(Tail(a)),
                     IF Head(a) = "--server" THEN [g EXCEPT !.server = a[2]]
                                             ELSE [g EXCEPT !.verbosity = a[2]])
    ELSE IF a # <<>> /\ Head(a) = "--plugin"
    THEN PluginParse(Tail(a), [g EXCEPT !.plugin = TRUE])
    ELSE [g EXCEPT !.rest = a]

PluginDefaults == [server |-> "", verbosity |-> "1", plugin |-> FALSE, rest |-> <<>>]

\* A plugin run by handleCommandNotFound sees the user's global settings
\* and exactly the arguments after its name, and is not put in metadata
\* mode: the rebuilt global flags (lines 381-392) round-trip.
PluginSeesSameGlobals ==
    \A e \in exec :
        PluginParse(e, PluginDefaults)
            = [server |-> server, verbosity |-> ToString(verbosity),
               plugin |-> FALSE, rest |-> Tail(args)]

\* A run whose first word names an installed plugin runs that plugin with
\* the rest of its arguments (handleCommandNotFound's purpose), unless
\* plugin.Find itself fails or --plugin / --version was given.
PluginGetsItsArgs ==
    (/\ pc \in {"Done", "Fatal"}
     /\ Len(args) > 0 /\ args[1] \in Installed \ BuiltinCommands
     /\ ~pluginFlag /\ ~versionFlag)
        => exec # {} \/ out = "finderror"
\* The words after a pkg subcommand's name.
PkgArgs == SubSeq(args, 3, Len(args))

\* Every flag word that takes a value is followed by a word that is not a
\* flag word.
ValuesGiven(a) ==
    \A i \in 1..Len(a) :
        a[i] \in PkgFlagWords /\ FlagOf(a[i]) \notin PkgBoolFlags =>
            i < Len(a) /\ ~IsFlag(a[i + 1])

\* flagValueParser is there so that "all input value for flags are
\* properly set" (lines 411, 431-437): a pkg subcommand call that gives
\* each of its value flags a value, and that cliHook lets through, runs
\* its handler with every flag the user typed set.
PkgFlagsAllSet ==
    out = "pkgcmd" /\ ValuesGiven(PkgArgs) =>
        {FlagOf(w) : w \in {PkgArgs[i] : i \in DOMAIN PkgArgs} \cap PkgFlagWords}
            \subseteq pkgFlags
====
