------------------------------ MODULE MC_CliMain ------------------------------
(* Small argument vocabularies for CliMain.                                 *)
EXTENDS CliMain

\* A multi-value flag, a bool flag, a negative number, two values.
MCFlagTokens == {"--src", "-1"}
MCValueTokens == {"a.js", "b.js"}
\* A built-in command, an installed plugin, one in the registry, a typo.
MCCmdWords == {"pkg", "myplug", "dlplug", "pgk"}
MCInstalled == {"myplug"}
MCRegistry == {"dlplug"}
MCServers == {"", "http://ctl"}
MCVerbosities == {1, 2}
\* A subcommand that defines every pkg flag word below, one that defines
\* none of the bool ones, and a typo.
MCPkgSubWords == {"delete", "getsrc", "dlete"}
\* pkg delete defines all the flag words below, so both argument orders
\* of urfave/cli parse them alike.
MCPkgDelete == {"delete"}
\* A bool flag, its one-dash alias, a flag that takes a value.
MCPkgFlagWords == {"--orphan", "-f", "--pkgns"}
\* A bool flag and a flag that takes a value.
MCPkgBoolAndValue == {"--orphan", "--pkgns"}
\* A namespace, and the value users give a bool flag.
MCPkgValueWords == {"ns", "true"}
====
