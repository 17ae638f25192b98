---------------------------- MODULE MC_PackageCli ----------------------------
(* Instantiation of PackageCli for TLC: two concurrent invocations, three  *)
(* package names (one free for create), two functions sharing p1.          *)
EXTENDS PackageCli, TLC

CONSTANTS c1, c2, p1, p2, p3, f1, f2, e1, e2, b1, ns1, ns2

MCProcs == {c1, c2}
MCOneProc == {c1}
MCPkgs == {p1, p2, p3}
\* The update/rebuild runs need only the shared package p1.
MCOnePkg == {p1}
MCFns == {f1, f2}
MCEnvs == {e1, e2}
\* ns1 is the default namespace.
MCEnvNamespaces == {ns1, ns2}
MCCmds == {b1}

\* p1 has a source archive whose build failed; p2 was created from a
\* deployment archive and nothing references it; p3 is a free name.
MCInitPkgs ==
    [p \in MCPkgs |->
        CASE p = p1 -> [rv |-> 1, env |-> e1, envNs |-> ns1, cmd |-> NoVal, src |-> "init",
                        deploy |-> NoVal, status |-> "failed"]
          [] p = p2 -> [rv |-> 1, env |-> e1, envNs |-> ns1, cmd |-> NoVal, src |-> NoVal,
                        deploy |-> "init", status |-> "succeeded"]
          [] OTHER  -> Absent]

MCInitFnPkg == [f \in MCFns |-> p1]

\* Only f1 exists; another client may create f2.
MCInitFnPkgOne == [f \in MCFns |-> IF f = f1 THEN p1 ELSE Absent]

MCInitOnePkg == [p \in MCOnePkg |-> MCInitPkgs[p]]

\* p1 with its environment in the other namespace.
MCInitOtherNs == [p \in MCOnePkg |-> [MCInitPkgs[p] EXCEPT !.envNs = ns2]]

\* No set below gives --envNamespace.
Flags(env, cmd, src, deploy, force) ==
    [env |-> env, envNs |-> NoVal, cmd |-> cmd, src |-> src, deploy |-> deploy, force |-> force]

\* --env e2 (refused while p1 is shared); --env e1 -f (the current env);
\* --src -f; --deploy -f; --src --deploy (refused).
MCUpdateArgs ==
    { Flags(e2, NoVal, FALSE, FALSE, FALSE),
      Flags(e1, NoVal, FALSE, FALSE, TRUE),
      Flags(NoVal, NoVal, TRUE, FALSE, TRUE),
      Flags(NoVal, NoVal, FALSE, TRUE, TRUE),
      Flags(NoVal, NoVal, TRUE, TRUE, TRUE) }

\* --buildcmd -f, the one flag MCUpdateArgs leaves out.
MCCmdArgs == { Flags(NoVal, b1, FALSE, FALSE, TRUE) }

\* --env e1 --src; --env e1 --deploy; --deploy without --env (refused).
MCCreateArgs ==
    { Flags(e1, NoVal, TRUE, FALSE, FALSE),
      Flags(e1, NoVal, FALSE, TRUE, FALSE),
      Flags(NoVal, NoVal, FALSE, TRUE, FALSE) }

MCUpdateCommands == {"update", "rebuild"}
MCDeleteCommands == {"delete", "orphans", "create"}

MCSymmetry == Permutations(MCProcs)
====
