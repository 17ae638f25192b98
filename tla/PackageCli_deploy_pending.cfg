CONSTANTS
    c1 = c1  c2 = c2  p1 = p1  p2 = p2  p3 = p3  f1 = f1  f2 = f2
    e1 = e1  e2 = e2  b1 = b1  ns1 = ns1  ns2 = ns2
    Absent = Absent  NoVal = NoVal
    Procs <- MCProcs
    Pkgs <- MCOnePkg
    Fns <- MCFns
    Envs <- MCEnvs
    EnvNamespaces <- MCEnvNamespaces
    DefaultNs = ns1
    Cmds <- MCCmds
    InitPkgs <- MCInitOnePkg
    InitFnPkg <- MCInitFnPkg
    UpdateArgs <- MCUpdateArgs
    CreateArgs <- MCCreateArgs
    Commands <- MCUpdateCommands
    MaxRev = 5
    ExternalFnOps = FALSE

SPECIFICATION Spec
CONSTRAINT RevBound
PROPERTY DeployUpdateNotPending
