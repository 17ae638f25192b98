------------------------------ MODULE PackageCli ------------------------------
(***************************************************************************)
(* The package commands of the fission CLI (src/unnamed/part_000, the      *)
(* file that defines pkgCreate, pkgUpdate, pkgRebuild, pkgDelete,          *)
(* deleteOrphanPkgs, updatePackage and createPackage) run as concurrent    *)
(* invocations against the controller's store of Package and Function     *)
(* records in one namespace.  Every handler is a sequence of remote calls  *)
(* (get, list, update, delete); the only protection against a concurrent  *)
(* writer is the store's resourceVersion check on update.  Besides the    *)
(* CLI, the build service moves a package through its build states and    *)
(* other clients create and delete functions; both are modelled from the  *)
(* spec (they are not in src/).                                            *)
(***************************************************************************)
EXTENDS Naturals, FiniteSets

CONSTANTS
    Procs,          \* concurrent CLI invocations, one command each
    Pkgs,           \* package names of the namespace (create picks a free one)
    Fns,            \* function names of the namespace
    Envs,           \* environment names
    EnvNamespaces,  \* environment namespaces
    DefaultNs,      \* metav1.NamespaceDefault
    Cmds,           \* build commands
    Absent,         \* the store holds no record under this name
    NoVal,          \* an empty flag value, an unset spec field
    MaxRev,         \* bound on the store's resourceVersion counter
    InitPkgs,       \* the package records in the store initially
    InitFnPkg,      \* the package each initial function references
    UpdateArgs,     \* flag sets `fission pkg update` is run with
    CreateArgs,     \* flag sets `fission pkg create` is run with
    Commands,       \* the package commands the invocations may run
    ExternalFnOps   \* whether other clients create/delete functions

Statuses == {"none", "pending", "running", "succeeded", "failed"}

\* An archive built by a CLI invocation is named after that invocation;
\* "init" is the archive of the initial packages, "built" the one the
\* build service produces.
Archives == Procs \cup {"init", "built"}

Revs == Nat \ {0}

PkgRec == [rv: Revs, env: Envs, envNs: EnvNamespaces, cmd: Cmds \cup {NoVal},
           src: Archives \cup {NoVal}, deploy: Archives \cup {NoVal},
           status: Statuses]

FnRec == [rv: Revs, pkg: Pkgs, ref: Revs]

ASSUME InitPkgs \in [Pkgs -> PkgRec \cup {Absent}]
ASSUME InitFnPkg \in [Fns -> Pkgs \cup {Absent}]
ASSUME ExternalFnOps \in BOOLEAN /\ DefaultNs \in EnvNamespaces
ASSUME Commands \subseteq {"update", "rebuild", "delete", "orphans", "create"}

VARIABLES
    rev,     \* the store's resourceVersion counter (the etcd revision)
    pkgs,    \* pkgs[p]: the Package record named p, or Absent
    fns,     \* fns[f]: the Function record named f, or Absent
    pc,      \* pc[c]: the next step of invocation c
    op,      \* op[c]: the command invocation c runs
    target,  \* target[c]: the package c works on (the one the sweep deletes)
    args,    \* args[c]: its flags
    snap,    \* snap[c]: the package record c read with PackageGet
    fnSnap,  \* fnSnap[c]: the functions c listed, as it read them
    newRv,   \* newRv[c]: resourceVersion returned by c's PackageUpdate
    todo,    \* todo[c]: functions still to update / packages still to visit
    listed   \* listed[c]: the packages c's orphan sweep listed (history only)

vars == <<rev, pkgs, fns, pc, op, target, args, snap, fnSnap, newRv, todo, listed>>

-----------------------------------------------------------------------------
(* Store operations (the controller API; modelled from the spec).          *)

\* Variant: the store accepts any write of an existing record.
PkgRvIgnored(p, s) == pkgs[p] # Absent

\* PackageUpdate succeeds only when the record still carries the
\* resourceVersion of the copy being written back.
PkgRvMatches(p, s) == pkgs[p] # Absent /\ pkgs[p].rv = s.rv

\* FunctionUpdate, likewise for a function.
FnRvMatches(f, s) == fns[f] # Absent /\ fns[f].rv = s.rv

\* A write stores the record with the next resourceVersion.
Stamp(r) == [r EXCEPT !.rv = rev + 1]

-----------------------------------------------------------------------------
(* Helpers translated from the CLI source.                                 *)

\* Variant: the filter on the package name is missing.
ReferencingAnyFn(p) == {f \in Fns : fns[f] # Absent}

\* getFunctionsByPackage: list the namespace, keep those naming p.
Referencing(p) == {f \in Fns : fns[f] # Absent /\ fns[f].pkg = p}

\* c.String("envNamespace"): the flag's value, or its default when the
\* user did not give it (envNamespaceFlag, main.go 83).
FlagEnvNs(a) == IF a.envNs = NoVal THEN DefaultNs ELSE a.envNs

\* pkgUpdate empties an --env or an env namespace equal to the current one
\* before updating.
NormalizeEnv(a, r) ==
    [a EXCEPT !.env   = IF @ # NoVal /\ @ = r.env THEN NoVal ELSE @,
              !.envNs = IF FlagEnvNs(a) = r.envNs THEN NoVal ELSE FlagEnvNs(a)]

\* updatePackage: a deploy archive cancels any rebuild the other flags owe.
NeedToBuild(a) ==
    (a.env # NoVal \/ a.envNs # NoVal \/ a.cmd # NoVal \/ a.src) /\ ~a.deploy

\* Variant: the env is written without the len(envName) > 0 check.
UpdatePackageEnvAlways(r, a, forceRebuild, ar) ==
    [r EXCEPT !.env    = a.env,
              !.envNs  = IF a.envNs # NoVal THEN a.envNs ELSE @,
              !.cmd    = IF a.cmd # NoVal THEN a.cmd ELSE @,
              !.src    = IF a.src THEN ar ELSE @,
              !.deploy = IF a.deploy THEN ar ELSE @,
              !.status = IF NeedToBuild(a) \/ forceRebuild
                         THEN "pending" ELSE @]

\* updatePackage: the spec fields the flags set, and Pending when a build
\* is owed or forced; every other field is written back as read.
UpdatePackage(r, a, forceRebuild, ar) ==
    [r EXCEPT !.env    = IF a.env # NoVal THEN a.env ELSE @,
              !.envNs  = IF a.envNs # NoVal THEN a.envNs ELSE @,
              !.cmd    = IF a.cmd # NoVal THEN a.cmd ELSE @,
              !.src    = IF a.src THEN ar ELSE @,
              !.deploy = IF a.deploy THEN ar ELSE @,
              !.status = IF NeedToBuild(a) \/ forceRebuild
                         THEN "pending" ELSE @]

\* The flags pkgRebuild passes to updatePackage.
NoFlags == [env |-> NoVal, envNs |-> NoVal, cmd |-> NoVal, src |-> FALSE, deploy |-> FALSE,
            force |-> FALSE]

\* pkgRebuild's precondition on the status it read.
RebuildAllowed(s) == s.status = "failed"

\* pkgUpdate's flag checks, before any remote call.
ValidUpdateArgs(a) == /\ ~(a.src /\ a.deploy)
                      /\ a.src \/ a.deploy \/ a.env # NoVal \/ a.cmd # NoVal

\* pkgCreate's flag checks.
ValidCreateArgs(a) == a.env # NoVal /\ (a.src \/ a.deploy)

\* createPackage: Succeeded unless a source archive is given.
CreateStatus(a) == IF a.src THEN "pending" ELSE "succeeded"

\* The steps that are remote calls; each may fail in transport.
RemoteSteps == {"UGet", "UList", "UWrite", "UFanOut", "RGet", "RWrite",
                "DGet", "DList", "DDelete", "OList", "OFns", "ODelete"}

Fatal(c) == /\ pc' = [pc EXCEPT ![c] = "Fatal"]
            /\ UNCHANGED <<rev, pkgs, fns, op, target, args, snap, fnSnap,
                           newRv, todo>>

Goto(c, l) == pc' = [pc EXCEPT ![c] = l]

-----------------------------------------------------------------------------
Init ==
    /\ rev = 1
    /\ pkgs = InitPkgs
    /\ fns = [f \in Fns |-> IF InitFnPkg[f] = Absent THEN Absent
                            ELSE [rv |-> 1, pkg |-> InitFnPkg[f], ref |-> 1]]
    /\ pc = [c \in Procs |-> "Start"]
    /\ op = [c \in Procs |-> NoVal]
    /\ target = [c \in Procs |-> NoVal]
    /\ args = [c \in Procs |-> NoVal]
    /\ snap = [c \in Procs |-> NoVal]
    /\ fnSnap = [c \in Procs |-> <<>>]
    /\ newRv = [c \in Procs |-> 0]
    /\ todo = [c \in Procs |-> {}]
    /\ listed = [c \in Procs |-> {}]

-----------------------------------------------------------------------------
(* fission pkg update: pkgUpdate and the updatePackage it calls.           *)

\* Flag checks; an invalid set of flags ends the command before any call.
StartUpdate(c) ==
    /\ pc[c] = "Start"
    /\ "update" \in Commands
    /\ \E p \in Pkgs, a \in UpdateArgs :
        /\ op' = [op EXCEPT ![c] = "update"]
        /\ target' = [target EXCEPT ![c] = p]
        /\ args' = [args EXCEPT ![c] = a]
        /\ Goto(c, IF ValidUpdateArgs(a) THEN "UGet" ELSE "Fatal")
    /\ UNCHANGED <<rev, pkgs, fns, snap, fnSnap, newRv, todo>>

\* PackageGet; the env flags are compared with the record it returns
\* (NormalizeEnv, applied where updatePackage uses them).
UGet(c) ==
    LET p == target[c] IN
    /\ pc[c] = "UGet"
    /\ \/ pkgs[p] = Absent /\ Fatal(c)
       \/ /\ pkgs[p] # Absent
          /\ snap' = [snap EXCEPT ![c] = pkgs[p]]
          /\ Goto(c, "UList")
          /\ UNCHANGED <<rev, pkgs, fns, op, target, args, fnSnap, newRv, todo>>

\* getFunctionsByPackage, then the refusal to update a package shared by
\* several functions without --force.
UList(c) ==
    LET fl == Referencing(target[c]) IN
    /\ pc[c] = "UList"
    /\ \/ ~args[c].force /\ Cardinality(fl) > 1 /\ Fatal(c)
       \/ /\ args[c].force \/ Cardinality(fl) <= 1
          /\ fnSnap' = [fnSnap EXCEPT ![c] = [f \in fl |-> fns[f]]]
          /\ Goto(c, "UWrite")
          /\ UNCHANGED <<rev, pkgs, fns, op, target, args, snap, newRv, todo>>

\* Variant: the package is read again just before it is written back.
UWriteReread(c) ==
    LET p == target[c] IN
    /\ pc[c] = "UWrite"
    /\ \/ pkgs[p] = Absent /\ Fatal(c)
       \/ /\ pkgs[p] # Absent
          /\ pkgs' = [pkgs EXCEPT ![p] =
                        Stamp(UpdatePackage(pkgs[p], NormalizeEnv(args[c], snap[c]), FALSE, c))]
          /\ rev' = rev + 1
          /\ newRv' = [newRv EXCEPT ![c] = rev + 1]
          /\ todo' = [todo EXCEPT ![c] = DOMAIN fnSnap[c]]
          /\ Goto(c, "UFanOut")
          /\ UNCHANGED <<fns, op, target, args, snap, fnSnap>>

\* updatePackage: the archive is built from the flags, the record read
\* by UGet is changed and written back with PackageUpdate, which fails on
\* a concurrent write.
UWrite(c) ==
    LET p == target[c] IN
    /\ pc[c] = "UWrite"
    /\ \/ ~PkgRvMatches(p, snap[c]) /\ Fatal(c)
       \/ /\ PkgRvMatches(p, snap[c])
          /\ pkgs' = [pkgs EXCEPT ![p] =
                        Stamp(UpdatePackage(snap[c], NormalizeEnv(args[c], snap[c]), FALSE, c))]
          /\ rev' = rev + 1
          /\ newRv' = [newRv EXCEPT ![c] = rev + 1]
          /\ todo' = [todo EXCEPT ![c] = DOMAIN fnSnap[c]]
          /\ Goto(c, "UFanOut")
          /\ UNCHANGED <<fns, op, target, args, snap, fnSnap>>

\* Variant: each function is read again just before it is written back.
UFanOutReread(c) ==
    /\ pc[c] = "UFanOut"
    /\ \E f \in todo[c] :
        \/ fns[f] = Absent /\ Fatal(c)
        \/ /\ fns[f] # Absent
           /\ fns' = [fns EXCEPT ![f] = Stamp([@ EXCEPT !.ref = newRv[c]])]
           /\ rev' = rev + 1
           /\ todo' = [todo EXCEPT ![c] = @ \ {f}]
           /\ UNCHANGED <<pkgs, pc, op, target, args, snap, fnSnap, newRv>>

\* One turn of the loop over the listed functions: the copy listed before
\* the package update gets the new resourceVersion and is written back
\* with FunctionUpdate; a failure ends the command.
UFanOut(c) ==
    /\ pc[c] = "UFanOut"
    /\ \E f \in todo[c] :
        LET s == fnSnap[c][f] IN
        \/ ~FnRvMatches(f, s) /\ Fatal(c)
        \/ /\ FnRvMatches(f, s)
           /\ fns' = [fns EXCEPT ![f] = Stamp([s EXCEPT !.ref = newRv[c]])]
           /\ rev' = rev + 1
           /\ todo' = [todo EXCEPT ![c] = @ \ {f}]
           /\ UNCHANGED <<pkgs, pc, op, target, args, snap, fnSnap, newRv>>

\* The loop is over: "Package updated".
UDone(c) ==
    /\ pc[c] = "UFanOut"
    /\ todo[c] = {}
    /\ Goto(c, "Done")
    /\ UNCHANGED <<rev, pkgs, fns, op, target, args, snap, fnSnap, newRv, todo>>

-----------------------------------------------------------------------------
(* fission pkg rebuild: pkgRebuild.                                        *)

StartRebuild(c) ==
    /\ pc[c] = "Start"
    /\ "rebuild" \in Commands
    /\ \E p \in Pkgs :
        /\ op' = [op EXCEPT ![c] = "rebuild"]
        /\ target' = [target EXCEPT ![c] = p]
        /\ args' = [args EXCEPT ![c] = NoFlags]
    /\ Goto(c, "RGet")
    /\ UNCHANGED <<rev, pkgs, fns, snap, fnSnap, newRv, todo>>

\* PackageGet, then the refusal to rebuild a package that has not failed.
RGet(c) ==
    LET p == target[c] IN
    /\ pc[c] = "RGet"
    /\ \/ pkgs[p] = Absent /\ Fatal(c)
       \/ pkgs[p] # Absent /\ ~RebuildAllowed(pkgs[p]) /\ Fatal(c)
       \/ /\ pkgs[p] # Absent /\ RebuildAllowed(pkgs[p])
          /\ snap' = [snap EXCEPT ![c] = pkgs[p]]
          /\ Goto(c, "RWrite")
          /\ UNCHANGED <<rev, pkgs, fns, op, target, args, fnSnap, newRv, todo>>

\* Variant: the package is read again just before it is written back.
RWriteReread(c) ==
    LET p == target[c] IN
    /\ pc[c] = "RWrite"
    /\ \/ pkgs[p] = Absent /\ Fatal(c)
       \/ /\ pkgs[p] # Absent
          /\ pkgs' = [pkgs EXCEPT ![p] =
                        Stamp(UpdatePackage(pkgs[p], NoFlags, TRUE, c))]
          /\ rev' = rev + 1
          /\ newRv' = [newRv EXCEPT ![c] = rev + 1]
          /\ Goto(c, "Done")
          /\ UNCHANGED <<fns, op, target, args, snap, fnSnap, todo>>

\* updatePackage with forceRebuild and no other flag.
RWrite(c) ==
    LET p == target[c] IN
    /\ pc[c] = "RWrite"
    /\ \/ ~PkgRvMatches(p, snap[c]) /\ Fatal(c)
       \/ /\ PkgRvMatches(p, snap[c])
          /\ pkgs' = [pkgs EXCEPT ![p] =
                        Stamp(UpdatePackage(snap[c], NoFlags, TRUE, c))]
          /\ rev' = rev + 1
          /\ newRv' = [newRv EXCEPT ![c] = rev + 1]
          /\ Goto(c, "Done")
          /\ UNCHANGED <<fns, op, target, args, snap, fnSnap, todo>>

-----------------------------------------------------------------------------
(* fission pkg delete --name: pkgDelete.                                   *)

StartDelete(c) ==
    /\ pc[c] = "Start"
    /\ "delete" \in Commands
    /\ \E p \in Pkgs, force \in BOOLEAN :
        /\ op' = [op EXCEPT ![c] = "delete"]
        /\ target' = [target EXCEPT ![c] = p]
        /\ args' = [args EXCEPT ![c] = [NoFlags EXCEPT !.force = force]]
    /\ Goto(c, "DGet")
    /\ UNCHANGED <<rev, pkgs, fns, snap, fnSnap, newRv, todo>>

\* PackageGet, only to fail early on a missing package.
DGet(c) ==
    /\ pc[c] = "DGet"
    /\ \/ pkgs[target[c]] = Absent /\ Fatal(c)
       \/ /\ pkgs[target[c]] # Absent
          /\ Goto(c, "DList")
          /\ UNCHANGED <<rev, pkgs, fns, op, target, args, snap, fnSnap,
                         newRv, todo>>

\* getFunctionsByPackage, then the refusal to delete a package in use
\* without --force.
DList(c) ==
    /\ pc[c] = "DList"
    /\ \/ ~args[c].force /\ Referencing(target[c]) # {} /\ Fatal(c)
       \/ /\ args[c].force \/ Referencing(target[c]) = {}
          /\ Goto(c, "DDelete")
          /\ UNCHANGED <<rev, pkgs, fns, op, target, args, snap, fnSnap,
                         newRv, todo>>

\* deletePackage: PackageDelete, unconditional at the store.
DDelete(c) ==
    LET p == target[c] IN
    /\ pc[c] = "DDelete"
    /\ \/ pkgs[p] = Absent /\ Fatal(c)
       \/ /\ pkgs[p] # Absent
          /\ pkgs' = [pkgs EXCEPT ![p] = Absent]
          /\ Goto(c, "Done")
          /\ UNCHANGED <<rev, fns, op, target, args, snap, fnSnap, newRv, todo>>

-----------------------------------------------------------------------------
(* fission pkg delete --orphan: deleteOrphanPkgs.                          *)

StartOrphans(c) ==
    /\ pc[c] = "Start"
    /\ "orphans" \in Commands
    /\ op' = [op EXCEPT ![c] = "orphans"]
    /\ Goto(c, "OList")
    /\ UNCHANGED <<rev, pkgs, fns, target, args, snap, fnSnap, newRv, todo>>

\* PackageList: the packages the loop will visit.
OList(c) ==
    /\ pc[c] = "OList"
    /\ todo' = [todo EXCEPT ![c] = {p \in Pkgs : pkgs[p] # Absent}]
    /\ Goto(c, "OFns")
    /\ UNCHANGED <<rev, pkgs, fns, op, target, args, snap, fnSnap, newRv>>

\* One turn of the loop: getFunctionsByPackage for a listed package; an
\* unreferenced one is deleted next, a referenced one is passed over.
OFns(c) ==
    /\ pc[c] = "OFns"
    /\ \E p \in todo[c] :
        \/ /\ Referencing(p) = {}
           /\ target' = [target EXCEPT ![c] = p]
           /\ Goto(c, "ODelete")
           /\ UNCHANGED todo
        \/ /\ Referencing(p) # {}
           /\ todo' = [todo EXCEPT ![c] = @ \ {p}]
           /\ UNCHANGED <<pc, target>>
    /\ UNCHANGED <<rev, pkgs, fns, op, args, snap, fnSnap, newRv>>

\* deletePackage inside the loop; its error ends the whole sweep.
ODelete(c) ==
    LET p == target[c] IN
    /\ pc[c] = "ODelete"
    /\ \/ pkgs[p] = Absent /\ Fatal(c)
       \/ /\ pkgs[p] # Absent
          /\ pkgs' = [pkgs EXCEPT ![p] = Absent]
          /\ todo' = [todo EXCEPT ![c] = @ \ {p}]
          /\ Goto(c, "OFns")
          /\ UNCHANGED <<rev, fns, op, target, args, snap, fnSnap, newRv>>

\* The loop is over: "Orphan packages deleted".
ODone(c) ==
    /\ pc[c] = "OFns"
    /\ todo[c] = {}
    /\ Goto(c, "Done")
    /\ UNCHANGED <<rev, pkgs, fns, op, target, args, snap, fnSnap, newRv, todo>>

-----------------------------------------------------------------------------
(* fission pkg create: pkgCreate and createPackage (not in spec mode).     *)

\* createPackage names the package after its archive plus a random
\* suffix: a name no package has had before.
FreshName(p) ==
    /\ InitPkgs[p] = Absent
    /\ \A d \in Procs : ~(op[d] = "create" /\ target[d] = p)

\* The flag checks, the archives, the status, a fresh random name, and
\* PackageCreate, which is the command's only call to the store.
Create(c) ==
    /\ pc[c] = "Start"
    /\ "create" \in Commands
    /\ op' = [op EXCEPT ![c] = "create"]
    /\ \E a \in CreateArgs :
        /\ args' = [args EXCEPT ![c] = a]
        /\ \/ ~ValidCreateArgs(a) /\ Goto(c, "Fatal")
                                  /\ UNCHANGED <<rev, pkgs, target>>
           \/ /\ ValidCreateArgs(a)
              /\ \E p \in Pkgs :
                  /\ FreshName(p)
                  /\ pkgs' = [pkgs EXCEPT ![p] =
                        [rv |-> rev + 1, env |-> a.env, envNs |-> FlagEnvNs(a), cmd |-> a.cmd,
                         src |-> IF a.src THEN c ELSE NoVal,
                         deploy |-> IF a.deploy THEN c ELSE NoVal,
                         status |-> CreateStatus(a)]]
                  /\ target' = [target EXCEPT ![c] = p]
              /\ rev' = rev + 1
              /\ Goto(c, "Done")
    /\ UNCHANGED <<fns, snap, fnSnap, newRv, todo>>

-----------------------------------------------------------------------------
\* Any remote call may fail (controller unreachable, non-2xx answer):
\* CheckErr / log.Fatal ends the command; nothing is retried.
TransportFail(c) ==
    /\ pc[c] \in RemoteSteps
    /\ Fatal(c)

\* The store applies a PackageUpdate (of updatePackage) or a FunctionUpdate
\* (of the fan-out), but its reply is lost: CheckErr ends the command as
\* if the write had failed, and the functions still to update never are.
LostReply(c) ==
    LET p == target[c] IN
    /\ Goto(c, "Fatal")
    /\ \/ /\ pc[c] \in {"UWrite", "RWrite"}
          /\ PkgRvMatches(p, snap[c])
          /\ pkgs' = [pkgs EXCEPT ![p] =
                Stamp(IF pc[c] = "UWrite"
                      THEN UpdatePackage(snap[c], NormalizeEnv(args[c], snap[c]), FALSE, c)
                      ELSE UpdatePackage(snap[c], NoFlags, TRUE, c))]
          /\ UNCHANGED fns
       \/ /\ pc[c] = "UFanOut"
          /\ \E f \in todo[c] :
                /\ FnRvMatches(f, fnSnap[c][f])
                /\ fns' = [fns EXCEPT ![f] = Stamp([fnSnap[c][f] EXCEPT !.ref = newRv[c]])]
          /\ UNCHANGED pkgs
    /\ rev' = rev + 1
    /\ UNCHANGED <<op, target, args, snap, fnSnap, newRv, todo>>

-----------------------------------------------------------------------------
(* Other actors on the store (not in src/; modelled from the spec).        *)

\* The build service takes a Pending package ...
BuildStart(p) ==
    /\ pkgs[p] # Absent
    /\ pkgs[p].status = "pending"
    /\ pkgs' = [pkgs EXCEPT ![p] = Stamp([@ EXCEPT !.status = "running"])]
    /\ rev' = rev + 1
    /\ UNCHANGED <<fns, pc, op, target, args, snap, fnSnap, newRv, todo>>

\* ... and finishes it with a deployment archive or a failure.
BuildFinish(p) ==
    /\ pkgs[p] # Absent
    /\ pkgs[p].status = "running"
    /\ \/ pkgs' = [pkgs EXCEPT ![p] =
                    Stamp([@ EXCEPT !.status = "succeeded", !.deploy = "built"])]
       \/ pkgs' = [pkgs EXCEPT ![p] = Stamp([@ EXCEPT !.status = "failed"])]
    /\ rev' = rev + 1
    /\ UNCHANGED <<fns, pc, op, target, args, snap, fnSnap, newRv, todo>>

\* A function is created referencing the current version of a package.
FnCreate(f, p) ==
    /\ ExternalFnOps
    /\ fns[f] = Absent
    /\ pkgs[p] # Absent
    /\ fns' = [fns EXCEPT ![f] = [rv |-> rev + 1, pkg |-> p, ref |-> pkgs[p].rv]]
    /\ rev' = rev + 1
    /\ UNCHANGED <<pkgs, pc, op, target, args, snap, fnSnap, newRv, todo>>

FnDelete(f) ==
    /\ ExternalFnOps
    /\ fns[f] # Absent
    /\ fns' = [fns EXCEPT ![f] = Absent]
    /\ UNCHANGED <<rev, pkgs, pc, op, target, args, snap, fnSnap, newRv, todo>>

\* Every invocation has ended; nothing but the other actors can move.
Terminated ==
    /\ \A c \in Procs : pc[c] \in {"Done", "Fatal"}
    /\ UNCHANGED vars

-----------------------------------------------------------------------------
\* The steps of invocation c when its remote calls return.
CliStep(c) ==
    \/ StartUpdate(c) \/ UGet(c) \/ UList(c) \/ UWrite(c) \/ UFanOut(c)
    \/ UDone(c)
    \/ StartRebuild(c) \/ RGet(c) \/ RWrite(c)
    \/ StartDelete(c) \/ DGet(c) \/ DList(c) \/ DDelete(c)
    \/ StartOrphans(c) \/ OList(c) \/ OFns(c) \/ ODelete(c) \/ ODone(c)
    \/ Create(c)

Cli(c) == CliStep(c) \/ TransportFail(c) \/ LostReply(c)

SystemNext ==
    \/ \E c \in Procs : Cli(c)
    \/ \E p \in Pkgs : BuildStart(p) \/ BuildFinish(p)
    \/ \E f \in Fns : FnDelete(f) \/ \E p \in Pkgs : FnCreate(f, p)
    \/ Terminated

\* The history variable records the list PackageList returned to a sweep;
\* it never constrains a step.
RecordListing ==
    listed' = [c \in Procs |->
                 IF pc[c] = "OList" /\ pc'[c] = "OFns" THEN todo'[c] ELSE listed[c]]

Next == SystemNext /\ RecordListing

Spec == Init /\ [][Next]_vars

\* The store's resourceVersion counter stays within the bound.
RevBound == rev <= MaxRev

-----------------------------------------------------------------------------
TypeOK ==
    /\ rev \in Nat
    /\ pkgs \in [Pkgs -> PkgRec \cup {Absent}]
    /\ fns \in [Fns -> FnRec \cup {Absent}]
    /\ pc \in [Procs -> {"Start", "Done", "Fatal"} \cup RemoteSteps]
    /\ op \in [Procs -> {NoVal, "update", "rebuild", "delete", "orphans",
                         "create"}]
    /\ target \in [Procs -> Pkgs \cup {NoVal}]
    /\ snap \in [Procs -> PkgRec \cup {NoVal}]
    /\ \A c \in Procs : fnSnap[c] \in [DOMAIN fnSnap[c] -> FnRec]
    /\ todo \in [Procs -> SUBSET (Fns \cup Pkgs)]
    /\ listed \in [Procs -> SUBSET Pkgs]

-----------------------------------------------------------------------------
(* Properties.                                                             *)

\* Invocation c writes its package record back in this step, whether or
\* not the reply reaches it.
CommitsPkg(c) ==
    /\ pc[c] \in {"UWrite", "RWrite"}
    /\ pc'[c] # pc[c]
    /\ pkgs'[target[c]] # pkgs[target[c]]

\* What c's command means when applied to the record r.
Intended(c, r) ==
    IF op[c] = "update"
    THEN UpdatePackage(r, NormalizeEnv(args[c], r), FALSE, c)
    ELSE UpdatePackage(r, NoFlags, TRUE, c)

SameFields(r1, r2) == [r1 EXCEPT !.rv = 0] = [r2 EXCEPT !.rv = 0]

\* No lost update: pkgUpdate and pkgRebuild change a record they read
\* earlier (a build state, an archive or an env may have changed since),
\* yet every write they commit equals their command applied to the record
\* as it is in the store at that moment.
NoLostUpdate ==
    [][\A c \in Procs :
         CommitsPkg(c) =>
            SameFields(pkgs'[target[c]], Intended(c, pkgs[target[c]]))]_vars

\* pkgRebuild checks the status it read is Failed, then writes Pending:
\* it never turns a package that is Pending, Running or Succeeded at the
\* moment of the write into Pending.
RebuildOnlyFromFailed ==
    [][\A c \in Procs :
         (pc[c] = "RWrite" /\ pc'[c] = "Done") =>
            pkgs[target[c]].status = "failed"]_vars

\* The fan-out of pkgUpdate writes back function copies listed before its
\* package update: a function's reference to its package never moves back
\* to an older resourceVersion, however updates of the same package
\* interleave.
RefNeverRegresses ==
    [][\A f \in Fns :
         (fns[f] # Absent /\ fns'[f] # Absent /\ fns'[f].pkg = fns[f].pkg)
            => fns'[f].ref >= fns[f].ref]_vars

\* Spec 4.4: a package is deleted without --force, or by the orphan sweep,
\* only when no function references it.
DeleteOnlyOrphans ==
    [][\A c \in Procs :
         (\/ pc[c] = "DDelete" /\ ~args[c].force
          \/ pc[c] = "ODelete")
         /\ pkgs[target[c]] # Absent /\ pkgs'[target[c]] = Absent
            => Referencing(target[c]) = {}]_vars

\* Spec 8.3: pkgUpdate with a new deployment archive and no env, build
\* command or source change never leaves the package Pending.
DeployUpdateNotPending ==
    [][\A c \in Procs :
         (/\ pc[c] = "UWrite" /\ pc'[c] = "UFanOut"
          /\ args[c].deploy /\ ~args[c].src
          /\ args[c].env = NoVal /\ args[c].cmd = NoVal)
            => pkgs'[target[c]].status # "pending"]_vars

\* Spec 4.4: "Unspecified/empty optional fields leave the corresponding
\* spec field untouched": a package update commit, acknowledged or not,
\* changes no spec field whose flag the user left out.
UnspecifiedFieldsUntouched ==
    [][\A c \in Procs :
         op[c] = "update" /\ CommitsPkg(c) =>
            LET old == pkgs[target[c]]  new == pkgs'[target[c]]  a == args[c] IN
            /\ a.env = NoVal => new.env = old.env
            /\ a.envNs = NoVal => new.envNs = old.envNs
            /\ a.cmd = NoVal => new.cmd = old.cmd
            /\ ~a.src => new.src = old.src
            /\ ~a.deploy => new.deploy = old.deploy]_vars

\* Spec 8.7: once pkgUpdate has finished, every function referencing the
\* package refers to the version it committed or a later one.
UpdatedRefsFollow ==
    \A c \in Procs :
        op[c] = "update" /\ pc[c] = "Done" =>
            \A f \in Referencing(target[c]) : fns[f].ref >= newRv[c]

\* The record as the abstract store sees it: without its resourceVersion.
Strip(r) == IF r = Absent THEN Absent
            ELSE [env |-> r.env, envNs |-> r.envNs, cmd |-> r.cmd, src |-> r.src,
                  deploy |-> r.deploy, status |-> r.status]

\* The update flags as the command reads them, defaults filled in.
ReadUpdateArgs == {[a EXCEPT !.envNs = FlagEnvNs(a)] : a \in UpdateArgs}

AbstractInitStore == [p \in Pkgs |-> Strip(InitPkgs[p])]

Abstract == INSTANCE PackageStoreAbstract
              WITH InitStore <- AbstractInitStore,
                   UpdateArgs <- ReadUpdateArgs,
                   store <- [p \in Pkgs |-> Strip(pkgs[p])]

\* The package records change only as the abstract store allows: each
\* commit of pkgUpdate or pkgRebuild is one atomic update or rebuild of
\* the record as it stands at the moment of the write, however the
\* invocations and the build service interleave between their read and
\* their write; every other step leaves the records alone.
StoreRefinement == Abstract!Spec

\* Spec 4.4: the orphan sweep "deletes every package with zero referencing
\* functions".  deleteOrphanPkgs ends without error only after it has
\* visited every package PackageList returned: a sweep that reports
\* success leaves none of them both present and unreferenced, whatever
\* deletes, creates and other sweeps ran meanwhile (a package another
\* invocation deleted first makes the sweep fail instead).  Functions are
\* not changed by other clients in the run that checks it.
SweepLeavesNoOrphan ==
    \A c \in Procs :
        op[c] = "orphans" /\ pc[c] = "Done" =>
            \A p \in listed[c] :
                pkgs[p] = Absent \/ \E f \in Fns : fns[f] # Absent /\ fns[f].pkg = p
====
