------------------------- MODULE PackageStoreAbstract -------------------------
(***************************************************************************)
(* What the package commands promise about the store (spec 4.4, 8.3,      *)
(* 8.6): every `pkg update` and `pkg rebuild` is one atomic change of the *)
(* package record as it is at that moment, and the build service moves a *)
(* package Pending -> Running -> Succeeded | Failed.  Records carry no     *)
(* resourceVersion: whatever concurrency control the CLI uses, the        *)
(* history of each record must be a sequence of these steps.              *)
(***************************************************************************)
EXTENDS Naturals

CONSTANTS
    Pkgs,        \* package names
    Archives,    \* archives an update can attach
    UpdateArgs,  \* flag sets `fission pkg update` is run with
    Absent,      \* no record under this name
    NoVal,       \* an empty flag value, an unset field
    InitStore    \* the records initially in the store

VARIABLE store   \* store[p]: the record named p, or Absent

-----------------------------------------------------------------------------
\* A flag set the update command accepts: not both archives, and some change.
Accepted(a) == /\ ~(a.src /\ a.deploy)
               /\ a.src \/ a.deploy \/ a.env # NoVal \/ a.cmd # NoVal

\* A change of environment or its namespace, of build command or of source
\* owes a build, unless the update brings its own deployment archive.
BuildOwed(r, a) ==
    /\ \/ a.env # NoVal /\ a.env # r.env
       \/ a.envNs # NoVal /\ a.envNs # r.envNs
       \/ a.cmd # NoVal \/ a.src
    /\ ~a.deploy

\* The record after the update a, attaching archive ar.
Updated(r, a, ar) ==
    [env    |-> IF a.env # NoVal THEN a.env ELSE r.env,
     envNs  |-> IF a.envNs # NoVal THEN a.envNs ELSE r.envNs,
     cmd    |-> IF a.cmd # NoVal THEN a.cmd ELSE r.cmd,
     src    |-> IF a.src THEN ar ELSE r.src,
     deploy |-> IF a.deploy THEN ar ELSE r.deploy,
     status |-> IF BuildOwed(r, a) THEN "pending" ELSE r.status]

\* An archive no record refers to.  An update attaches an archive made for
\* it, never one already in use.
Fresh(ar) == \A q \in Pkgs : store[q] = Absent \/ ar \notin {store[q].src, store[q].deploy}

SetStatus(p, s) == store' = [store EXCEPT ![p].status = s]

-----------------------------------------------------------------------------
Init == store = InitStore

Update(p, a, ar) ==
    /\ store[p] # Absent
    /\ Accepted(a)
    /\ Fresh(ar)
    /\ store' = [store EXCEPT ![p] = Updated(@, a, ar)]

\* A rebuild is allowed only of a package whose build failed.
Rebuild(p) ==
    /\ store[p] # Absent
    /\ store[p].status = "failed"
    /\ SetStatus(p, "pending")

BuildStart(p) ==
    /\ store[p] # Absent
    /\ store[p].status = "pending"
    /\ SetStatus(p, "running")

BuildFinish(p) ==
    /\ store[p] # Absent
    /\ store[p].status = "running"
    /\ \/ store' = [store EXCEPT ![p].status = "succeeded",
                                 ![p].deploy = "built"]
       \/ SetStatus(p, "failed")

Next ==
    \E p \in Pkgs :
        \/ \E a \in UpdateArgs, ar \in Archives : Update(p, a, ar)
        \/ Rebuild(p) \/ BuildStart(p) \/ BuildFinish(p)

Spec == Init /\ [][Next]_store
====
