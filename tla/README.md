# TLA+ models of the fission package commands

This directory holds TLA+ models of the package subsystem of the fission CLI:
`fission pkg create|update|rebuild|delete`, the fan-out that moves functions
to a package's new version, and the archive builder with its upload. The models
are written from the sources in `src/`. Collaborators that are not in `src/`
(the controller's store, the build service, the storage service) are written
from `spec.md`, and the map in `PROJECT.json` marks those definitions
`spec_modelled`.

## 1. Inventory

### Components and their state

| Component | Source | State | Operations |
|---|---|---|---|
| Package Record Manager | `src/unnamed/part_000`: `pkgCreate`, `createPackage`, `pkgUpdate`, `updatePackage`, `pkgRebuild`, `pkgDelete`, `deletePackage`, `deleteOrphanPkgs` | none of its own. Each invocation holds a local copy of the package it read, the function list it read and its flags. Package records live in the controller store. | create, update, rebuild, delete, delete --orphan |
| Dependent-Function Synchronizer | `part_000`: `getFunctionsByPackage` and the loop at lines 156-161 | the function list read before the package update | list the referencing functions, then FunctionUpdate each one |
| Archive Builder | `part_000`: `createArchive`, `makeArchiveFileIfNeeded`, `archiveName` | per-operation scratch files | check globs, reuse a spec-mode archive, zip or pass through |
| Archive Transport / Content Identity | `src/pkg/fission-cli/cmd/package/package.go`: `UploadArchive`, `FileChecksum`, `DownloadToTempFile`, `DownloadURL`, `WriteArchiveToFile` | none | literal below the size limit, else upload, build the URL and compute the checksum; download |
| Archive retrieval | `part_000`: `pkgSourceGet`, `pkgDeployGet`, `downloadStoragesvcURL` | none | read the literal, or download through the controller proxy |
| Listing | `part_000`: `pkgInfo`, `pkgList` | none | print |
| CLI wiring | `src/pkg/fission-cli/main.go` | none | command tables, help, plugins, `flagValueParser` |
| Controller store (external) | spec 5, 6 | Package and Function records, each with a resourceVersion | get, list, create, update (fails on a stale resourceVersion), delete (unconditional) |
| Build service (external) | spec 4.4 | the build status of the packages | Pending -> Running -> Succeeded / Failed |

### How they interact

Every CLI command is a short sequential program of remote calls against the
controller store: get, list, update or delete. Several invocations can run at
once (two shells, CI jobs), alongside the build service, which writes package
status, and other clients, which create and delete functions. Nothing is
locked. The only guard is the store's resourceVersion check on update.
Deletion has no precondition at all. A failed call ends the command through
`util.CheckErr` / `log.Fatal`, and nothing is retried.

### What is hard

* Read-check-write sequences over several remote calls. `pkgUpdate` runs
  get (126), list (143), update (150), then one FunctionUpdate per function
  (157-161). `pkgRebuild` runs get, a Failed check, then update. `pkgDelete`
  runs get, list, then delete. `deleteOrphanPkgs` runs list, then a list and a
  delete for each package. Any other actor can step between any two calls.
* Partial failure. The first failed call ends the command, however much of
  a loop remains.
* The order of the fan-out. The function copies it writes back were read
  before the package update.

### Properties that make each component correct

* Record manager: no update or rebuild overwrites a change it did not see
  (no lost update). Rebuild only replaces Failed. Delete without `--force`
  and the orphan sweep only remove unreferenced packages. The status after an
  update follows spec 4.4.
* Synchronizer: a function never moves back to an older package version.
  After a successful update every referencing function is at the new version
  (spec 8.7).
* Archive builder and transport: literal iff size < limit; URL archives carry
  a checksum; a single URL or zip input is passed through; at least one
  match per glob (spec 8.1, 8.2).
* Every command ends.

## 2. Plan

1. **PackageCli** (done in this sitting): the record manager and the
   synchronizer as concurrent invocations, with the store, the build service
   and other function clients.
2. **ArchiveBuilder** (done, spec mode included): `createArchive`,
   `makeArchiveFileIfNeeded` and `UploadArchive` as steps, checked against a
   reference definition from spec 4.1-4.3 and 8.1-8.2. Spec mode (the
   upload-spec dedup) is done.
3. **PackageCli additions**: a lost reply after a PackageUpdate that was
   applied (done: `LostReply`), and the report of a failed fan-out (which functions were named).
   Spec mode of `createPackage` is left out: no caller in src/ reaches it.
4. **PackageStoreAbstract** and a refinement (done): an abstract spec in which each
   update or rebuild is one atomic step on the current record. PackageCli's
   store history implements it through a refinement mapping
   (INSTANCE ... WITH), checked as a PROPERTY. This generalises NoLostUpdate.
5. **CliMain** (done): `flagValueParser` as a RECURSIVE operator checked
   against a reference, and the dispatch to commands and plugins. For the
   package command, its flag tables and urfave/cli's subcommand flag
   parsing, which shows that cliHook lets flags be dropped.
6. **ArchiveRetrieval** (done): `pkgSourceGet`, `pkgDeployGet`,
   `WriteArchiveToFile` and `DownloadToTempFile`, with failures and kills.

## 3. Modules

### PackageCli.tla (MC_PackageCli.tla)

The store is modelled as `pkgs` (name -> record or `Absent`), `fns`
(name -> record or `Absent`) and `rev`, the global resourceVersion counter
(etcd's revision). A package record keeps the fields the commands read or
write: rv, env, env namespace (`envNs`), buildcmd, source archive,
deployment archive and status. The env namespace is kept apart from env.
The `--env` flag is empty when it is not given. `envNamespaceFlag`
(main.go 83) defaults to the default namespace, and `FlagEnvNs` models
that. `NormalizeEnv` (132-141) compares both flags with the record
PackageGet returned. It is applied where updatePackage uses them (UWrite,
LostReply), against the snapshot UGet took. An archive is named after the invocation that
built it ("init" for the initial ones, "built" for the build service's).

Each invocation `c` has `pc[c]`, the next remote call, plus what it has
read: `snap` (PackageGet), `fnSnap` (getFunctionsByPackage), `newRv` (the
reply of PackageUpdate) and `todo` (the loop's remaining items). `listed` is
a history variable: the package list a sweep's PackageList returned (352),
written by `RecordListing`, a conjunct of `Next`, and read only by
`SweepLeavesNoOrphan`. There is one action per remote call:

| Command | Actions |
|---|---|
| pkgUpdate | StartUpdate (flag checks 117-124), UGet (126-141, drops an unchanged --env), UList (143-148, refuses a shared package without -f), UWrite (updatePackage 168-215), UFanOut (one loop turn 157-161), UDone |
| pkgRebuild | StartRebuild, RGet (436-445, refuses unless Failed), RWrite (updatePackage with forceRebuild) |
| pkgDelete --name | StartDelete, DGet (397-401), DList (403-410), DDelete (412, deletePackage) |
| pkgDelete --orphan | StartOrphans, OList (352), OFns (359-361), ODelete (362-365), ODone |
| pkgCreate | Create (validation 84-94; createPackage 518-577: status, a fresh random name, PackageCreate) |
| any remote call | TransportFail (the call fails; CheckErr ends the command) |
| PackageUpdate, FunctionUpdate (150-160, 211-212) | LostReply (the store applies the write, the reply is lost, CheckErr ends the command) |

The other actors, modelled from the spec, are BuildStart and BuildFinish
(the build service) and FnCreate and FnDelete (other clients).
`Terminated` lets a finished system stutter.

The list order of PackageList/FunctionList is not modelled; the loops visit
the items in any order.

### Runs

| Run | cfg | Expect | Shows |
|---|---|---|---|
| update_races | PackageCli.cfg | pass | Two invocations run update (5 flag sets, including a refused one) or rebuild on the shared package p1 (two functions, build failed). The build service and function create/delete run too. Checks `NoLostUpdate`, `RebuildOnlyFromFailed` and `RefNeverRegresses`, also for writes whose reply is lost: the resourceVersion checks of PackageUpdate and FunctionUpdate are enough to make the read-modify-write steps and the fan-out safe against each other. `StoreRefinement`: the records' history (without resourceVersions) is a behaviour of PackageStoreAbstract. |
| delete_sweep | PackageCli_delete.cfg | pass | Two invocations run delete (with or without -f), orphan sweep or create over p1 (referenced), p2 (orphan) and p3 (free), while builds run. `SweepLeavesNoOrphan` (spec 4.4): a sweep that ends without error has deleted every package of its listing that no function references. A concurrent delete or sweep that removes a listed package first makes the sweep fail at 363, not succeed with orphans left. No other client changes functions in this run: a function deleted after the sweep looked at its package would leave an orphan the spec does not ask the sweep to see. |
| delete_race | PackageCli_delete_race.cfg | violation | `DeleteOnlyOrphans`: FnCreate between DList and DDelete. |
| deploy_pending | PackageCli_deploy_pending.cfg | violation | `DeployUpdateNotPending`: rebuild sets Pending, then update --deploy keeps Pending. |
| envns_default | PackageCli_envns.cfg | violation | `UnspecifiedFieldsUntouched`: one invocation, p1's environment in ns2. A `pkg update` that does not give `--envNamespace` moves it to ns1 in four steps. |
| fanout_window | PackageCli_fanout_window.cfg | violation | `UpdatedRefsFollow`: FnCreate between UList and UWrite; the command ends with "Package updated" and the new function is at the old version. |

### Bounds

* Two invocations are enough for every race above: each involves one CLI
  invocation against one other actor.
* One package in update_races; three names in delete_sweep (referenced,
  orphan, free for create).
* Two functions, so the "shared by several functions" check (146) can
  fire both ways.
* `MaxRev` bounds the resourceVersion counter through the state constraint
  `RevBound`. update_races uses 5: from rev 1, two package writes and two
  function writes fit, which is exactly the interleaving that
  `RefNeverRegresses` is about. delete_sweep uses 7, which its
  commands never reach.
* update_races is symmetric in the invocations. delete_sweep runs without
  symmetry.

### Fairness

No liveness property is checked. Each loop of the CLI (the fan-out at 157,
the sweep at 358) walks a list it read once. Every step of an invocation
either advances it or ends it, so termination follows from the shape of the
code and stating it would show nothing about the code.

### PackageStoreAbstract.tla and the refinement

PackageStoreAbstract is the promise of the package commands about the
store. It has one variable, `store`, which maps each name to a record
without a resourceVersion, or to `Absent`. An `Update(p, a, ar)` applies
the flags `a` to the current record in one step. `Rebuild(p)` turns a
Failed package Pending. The archive `ar` an update attaches must be
`Fresh`, meaning no record refers to it: updatePackage uploads a new
archive for `--src` or `--deploy` (part_000 188-198). Without this
condition, a rebuild of a package that has not failed could pass as an
update that re-attaches the current source. The build service steps are as
in PackageCli.
`Updated` and `BuildOwed` are written from spec 8.3 and not from
updatePackage. The status rule is the code's one, though: a deploy-only
update keeps the status, and the deploy_pending run checks that rule
separately.

PackageCli defines `Abstract == INSTANCE PackageStoreAbstract WITH store <-
[p \in Pkgs |-> Strip(pkgs[p])], ...`, where `Strip` drops the `rv` field.
`StoreRefinement == Abstract!Spec` is checked as a PROPERTY in
update_races. It says that everything the two concurrent read-modify-write
commands do with the record is one atomic update or rebuild. They do it
through a snapshot, NormalizeEnv and the PackageUpdate version check. It
generalises `NoLostUpdate`. If the version check is dropped
(`PkgRvIgnored`), TLC finds a violation within 3623 states. If pkgRebuild's status check is dropped, TLC also finds a violation
of `StoreRefinement`, after 13461 states. `RebuildOnlyFromFailed` states
that rule on its own. The mapping's constants are named definitions, so
TLC evaluates them once. They are `ReadUpdateArgs`, the update flags with
the envNamespace default filled in, and `AbstractInitStore`.

### ArchiveBuilder.tla (MC_ArchiveBuilder.tla)

One `createArchive` call: in spec mode (`specMode`, a specFile given by the
caller), or outside it and then the `UploadArchive` it ends with. `specs`
is the set of ArchiveUploadSpecs in the spec directory, each a name and a
glob list. An input list is a sequence whose items are `URL` or a glob, given as
the sequence of files it matches. A file's contents are its name and the
number of times the user has edited it (`ver`); a new zip holds the set of
the contents of the files it was made from; a checksum is an injective tag
over contents. `blobs` is the storage service, indexed by upload id.

| Code | Action |
|---|---|
| createArchive 463-485 | CheckGlobs: every non-URL input must match a file, else Fatal; then spec mode or Make |
| 485-506 | SpecStep: SpecExists compares the globs; a match is reused by name, else the spec is saved as `NewAus`; ReadSpecs or SpecSave may fail. The archive is `archive://<name>` |
| makeArchiveFileIfNeeded 586-627 | Make: one zip file, or one file under noZip, is used as it is; else a new zip of every match (or MakeArchive fails on a URL input) |
| UploadArchive 54 | Stat: FileSize < ArchiveLiteralSizeLimit |
| 55-56 | Read: GetContents into the literal |
| 58-63 | Upload: the bytes are stored |
| 65-75 | SvcUrl: the URL of the upload's id |
| 77-80 | ChecksumStep: FileChecksum reads the file again |
| CheckErr at 63, 67, 78 | Fail; a failed upload may still have been stored |
| the user | Edit(f): an input file changes while the command runs |

`utils.FindAllGlobs` and `utils.MakeArchive` are not in `src/`. They are
modelled from the spec: a URL matches no file, and a zip's size is the sum of
its files' sizes. The reference (`RefShape`, `RefLiteral`) is written over
the set of matched files, and the code over the sequence. The two agree as
long as no two globs match the same file, and the inputs avoid that.

| Run | cfg | Expect | Shows |
|---|---|---|---|
| archive_reference | ArchiveBuilder.cfg | pass | `ArchiveMatchesReference` over seven input lists, with and without noZip, with edits and failed calls. Files a and b have size 1 and z (a zip) size 2 = Limit, so a literal, an upload at exactly the limit, and a zip of two files over the limit all occur. `SpecArchiveDeduplicated` (spec 4.1): in spec mode, with an empty spec directory or one holding an upload spec `n1` for `<<a>>`, the directory keeps one spec per glob list and the archive names the spec of its own inputs. |
| url_passthrough | ArchiveBuilder_url.cfg | violation | A sole URL input becomes a locally built archive, not a URL archive (spec 8.2). |

### CliMain.tla (MC_CliMain.tla)

One run of the `fission` binary. `args` holds the words left after the
global flags. The run has the global settings `server`, `verbosity`,
`pluginFlag` and `versionFlag`; `exec` is the argument list a plugin was
started with, and `out` is the branch taken. Words are strings from small
sets: flags (`--src`, and `-1`, which also starts with "-"), values, a
built-in command, an installed plugin, a plugin known to the registry, and
a typo. Calls of the package command are drawn from their own vocabulary:
the subcommands `delete` and `getsrc` and the typo `dlete`, the flag words
`--orphan` (bool), `-f` (the one-dash alias of the bool `--force`) and
`--pkgns` (takes a value), and the words `ns` and `true`. `pkgFlags` is the
set of flags the subcommand's handler finds set.

| Code | Action or operator |
|---|---|
| urfave/cli App.Run (not in src/) | Start: `--version` is answered before app.Before |
| cliHook 42-54 | Hook: Fatal when `flagValueParser` names a flag |
| flagValueParser 410-450 | `FlagIndexes` (419-428), `ErrorFlags` (RECURSIVE, 430-442) |
| app.Commands 313-332 | Route: a first word naming a command or alias runs it |
| 83-84, 256-272, 323 | `NamespaceFlagNames`, `PkgFlagNames`, `PkgBoolFlags`, `PkgSubCommands`: the package command's table |
| urfave/cli (not in src/) | PkgRoute: the package sub-app parses its own (undefined) flags and runs the named subcommand, or prints help, or "No help topic" |
| urfave/cli Command.Run, Go flag (not in src/) | PkgParse: `Reorder` (urfave/cli v1 reorderArgs, the pre-1.22 and the 1.22+ rule as a nondeterministic choice, since src/ does not pin the version), then `GoParse` (RECURSIVE): an undefined flag is an error, a bool flag takes no value, any other flag takes the next word, and the first non-flag word ends the flags |
| handleNoCommand 335-357 | NoCommand: version, `--plugin` metadata, not found, help |
| handleCommandNotFound 359-379 | NotFound: installed, Find error, registry hint, no help topic |
| 381-398 | Exec: `GlobalArgs` (the global flags but plugin, if non-empty) then `Tail(args)` |
| versionPrinter 400-408 | Version |

`handleNoCommand`'s own version branch (336-338) is not reachable, because
the library answers `--version` first. `GlobalFlagNames` is taken from
urfave/cli v1, which leaves out help and version.

| Run | cfg | Expect | Shows |
|---|---|---|---|
| cli_dispatch | CliMain.cfg | pass | Every argument list of up to four words and every global setting (12944 initial states), and every pkg subcommand call of up to three words after the subcommand. `FlagParserMatchesReference`: the recursive gap scan equals the set-based rule "a flag followed by two or more non-flags", flag for flag. `PluginSeesSameGlobals`: a plugin parsing its argument list gets the user's server and verbosity, no metadata mode, and exactly the words after its name. |
| plugin_args | CliMain_plugin_args.cfg | violation | `PluginGetsItsArgs`: `myplug --src a.js a.js` dies in cliHook before the plugin is found. |
| pkg_boolflag | CliMain_boolflag.cfg | violation | `PkgFlagsAllSet`, for calls that give every value-taking flag a value. `pkg delete --orphan true --pkgns true` passes cliHook. urfave/cli keeps `true` next to `--orphan`, and Go's flag parser stops at it, so pkgDelete runs with `--orphan` set and `--pkgns` unset: it sweeps the "default" namespace. |

Three words after the command are enough to reach the gap rule's boundary
(a gap of 2 or 3), a flag at the end, and two flags in a row. In
cli_dispatch a pkg subcommand gets up to three words: enough for an
undefined flag, a flag with no value, and a flag given two values. `getsrc`
defines neither bool flag, so the two reorder rules disagree on some calls.
pkg_boolflag takes only `delete`, which defines every flag word, with up to
four words. Four is the least that shows a dropped flag after a bool flag's
stray word, once every value flag has its value.

### ArchiveRetrieval.tla (MC_ArchiveRetrieval.tla)

One call of `pkg getsrc` or `pkg getdeploy` (part_000 pkgSourceGet and
pkgDeployGet), or of `DownloadToTempFile` (package.go 114-129). `cmd`
says which call it is. `pkg` is the package record read, and `output` is
the `--output` value. `reader` is {} for a nil reader, or {the bytes}. `pos`
counts the chunks copied so far. `file` maps each output path to its
content, or to `Absent`. `tmp` is the `.tmp` file being written, and
`stdout` is what was printed. `nTmp` counts the directories `GetTempDir`
made; `tdDir` is the one `DownloadToTempFile` got. Archive contents are
short sequences of chunks, so a copy that stops part way is a visible state.

| Code | Action or operator |
|---|---|
| part_000 217-235, 254-270 | Init (cmd, --name given, package, output), SourcePkgGet / DeployPkgGet through `GetPackage`. A missing --name is fatal. Otherwise the record is read, or the command returns PackageGet's error. |
| part_000 237-245, 272-280, 64-77 | SourceOpen reads `Spec.Source` and DeployOpen reads `Spec.Deployment`, both through `OpenArchive`. A literal gives its bytes, and a url goes through downloadStoragesvcURL and `ProxyDownload` (DownloadURL 135-144). Any other type leaves the reader nil. |
| part_000 247-251 | Stdout (no `--output`): one chunk per step; a nil reader panics |
| WriteArchiveToFile 146-150 | Write: a new temp directory |
| 152-156 | Create: `Join(tmpDir, fileName+".tmp")`; only a bare name can be created |
| 157-160 | Copy: one chunk per step, or an error |
| 161-171 | Rename: chmod and rename make the whole file visible at the output path |
| DownloadToTempFile 115-126 | TempDownload, Mkdir |
| — | Kill: the process dies at any step |

| Run | cfg | Expect | Shows |
|---|---|---|---|
| retrieval | ArchiveRetrieval.cfg | pass | `OutputAllOrNothing`: whatever fails or is killed, the output path holds either its old content or the whole archive. `RetrievedIsStored`: a get that succeeds yields exactly the archive of the kind asked for (source or deployment), from a literal or through the proxy. |

The model uses two packages whose source and deployment archives differ.
One archive is a literal and the other a URL, and one blob has two chunks,
so a copy can stop in the middle. There are three output paths: stdout, an
existing bare file, and a file under a directory. These are enough to
reach every branch and every failure point.

The model also shows two errors, each in a single call, that are not kept
as runs: `-o d/out.zip` always ends in Create with an error, and
DownloadToTempFile's Mkdir (of the directory GetTempDir has just made)
always ends the command after a successful download.

## 4. Findings

See `PROJECT.json` "findings":

* pkgDelete and deleteOrphanPkgs check for referencing functions and delete
  later without a precondition. A function created in between is left
  dangling (spec 4.4 says the delete must be refused).
* updatePackage never resets the status on a deploy-only update, so a
  Pending package stays Pending (spec 8.3 says otherwise).
* pkgUpdate lists the functions before it updates the package. A function
  created in between is never moved to the new version (spec 8.7).
* A sole URL input is never passed through (spec 8.2). makeArchiveFileIfNeeded
  globs it, finds nothing and calls MakeArchive.
* cliHook rejects a plugin's arguments by fission's own flag rule, so a
  plugin can never take a flag with two values (main.go:46).
* pkg update without `--envNamespace` re-points a package whose
  environment is in another namespace to the default namespace, and marks
  it Pending (part_000:139, main.go:83). Spec 4.4 says unspecified fields
  are left untouched.
* Observed, no longer a run: UploadArchive reads the file twice, once for
  the upload (62) and once for the checksum (77). ArchiveBuilder's `Edit`
  between `Upload` and `ChecksumStep` stores one content with another's
  checksum. The run was retired for envns_default, because the project
  keeps at most 12 runs.
* cliHook's gap rule (main.go:438) treats a bool flag like one that takes
  a value. `pkg delete --orphan true --pkgns ns` passes it, and the
  namespace flag after the stray `true` is silently dropped, so the sweep
  deletes the orphans of "default" (pkg_boolflag). The rule's comment says
  it ensures that all input values for flags are properly set.
* Observed, no longer a run: getsrc / getdeploy of an archive that is
  neither literal nor url (a package whose deployment archive is not set
  yet) panics on a nil reader (part_000:237). The model shows it in
  ArchiveRetrieval when Packages holds such a record. The run was retired
  for pkg_boolflag, because the project keeps at most 12 runs.
* Observed, not kept as runs: WriteArchiveToFile builds its temp path from
  the whole output path, so `--output` with a directory part always fails
  (package.go:152), and DownloadToTempFile makes the directory GetTempDir
  made again, so it fails after every successful download (package.go:125).

## 5. Not modelled

* The flag tables of the commands other than `package` (main.go 78-253,
  274-311) and the help template (452-474). Their handlers are outside
  src/, and the template is layout. Plugin discovery (`plugin.Find`,
  `SearchRegistries`) is outside src/ and is a nondeterministic choice.
* pkgInfo and pkgList: they only read the store and print. `pkg list
  --orphan` checks each package's functions one at a time, so under
  concurrent commands its output is not a snapshot. It changes nothing,
  though, and a property about it would only restate the loop.
* SHA-256, zip, the file system and HTTP are out of TLC's reach.
  ArchiveBuilder keeps their decisions and abstracts their data (see above).
  File sizes are constant, so the window between FileSize and GetContents is
  not explored.
* archiveName's random suffix: a fresh name (`NewAus`, `NewZip`). In spec
  mode a glob is identified by what it matches, so two different patterns
  matching the same files count as one glob list. Spec mode is only
  reached from callers outside src/ (`fn create --spec`); pkgCreate passes
  no specFile. Two processes writing one spec directory at once are not
  modelled: spec files are edited by one developer.
* createPackage's spec mode (package spec dedup), for the same reason: no
  caller in src/.
* The storage service, so the archives orphaned by a conflicting update are
  not tracked.
