--------------------------- MODULE ArchiveRetrieval ---------------------------
(***************************************************************************)
(* `fission pkg getsrc` / `getdeploy` (pkgSourceGet, pkgDeployGet and     *)
(* downloadStoragesvcURL in src/unnamed/part_000) and the transfer helpers *)
(* they and UploadArchive use (DownloadURL, WriteArchiveToFile,            *)
(* DownloadToTempFile in src/pkg/fission-cli/cmd/package/package.go).      *)
(* An archive's content is a sequence of chunks, so that a copy can stop   *)
(* half way; the process can be killed between any two steps.             *)
(***************************************************************************)
EXTENDS Naturals, Sequences, FiniteSets

CONSTANTS
    Packages,   \* the package records PackageGet can return
    Blobs,      \* Blobs[id]: the archive the storage service holds for id
    Outputs,    \* values of --output: "" (stdout), a bare name, a path
    BarePaths,  \* the outputs with no directory part
    OldFile,    \* OldFile[o]: what is at output path o before the command
    Chunks,     \* the pieces archive contents are made of
    Absent      \* no file

\* An archive is [type |-> "literal", literal |-> chunks],
\* [type |-> "url", id |-> id] or [type |-> "none"] (spec never set).

VARIABLES
    pc,      \* the next step
    cmd,     \* "getsrc", "getdeploy" or "tempdl" (DownloadToTempFile)
    named,   \* --name was given
    pkg,     \* the package PackageGet returned
    output,  \* --output
    reader,  \* {} for a nil reader, else {the chunks it will yield}
    pos,     \* chunks copied so far
    file,    \* file[o]: the file at output path o
    tmp,     \* the .tmp file WriteArchiveToFile writes, or Absent
    stdout,  \* chunks written to standard output
    nTmp,    \* temp directories GetTempDir has created
    tdDir,   \* the directory DownloadToTempFile got from GetTempDir
    out      \* how the command ended

vars == <<pc, cmd, named, pkg, output, reader, pos, file, tmp, stdout, nTmp, tdDir, out>>

-----------------------------------------------------------------------------
\* downloadStoragesvcURL and DownloadURL: the controller's proxy serves
\* the storage service's blob for the id in the URL's request URI.
ProxyDownload(a) == Blobs[a.id]

Finish(o, terminal) == out' = o /\ pc' = terminal

Init ==
    /\ pc = "Start"
    /\ cmd \in {"getsrc", "getdeploy", "tempdl"}
    /\ named \in BOOLEAN
    /\ pkg \in Packages
    /\ output \in Outputs
    /\ reader = {}
    /\ pos = 0
    /\ file = OldFile
    /\ tmp = Absent
    /\ stdout = <<>>
    /\ nTmp = 0
    /\ tdDir = 0
    /\ out = "none"

\* The first steps of pkgSourceGet and pkgDeployGet (command c): without
\* --name the command is fatal; PackageGet's error is returned to
\* urfave/cli.
GetPackage(c) ==
    /\ pc = "Start" /\ cmd = c
    /\ \/ ~named /\ Finish("noname", "Fatal")
       \/ named /\ pc' = "Open" /\ UNCHANGED out
       \/ named /\ Finish("error", "Error")
    /\ UNCHANGED <<cmd, named, pkg, output, reader, pos, file, tmp, stdout, nTmp, tdDir>>

SourcePkgGet == GetPackage("getsrc")

DeployPkgGet == GetPackage("getdeploy")

\* Opening archive a of the record: a literal is read from the record; a
\* URL archive is downloaded through the controller's /proxy/storage/ with
\* the URL's request URI (downloadStoragesvcURL 65-77, DownloadURL), and a
\* failed or non-200 download is fatal; any other type leaves the reader
\* nil.
OpenArchive(a) ==
    /\ pc = "Open"
    /\ CASE a.type = "literal" ->
              reader' = {a.literal} /\ pc' = "Write" /\ UNCHANGED out
         [] a.type = "url" ->
              \/ reader' = {ProxyDownload(a)} /\ pc' = "Write" /\ UNCHANGED out
              \/ Finish("httperror", "Fatal") /\ UNCHANGED reader
         [] OTHER -> UNCHANGED reader /\ pc' = "Write" /\ UNCHANGED out
    /\ UNCHANGED <<cmd, named, pkg, output, pos, file, tmp, stdout, nTmp, tdDir>>

\* Variant: getsrc reads the deployment archive.
SourceOpenDeploy == cmd = "getsrc" /\ OpenArchive(pkg.deploy)

\* pkgSourceGet reads Spec.Source (part_000 237-245).
SourceOpen == cmd = "getsrc" /\ OpenArchive(pkg.src)

\* pkgDeployGet reads Spec.Deployment (part_000 272-280).
DeployOpen == cmd = "getdeploy" /\ OpenArchive(pkg.deploy)

\* Lines 247-252: with --output, WriteArchiveToFile; it first calls
\* utils.GetTempDir (not in src/), which creates a new directory.
Write ==
    /\ pc = "Write"
    /\ IF output = ""
       THEN pc' = "Stdout" /\ UNCHANGED <<nTmp, out>>
       ELSE \/ nTmp' = nTmp + 1 /\ pc' = "Create" /\ UNCHANGED out
            \/ Finish("error", "Error") /\ UNCHANGED nTmp
    /\ UNCHANGED <<cmd, named, pkg, output, reader, pos, file, tmp, stdout, tdDir>>

\* package.go 152-156: os.Create(Join(tmpDir, fileName + ".tmp")); the
\* directories of fileName do not exist under the new tmpDir.
Create ==
    /\ pc = "Create"
    /\ IF output \in BarePaths
       THEN tmp' = <<>> /\ pc' = "Copy" /\ UNCHANGED out
       ELSE Finish("createerror", "Error") /\ UNCHANGED tmp
    /\ UNCHANGED <<cmd, named, pkg, output, reader, pos, file, stdout, nTmp, tdDir>>

\* Variant: the loop forgets to advance.
CopyNoAdvance ==
    /\ pc = "Copy"
    /\ IF reader = {} THEN Finish("panic", "Panic") /\ UNCHANGED <<tmp, pos>>
       ELSE LET r == CHOOSE x \in reader : TRUE IN
            IF pos = Len(r) THEN pc' = "Chmod" /\ UNCHANGED <<tmp, pos, out>>
            ELSE \/ tmp' = Append(tmp, r[pos + 1]) /\ UNCHANGED <<pos, pc, out>>
                 \/ Finish("error", "Error") /\ UNCHANGED <<tmp, pos>>
    /\ UNCHANGED <<cmd, named, pkg, output, reader, file, stdout, nTmp, tdDir>>

\* Variant: the archive written straight to the output path.
CopyInPlace ==
    /\ pc = "Copy"
    /\ IF reader = {} THEN Finish("panic", "Panic") /\ UNCHANGED <<file, pos>>
       ELSE LET r == CHOOSE x \in reader : TRUE IN
            IF pos = Len(r) THEN pc' = "Chmod" /\ UNCHANGED <<file, pos, out>>
            ELSE \/ /\ file' = [file EXCEPT ![output] = SubSeq(r, 1, pos + 1)]
                    /\ pos' = pos + 1 /\ UNCHANGED <<pc, out>>
                 \/ Finish("error", "Error") /\ UNCHANGED <<file, pos>>
    /\ UNCHANGED <<cmd, named, pkg, output, reader, tmp, stdout, nTmp, tdDir>>

\* Lines 157-160: io.Copy, one chunk per step; the download can break off.
\* Reading a nil reader panics.
Copy ==
    /\ pc = "Copy"
    /\ IF reader = {} THEN Finish("panic", "Panic") /\ UNCHANGED <<tmp, pos>>
       ELSE LET r == CHOOSE x \in reader : TRUE IN
            IF pos = Len(r) THEN pc' = "Chmod" /\ UNCHANGED <<tmp, pos, out>>
            ELSE \/ tmp' = Append(tmp, r[pos + 1]) /\ pos' = pos + 1
                    /\ UNCHANGED <<pc, out>>
                 \/ Finish("error", "Error") /\ UNCHANGED <<tmp, pos>>
    /\ UNCHANGED <<cmd, named, pkg, output, reader, file, stdout, nTmp, tdDir>>

\* Lines 161-171: Chmod, then Rename over the output path.
Rename ==
    /\ pc = "Chmod"
    /\ \/ /\ file' = [file EXCEPT ![output] = tmp]
          /\ tmp' = Absent
          /\ Finish("written", "Done")
       \/ Finish("error", "Error") /\ UNCHANGED <<file, tmp>>
    /\ UNCHANGED <<cmd, named, pkg, output, reader, pos, stdout, nTmp, tdDir>>

\* Lines 249-251 of part_000: io.Copy to os.Stdout.
Stdout ==
    /\ pc = "Stdout"
    /\ IF reader = {} THEN Finish("panic", "Panic") /\ UNCHANGED <<stdout, pos>>
       ELSE LET r == CHOOSE x \in reader : TRUE IN
            IF pos = Len(r) THEN Finish("printed", "Done") /\ UNCHANGED <<stdout, pos>>
            ELSE \/ stdout' = Append(stdout, r[pos + 1]) /\ pos' = pos + 1
                    /\ UNCHANGED <<pc, out>>
                 \/ Finish("error", "Error") /\ UNCHANGED <<stdout, pos>>
    /\ UNCHANGED <<cmd, named, pkg, output, reader, file, tmp, nTmp, tdDir>>

\* DownloadToTempFile (package.go 115-126): DownloadURL, GetTempDir, then
\* os.Mkdir of the same directory.
TempDownload ==
    /\ pc = "Start" /\ cmd = "tempdl"
    /\ \/ /\ nTmp' = nTmp + 1 /\ tdDir' = nTmp + 1
          /\ pc' = "Mkdir" /\ UNCHANGED out
       \/ Finish("httperror", "Fatal") /\ UNCHANGED <<nTmp, tdDir>>
    /\ UNCHANGED <<cmd, named, pkg, output, reader, pos, file, tmp, stdout>>

\* Line 125-126: Mkdir fails on a directory that exists; CheckErr.
Mkdir ==
    /\ pc = "Mkdir"
    /\ IF tdDir <= nTmp THEN Finish("mkdirerror", "Fatal")
                        ELSE Finish("downloaded", "Done")
    /\ UNCHANGED <<cmd, named, pkg, output, reader, pos, file, tmp, stdout, nTmp, tdDir>>

\* The user or the system kills the process.
Kill ==
    /\ pc \notin {"Done", "Error", "Fatal", "Panic", "Killed"}
    /\ Finish("killed", "Killed")
    /\ UNCHANGED <<cmd, named, pkg, output, reader, pos, file, tmp, stdout, nTmp, tdDir>>

Terminated ==
    /\ pc \in {"Done", "Error", "Fatal", "Panic", "Killed"}
    /\ UNCHANGED vars

Next ==
    \/ SourcePkgGet \/ DeployPkgGet \/ SourceOpen \/ DeployOpen \/ Write \/ Create \/ Copy \/ Rename \/ Stdout
    \/ TempDownload \/ Mkdir \/ Kill \/ Terminated

Spec == Init /\ [][Next]_vars

-----------------------------------------------------------------------------
Terminals == {"Done", "Error", "Fatal", "Panic", "Killed"}

TypeOK ==
    /\ pc \in {"Start", "Open", "Write", "Create", "Copy", "Chmod", "Stdout",
               "Mkdir"} \cup Terminals
    /\ cmd \in {"getsrc", "getdeploy", "tempdl"}
    /\ named \in BOOLEAN
    /\ pkg \in Packages /\ output \in Outputs
    /\ reader \subseteq Seq(Chunks) /\ Cardinality(reader) <= 1
    /\ file \in [DOMAIN OldFile -> Seq(Chunks) \cup {Absent}]
    /\ stdout \in Seq(Chunks)
    \* the copy loop has written exactly the chunks it has counted
    /\ tmp = Absent \/ Len(tmp) = pos
    /\ pc = "Stdout" => Len(stdout) = pos
    /\ nTmp \in Nat /\ tdDir \in 0..nTmp

\* What the command is asked to fetch: the literal, or the blob the
\* storage service holds under the URL's id.
Expected == LET a == pkg[[getsrc |-> "src", getdeploy |-> "deploy"][cmd]] IN
            IF a.type = "literal" THEN a.literal ELSE Blobs[a.id]

\* Whatever step the command is killed or fails at, the file at every
\* output path is what it was, or the whole archive: WriteArchiveToFile
\* (package.go 146-172) fills a .tmp file and renames it over the target.
OutputAllOrNothing ==
    \A o \in DOMAIN file :
        file[o] = OldFile[o] \/ (cmd # "tempdl" /\ file[o] = Expected)

\* A getsrc / getdeploy that succeeds has written or printed exactly the
\* archive of the kind asked for, read from the record or downloaded
\* through the controller's storage proxy (spec 8.8).
RetrievedIsStored ==
    /\ out = "written" => file[output] = Expected
    /\ out = "printed" => stdout = Expected
====
