---------------------------- MODULE ArchiveBuilder ----------------------------
(***************************************************************************)
(* One call of createArchive outside spec mode (src/unnamed/part_000) and *)
(* the UploadArchive it ends with (src/pkg/fission-cli/cmd/package/        *)
(* package.go): the inputs' globs are checked, the archive file is chosen *)
(* or built by makeArchiveFileIfNeeded, and it is embedded as a literal    *)
(* or uploaded to the storage service with its checksum.  The user may    *)
(* edit an input file while the command runs.                              *)
(***************************************************************************)
EXTENDS Naturals, Sequences, FiniteSets, SequencesExt

CONSTANTS
    Files,      \* local files the globs can match
    ZipFiles,   \* those that are already zip archives
    Size,       \* Size[f]: the size of file f
    Limit,      \* types.ArchiveLiteralSizeLimit
    URL,        \* an http(s):// input
    Inputs,     \* the input lists (--src / --deploy values) to try
    MaxEdits,   \* bound on the edits of each file during the command
    InitSpecs,  \* the ArchiveUploadSpecs the spec directory may hold
    NewAus      \* the random name archiveName gives a new upload spec

\* An input is URL or a glob, given as the sequence of files it matches.
ASSUME ZipFiles \subseteq Files /\ Size \in [Files -> Nat] /\ Limit \in Nat
ASSUME \A in \in Inputs : \A i \in DOMAIN in : in[i] = URL \/ in[i] \in Seq(Files)

VARIABLES
    pc,        \* the next step of the call
    specMode,  \* a specFile was given: record an upload spec, upload nothing
    specs,     \* the ArchiveUploadSpecs in the spec directory
    input,     \* includeFiles
    noZip,     \* the noZip flag
    path,      \* archivePath: an input file, or the new zip
    zipBytes,  \* content of the zip makeArchiveFileIfNeeded built
    ver,       \* ver[f]: how many times the user has edited f
    blobs,     \* the archives in the storage service, by upload id
    result     \* the fv1.Archive returned

vars == <<pc, specMode, specs, input, noZip, path, zipBytes, ver, blobs, result>>

-----------------------------------------------------------------------------
\* The bytes of a file as they are now.
FileBytes(f) == [file |-> f, ver |-> ver[f]]

\* SHA-256, injective on the contents the model distinguishes.  An archive
\* holds the set of its checksums: none, or one.
Checksum(b) == [sha256 |-> b]

NewZip == "zip"

\* utils.FindAllGlobs (not in src/): the files each glob matches, in
\* order; an http(s) URL names no local file and matches nothing.
FindAllGlobs(in) ==
    FlattenSeq([i \in DOMAIN in |-> IF in[i] = URL THEN <<>> ELSE in[i]])

\* createArchive: the non-URL inputs that match no file.
Unmatched(in) == {i \in DOMAIN in : in[i] # URL /\ in[i] = <<>>}

\* makeArchiveFileIfNeeded: one file that is a zip, or noZip, or a URL,
\* is used as it is.
PassThrough(files, nz) ==
    /\ Len(files) = 1
    /\ files[1] \in ZipFiles \/ nz \/ files[1] = URL

\* utils.MakeArchive (not in src/): a zip of every matched file; its size
\* is taken as the sum of theirs.
ZipOf(files) == {FileBytes(files[i]) : i \in DOMAIN files}

SizeOf(p, files) ==
    IF p = NewZip THEN FoldLeft(LAMBDA acc, f : acc + Size[f], 0, files)
    ELSE Size[p]

BytesOf(p) == IF p = NewZip THEN [zip |-> zipBytes] ELSE FileBytes(p)

\* Variant: the literal bound taken as inclusive.
IsLiteralUpTo(size) == size <= Limit

\* UploadArchive: an archive smaller than the limit is embedded.
IsLiteral(size) == size < Limit

-----------------------------------------------------------------------------
Init ==
    /\ pc = "Start"
    /\ specMode \in BOOLEAN
    /\ specs \in InitSpecs
    /\ input \in Inputs
    /\ noZip \in BOOLEAN /\ specMode \in BOOLEAN
    /\ specs \subseteq [name : {m.name : m \in UNION InitSpecs} \cup {NewAus}, globs : Inputs]
    /\ path = NewZip
    /\ zipBytes = {}
    /\ ver = [f \in Files |-> 0]
    /\ blobs = <<>>
    /\ result = [type |-> "none"]

\* createArchive, lines 463-483: every non-URL input must match a file.
CheckGlobs ==
    /\ pc = "Start"
    /\ pc' = CASE Unmatched(input) # {} -> "Fatal"
              [] specMode                -> "Spec"
              [] OTHER                   -> "Make"
    /\ UNCHANGED <<specMode, specs, input, noZip, path, zipBytes, ver, blobs, result>>

\* Variant: the name of a matching upload spec is not taken over.
SpecStepNoReuse ==
    /\ pc = "Spec"
    /\ \/ /\ \E m \in specs : m.globs = input
          /\ result' = [type |-> "url", url |-> [aus |-> NewAus], checksum |-> {}]
          /\ UNCHANGED specs
       \/ /\ ~\E m \in specs : m.globs = input
          /\ specs' = specs \cup {[name |-> NewAus, globs |-> input]}
          /\ result' = [type |-> "url", url |-> [aus |-> NewAus], checksum |-> {}]
    /\ pc' = "Done"
    /\ UNCHANGED <<specMode, input, noZip, path, zipBytes, ver, blobs>>

\* createArchive in spec mode, lines 485-506: an upload spec with the
\* input globs; SpecExists compares specs only, so a recorded spec with
\* the same globs is reused by name, else the new one is saved.  The
\* archive is the URL archive://<name>.  ReadSpecs or SpecSave may fail.
SpecStep ==
    /\ pc = "Spec"
    /\ \/ /\ \E m \in specs :
                /\ m.globs = input
                /\ result' = [type |-> "url", url |-> [aus |-> m.name], checksum |-> {}]
          /\ UNCHANGED specs
          /\ pc' = "Done"
       \/ /\ ~\E m \in specs : m.globs = input
          /\ specs' = specs \cup {[name |-> NewAus, globs |-> input]}
          /\ result' = [type |-> "url", url |-> [aus |-> NewAus], checksum |-> {}]
          /\ pc' = "Done"
       \/ pc' = "Fatal" /\ UNCHANGED <<specs, result>>
    /\ UNCHANGED <<specMode, input, noZip, path, zipBytes, ver, blobs>>

\* makeArchiveFileIfNeeded: pass one file through or build a new zip of
\* the inputs in a temp directory.  An input that is a URL is handed to
\* MakeArchive as a path; whether that fails is up to MakeArchive.
Make ==
    LET files == FindAllGlobs(input) IN
    /\ pc = "Make"
    /\ \/ /\ PassThrough(files, noZip)
          /\ path' = files[1]
          /\ UNCHANGED zipBytes
          /\ pc' = "Stat"
       \/ /\ ~PassThrough(files, noZip)
          /\ path' = NewZip
          /\ zipBytes' = ZipOf(files)
          /\ pc' = "Stat"
       \/ /\ ~PassThrough(files, noZip)
          /\ \E i \in DOMAIN input : input[i] = URL
          /\ pc' = "Fatal"
          /\ UNCHANGED <<path, zipBytes>>
    /\ UNCHANGED <<specMode, specs, input, noZip, ver, blobs, result>>

\* UploadArchive, line 54: FileSize decides literal or upload.
Stat ==
    /\ pc = "Stat"
    /\ pc' = IF IsLiteral(SizeOf(path, FindAllGlobs(input))) THEN "Read"
                                                            ELSE "Upload"
    /\ UNCHANGED <<specMode, specs, input, noZip, path, zipBytes, ver, blobs, result>>

\* Lines 55-56: GetContents reads the file into the literal.
Read ==
    /\ pc = "Read"
    /\ result' = [type |-> "literal", literal |-> BytesOf(path)]
    /\ pc' = "Done"
    /\ UNCHANGED <<specMode, specs, input, noZip, path, zipBytes, ver, blobs>>

\* Lines 58-63: ssClient.Upload reads the file and stores it.
Upload ==
    /\ pc = "Upload"
    /\ blobs' = Append(blobs, BytesOf(path))
    /\ pc' = "SvcUrl"
    /\ UNCHANGED <<specMode, specs, input, noZip, path, zipBytes, ver, result>>

\* Variant: the id taken one past the upload's.
SvcUrlNext ==
    /\ pc = "SvcUrl"
    /\ result' = [type |-> "url", url |-> Len(blobs) + 1, checksum |-> {}]
    /\ pc' = "Checksum"
    /\ UNCHANGED <<specMode, specs, input, noZip, path, zipBytes, ver, blobs>>

\* Lines 65-75: GetSvcURL, then the URL of the upload's id on the
\* storage service's own address.
SvcUrl ==
    /\ pc = "SvcUrl"
    /\ result' = [type |-> "url", url |-> Len(blobs), checksum |-> {}]
    /\ pc' = "Checksum"
    /\ UNCHANGED <<specMode, specs, input, noZip, path, zipBytes, ver, blobs>>

\* Lines 77-80: FileChecksum opens and reads the file again.
ChecksumStep ==
    /\ pc = "Checksum"
    /\ result' = [result EXCEPT !.checksum = {Checksum(BytesOf(path))}]
    /\ pc' = "Done"
    /\ UNCHANGED <<specMode, specs, input, noZip, path, zipBytes, ver, blobs>>

\* A call of lines 62, 65 or 77 fails and CheckErr ends the command.  An
\* upload whose reply is lost may have been stored.
Fail ==
    /\ pc \in {"Upload", "SvcUrl", "Checksum"}
    /\ pc' = "Fatal"
    /\ \/ UNCHANGED blobs
       \/ pc = "Upload" /\ blobs' = Append(blobs, BytesOf(path))
    /\ UNCHANGED <<specMode, specs, input, noZip, path, zipBytes, ver, result>>

\* The user edits an input file while the command runs.
Edit(f) ==
    /\ pc \notin {"Done", "Fatal"}
    /\ ver[f] < MaxEdits
    /\ ver' = [ver EXCEPT ![f] = @ + 1]
    /\ UNCHANGED <<pc, specMode, specs, input, noZip, path, zipBytes, blobs, result>>

Terminated ==
    /\ pc \in {"Done", "Fatal"}
    /\ UNCHANGED vars

Next ==
    \/ CheckGlobs \/ SpecStep \/ Make \/ Stat \/ Read \/ Upload \/ SvcUrl \/ ChecksumStep
    \/ Fail \/ (\E f \in Files : Edit(f)) \/ Terminated

Spec == Init /\ [][Next]_vars

-----------------------------------------------------------------------------
Contents == [file : Files, ver : 0..MaxEdits] \cup [zip : SUBSET [file : Files, ver : 0..MaxEdits]]

TypeOK ==
    /\ pc \in {"Start", "Spec", "Make", "Stat", "Read", "Upload", "SvcUrl", "Checksum",
               "Done", "Fatal"}
    /\ noZip \in BOOLEAN /\ specMode \in BOOLEAN
    /\ specs \subseteq [name : {m.name : m \in UNION InitSpecs} \cup {NewAus}, globs : Inputs]
    /\ path \in Files \cup {NewZip}
    /\ ver \in [Files -> 0..MaxEdits]
    /\ blobs \in Seq(Contents)
    /\ \/ result = [type |-> "none"]
       \/ result \in [type : {"literal"}, literal : Contents]
       \* a URL names an upload that is in the store
       \/ /\ result.type = "url"
          /\ IF specMode THEN result.url \in [aus : {m.name : m \in specs}]
                         ELSE result.url \in DOMAIN blobs
          /\ result.checksum \in SUBSET [sha256 : Contents]
          /\ Cardinality(result.checksum) <= 1

\* The reference archive of spec 4.1-4.3 (rules of the Archive Builder)
\* and 8.1-8.2, from the input list alone.  URLs are never bundled; a sole
\* URL is the archive's location.  One resulting file that is a zip, or
\* any one file under noZip, is used verbatim; otherwise all resulting
\* files are zipped.  The result is literal iff its size is below Limit.
Matched(in) == UNION {ToSet(in[i]) : i \in {j \in DOMAIN in : in[j] # URL}}

Shape(b) == IF "zip" \in DOMAIN b THEN [zip |-> {x.file : x \in b.zip}]
                                  ELSE [file |-> b.file]

RefShape(in, nz) ==
    LET S == Matched(in) IN
    IF Cardinality(S) = 1 /\ (S \subseteq ZipFiles \/ nz)
    THEN [file |-> CHOOSE f \in S : TRUE]
    ELSE [zip |-> S]

RefLiteral(in, nz) ==
    LET S == Matched(in) IN
    IF Cardinality(S) = 1 /\ (S \subseteq ZipFiles \/ nz)
    THEN Size[CHOOSE f \in S : TRUE] < Limit
    ELSE MapThenSumSet(LAMBDA f : Size[f], S) < Limit

\* A command that ends with an archive ends with the reference one: a
\* sole URL is passed through as a URL archive with no checksum; else the
\* archive is literal iff the reference is, holds the reference's files,
\* and a URL archive names an upload of them.  Covers createArchive's glob
\* check, makeArchiveFileIfNeeded's pass-through and UploadArchive's limit.
ArchiveMatchesReference ==
    pc = "Done" /\ ~specMode =>
        IF input = <<URL>>
        THEN result.type = "url" /\ result.url = URL /\ result.checksum = {}
        ELSE /\ Unmatched(input) = {}
             /\ result.type = IF RefLiteral(input, noZip) THEN "literal" ELSE "url"
             /\ result.type = "literal" => Shape(result.literal) = RefShape(input, noZip)
             /\ result.type = "url" =>
                  /\ Shape(blobs[result.url]) = RefShape(input, noZip)
                  /\ {Shape(c.sha256) : c \in result.checksum} = {RefShape(input, noZip)}

\* Spec 4.1, spec mode: the spec directory never holds two upload specs
\* with the same globs, and the archive a spec-mode call returns names the
\* upload spec of exactly its inputs, whether createArchive found it
\* through SpecExists or saved it.
SpecArchiveDeduplicated ==
    /\ \A m1, m2 \in specs : m1.globs = m2.globs => m1 = m2
    /\ pc = "Done" /\ specMode =>
         \E m \in specs : m.globs = input /\ result.url = [aus |-> m.name]
====
