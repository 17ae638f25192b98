-------------------------- MODULE MC_ArchiveRetrieval --------------------------
(* Packages, blobs and output paths for ArchiveRetrieval.                   *)
EXTENDS ArchiveRetrieval

CONSTANTS absent, i1, i2

MCChunks == {"l1", "l2", "b1", "b2", "o1"}
MCBlobs == [i \in {i1, i2} |-> IF i = i1 THEN <<"b1", "b2">> ELSE <<"b1">>]
Lit(c) == [type |-> "literal", literal |-> c]
Url(i) == [type |-> "url", id |-> i]

\* Source and deployment always differ, so a command reading the wrong
\* one is seen.
MCPackages == { [src |-> Lit(<<"l1", "l2">>), deploy |-> Url(i1)],
                [src |-> Url(i2), deploy |-> Lit(<<"l1">>)] }

\* stdout, a bare name that exists already, a name in a subdirectory.
MCOutputs == {"", "out.zip", "d/out.zip"}
MCBarePaths == {"out.zip"}
MCOldFile == [o \in {"out.zip", "d/out.zip"} |-> IF o = "out.zip" THEN <<"o1">> ELSE absent]
====
