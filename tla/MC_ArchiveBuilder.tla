--------------------------- MODULE MC_ArchiveBuilder ---------------------------
(* Model values and small inputs for ArchiveBuilder.                        *)
EXTENDS ArchiveBuilder, TLC

CONSTANTS a, b, z, u, n1, nNew

\* a and b are plain files, z a zip; a and b fit in a literal alone but
\* not together, z is exactly at the limit.
MCFiles == {a, b, z}
MCZipFiles == {z}
MCLimit == 2
MCSize == [f \in MCFiles |-> IF f = z THEN 2 ELSE 1]

\* Input lists: one file, one zip, one glob with two matches, two globs,
\* an unmatched glob, a URL beside a file, a zip beside a file.
MCInputs ==
    { <<<<a>>>>, <<<<z>>>>, <<<<a, b>>>>, <<<<a>>, <<b>>>>, <<<<>>>>,
      <<u, <<a>>>>, <<<<z>>, <<a>>>> }

\* The sole URL input of spec 8.2.
MCUrlInputs == { <<u>> }

\* A plain file uploaded through noZip, or a zip.
MCUploadInputs == { <<<<z>>>> }

\* The spec directory is empty, or holds an upload spec n1 for <<a>>.
MCInitSpecs == { {}, {[name |-> n1, globs |-> <<<<a>>>>]} }
====
