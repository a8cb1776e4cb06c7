---------------------------- MODULE MCLogDecoder ----------------------------
(***************************************************************************)
(* Small files for LogDecoder, and that all their lines come out.          *)
(***************************************************************************)
EXTENDS LogDecoder, SequencesExt

CONSTANTS PlainLength, Utf16Length, ContainerLength  \* bounds: bytes of a file

FilesOf(parser, handlers, alphabet, length) ==
  [parser : {parser}, handler : handlers, input : [1..length -> alphabet]]

\* The lines of a container all have a header.
SmallFiles ==
  FilesOf("noop", {"single", "multi", "try"}, {"x", "b", "n"}, PlainLength)
    \cup FilesOf("utf16", {"single"}, {"0", "b", "n"}, Utf16Length)
    \cup {f \in FilesOf("container", {"single", "multi"}, {"x", "p", "f", "n"}, ContainerLength) :
            \A k \in 1..ContainerLength : f.input[k] \in {"p", "f"} <=> (k = 1 \/ f.input[k - 1] = "n")}

\* Every line of the file is forwarded in the end, the last one of an entry
\* as well, which only a timer ends (flushTimer), unless the tailer is stopped.
LinesComeOut ==
  <>[](life = "done" \/ decodedOffset = start + FoldSeq(LAMBDA m, sum : m.raw + sum, 0, FileLines))

=============================================================================
