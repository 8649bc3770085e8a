---------------------------- MODULE MCMergeFiles ----------------------------
EXTENDS MergeFiles

\* Up to three input names of up to three bytes, buffers of one to three
\* bytes: a refill that fills the buffer exactly, a short one, and one that
\* returns nothing, at a file's end with and without a final newline; no
\* name, and one name too many; -t 0, which is rejected.
MCN == 3
MCArgCounts == {0, 1, 2, 3, 17}
MCMaxLen == 3
MCBufSizes == 0..3
=============================================================================
