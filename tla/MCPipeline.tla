----------------------------- MODULE MCPipeline -----------------------------
EXTENDS Pipeline

\* Three items through pipes of one item: both pipes fill, so merge_files
\* and tee block on writes and tee and exec_lines on reads.
MCItems == 3
MCCap == 1

\* Each limit of merge_tee_exec and its children at and just past both
\* ends; DEFAULT_BUFSIZE and DEFAULT_NUMPROC stand for an absent option.
MCTArgs == {0, 1, 1024, 134217728, 134217729}
MCPArgs == {0, 1, 8, 9}
MCFileCounts == {0, 1, 16, 17}
=============================================================================
