------------------------------ MODULE Pipeline ------------------------------
(***************************************************************************)
(* src/syscalls/merge_tee_exec.c: merge_files | tee LOGFILE | exec_lines. *)
(* The parent creates the pipe "mt" (merge_files to tee), forks            *)
(* merge_files, creates "te" (tee to exec_lines), forks tee, closes both   *)
(* ends of mt, forks exec_lines, closes both ends of te, and waits three   *)
(* times.  A child inherits every pipe end its parent holds at the fork,   *)
(* closes the ones it does not use and execs its program.                  *)
(*                                                                         *)
(* A pipe end is open while some process holds a descriptor on it.  A read *)
(* of an empty pipe blocks while its write end is open and returns EOF     *)
(* once it is not; a write to a full pipe blocks; a write to a pipe whose  *)
(* read end is closed everywhere kills the writer (SIGPIPE).  The data are *)
(* the numbers 1..Items, as merge_files writes them; tee and exec_lines    *)
(* are modelled by what they do with their standard input and output.     *)
(* pipe(), fork(), close(), dup2() and execvp() may fail, and the process  *)
(* then exits with EXIT_FAILURE, as the code says.                         *)
(*                                                                         *)
(* Before all this, init_configuration validates the command line, and    *)
(* each program execvp starts parses the argv built for it: merge_files   *)
(* the -t and the input names, exec_lines the -p, each with its own copy  *)
(* of the limits.  A command line is abstracted to what the checks read:  *)
(* the value atoi gives for -t and -p (the defaults stand for an absent   *)
(* option), whether -l and -h are given, the number of input names and    *)
(* whether any of them is readable.                                       *)
(***************************************************************************)
EXTENDS Naturals, Sequences

CONSTANTS
  Items,   \* the number of data items merge_files writes
  Cap,     \* the capacity of a pipe, in items
  TArgs,   \* the values of -t explored (atoi's result)
  PArgs,   \* the values of -p explored
  FileCounts  \* the numbers of input names explored

Children == {"merge", "tee", "exec"}
Procs == Children \cup {"parent"}
Pipes == {"mt", "te"}
Ends == {"mt_r", "mt_w", "te_r", "te_w"}
ReadEnd == [p \in Pipes |-> IF p = "mt" THEN "mt_r" ELSE "te_r"]
WriteEnd == [p \in Pipes |-> IF p = "mt" THEN "mt_w" ELSE "te_w"]

VARIABLES
  fds,     \* fds[q]: the pipe ends process q holds a descriptor on
  buf,     \* buf[p]: the items in pipe p
  ppc,     \* the parent's place in merge_tee_exec
  waits,   \* the wait(NULL) calls that have returned
  cpc,     \* cpc[c]: "none", "setup" (forked, before execvp), "run",
           \* "exited" (a zombie) or "reaped"
  sent,    \* the items merge_files has written
  hold,    \* the item tee has read and not yet written, or 0
  got,     \* the items exec_lines has read, in order
  failed,  \* history: some system call failed or a process was killed
  cmd,     \* the command line
  usage    \* history: the children that rejected the argv they were given

vars == <<fds, buf, ppc, waits, cpc, sent, hold, got, failed, cmd, usage>>

Open(e) == \E q \in Procs : e \in fds[q]

\* merge_tee_exec.c's limits (SpecBufferSizes, SpecProcessNumbers,
\* SpecInputFiles).
MIN_BUFSIZE == 1
MAX_BUFSIZE == 134217728
MIN_NUMPROC == 1
MAX_NUMPROC == 8
MIN_INPUT_FILES == 1
MAX_INPUT_FILES == 16

\* The command lines: -t, -p, -l given, -h given first, the number of input
\* names, and whether access(R_OK) accepts one of them.
CommandLines == [t : TArgs, p : PArgs, l : BOOLEAN, h : BOOLEAN,
                 k : FileCounts, r : BOOLEAN]

\* Mutant: the file-count check lets one input name too many through.
MteRejectsPastMax(c) ==
  \/ c.t < MIN_BUFSIZE \/ c.t > MAX_BUFSIZE
  \/ c.p < MIN_NUMPROC \/ c.p > MAX_NUMPROC
  \/ ~c.l
  \/ c.k < MIN_INPUT_FILES \/ c.k > MAX_INPUT_FILES + 1

\* init_configuration rejects the command line and exits with
\* EXIT_FAILURE: a -t or -p out of range, no -l, too few or too many inputs.
MteRejects(c) ==
  \/ c.t < MIN_BUFSIZE \/ c.t > MAX_BUFSIZE
  \/ c.p < MIN_NUMPROC \/ c.p > MAX_NUMPROC
  \/ ~c.l
  \/ c.k < MIN_INPUT_FILES \/ c.k > MAX_INPUT_FILES

\* merge_files' init_configuration on argv {"-t", to_string(bufsize),
\* the input names}: its own limits, 1..134217728 and 1..16 names.
\* to_string prints at most 10 digits and a sign into 16 bytes, so atoi
\* reads back the value printed.
MergeFilesAccepts(t, k) == t \in 1..134217728 /\ k \in 1..16

\* exec_lines' parse_args on argv {"-p", to_string(numproc)}: 1..8.
ExecLinesAccepts(p) == p \in 1..8

Init ==
  /\ fds = [q \in Procs |-> {}]
  /\ buf = [p \in Pipes |-> <<>>]
  /\ ppc = "config"
  /\ waits = 0
  /\ cpc = [c \in Children |-> "none"]
  /\ sent = 0
  /\ hold = 0
  /\ got = <<>>
  /\ failed = FALSE
  /\ cmd \in CommandLines
  /\ usage = {}

\* exit(): the kernel closes every descriptor of the process.
Exit(q) == fds' = [fds EXCEPT ![q] = {}]

\* init_configuration: -h prints the usage and exits with EXIT_SUCCESS
\* (getopt stops there); a rejected command line, or a failed calloc of
\* the input names, exits with EXIT_FAILURE; otherwise main goes on to
\* pipe().
Configure ==
  /\ ppc = "config"
  /\ \/ cmd.h /\ ppc' = "exited" /\ UNCHANGED failed
     \/ ~cmd.h /\ MteRejects(cmd) /\ ppc' = "exited" /\ failed' = TRUE
     \/ ~cmd.h /\ ~MteRejects(cmd)
        /\ \/ ppc' = "exited" /\ failed' = TRUE
           \/ ppc' = "pipe_mt" /\ UNCHANGED failed
  /\ UNCHANGED <<fds, buf, waits, cpc, sent, hold, got, cmd, usage>>

\* pipe() or fork() fails: perror(...); exit(EXIT_FAILURE) in the parent.
ParentFails ==
  /\ ppc \in {"pipe_mt", "fork_merge", "pipe_te", "fork_tee", "fork_exec"}
  /\ Exit("parent")
  /\ ppc' = "exited"
  /\ failed' = TRUE
  /\ UNCHANGED <<buf, waits, cpc, sent, hold, got, cmd, usage>>

\* pipe(pipefd) succeeds: the parent holds both ends.
MakePipe(p, from, to) ==
  /\ ppc = from
  /\ fds' = [fds EXCEPT !["parent"] = @ \cup {ReadEnd[p], WriteEnd[p]}]
  /\ ppc' = to
  /\ UNCHANGED <<buf, waits, cpc, sent, hold, got, failed, cmd, usage>>

\* fork() succeeds: the child starts with a copy of the parent's
\* descriptors.
Fork(c, from, to) ==
  /\ ppc = from
  /\ cpc' = [cpc EXCEPT ![c] = "setup"]
  /\ fds' = [fds EXCEPT ![c] = fds["parent"]]
  /\ ppc' = to
  /\ UNCHANGED <<buf, waits, sent, hold, got, failed, cmd, usage>>

\* close(pipefd[0]) || close(pipefd[1]).  Both ends are open in the parent
\* here, so neither close fails and the error path is not reached.
ClosePipe(p, from, to) ==
  /\ ppc = from
  /\ fds' = [fds EXCEPT !["parent"] = @ \ {ReadEnd[p], WriteEnd[p]}]
  /\ ppc' = to
  /\ UNCHANGED <<buf, waits, cpc, sent, hold, got, failed, cmd, usage>>

\* Mutant: the parent closes mt only after it has forked exec_lines.
ParentStepLateClose ==
  \/ MakePipe("mt", "pipe_mt", "fork_merge")
  \/ Fork("merge", "fork_merge", "pipe_te")
  \/ MakePipe("te", "pipe_te", "fork_tee")
  \/ Fork("tee", "fork_tee", "close_mt")
  \/ Fork("exec", "close_mt", "fork_exec")
  \/ ClosePipe("mt", "fork_exec", "close_te")
  \/ ClosePipe("te", "close_te", "wait")

\* Mutant: the parent closes only the read end of te.
ParentStepKeepsTeWrite ==
  \/ MakePipe("mt", "pipe_mt", "fork_merge")
  \/ Fork("merge", "fork_merge", "pipe_te")
  \/ MakePipe("te", "pipe_te", "fork_tee")
  \/ Fork("tee", "fork_tee", "close_mt")
  \/ ClosePipe("mt", "close_mt", "fork_exec")
  \/ Fork("exec", "fork_exec", "close_te")
  \/ /\ ppc = "close_te"
     /\ fds' = [fds EXCEPT !["parent"] = @ \ {"te_r"}]
     /\ ppc' = "wait"
     /\ UNCHANGED <<buf, waits, cpc, sent, hold, got, failed, cmd, usage>>

\* merge_tee_exec up to the wait loop, in the code's order.
ParentStep ==
  \/ MakePipe("mt", "pipe_mt", "fork_merge")
  \/ Fork("merge", "fork_merge", "pipe_te")
  \/ MakePipe("te", "pipe_te", "fork_tee")
  \/ Fork("tee", "fork_tee", "close_mt")
  \/ ClosePipe("mt", "close_mt", "fork_exec")
  \/ Fork("exec", "fork_exec", "close_te")
  \/ ClosePipe("te", "close_te", "wait")

\* for (i = 1; i <= TOTAL_PROGRAMS; i++) wait(NULL): reap an exited child.
\* The loop is reached only after the three forks succeeded, so each call
\* has a child and wait's -1 error path is not reached.
Wait ==
  /\ ppc = "wait"
  /\ \E c \in Children :
       /\ cpc[c] = "exited"
       /\ cpc' = [cpc EXCEPT ![c] = "reaped"]
       /\ waits' = waits + 1
       /\ ppc' = IF waits + 1 = 3 THEN "done" ELSE "wait"
  /\ UNCHANGED <<fds, buf, sent, hold, got, failed, cmd, usage>>

-----------------------------------------------------------------------------
\* The ends each child closes before execvp (its dup2 onto stdin or stdout
\* and the close of the original leave that end held once).
Closes == [c \in Children |-> CASE c = "merge" -> {"mt_r"}
                                [] c = "tee"   -> {"mt_w", "te_r"}
                                [] c = "exec"  -> {"te_w"}]

\* A child that exits: its descriptors close and it becomes a zombie.
ChildExit(c, fail) ==
  /\ Exit(c)
  /\ cpc' = [cpc EXCEPT ![c] = "exited"]
  /\ failed' = (failed \/ fail)

\* The child's closes and dup2s, then execvp: it runs its program, or a
\* call fails and it exits with EXIT_FAILURE.
Setup(c) ==
  /\ cpc[c] = "setup"
  /\ \/ /\ Closes[c] \subseteq fds[c]
        /\ fds' = [fds EXCEPT ![c] = @ \ Closes[c]]
        /\ cpc' = [cpc EXCEPT ![c] = "start"]
        /\ UNCHANGED failed
     \/ ChildExit(c, TRUE)
  /\ UNCHANGED <<buf, ppc, waits, sent, hold, got, cmd, usage>>

\* The program execvp started parses the argv merge_tee_exec built for it
\* (merge_files_argv, tee_argv, exec_lines_argv): merge_files and
\* exec_lines exit with EXIT_FAILURE on an option out of their limits
\* (usage records it); merge_files also when access() accepts no input,
\* and when a calloc fails.
\* tee takes any file name.
Start(c) ==
  /\ cpc[c] = "start"
  /\ LET ok == CASE c = "merge" -> MergeFilesAccepts(cmd.t, cmd.k)
                  [] c = "exec"  -> ExecLinesAccepts(cmd.p)
                  [] c = "tee"   -> TRUE
     IN  \/ /\ ok /\ (c = "merge" => cmd.r)
            /\ cpc' = [cpc EXCEPT ![c] = "run"]
            /\ UNCHANGED <<fds, failed, usage>>
         \/ /\ ~ok
            /\ ChildExit(c, TRUE) /\ usage' = usage \cup {c}
         \/ /\ ok /\ c = "merge"
            /\ ChildExit(c, TRUE) /\ UNCHANGED usage
  /\ UNCHANGED <<buf, ppc, waits, sent, hold, got, cmd>>

\* A write to pipe p blocks while it is full and kills the writer with
\* SIGPIPE when no process holds its read end.
CanWrite(p) == Open(ReadEnd[p]) /\ Len(buf[p]) < Cap
Broken(p) == ~Open(ReadEnd[p])

\* merge_files writes its items to stdout (write_all), then exits.
MergeRun ==
  /\ cpc["merge"] = "run"
  /\ \/ /\ sent < Items /\ CanWrite("mt")
        /\ buf' = [buf EXCEPT !["mt"] = Append(@, sent + 1)]
        /\ sent' = sent + 1
        /\ UNCHANGED <<fds, cpc, failed>>
     \/ /\ sent < Items /\ Broken("mt")
        /\ ChildExit("merge", TRUE) /\ UNCHANGED <<buf, sent>>
     \/ /\ sent = Items
        /\ ChildExit("merge", FALSE) /\ UNCHANGED <<buf, sent>>
  /\ UNCHANGED <<ppc, waits, hold, got, cmd, usage>>

\* tee copies stdin to stdout (and to the log file) until EOF.
TeeRun ==
  /\ cpc["tee"] = "run"
  /\ \/ /\ hold = 0 /\ buf["mt"] # <<>>
        /\ hold' = Head(buf["mt"])
        /\ buf' = [buf EXCEPT !["mt"] = Tail(@)]
        /\ UNCHANGED <<fds, cpc, failed>>
     \/ /\ hold = 0 /\ buf["mt"] = <<>> /\ ~Open("mt_w")
        /\ ChildExit("tee", FALSE) /\ UNCHANGED <<buf, hold>>
     \/ /\ hold # 0 /\ CanWrite("te")
        /\ buf' = [buf EXCEPT !["te"] = Append(@, hold)]
        /\ hold' = 0
        /\ UNCHANGED <<fds, cpc, failed>>
     \/ /\ hold # 0 /\ Broken("te")
        /\ ChildExit("tee", TRUE) /\ UNCHANGED <<buf, hold>>
  /\ UNCHANGED <<ppc, waits, sent, got, cmd, usage>>

\* Mutant: exec_lines takes an empty pipe for the end of its input.
ExecRunEarlyEof ==
  /\ cpc["exec"] = "run"
  /\ \/ /\ buf["te"] # <<>>
        /\ got' = Append(got, Head(buf["te"]))
        /\ buf' = [buf EXCEPT !["te"] = Tail(@)]
        /\ UNCHANGED <<fds, cpc, failed>>
     \/ /\ buf["te"] = <<>>
        /\ ChildExit("exec", FALSE) /\ UNCHANGED <<buf, got>>
  /\ UNCHANGED <<ppc, waits, sent, hold, cmd, usage>>

\* exec_lines reads stdin until read() returns 0, then exits.
ExecRun ==
  /\ cpc["exec"] = "run"
  /\ \/ /\ buf["te"] # <<>>
        /\ got' = Append(got, Head(buf["te"]))
        /\ buf' = [buf EXCEPT !["te"] = Tail(@)]
        /\ UNCHANGED <<fds, cpc, failed>>
     \/ /\ buf["te"] = <<>> /\ ~Open("te_w")
        /\ ChildExit("exec", FALSE) /\ UNCHANGED <<buf, got>>
  /\ UNCHANGED <<ppc, waits, sent, hold, cmd, usage>>

Next ==
  \/ Configure \/ ParentStep \/ ParentFails \/ Wait
  \/ \E c \in Children : Setup(c) \/ Start(c)
  \/ MergeRun \/ TeeRun \/ ExecRun

\* Each process is scheduled by the kernel: weak fairness per process.
Spec ==
  /\ Init /\ [][Next]_vars
  /\ WF_vars(Configure) /\ WF_vars(ParentStep) /\ WF_vars(Wait)
  /\ \A c \in Children : WF_vars(Setup(c)) /\ WF_vars(Start(c))
  /\ WF_vars(MergeRun) /\ WF_vars(TeeRun) /\ WF_vars(ExecRun)

-----------------------------------------------------------------------------
\* Once the parent is in its wait loop and every child has execed, the
\* write end of each pipe is held by its writer alone (merge_files for mt,
\* tee for te): the order of merge_tee_exec's closes and forks keeps every
\* other process from holding one, so the readers can see EOF.
WriteEndsOwned ==
  (ppc \in {"wait", "done"} /\ \A c \in Children : cpc[c] # "setup") =>
    /\ \A q \in Procs \ {"merge"} : "mt_w" \notin fds[q]
    /\ \A q \in Procs \ {"tee"} : "te_w" \notin fds[q]

\* When no call failed and no process was killed, the parent returns only
\* after exec_lines has read every item merge_files wrote, in order.
AllDelivered ==
  ppc = "done" /\ ~failed => got = [i \in 1..Items |-> i]

\* Every process of the pipeline ends: the parent returns or exits, and
\* every child it forked exits, whatever call fails on the way.
Terminates ==
  <>(/\ ppc \in {"done", "exited"}
     /\ \A c \in Children : cpc[c] \in {"none", "exited", "reaped"})

\* No child rejects the argv merge_tee_exec built for it: every -t and -p
\* init_configuration accepts, and every number of inputs, is within the
\* limits merge_files and exec_lines check again, each with its own copy
\* of them, after to_string's round trip through the decimal text.
ChildArgsAccepted == usage = {}
=============================================================================
