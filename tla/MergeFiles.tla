----------------------------- MODULE MergeFiles -----------------------------
(***************************************************************************)
(* src/syscalls/merge_files.c: interleave the lines of the input files,    *)
(* one line of each file in turn, skipping the files that have ended, and  *)
(* write them to the output through a buffer of -t BUFSIZE bytes.  Every   *)
(* file reads through its own buffer of the same size (read_char, which    *)
(* refills it with read_all and marks the file READ_ENDING on a short read *)
(* and READ_ENDED once that is drained).                                   *)
(*                                                                         *)
(* Before that, init_configuration takes -t and the input names,          *)
(* _validate_configuration_files drops the inputs access() cannot read and *)
(* compacts the rest, and the output and the inputs are opened.            *)
(*                                                                         *)
(* Bytes are "a" (any byte but a newline) and "NL".  A file descriptor is  *)
(* the file's content and an offset in it: read_all returns the next       *)
(* min(bufsize, bytes left) bytes (a regular file); write_all appends to   *)
(* the bytes written.  A command line is args: the number of input names,  *)
(* for each its content or Unreadable (access(R_OK) fails), the -t value,  *)
(* and the output: stdout, or an -o file absent, writable or read-only    *)
(* (never one of the inputs).                                              *)
(***************************************************************************)
EXTENDS Naturals, Sequences, SequencesExt

CONSTANTS
  N,          \* the most input names explored
  ArgCounts,  \* the numbers of input names explored
  MaxLen,     \* the longest input file explored
  BufSizes    \* the values of -t BUFSIZE explored

MIN_BUFSIZE == 1
MAX_BUFSIZE == 134217728
MIN_INPUT_FILES == 1
MAX_INPUT_FILES == 16

ASSUME N \in 1..MAX_INPUT_FILES /\ ArgCounts \subseteq (0..N) \cup {MAX_INPUT_FILES + 1}

Files == 0..N-1
Outputs == {"stdout", "absent", "writable", "readonly"}
Bytes == {"a", "NL"}

OK == "OK"
READ_ENDING == "READ_ENDING"
READ_ENDED == "READ_ENDED"

VARIABLES
  args,       \* the command line and what access() says of its files
  count,      \* config->file_count
  content,    \* content[i]: the bytes of input file i
  bufsize,    \* config->bufsize
  in,         \* in[i]: file i: [pos, buffer, off, avail, status]
  outbuf,     \* the output file's buffer, buffer[0 .. available_bytes)
  written,    \* the bytes written to the output descriptor
  fileIndex,  \* shuffle_lines' file_index
  remaining,  \* shuffle_lines' remaining_files
  pc          \* "config", "open_out", "open_in", "shuffle", "copy" (inside
              \* copy_line), "done", or the exit(EXIT_FAILURE) of a bad
              \* command line ("config_failed") or of a failed open

vars == <<args, count, content, bufsize, in, outbuf, written, fileIndex,
          remaining, pc>>

\* _init_file: an empty buffer, status OK.
InitFile == [pos |-> 1, buffer |-> <<>>, off |-> 0, avail |-> 0, status |-> OK]

\* read_all(fd, buf, nbytes) on a regular file: the next nbytes bytes, or
\* as many as are left.
ReadAll(c, pos, nbytes) == SubSeq(c, pos, Min({pos + nbytes, Len(c) + 1}) - 1)

(***************************************************************************)
(* read_char(f): [file |-> f', ch |-> the character, or "EOF"].           *)
(***************************************************************************)
\* Mutant: a read that fills the buffer is taken as the last one.
ReadCharFullIsShort(f, c, bs) ==
  IF f.status = READ_ENDED THEN [file |-> f, ch |-> "EOF"]
  ELSE LET data == ReadAll(c, f.pos, bs)
           f1 == IF f.status = OK /\ f.avail <= 0
                   THEN [f EXCEPT !.buffer = data, !.off = 0, !.avail = Len(data),
                                  !.pos = f.pos + Len(data),
                                  !.status = IF Len(data) <= bs THEN READ_ENDING
                                             ELSE OK]
                   ELSE f
       IN  IF f1.status = READ_ENDING /\ f1.avail <= 0
             THEN [file |-> [f1 EXCEPT !.status = READ_ENDED], ch |-> "EOF"]
             ELSE [file |-> [f1 EXCEPT !.avail = @ - 1, !.off = @ + 1],
                   ch |-> f1.buffer[f1.off + 1]]

ReadChar(f, c, bs) ==
  IF f.status = READ_ENDED THEN [file |-> f, ch |-> "EOF"]
  ELSE LET data == ReadAll(c, f.pos, bs)
           f1 == IF f.status = OK /\ f.avail <= 0
                   THEN [f EXCEPT !.buffer = data, !.off = 0, !.avail = Len(data),
                                  !.pos = f.pos + Len(data),
                                  !.status = IF Len(data) < bs THEN READ_ENDING
                                             ELSE OK]
                   ELSE f
       IN  IF f1.status = READ_ENDING /\ f1.avail <= 0
             THEN [file |-> [f1 EXCEPT !.status = READ_ENDED], ch |-> "EOF"]
             ELSE [file |-> [f1 EXCEPT !.avail = @ - 1, !.off = @ + 1],
                   ch |-> f1.buffer[f1.off + 1]]

\* Mutant: write_char flushes only once the buffer has overflowed.
WriteCharLate(ob, wr, ch, bs) ==
  IF Len(ob) > bs THEN [outbuf |-> <<ch>>, written |-> wr \o ob]
  ELSE [outbuf |-> Append(ob, ch), written |-> wr]

\* write_char(f, c): flush a full buffer with write_all, then store c.
WriteChar(ob, wr, ch, bs) ==
  IF Len(ob) >= bs THEN [outbuf |-> <<ch>>, written |-> wr \o ob]
  ELSE [outbuf |-> Append(ob, ch), written |-> wr]

\* access(): 0 (OK) or -1; what it says of the -o file.
ACCESS_F_OK(o) == IF o \in {"writable", "readonly"} THEN 0 ELSE -1
ACCESS_W_OK(o) == IF o = "writable" THEN 0 ELSE -1

\* C's logical negation of an int.
CNot(x) == IF x = 0 THEN 1 ELSE 0

\* Mutant: the ! of the write check is lost, so a writable file is denied.
OutputDeniedNoNot(o) ==
  o # "stdout" /\ ACCESS_F_OK(o) = 0 /\ ACCESS_W_OK(o) = 0

\* The -o file exists and !access(W_OK) == OK, i.e. it is not writable.
OutputDenied(o) ==
  o # "stdout" /\ ACCESS_F_OK(o) = 0 /\ CNot(ACCESS_W_OK(o)) = 0

\* _validate_configuration_files' compaction loop: the indices j whose
\* input_files[j] is still set, in order.
RECURSIVE Compacted(_, _)
Compacted(r, j) ==
  IF j = Len(r) THEN <<>>
  ELSE (IF r[j + 1] THEN <<j>> ELSE <<>>) \o Compacted(r, j + 1)

\* An input name access(R_OK) rejects; it is never read.
Unreadable == <<"denied">>   \* no file holds this byte

\* A command line: k input names, each with its content or Unreadable.
CommandLines ==
  UNION { [n : {k}, files : [1..Min({k, N}) -> BoundedSeq(Bytes, MaxLen) \cup {Unreadable}],
           t : BufSizes, out : Outputs] : k \in ArgCounts }

\* What access(R_OK) says of each input name.
Readable == [i \in DOMAIN args.files |-> args.files[i] # Unreadable]

Init ==
  /\ args \in CommandLines
  /\ count = 0
  /\ content = [i \in Files |-> <<>>]
  /\ bufsize = 1024                       \* DEFAULT_BUFSIZE
  /\ in = [i \in Files |-> InitFile]
  /\ outbuf = <<>>
  /\ written = <<>>
  /\ fileIndex = 0
  /\ remaining = 0
  /\ pc = "config"

(***************************************************************************)
(* init_configuration with _validate_configuration_files: a -t out of      *)
(* range, no input name or more than MAX_INPUT_FILES, an -o file that      *)
(* exists and is not writable, or no readable input end the program;       *)
(* otherwise the readable inputs are kept in order and shuffle_lines       *)
(* starts with all of them remaining.                                      *)
(***************************************************************************)
Configure ==
  /\ pc = "config"
  /\ LET a == args
         valid == Len(SelectSeq(Readable, LAMBDA b : b))
         kept == IF valid < a.n THEN Compacted(Readable, 0)
                 ELSE [k \in 1..a.n |-> k - 1]
     IN  IF \/ a.t < MIN_BUFSIZE \/ a.t > MAX_BUFSIZE
            \/ a.n < MIN_INPUT_FILES \/ a.n > MAX_INPUT_FILES
            \/ OutputDenied(a.out) \/ valid = 0
           THEN /\ pc' = "config_failed"
                /\ UNCHANGED <<count, content, bufsize, remaining>>
           ELSE /\ bufsize' = a.t
                /\ count' = Len(kept)
                /\ content' = [i \in Files |->
                                 IF i < Len(kept) THEN a.files[kept[i + 1] + 1]
                                 ELSE <<>>]
                /\ remaining' = Len(kept)
                /\ pc' = "open_out"
  /\ UNCHANGED <<args, in, outbuf, written, fileIndex>>

\* init_output_file: stdout, or open(-o, O_WRONLY|O_CREAT|O_TRUNC), which
\* can still fail (an absent file in a directory it cannot write).
OpenOutput ==
  /\ pc = "open_out"
  /\ \/ pc' = "open_in"
     \/ args.out # "stdout" /\ pc' = "open_failed"
  /\ UNCHANGED <<args, count, content, bufsize, in, outbuf, written, fileIndex,
                 remaining>>

\* allocate_input_files and init_input_files: every open(O_RDONLY) must
\* succeed, though access() was asked earlier and the file may have changed.
OpenInputs ==
  /\ pc = "open_in"
  /\ in' = [i \in Files |-> InitFile]
  /\ pc' \in {"shuffle", "open_failed"}
  /\ UNCHANGED <<args, count, content, bufsize, outbuf, written, fileIndex,
                 remaining>>

\* One turn of shuffle_lines' loop: copy a line of a file that has not
\* ended, or pass over one that has.
Shuffle ==
  /\ pc = "shuffle"
  /\ remaining > 0
  /\ IF in[fileIndex].status # READ_ENDED
       THEN pc' = "copy" /\ UNCHANGED fileIndex
       ELSE fileIndex' = (fileIndex + 1) % count /\ UNCHANGED pc
  /\ UNCHANGED <<args, count, content, bufsize, in, outbuf, written, remaining>>

\* Mutant: shuffle_lines does not count a file whose copy_line reached its
\* end.
CopyStepNoCount ==
  /\ pc = "copy"
  /\ LET f == fileIndex
         r == ReadChar(in[f], content[f], bufsize)
         w == WriteChar(outbuf, written, r.ch, bufsize)
         ended == r.file.status = READ_ENDED
     IN  /\ in' = [in EXCEPT ![f] = r.file]
         /\ IF ~ended THEN outbuf' = w.outbuf /\ written' = w.written
                      ELSE UNCHANGED <<outbuf, written>>
         /\ IF ended \/ r.ch = "NL"
              THEN /\ pc' = "shuffle"
                   /\ fileIndex' = (f + 1) % count
                   /\ UNCHANGED remaining
              ELSE UNCHANGED <<pc, remaining, fileIndex>>
  /\ UNCHANGED <<args, count, content, bufsize>>

\* One iteration of copy_line's do-while: read a character; unless the
\* file has ended, write it; after a newline or the end of the file, back
\* in shuffle_lines, count an ended file and move to the next.
CopyStep ==
  /\ pc = "copy"
  /\ LET f == fileIndex
         r == ReadChar(in[f], content[f], bufsize)
         w == WriteChar(outbuf, written, r.ch, bufsize)
         ended == r.file.status = READ_ENDED
     IN  /\ in' = [in EXCEPT ![f] = r.file]
         /\ IF ~ended THEN outbuf' = w.outbuf /\ written' = w.written
                      ELSE UNCHANGED <<outbuf, written>>
         /\ IF ended \/ r.ch = "NL"
              THEN /\ pc' = "shuffle"
                   /\ remaining' = IF ended THEN remaining - 1 ELSE remaining
                   /\ fileIndex' = (f + 1) % count
              ELSE UNCHANGED <<pc, remaining, fileIndex>>
  /\ UNCHANGED <<args, count, content, bufsize>>

\* Mutant: shuffle_lines returns without the last flush_file.
FinishNoFlush ==
  /\ pc = "shuffle"
  /\ remaining = 0
  /\ pc' = "done"
  /\ UNCHANGED <<args, count, content, bufsize, in, outbuf, written, fileIndex, remaining>>

\* Every file has ended: flush_file(output_file).
Finish ==
  /\ pc = "shuffle"
  /\ remaining = 0
  /\ written' = written \o outbuf
  /\ outbuf' = <<>>
  /\ pc' = "done"
  /\ UNCHANGED <<args, count, content, bufsize, in, fileIndex, remaining>>

\* main's end: free_file closes the output and every input, and a close
\* that fails ends the program with EXIT_FAILURE; else exit(EXIT_SUCCESS).
Cleanup ==
  /\ pc = "done"
  /\ pc' \in {"exited", "close_failed"}
  /\ UNCHANGED <<args, count, content, bufsize, in, outbuf, written, fileIndex,
                 remaining>>

Next ==
  \/ Configure \/ OpenOutput \/ OpenInputs
  \/ Shuffle \/ CopyStep \/ Finish
  \/ Cleanup

\* A single-threaded program that is never starved of the CPU.
Spec == Init /\ [][Next]_vars /\ WF_vars(Next)

-----------------------------------------------------------------------------
(***************************************************************************)
(* The reference: the inputs access() can read, in command-line order; the *)
(* lines of each (a line ends after its newline; a last line without one   *)
(* is a line too), taken one of each file in turn, the first file first,   *)
(* passing over the files with no lines left.                              *)
(***************************************************************************)
ReadableInputs ==
  LET idx == SelectSeq([k \in DOMAIN args.files |-> k], LAMBDA k : Readable[k])
  IN  [j \in 1..Len(idx) |-> args.files[idx[j]]]

RECURSIVE LinesOf(_)
LinesOf(c) ==
  IF c = <<>> THEN <<>>
  ELSE LET nl == SelectInSeq(c, LAMBDA b : b = "NL")
           k == IF nl = 0 THEN Len(c) ELSE nl
       IN  <<SubSeq(c, 1, k)>> \o LinesOf(SubSeq(c, k + 1, Len(c)))

RECURSIVE RoundFrom(_, _)
RoundFrom(ls, i) ==
  IF i > Len(ls) THEN <<>>
  ELSE (IF ls[i] = <<>> THEN <<>> ELSE Head(ls[i])) \o RoundFrom(ls, i + 1)

RECURSIVE RoundRobin(_)
RoundRobin(ls) ==
  IF \A i \in DOMAIN ls : ls[i] = <<>> THEN <<>>
  ELSE RoundFrom(ls, 1) \o
         RoundRobin([i \in DOMAIN ls |-> IF ls[i] = <<>> THEN <<>> ELSE Tail(ls[i])])

Interleaving ==
  RoundRobin([j \in DOMAIN ReadableInputs |-> LinesOf(ReadableInputs[j])])

\* What the usage text and the messages reject: a BUFSIZE outside
\* 1..128MB, no input or more than 16, an output that exists read-only, no
\* input that can be read.
BadCommandLine ==
  \/ args.t \notin MIN_BUFSIZE..MAX_BUFSIZE
  \/ args.n \notin MIN_INPUT_FILES..MAX_INPUT_FILES
  \/ args.out = "readonly"
  \/ \A i \in DOMAIN args.files : args.files[i] = Unreadable

Ended == {"exited", "config_failed", "open_failed", "close_failed"}

TypeOK ==
  /\ count \in 0..N
  /\ \A i \in Files :
       /\ in[i].status \in {OK, READ_ENDING, READ_ENDED}
       /\ in[i].avail \in 0..bufsize
       /\ in[i].off + in[i].avail = Len(in[i].buffer)
  /\ Len(outbuf) <= bufsize   \* buffer[buffer_offset] stays in the buffer
  /\ fileIndex \in 0..Max({count - 1, 0})
  /\ remaining \in 0..count
  /\ pc \in {"config", "open_out", "open_in", "shuffle", "copy", "done"} \cup Ended

\* init_configuration and _validate_configuration_files turn away exactly
\* the command lines the usage text and the messages reject: the program
\* goes past its configuration if and only if the command line is good.
ValidationExact ==
  pc # "config" => (pc # "config_failed" <=> ~BadCommandLine)

\* Whatever has left read_char and write_char so far, in the output buffer
\* or already written, is the start of the round-robin interleaving of the
\* readable inputs in command-line order: no byte is lost, repeated or
\* taken out of turn at the compaction, a refill, a flush or a file's end.
OutputFollowsInterleaving == IsPrefix(written \o outbuf, Interleaving)

\* When shuffle_lines returns, the output descriptor holds the whole
\* interleaving (the final flush_file wrote the rest of the buffer).
MergedOutputComplete == pc \in {"done", "exited", "close_failed"} => written = Interleaving

\* merge_files ends, by exit(EXIT_SUCCESS) or an error exit: every file is
\* eventually counted as ended.
Terminates == <>(pc \in Ended)
=============================================================================
