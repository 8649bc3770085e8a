----------------------------- MODULE ExecLines ------------------------------
(***************************************************************************)
(* src/syscalls/exec_lines.c: read command lines from standard input, one  *)
(* character at a time through read_character(), count their tokens in     *)
(* read_line(), and run each line that has a token in a child process      *)
(* (build_argv() then execvp()), keeping at most num_process children      *)
(* unreaped; at end of input, wait for every child.                        *)
(*                                                                         *)
(* Bytes are abstracted to what the code tells apart:                      *)
(*   "a"   a graphic character (isgraph);                                  *)
(*   "SP"  ' ', "TAB" '\t' (not graphic, not a separator for build_argv),  *)
(*   "NL"  '\n', "FF" the byte 0xFF, which is also (char)EOF.              *)
(* Whether char is signed is implementation-defined: with a signed char,   *)
(* (char)0xFF == EOF; with an unsigned one, no char equals EOF.            *)
(***************************************************************************)
EXTENDS Naturals, Sequences, SequencesExt

CONSTANTS
  NUMPROC,      \* num_process, from -p (parse_args accepts 1..8)
  LINE_SIZE,    \* the size of the line buffer
  MaxInput,     \* the longest standard input explored
  Bytes,        \* the bytes the input may contain
  CharSigned    \* the signedness of char in the builds explored

ASSUME NUMPROC \in 1..8 /\ LINE_SIZE \in Nat \ {0} /\ MaxInput \in Nat
ASSUME Bytes \subseteq {"a", "SP", "TAB", "NL", "FF"} /\ CharSigned \subseteq BOOLEAN

VARIABLES
  input,      \* the whole standard input
  signed,     \* char is signed in this build
  pos,        \* index in input of the next byte read_character returns
  atEof,      \* read_line's static at_eof
  pc,         \* "read", "throttle", "fork", "drain" or "exit"
  line,       \* the line buffer, as far as read_line filled it
  tokens,     \* token_count of the line
  count,      \* process_count
  children,   \* every child forked, in order: [line, argv, st]
  status,     \* "running", "success", or why it exited with EXIT_FAILURE
  rejected    \* the length of the input line read_line rejected, or 0

vars == <<input, signed, pos, atEof, pc, line, tokens, count, children,
          status, rejected>>

IsGraph(ch) == ch = "a"

\* read_character(): the next input byte, or (char)EOF, i.e. the byte 0xFF,
\* once the input is exhausted (read_all's blocks are not observable).
CharAt(in, i) == IF i <= Len(in) THEN in[i] ELSE "FF"

\* next_character == EOF, for a char holding ch.
IsEOF(ch, sgn) == sgn /\ ch = "FF"

\* Mutant: read_line does not store a newline in place of EOF.
ReadLineKeepsEof(in, start, sgn) ==
  LET RECURSIVE Go(_, _, _, _)
      Go(i, buf, tk, atTok) ==
        LET ch   == CharAt(in, i)
            eof  == IsEOF(ch, sgn)
            buf2 == Append(buf, ch)
            tk2  == IF IsGraph(ch) /\ ~atTok THEN tk + 1 ELSE tk
            i2   == IF i <= Len(in) THEN i + 1 ELSE i
        IN  IF ~eof /\ ch # "NL" /\ Len(buf2) < LINE_SIZE
              THEN Go(i2, buf2, tk2, IsGraph(ch))
              ELSE [buf |-> buf2, tokens |-> tk2, next |-> i2, eof |-> eof,
                    toolong |-> ~eof /\ ch # "NL"]
  IN  Go(start, <<>>, 0, FALSE)

(***************************************************************************)
(* read_line(): read characters into buf until EOF, a newline, or bufsize *)
(* characters; count runs of graphic characters; store a newline in place *)
(* of EOF.  The result: the buffer, the token count, the next input index, *)
(* whether EOF was met, and whether the line was rejected as too long.    *)
(***************************************************************************)
ReadLineWithin(in, start, sgn, bufsize) ==
  LET RECURSIVE Go(_, _, _, _)
      Go(i, buf, tk, atTok) ==
        LET ch   == CharAt(in, i)
            eof  == IsEOF(ch, sgn)
            buf2 == Append(buf, IF eof THEN "NL" ELSE ch)
            tk2  == IF IsGraph(ch) /\ ~atTok THEN tk + 1 ELSE tk
            i2   == IF i <= Len(in) THEN i + 1 ELSE i
        IN  IF ~eof /\ ch # "NL" /\ Len(buf2) < bufsize
              THEN Go(i2, buf2, tk2, IsGraph(ch))
              ELSE [buf |-> buf2, tokens |-> tk2, next |-> i2, eof |-> eof,
                    toolong |-> ~eof /\ ch # "NL"]
  IN  Go(start, <<>>, 0, FALSE)

\* Mutant: read_line is called with a bufsize one short, keeping a byte
\* for a terminating '\0'.
ReadLineShort(in, start, sgn) == ReadLineWithin(in, start, sgn, LINE_SIZE - 1)

\* The call read_line(line, LINE_SIZE, &token_count).
ReadLineOp(in, start, sgn) == ReadLineWithin(in, start, sgn, LINE_SIZE)

\* The string starting at index i of buf: up to the first byte build_argv
\* has overwritten with '\0' (every ' ' and '\n' of the line).
StringAt(buf, i) ==
  LET ends == {j \in i..Len(buf) : buf[j] \in {"SP", "NL"}}
      last == IF ends = {} THEN Len(buf) ELSE Min(ends) - 1
  IN  SubSeq(buf, i, last)

(***************************************************************************)
(* build_argv(): an argument starts at a graphic character met outside an *)
(* argument; only ' ' and '\n' end one (and are overwritten with '\0').   *)
(***************************************************************************)
BuildArgv(buf) ==
  LET RECURSIVE Go(_, _, _)
      Go(i, atTok, argv) ==
        IF i > Len(buf) THEN argv
        ELSE IF IsGraph(buf[i]) /\ ~atTok
          THEN Go(i + 1, TRUE, Append(argv, StringAt(buf, i)))
        ELSE IF buf[i] \in {"SP", "NL"}
          THEN Go(i + 1, FALSE, argv)
        ELSE Go(i + 1, atTok, argv)
  IN  Go(1, FALSE, <<>>)

-----------------------------------------------------------------------------
Init ==
  /\ input \in BoundedSeq(Bytes, MaxInput)
  /\ signed \in CharSigned
  /\ pos = 1
  /\ atEof = FALSE
  /\ pc = "read"
  /\ line = <<>>
  /\ tokens = 0
  /\ count = 0
  /\ children = <<>>
  /\ status = "running"
  /\ rejected = 0

\* The length of the input line starting at index i, newline excluded.
InputLineLen(i) ==
  LET nls == {j \in i..Len(input) : input[j] = "NL"}
  IN  IF nls = {} THEN Len(input) - i + 1 ELSE Min(nls) - i

\* The condition of the main loop: read_line(); too long a line exits.
ReadLine ==
  /\ pc = "read"
  /\ IF atEof
       THEN /\ pc' = "drain"
            /\ UNCHANGED <<pos, atEof, line, tokens, status, rejected>>
       ELSE LET r == ReadLineOp(input, pos, signed)
            IN  /\ pos' = r.next
                /\ atEof' = r.eof
                /\ line' = r.buf
                /\ tokens' = r.tokens
                /\ IF r.toolong
                     THEN /\ pc' = "exit" /\ status' = "line_too_long"
                          /\ rejected' = InputLineLen(pos)
                     ELSE /\ pc' = "throttle"
                          /\ UNCHANGED <<status, rejected>>
  /\ UNCHANGED <<input, signed, count, children>>

Zombies == {i \in DOMAIN children : children[i].st = "zombie"}

\* wait(NULL): block until some child has exited and reap it; with no
\* child left to wait for, return -1 at once.
WaitNull ==
  \/ \E i \in Zombies : children' = [children EXCEPT ![i].st = "reaped"]
  \/ /\ \A i \in DOMAIN children : children[i].st = "reaped"
     /\ UNCHANGED children

\* Mutant: the throttle waits only when more than num_process are unreaped.
ThrottleOffByOne ==
  /\ pc = "throttle"
  /\ \/ count <= NUMPROC /\ UNCHANGED <<count, children>>
     \/ count > NUMPROC /\ WaitNull /\ count' = count - 1
  /\ pc' = "fork"
  /\ UNCHANGED <<input, signed, pos, atEof, line, tokens, status, rejected>>

\* With num_process children unreaped, wait for one first.
Throttle ==
  /\ pc = "throttle"
  /\ \/ count < NUMPROC /\ UNCHANGED <<count, children>>
     \/ count >= NUMPROC /\ WaitNull /\ count' = count - 1
  /\ pc' = "fork"
  /\ UNCHANGED <<input, signed, pos, atEof, line, tokens, status, rejected>>

\* A line with a token is run in a new child, which builds its argv from
\* its copy of the line buffer; fork failing exits.
Fork ==
  /\ pc = "fork"
  /\ \/ /\ tokens = 0
        /\ pc' = "read"
        /\ UNCHANGED <<count, children, status>>
     \/ /\ tokens > 0
        /\ children' = Append(children, [line |-> line, argv |-> BuildArgv(line),
                                         st |-> "running"])
        /\ count' = count + 1
        /\ pc' = "read"
        /\ UNCHANGED status
     \/ /\ tokens > 0
        /\ pc' = "exit" /\ status' = "fork_failed"
        /\ UNCHANGED <<count, children>>
  /\ UNCHANGED <<input, signed, pos, atEof, line, tokens, rejected>>

\* The child execs its command, or fails to; either way it exits.
ChildExit(i) ==
  /\ children[i].st = "running"
  /\ children' = [children EXCEPT ![i].st = "zombie"]
  /\ UNCHANGED <<input, signed, pos, atEof, pc, line, tokens, count, status,
                 rejected>>

\* Mutant: the final loop waits without decrementing process_count.
DrainNoDecrement ==
  /\ pc = "drain"
  /\ \/ count > 0 /\ WaitNull /\ UNCHANGED <<count, pc, status>>
     \/ count = 0 /\ pc' = "exit" /\ status' = "success"
                  /\ UNCHANGED <<count, children>>
  /\ UNCHANGED <<input, signed, pos, atEof, line, tokens, rejected>>

\* Mutant: execute_lines returns without waiting for its children.
DrainSkipped ==
  /\ pc = "drain"
  /\ pc' = "exit" /\ status' = "success"
  /\ UNCHANGED <<input, signed, pos, atEof, line, tokens, rejected, count,
                 children>>

\* At end of input, wait for every child still counted, then return.
Drain ==
  /\ pc = "drain"
  /\ \/ count > 0 /\ WaitNull /\ count' = count - 1
                  /\ UNCHANGED <<pc, status>>
     \/ count = 0 /\ pc' = "exit" /\ status' = "success"
                  /\ UNCHANGED <<count, children>>
  /\ UNCHANGED <<input, signed, pos, atEof, line, tokens, rejected>>

Main == ReadLine \/ Throttle \/ Fork \/ Drain

Next == Main \/ \E i \in DOMAIN children : ChildExit(i)

\* The commands run by the children terminate; the process itself is never
\* starved of the CPU.
Spec == /\ Init /\ [][Next]_vars
        /\ WF_vars(Main)
        /\ \A i \in 1..MaxInput : WF_vars(i \in DOMAIN children /\ ChildExit(i))

-----------------------------------------------------------------------------
Children(st) == {i \in DOMAIN children : children[i].st \in st}

TypeOK ==
  /\ input \in Seq(Bytes) /\ signed \in BOOLEAN
  /\ pos \in 1..Len(input) + 1 /\ atEof \in BOOLEAN
  /\ pc \in {"read", "throttle", "fork", "drain", "exit"}
  /\ line \in Seq(Bytes \cup {"NL", "FF"}) /\ Len(line) <= LINE_SIZE
  /\ tokens \in 0..LINE_SIZE /\ count \in 0..NUMPROC
  /\ \A i \in DOMAIN children :
       children[i].st \in {"running", "zombie", "reaped"}
  /\ status \in {"running", "success", "line_too_long", "fork_failed"}
  /\ rejected \in 0..MaxInput

(***************************************************************************)
(* The reference meaning of the input: its lines, each ending in a        *)
(* newline (a last line without one is given one), and the words of a     *)
(* line, its maximal runs of graphic characters.                          *)
(***************************************************************************)
InputLines(in) ==
  LET RECURSIVE Go(_, _)
      Go(i, cur) ==
        IF i > Len(in) THEN IF cur = <<>> THEN <<>> ELSE <<Append(cur, "NL")>>
        ELSE IF in[i] = "NL" THEN <<Append(cur, "NL")>> \o Go(i + 1, <<>>)
        ELSE Go(i + 1, Append(cur, in[i]))
  IN  Go(1, <<>>)

HasWord(l) == \E i \in DOMAIN l : IsGraph(l[i])

CommandLines == SelectSeq(InputLines(input), HasWord)

\* The number of maximal runs of graphic characters in l.
WordCount(l) == Cardinality({i \in DOMAIN l :
                              IsGraph(l[i]) /\ (i = 1 \/ ~IsGraph(l[i - 1]))})

\* -p NUMPROC: at no time are more than num_process children forked and
\* not yet waited for (the throttle before each fork in execute_lines).
AtMostNumprocUnreaped == Cardinality(Children({"running", "zombie"})) <= NUMPROC

\* The children run the command lines of the input, one per line that has
\* a word, in input order, each on the whole line read by read_line.
LinesRunInOrder ==
  IsPrefix([i \in DOMAIN children |-> children[i].line], CommandLines)

\* A successful return of execute_lines comes after every command line was
\* run and every child reaped (the final wait loop).
SuccessMeansAllRun ==
  status = "success" => /\ [i \in DOMAIN children |-> children[i].line] = CommandLines
                        /\ Children({"running", "zombie"}) = {}

\* exec_lines always terminates (its children's commands terminating).
Terminates == <>(pc = "exit")

\* Each child's argv holds one argument per token read_line counted.
ArgvMatchesTokenCount ==
  \A i \in DOMAIN children :
     Len(children[i].argv) = WordCount(children[i].line)

\* The message says a line is rejected when its size is greater than
\* LINE_SIZE: a rejected line has more than LINE_SIZE characters.
LineLimitAsDocumented == status = "line_too_long" => rejected > LINE_SIZE

\* An input of text lines that each fit the buffer, newline included, is
\* never rejected as too long.
FittingInputAccepted ==
  (/\ \A l \in Range(InputLines(input)) : Len(l) <= LINE_SIZE
   /\ \A i \in DOMAIN input : input[i] # "FF")
  => status # "line_too_long"
=============================================================================
