---------------------------- MODULE MCExecLines -----------------------------
EXTENDS ExecLines

\* Two children at a time, so the throttle both waits and does not wait; a
\* line buffer of 4, so lines fit, fill it exactly and overflow it within
\* inputs of 5 bytes.
MCNUMPROC == 2
MCLINE_SIZE == 4
MCMaxInput == 5
\* Text input on a build with a signed char (x86).
MCBytes == {"a", "SP", "TAB", "NL"}
MCCharSigned == {TRUE}
\* A build with an unsigned char (ARM, PowerPC).
MCCharUnsigned == {FALSE}
=============================================================================
