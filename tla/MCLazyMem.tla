---------------------------- MODULE MCLazyMem ----------------------------
EXTENDS LazyMem

\* Four user pages of two bytes: exec's three and one to grow into.
MCPGSIZE == 2
MCKERNBASE == 8
\* Every int n for which sz + n stays in range and the ones that wrap.
MCNs == -MCKERNBASE .. MCKERNBASE - 1
\* Every user address and the first kernel one.
MCAddrs == 0 .. MCKERNBASE
MCVals == {0, 1}
\* Every code of one byte and the codes just outside it.
MCCodes == (-2..257)
\* The CPU exceptions, the device interrupts and T_SYSCALL.
MCTrapnos == 0..64
=============================================================================
