----------------------------- MODULE MCRequestPath -----------------------------
EXTENDS RequestPath, TLC

MCSymmetry == Permutations(Addresses)

\* Open for two ticks of a day of four; and a window over midnight, never open.
MCWindows == {<<1, 3>>, <<3, 1>>}

=============================================================================
