---------------------------- MODULE MCEventLoop ----------------------------
EXTENDS EventLoop, TLC

Symmetry == Permutations(Fd)
=============================================================================
