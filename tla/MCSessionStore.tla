---------------------------- MODULE MCSessionStore ----------------------------
\* SessionStore with directories that may be exchanged.
EXTENDS SessionStore, TLC

MCSymmetry == Permutations(Workdir)
=============================================================================
