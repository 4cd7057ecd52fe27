----------------------------- MODULE MCLifecycle -----------------------------
\* Two runs: one is started with --pf beside a closedshell.yaml that does not ask
\* for it, the other takes its settings from the home's file.
EXTENDS SessionLifecycle

CONSTANTS r1, r2

MCProc == {r1, r2}
MCFlags == [p \in MCProc |-> [yolo |-> FALSE, pf |-> p = r1]]
MCLocal == [p \in MCProc |-> IF p = r1 THEN [yolo |-> FALSE, pf |-> FALSE] ELSE NoFile]
MCHome == [yolo |-> TRUE, pf |-> FALSE]
=============================================================================
