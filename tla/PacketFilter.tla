----------------------------- MODULE PacketFilter -----------------------------
(***************************************************************************)
(* pf enforcement (crates/closedshell-lib/src/pf.rs): the one-time setup,  *)
(* which may fail at each of its steps and be run again, and the anchor of *)
(* each session.                                                           *)
(*                                                                         *)
(* A module of steps: SessionLifecycle makes them part of a run.           *)
(***************************************************************************)
VARIABLES
  pfUser,   \* how much of the sandbox user's record there is
  pfLine,   \* the anchor's line is in /etc/pf.conf
  setUp,    \* history: it completed once
  anchor    \* processes whose rules are loaded in their anchor

setupVars == <<pfUser, pfLine, setUp>>
pfVars    == <<setupVars, anchor>>

PfTypeOK ==
  /\ pfUser \in {"none", "unnumbered", "numbered"}
  /\ pfLine \in BOOLEAN
  /\ setUp \in BOOLEAN

PfInit ==
  /\ pfUser = "none"
  /\ pfLine = FALSE
  /\ setUp = FALSE
  /\ anchor = {}

\* Mutant of UserHasUid: the record is there.
UserHasRecord == pfUser # "none"

\* resolve_uid: id -u.
UserHasUid == pfUser = "numbered"

\* What a session with pf asks before it loads its rules.
PfReady == UserHasUid /\ pfLine
-----------------------------------------------------------------------------
\* setup_system: create_system_user, unless the user has a UID already (the
\* record comes first, then UniqueID), add_anchor_to_pf_conf, pfctl -f and
\* enable_pf; it stops at the first command that fails.
Setup ==
  /\ \/ ~UserHasUid /\ pfUser' = "unnumbered" /\ UNCHANGED <<pfLine, setUp>>
     \/ /\ pfUser' = IF UserHasUid THEN pfUser ELSE "numbered"
        /\ \/ UNCHANGED <<pfLine, setUp>>
           \/ pfLine' = TRUE /\ UNCHANGED setUp
           \/ pfLine' = TRUE /\ setUp' = TRUE
  /\ UNCHANGED anchor

\* PfEnforcer::load.
LoadAnchor(p) == anchor' = anchor \cup {p}

\* Drop of PfEnforcer: a flush that fails is only warned about.
DropEnforcer(p) == anchor' \in {anchor, anchor \ {p}}
-----------------------------------------------------------------------------
(***************************************************************************)
(* A setup that said "pf setup complete" has left what a session with pf   *)
(* asks for, though earlier ones may have failed halfway.                  *)
(***************************************************************************)
SetupHolds == setUp => pfUser = "numbered" /\ pfLine
=============================================================================
