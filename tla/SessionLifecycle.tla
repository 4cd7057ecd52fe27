--------------------------- MODULE SessionLifecycle ---------------------------
(***************************************************************************)
(* A run of closedshell from its start to its exit (main of                *)
(* crates/closedshell/src/main.rs), with its settings (config.rs) and the  *)
(* resources that it takes and releases: its tmpdir, CA, proxy port, pf    *)
(* anchor, IPC socket, row in the sessions database and agent.  Several    *)
(* runs share the machine; each step of a start may fail, and a run may be *)
(* killed between any two steps.                                           *)
(*                                                                         *)
(* The database and the rules are SessionStore's, what the proxy does with *)
(* a request EnforcingProxy's.                                             *)
(***************************************************************************)
EXTENDS CertAuthority, PacketFilter

CONSTANTS
  Flags,      \* of each run: [yolo, pf], its command line
  Local,      \* of each run: ./closedshell.yaml, [yolo, pf] or NoFile
  Home,       \* ~/.closedshell/config.yaml
  NoFile,
  MainPort,   \* 8443
  OtherPort,  \* ports that the OS may assign
  Stuck       \* bound: the runs whose tmpdir remove_dir_all may fail to remove

Setting == [yolo: BOOLEAN, pf: BOOLEAN]
Port    == {MainPort} \cup OtherPort
NoPort  == "no port"

ASSUME LifecycleAssumption ==
  /\ Flags \in [Proc -> Setting]
  /\ Local \in [Proc -> Setting \cup {NoFile}]
  /\ Home \in Setting \cup {NoFile}
  /\ NoFile \notin Setting
  /\ NoPort \notin Port
  /\ Stuck \subseteq Proc

VARIABLES
  at,       \* where each process is
  tmpdir,   \* those whose tmpdir is there
  bundle,   \* the CA in each tmpdir's ca.pem
  socket,   \* those whose cs.sock is there
  port,     \* actual_port, also what the agent's environment names
  bound,    \* those whose proxy listens
  row,      \* sessions.status
  agent,    \* each process's agent
  served    \* history: whose proxies have served each agent

own  == <<at, tmpdir, bundle, socket, port, bound, row, agent, served>>
vars == <<own, caVars, pfVars>>

Startup == {"ca", "proxy", "profile", "pf", "chown", "ipc", "register", "spawn", "signals"}
Cleanup == {"log", "persist", "stop", "remove"}
Over    == {"gone", "failed", "hung", "dead"}

TypeOK ==
  /\ CaTypeOK
  /\ PfTypeOK
  /\ anchor \subseteq Proc
  /\ at \in [Proc -> {"unborn", "wait"} \cup Startup \cup Cleanup \cup Over]
  /\ tmpdir \subseteq Proc
  /\ bundle \in [Proc -> File]
  /\ socket \subseteq tmpdir
  /\ port \in [Proc -> Port \cup {NoPort}]
  /\ bound \subseteq Proc
  /\ \A p, q \in bound : port[p] = port[q] => p = q
  /\ row \in [Proc -> {"none", "running", "ended"}]
  /\ agent \in [Proc -> {"none", "running", "ended"}]
  /\ served \in [Proc -> SUBSET Proc]

Init ==
  /\ CaInit
  /\ PfInit
  /\ at = [p \in Proc |-> "unborn"]
  /\ tmpdir = {}
  /\ bundle = [p \in Proc |-> Absent]
  /\ socket = {}
  /\ port = [p \in Proc |-> NoPort]
  /\ bound = {}
  /\ row = [p \in Proc |-> "none"]
  /\ agent = [p \in Proc |-> "none"]
  /\ served = [p \in Proc |-> {}]
-----------------------------------------------------------------------------
\* load_config: the first file that is there.
Loaded(p) ==
  IF Local[p] # NoFile THEN Local[p]
  ELSE IF Home # NoFile THEN Home
  ELSE [yolo |-> FALSE, pf |-> FALSE]

\* Mutant of Merged: a file overrides the command line.
FileOnly(p) == Loaded(p)

\* merge_cli_flags, and pf_enabled.
Merged(p) ==
  [yolo |-> Flags[p].yolo \/ Loaded(p).yolo, pf |-> Flags[p].pf \/ Loaded(p).pf]

Step(p, here, there) == at[p] = here /\ at' = [at EXCEPT ![p] = there]

\* The database is open and the rules are restored; the tmpdir is made.
Begin(p) ==
  /\ Step(p, "unborn", "ca")
  /\ tmpdir' = tmpdir \cup {p}
  /\ UNCHANGED <<bundle, socket, port, bound, row, agent, served, caVars, pfVars>>

\* A step of load_or_create or trust_ca_macos.
Certify(p) ==
  /\ at[p] = "ca"
  /\ CaStep(p)
  /\ UNCHANGED <<own, pfVars>>

\* The combined trust store, the log, the templates, the decider.
Bundle(p) ==
  /\ caAt[p] = "have"
  /\ Step(p, "ca", "proxy")
  /\ bundle' = [bundle EXCEPT ![p] = ca[p].cert]
  /\ UNCHANGED <<tmpdir, socket, port, bound, row, agent, served, caVars, pfVars>>

\* Mutant of Free: the port is not asked for.
AnyPort == Port

Free == Port \ {port[q] : q \in bound}

\* MitmProxy::start: port 8443, or one that the OS assigns.
StartProxy(p) ==
  /\ Step(p, "proxy", "profile")
  /\ \E n \in IF MainPort \in Free THEN {MainPort} ELSE Free :
       port' = [port EXCEPT ![p] = n]
  /\ bound' = bound \cup {p}
  /\ UNCHANGED <<tmpdir, bundle, socket, row, agent, served, caVars, pfVars>>

\* profile.sb; with pf, its user, its line and pf.rules.
WriteProfile(p) ==
  /\ IF Merged(p).pf THEN PfReady /\ Step(p, "profile", "pf") ELSE Step(p, "profile", "ipc")
  /\ UNCHANGED <<tmpdir, bundle, socket, port, bound, row, agent, served, caVars, pfVars>>

LoadPf(p) ==
  /\ Step(p, "pf", "chown")
  /\ LoadAnchor(p)
  /\ UNCHANGED <<tmpdir, bundle, socket, port, bound, row, agent, served, caVars, setupVars>>

Chown(p) ==
  /\ Step(p, "chown", "ipc")
  /\ UNCHANGED <<tmpdir, bundle, socket, port, bound, row, agent, served, caVars, pfVars>>

\* IpcServer::start, unless the run is yolo.
StartIpc(p) ==
  /\ Step(p, "ipc", "register")
  /\ socket' = IF Merged(p).yolo THEN socket ELSE socket \cup {p}
  /\ UNCHANGED <<tmpdir, bundle, port, bound, row, agent, served, caVars, pfVars>>

\* session_start is logged, create_session.
Register(p) ==
  /\ Step(p, "register", "spawn")
  /\ row' = [row EXCEPT ![p] = "running"]
  /\ UNCHANGED <<tmpdir, bundle, socket, port, bound, agent, served, caVars, pfVars>>

Spawn(p) ==
  /\ Step(p, "spawn", "signals")
  /\ agent' = [agent EXCEPT ![p] = "running"]
  /\ UNCHANGED <<tmpdir, bundle, socket, port, bound, row, served, caVars, pfVars>>

\* The signal handlers are installed.
Listen(p) ==
  /\ Step(p, "signals", "wait")
  /\ UNCHANGED <<tmpdir, bundle, socket, port, bound, row, agent, served, caVars, pfVars>>
-----------------------------------------------------------------------------
\* The agent sends a request to the port that its environment names: whoever
\* listens there answers, with a certificate that the agent trusts or not.
Call(p) ==
  /\ agent[p] = "running"
  /\ \E q \in bound :
       /\ port[q] = port[p]
       /\ LeafAccepted(q, bundle[p])
       /\ served' = [served EXCEPT ![p] = @ \cup {q}]
  /\ UNCHANGED <<at, tmpdir, bundle, socket, port, bound, row, agent, caVars, pfVars>>

AgentEnds(p) ==
  /\ agent[p] = "running"
  /\ agent' = [agent EXCEPT ![p] = "ended"]
  /\ UNCHANGED <<at, tmpdir, bundle, socket, port, bound, row, served, caVars, pfVars>>

\* Mutant of ChildWaited: only a signal ends a run.
NeverWaited(p) == FALSE

\* child.wait().
ChildWaited(p) ==
  /\ agent[p] = "ended"
  /\ Step(p, "wait", "log")
  /\ UNCHANGED <<tmpdir, bundle, socket, port, bound, row, agent, served, caVars, pfVars>>

\* Mutant of KillChild: the agent is left to itself.
SpareChild(p) == UNCHANGED agent

\* child.kill(): with pf the child is su, and the agent may outlive it.
KillChild(p) ==
  \/ agent' = [agent EXCEPT ![p] = "ended"]
  \/ Merged(p).pf /\ UNCHANGED agent

\* SIGINT or SIGTERM.
Interrupted(p) ==
  /\ Step(p, "wait", "log")
  /\ KillChild(p)
  /\ UNCHANGED <<tmpdir, bundle, socket, port, bound, row, served, caVars, pfVars>>

\* session_end is logged.
LogEnd(p) ==
  /\ Step(p, "log", "persist")
  /\ UNCHANGED <<tmpdir, bundle, socket, port, bound, row, agent, served, caVars, pfVars>>

\* persist_rules and update_session; a failure is only logged.
Persist(p) ==
  /\ Step(p, "persist", "stop")
  /\ \/ row' = [row EXCEPT ![p] = "ended"]
     \/ UNCHANGED row
  /\ UNCHANGED <<tmpdir, bundle, socket, port, bound, agent, served, caVars, pfVars>>

\* The accept loops of the proxy and of the IPC server are aborted.
StopServers(p) ==
  /\ Step(p, "stop", "remove")
  /\ bound' = bound \ {p}
  /\ UNCHANGED <<tmpdir, bundle, socket, port, row, agent, served, caVars, pfVars>>

\* Mutant of RemoveTmpdir: the socket is not among its files.
RemoveFiles(p) ==
  /\ Step(p, "remove", "gone")
  /\ tmpdir' = tmpdir \ {p}
  /\ bundle' = [bundle EXCEPT ![p] = Absent]
  /\ CaStop(p)
  /\ UNCHANGED <<socket, port, bound, row, agent, served, pfVars>>

\* remove_dir_all, of which a failure is ignored, and std::process::exit: no
\* destructor runs, the anchor stays.
RemoveTmpdir(p) ==
  /\ Step(p, "remove", "gone")
  /\ \/ /\ tmpdir' = tmpdir \ {p}
        /\ bundle' = [bundle EXCEPT ![p] = Absent]
        /\ socket' = socket \ {p}
     \/ /\ p \in Stuck
        /\ bundle' \in {bundle, [bundle EXCEPT ![p] = Absent]}
        /\ socket' \in {socket, socket \ {p}}
        /\ UNCHANGED tmpdir
  /\ CaStop(p)
  /\ UNCHANGED <<port, bound, row, agent, served, pfVars>>

\* A handler of its proxy may be parked in block_in_place, on a human's answer.
MayPark(p) == ~Merged(p).yolo /\ \E q \in Proc : p \in served[q]

\* main returns the error of a step: what it holds is dropped, the runtime last,
\* which waits for the parked handlers that nobody can answer any more.
Fail(p) ==
  /\ at[p] \in Startup \cup {"log"}
  /\ \/ at' = [at EXCEPT ![p] = "failed"]
     \/ MayPark(p) /\ at' = [at EXCEPT ![p] = "hung"]
  /\ bound' = bound \ {p}
  /\ DropEnforcer(p)
  /\ CaStop(p)
  /\ UNCHANGED <<tmpdir, bundle, socket, port, row, agent, served, setupVars>>

\* SIGKILL between any two steps, or a signal before the handlers are installed.
Crash(p) ==
  /\ at[p] \notin {"unborn"} \cup (Over \ {"hung"})
  /\ at' = [at EXCEPT ![p] = "dead"]
  /\ bound' = bound \ {p}
  /\ CaStop(p)
  /\ UNCHANGED <<tmpdir, bundle, socket, port, row, agent, served, pfVars>>

\* The steps that a process takes by itself.
Proceed(p) ==
  \/ Certify(p) \/ Bundle(p) \/ StartProxy(p)
  \/ WriteProfile(p) \/ LoadPf(p) \/ Chown(p)
  \/ StartIpc(p) \/ Register(p) \/ Spawn(p) \/ Listen(p)
  \/ ChildWaited(p) \/ LogEnd(p) \/ Persist(p)
  \/ StopServers(p) \/ RemoveTmpdir(p) \/ Fail(p)

Next ==
  \/ \E p \in Proc : Begin(p)
  \/ \E p \in Proc : Proceed(p)
  \/ \E p \in Proc : Call(p)
  \/ \E p \in Proc : AgentEnds(p)
  \/ \E p \in Proc : Interrupted(p)
  \/ \E p \in Proc : Crash(p)
  \/ Setup /\ UNCHANGED <<own, caVars>>

Spec == Init /\ [][Next]_vars

FairSpec == Spec /\ \A p \in Proc : WF_vars(Proceed(p))
-----------------------------------------------------------------------------
Live(p) == at[p] \notin {"unborn"} \cup Over

(***************************************************************************)
(* While a run waits for its agent, all that the agent's confinement rests *)
(* on is in place, as the command line asked for it: its proxy holds the   *)
(* port of its environment, its tmpdir is there, its session is registered,*)
(* its pf rules are loaded if --pf was given, and a human can reach it,    *)
(* whatever other runs start, fail, end or are killed meanwhile.           *)
(***************************************************************************)
Prepared ==
  \A p \in Proc : at[p] = "wait" =>
    /\ p \in tmpdir \cap bound
    /\ row[p] = "running"
    /\ Flags[p].pf => p \in anchor
    /\ p \in socket \/ Merged(p).yolo

(***************************************************************************)
(* docs/architecture.md:561: after an orderly exit the proxy has stopped,  *)
(* the tmpdir and the socket are gone unless remove_dir_all failed, and    *)
(* whether the agent ended or a signal came, it is not running: only an    *)
(* agent under su, with pf, may be.                                        *)
(***************************************************************************)
NothingLeft ==
  \A p \in Proc : at[p] = "gone" =>
    /\ p \notin bound
    /\ p \in tmpdir \cup socket => p \in Stuck
    /\ agent[p] = "running" => Merged(p).pf

(***************************************************************************)
(* Until a run stops its servers its agent is served by its own proxy      *)
(* only, whoever had the port before and whoever starts beside it.         *)
(***************************************************************************)
OwnProxy == \A p \in Proc : Live(p) /\ at[p] # "remove" => served[p] \subseteq {p}

(***************************************************************************)
(* The agent's end ends the run and frees its port: nothing in the cleanup *)
(* waits for anybody, but for the exit after an error, where a handler may *)
(* be parked ("hung").                                                     *)
(***************************************************************************)
EndsWithAgent ==
  \A p \in Proc : at[p] = "wait" /\ agent[p] = "ended" ~> at[p] \in Over /\ p \notin bound
=============================================================================
