----------------------------- MODULE SessionStore -----------------------------
(***************************************************************************)
(* The sessions database (crates/closedshell-lib/src/db.rs) and what each  *)
(* run of closedshell does to it (crates/closedshell/src/main.rs): mark    *)
(* the sessions of dead processes, resume one, register its own, persist   *)
(* its rules at the end.  Several processes share the file; each statement *)
(* or transaction is one step, and a process may die between any two.      *)
(*                                                                         *)
(* A session is named by the process that runs it (ids and pids are fresh).*)
(* last_used orders the sessions and is kept as that order.  A rule is its *)
(* id and the session in which it came into being; every process approves  *)
(* one rule at most.                                                       *)
(***************************************************************************)
EXTENDS Sequences, SequencesExt

CONSTANTS
  Proc,       \* runs of closedshell
  Workdir,
  Templated,  \* those that are started with --template
  Approving,  \* those whose human approves something
  Root,       \* those that run as root, as --pf needs it, on the user's database
  TemplateId  \* the id of the rule of the template


VARIABLES
  status,   \* sessions.status; "none": no such row
  recent,   \* the rows of sessions in the order of last_used
  table,    \* rules: the rows of each session
  pc,       \* where each process is
  cwd,      \* the directory that it runs in
  todo,     \* rows that find_running returned and are still to be looked at
  from,     \* the row that find_by_workdir returned
  mem,      \* the rules of the process's tree
  snap,     \* rule_rows
  claimed,  \* history: the row that the UPDATE of find_by_workdir changed
  heirs     \* history: the sessions whose rules a session came to hold

db    == <<status, recent, table>>
local == <<cwd, todo, from, mem, snap>>
ghost == <<claimed, heirs>>
vars  == <<db, pc, local, ghost>>

NoProc == "no process"
NoDir  == "no directory"

ASSUME StoreAssumption ==
  /\ Templated \subseteq Proc
  /\ Approving \subseteq Proc
  /\ Root \subseteq Proc
  /\ NoDir \notin Workdir

Status == {"none", "running", "ended", "crashed"}
Rule   == [id: {TemplateId} \cup Proc, by: Proc]

Place  == {"unborn", "recover", "claim", "read", "load", "create", "serve", "persist",
           "end", "gone", "dead"}

TypeOK ==
  /\ status \in [Proc -> Status]
  /\ recent \in Seq(Proc)
  /\ \A s \in Proc : status[s] # "none" <=> \E i \in DOMAIN recent : recent[i] = s
  /\ \A i, j \in DOMAIN recent : recent[i] = recent[j] => i = j
  /\ table \in [Proc -> SUBSET Rule]
  /\ pc \in [Proc -> Place]
  /\ cwd \in [Proc -> Workdir \cup {NoDir}]
  /\ todo \in [Proc -> SUBSET Proc]
  /\ from \in [Proc -> Proc \cup {NoProc}]
  /\ mem \in [Proc -> SUBSET Rule]
  /\ snap \in [Proc -> SUBSET Rule]
  /\ claimed \in [Proc -> Proc \cup {NoProc}]
  /\ heirs \in [Proc -> SUBSET Proc]

Init ==
  /\ status = [s \in Proc |-> "none"]
  /\ recent = <<>>
  /\ table = [s \in Proc |-> {}]
  /\ pc = [p \in Proc |-> "unborn"]
  /\ cwd = [p \in Proc |-> NoDir]
  /\ todo = [p \in Proc |-> {}]
  /\ from = [p \in Proc |-> NoProc]
  /\ mem = [p \in Proc |-> {}]
  /\ snap = [p \in Proc |-> {}]
  /\ claimed = [p \in Proc |-> NoProc]
  /\ heirs = [p \in Proc |-> {}]
-----------------------------------------------------------------------------
At(p, at)   == pc[p] = at
GoTo(p, at) == pc' = [pc EXCEPT ![p] = at]
Alive(p)    == pc[p] \notin {"unborn", "gone", "dead"}
Exists(s)   == status[s] # "none"

\* The one that comes last in the order, of the sessions in S.
LatestOf(order, S) == order[Max({i \in DOMAIN order : order[i] \in S})]

Without(order, s) == RemoveAt(order, CHOOSE i \in DOMAIN order : order[i] = s)

\* Mutant of MovedLast: the row is added again.
AddedLast(order, s) == Append(order, s)

MovedLast(order, s) == Append(Without(order, s), s)

\* UPDATE sessions SET status, last_used = now WHERE id = s.
Touch(s, st) ==
  IF Exists(s)
  THEN /\ status' = [status EXCEPT ![s] = st]
       /\ recent' = MovedLast(recent, s)
  ELSE UNCHANGED <<status, recent>>

\* Mutant of InDir: the queries do not ask for the directory.
Anywhere(p) == Proc

InDir(p) == {s \in Proc : cwd[s] = cwd[p]}
-----------------------------------------------------------------------------
\* The database is opened; find_running.
Start(p, dir) ==
  /\ At(p, "unborn")
  /\ cwd' = [cwd EXCEPT ![p] = dir]
  /\ todo' = [todo EXCEPT ![p] = {s \in Proc : status[s] = "running"}]
  /\ GoTo(p, "recover")
  /\ UNCHANGED <<db, from, mem, snap, ghost>>

\* The kernel lets process q signal process s.
MaySignal(q, s) == s \in Root => q \in Root

\* Mutant of SeemsDead: kill is not asked.
AnyoneDead(q, s) == TRUE

\* kill(pid, 0) of the row's process is not 0: there is none, or it is not q's to signal.
SeemsDead(q, s) == ~Alive(s) \/ ~MaySignal(q, s)

\* The next row of the loop: mark_crashed if its process is dead, unless another
\* one has its pid by now.
Recover(p, s) ==
  /\ At(p, "recover")
  /\ s \in todo[p]
  /\ todo' = [todo EXCEPT ![p] = @ \ {s}]
  /\ \/ SeemsDead(p, s) /\ Touch(s, "crashed")
     \/ UNCHANGED <<status, recent>>
  /\ UNCHANGED <<table, pc, cwd, from, mem, snap, ghost>>

\* The command line says whether to resume.
Recovered(p, resume) ==
  /\ At(p, "recover")
  /\ todo[p] = {}
  /\ GoTo(p, IF resume THEN "claim" ELSE "create")
  /\ UNCHANGED <<db, local, ghost>>

Resumable(p) == {s \in InDir(p) : status[s] \in {"ended", "crashed"}}

\* find_by_workdir, its UPDATE: the most recently used session is claimed.
Claim(p) ==
  /\ At(p, "claim")
  /\ IF Resumable(p) = {}
     THEN GoTo(p, "create") /\ UNCHANGED <<db, ghost>>
     ELSE LET s == LatestOf(recent, Resumable(p)) IN
          /\ Touch(s, "running")
          /\ claimed' = [claimed EXCEPT ![p] = s]
          /\ GoTo(p, "read")
          /\ UNCHANGED <<table, heirs>>
  /\ UNCHANGED local

\* find_by_workdir, its SELECT: the most recently used running session.
ReadClaimed(p) ==
  /\ At(p, "read")
  /\ LET running == {s \in InDir(p) : status[s] = "running"} IN
     IF running = {}
     THEN GoTo(p, "create") /\ UNCHANGED from
     ELSE /\ from' = [from EXCEPT ![p] = LatestOf(recent, running)]
          /\ GoTo(p, "load")
  /\ UNCHANGED <<db, cwd, todo, mem, snap, ghost>>

\* Mutant of Loaded: the rules of all sessions.
LoadedAll(p) == UNION {table[s] : s \in Proc}

Loaded(p) == table[from[p]]

\* load_rules and replace_rules.
LoadRules(p) ==
  /\ At(p, "load")
  /\ mem' = [mem EXCEPT ![p] = Loaded(p)]
  /\ heirs' = [heirs EXCEPT ![p] = {from[p]} \cup heirs[from[p]]]
  /\ GoTo(p, "create")
  /\ UNCHANGED <<db, cwd, todo, from, snap, claimed>>

\* Templates are loaded on top; create_session registers the fresh id.
Create(p) ==
  /\ At(p, "create")
  /\ mem' = [mem EXCEPT ![p] =
       IF p \in Templated THEN @ \cup {[id |-> TemplateId, by |-> p]} ELSE @]
  /\ status' = [status EXCEPT ![p] = "running"]
  /\ recent' = Append(recent, p)
  /\ GoTo(p, "serve")
  /\ UNCHANGED <<table, cwd, todo, from, snap, ghost>>

\* A human's approval; handlers run until the process exits.
Approve(p) ==
  /\ p \in Approving
  /\ pc[p] \in {"serve", "persist", "end"}
  /\ mem' = [mem EXCEPT ![p] = @ \cup {[id |-> p, by |-> p]}]
  /\ UNCHANGED <<db, pc, cwd, todo, from, snap, ghost>>

DeleteRule(p, r) ==
  /\ pc[p] \in {"serve", "persist", "end"}
  /\ r \in mem[p]
  /\ mem' = [mem EXCEPT ![p] = {q \in @ : q.id # r.id}]
  /\ UNCHANGED <<db, pc, cwd, todo, from, snap, ghost>>

\* The agent has ended: the tree is copied.
Snapshot(p) ==
  /\ At(p, "serve")
  /\ snap' = [snap EXCEPT ![p] = mem[p]]
  /\ GoTo(p, "persist")
  /\ UNCHANGED <<db, cwd, todo, from, mem, ghost>>

DistinctIds(R) == \A r, q \in R : r.id = q.id => r = q

\* Mutant of Persisted: rows are written one by one, up to the first conflict.
PersistedInPart(p) == {r \in snap[p] : r.by = p}

Persisted(p) == snap[p]

\* persist_rules is rolled back by a second row with the same id, and by rows
\* of a session that is no longer there; the failure is only logged.
Persist(p) ==
  /\ At(p, "persist")
  /\ table' = IF Exists(p) /\ DistinctIds(snap[p])
              THEN [table EXCEPT ![p] = Persisted(p)] ELSE table
  /\ GoTo(p, "end")
  /\ UNCHANGED <<status, recent, local, ghost>>

\* update_session, and the process exits.
End(p) ==
  /\ At(p, "end")
  /\ Touch(p, "ended")
  /\ GoTo(p, "gone")
  /\ UNCHANGED <<table, local, ghost>>

\* The process is killed, or a step of startup or cleanup returns its error.
Crash(p) ==
  /\ Alive(p)
  /\ GoTo(p, "dead")
  /\ UNCHANGED <<db, local, ghost>>

\* delete_session, from the hub: the rules go with the row.
HubDelete(s) ==
  /\ Exists(s)
  /\ status' = [status EXCEPT ![s] = "none"]
  /\ recent' = Without(recent, s)
  /\ table' = [table EXCEPT ![s] = {}]
  /\ UNCHANGED <<pc, local, ghost>>

Next ==
  \/ \E p \in Proc, dir \in Workdir : Start(p, dir)
  \/ \E p, s \in Proc : Recover(p, s)
  \/ \E p \in Proc, resume \in BOOLEAN : Recovered(p, resume)
  \/ \E p \in Proc : Claim(p)
  \/ \E p \in Proc : ReadClaimed(p)
  \/ \E p \in Proc : LoadRules(p)
  \/ \E p \in Proc : Create(p)
  \/ \E p \in Proc : Approve(p)
  \/ \E p \in Proc, r \in Rule : DeleteRule(p, r)
  \/ \E p \in Proc : Snapshot(p)
  \/ \E p \in Proc : Persist(p)
  \/ \E p \in Proc : End(p)
  \/ \E p \in Proc : Crash(p)
  \/ \E s \in Proc : HubDelete(s)

Spec == Init /\ [][Next]_vars
-----------------------------------------------------------------------------
(***************************************************************************)
(* While a process serves or shuts down, its session is running: however   *)
(* stale the list of another one's crash recovery, nobody marks it crashed *)
(* or claims it.  The exception is a session of root's, once a process     *)
(* that may not signal it has started: to that one it looks dead.          *)
(***************************************************************************)
LiveIsRunning ==
  \A p \in Proc : pc[p] \in {"serve", "persist", "end"} /\ Exists(p) =>
    \/ status[p] = "running"
    \/ \E q \in Proc : ~MaySignal(q, p) /\ pc[q] # "unborn"

(***************************************************************************)
(* A permission is in effect, and in the database, only for the session in *)
(* which it came into being and for those that resumed that one, directly  *)
(* or along a chain.                                                       *)
(***************************************************************************)
OnlyInherited ==
  \A p \in Proc : \A r \in mem[p] \cup snap[p] \cup table[p] : r.by \in {p} \cup heirs[p]

(***************************************************************************)
(* And only in the directory in which it came into being, whoever races    *)
(* between the claim and the read.                                         *)
(***************************************************************************)
SameDirectory ==
  \A p \in Proc : \A r \in mem[p] \cup snap[p] \cup table[p] : cwd[r.by] = cwd[p]

(***************************************************************************)
(* What an orderly exit wrote stays as it was written, whole, until the    *)
(* session is deleted: no recovery, claim, resume or crash of other        *)
(* processes takes a rule from it.                                         *)
(***************************************************************************)
WrittenWhole ==
  \A p \in Proc : At(p, "gone") /\ Exists(p) /\ DistinctIds(snap[p])
                    => table[p] = snap[p]
-----------------------------------------------------------------------------
(***************************************************************************)
(* What comments and docs say and the code does not do.                    *)
(***************************************************************************)
\* db.rs:95, of find_by_workdir: the claim is set "so other processes won't
\* also resume it".
ResumedOnce ==
  \A p, q \in Proc : Alive(p) /\ Alive(q) /\ claimed[p] # NoProc /\ claimed[p] = claimed[q]
                       => p = q
=============================================================================
