# closedshell in TLA+

closedshell runs an AI agent in a sandbox whose only way to the network is a
proxy. The proxy decrypts each request, turns it into an action, asks a tree of
permissions, and parks what no rule covers until a human decides it in the
terminal UI. This directory holds the models of that program, their TLC runs and
their TLAPS proofs. Paths below are relative to `crates/closedshell-lib/src`
unless they say more.

## 1. Inventory

| Part | State it keeps | Operations | Correct when |
|---|---|---|---|
| permission tree, `permission.rs` | `RwLock<Vec<Rule>>` | evaluate, has_forbid, add_rule, load_template, replace_rules, remove_rule, revoke_plan | forbid beats permit, a one-shot allows once, a walk sees one list |
| approval queue, `approval.rs` | counter, `Mutex<HashMap>` of entries, a oneshot channel each | enqueue, list_pending, resolve, expire | each request hears exactly one verdict, the one that was acknowledged to a human |
| proxy and decider, `proxy.rs` | one task per connection, `total_decisions` | CONNECT and TLS, the keep-alive loop, evaluate, await_human_approval, 403, relay | nothing goes upstream that was not permitted or approved, a request ends once a human and the peers answer, every decision is offered to the log once |
| session state, IPC, `ipc.rs` | last denial, history (20) | record_decision, record_denial, last_denial; Approve, Deny, DeleteRule, Status, PendingApprovals | the denial told is one's own, the history tells what was done |
| audit log, `audit.rs` | an append-only file | log | one line per event |
| session store, `db.rs` | SQLite: sessions, their rules | create, find_by_workdir (claims), update, persist_rules, load_rules, mark_crashed, list, delete | one session resumes a former one, with its permissions |
| session lifecycle, `crates/closedshell/src/main.rs` | what a run has taken: tmpdir, proxy port, pf anchor, socket, row, agent | crash recovery, resume, start of every part, wait for the agent, cleanup | what a session was granted survives it; an agent runs only behind its own proxy; what a run took is taken down |
| certificate authority, `tls.rs` | two files, the trust store, a leaf cache | load or create, trust, leaf certificates | certificate and key belong together; an established CA never changes |
| packet filter, `pf.rs` | the sandbox user, a line in `/etc/pf.conf`, an anchor per session | one-time setup, load, flush | a setup that reported success is enough for a session |
| templates, `template.rs` | policy files | parse, emit, init, list, resolve, validate, check, generate, load | a generated policy covers what was logged and no other host; check and list tell what a session does |
| parser and risk, `parser.rs`, `risk.rs` | none | parse_action, classify_risk | an action keeps the verb of its request, and the risk follows it |
| terminal UI, `crates/closedshell/src/tui.rs` | cursors over lists that refresh, tail of the log, overlays | approve, deny, delete, edit, hub | a key acts on the item that the human saw marked; a parked request comes up; the log is shown whole |
| configuration, `config.rs` | the settings | load, override by the command line | the command line wins |
| seatbelt profile, `sandbox.rs` | none | generate | one text for the operating system |

How they interact. Each client connection is a task that calls the decider
synchronously; the decider locks the tree, then the queue, then waits on the
channel. The TUI is another process: each of its IPC requests is a task that
lists or resolves entries or removes rules. All of them write the audit log, and
the TUI reads it back. When the agent exits, the main task takes a snapshot of
the tree, persists it, and ends the process whatever the handlers are doing. The
next `--resume` in the same directory claims the session and loads its rules.

Hard behaviours: handlers, IPC tasks and humans interleave between locks that
are taken one at a time; listings are stale when used; a verdict races an
expiry; the wait for a human has no bound; several processes share one database
file, one CA and the ports; a start fails or is killed between any two of its
steps; a file is read in the middle of its write; a crash loses what only memory
holds; texts are escaped, parsed and matched again. `PROJECT.json` lists them one
by one under `hazards`.

## 2. Modules

| Module | Models | Refines |
|---|---|---|
| `PermissionRules` | a rule, matching, the verdict against a set of rules, what each operation does to it | |
| `PermissionTree` | the tree with atomic operations, callers with pending calls, a clock | |
| `PermissionVec` | the tree as coded: Vec, RwLock, two loops, one rule per step | `PermissionTree` |
| `Approvals` | what the queue promises | |
| `ApprovalQueue` | the queue as coded: ticket, stamp and insert apart; remove and send apart; stale listings; expiry | `Approvals` |
| `EnforcingProxy` | handlers, decider, tree, queue (`INSTANCE Approvals`), session state, IPC, log counts | |
| `SessionStore` | the database and what each run of the program does to it, several processes | |
| `CertAuthority` | the two files of the CA, trust: steps of a start | |
| `PacketFilter` | the one-time setup and the anchors: steps of a start | |
| `SessionLifecycle` | whole runs, several at a time: composes the two above with ports, directories, sockets, rows and agents | |
| `ApprovalScreen` | the loop of the session's screen over a daemon's two lists and a growing log | |
| `ActionParser` | request to canonical action, action to risk | |
| `CspFormat` | the text of a policy: emit and parse | |
| `Templates` | logs, files, the template commands, sessions that load templates: composes the two above with `PermissionRules` | |
| `PermissionTreeProofs`, `PermissionVecProofs`, `ApprovalQueueProofs`, `EnforcingProxyProofs`, `SessionStoreProofs`, `SessionLifecycleProofs`, `ApprovalScreenProofs`, `TemplatesProofs` | theorems of the module that each is named for | |
| `MCRules`, `MC...` | the constants of the small instances | |

### How the models correspond to the code

- **A rule** has a position instead of a place in the Vec: a push gives it a
  number above all earlier ones. A glob is the set of actions that it matches;
  `approved_by`, `source` and `reason` are labels and are left out. Expiry is a
  number, `Never` the missing one.
- **A call** of the tree in `PermissionTree` is invoked, takes effect once and
  reads the clock at some instant during the call. `PermissionVec` has the lock
  (`writer`, `readers`), the loop index and the clock reading instead. The
  refinement mapping is only `rules <- ToSet(vec)`: the call takes effect in the
  turn of the loop that returns.
- **A parked request** is open while its entry is in the map and decided from
  the removal on, that is under the lock; `AskedOf` is the mapping.
- **EnforcingProxy** uses the two abstractions, each of which the code is shown
  to implement: one step per operation of the tree or of the queue. Between them
  come the steps of all other handlers and humans. `record_denial` and
  `record_decision` are part of the step that decides, since no lock is shared
  with it and nobody can tell. What a request met (log lines, what the human
  said, what the 403 said, the outcome) is kept in `request`, by serial number.
  The log is that count of lines. A write may fail, for the requests in `Lossy`:
  the code drops the error (`let _ = audit.log(..)`), so the line is lost, the
  request goes on, and only the history variables know.
- **SessionStore** has one step per SQL statement or transaction. A process is
  also the id of its session. `last_used` is only compared, so it is the order
  `recent`. `find_by_workdir` is two steps (`Claim`, `ReadClaimed`), since SQLite
  locks the file for a statement. A process may be killed between any two steps.
  `Recover` may leave the row of a dead process alone, because another process
  may have its pid. It marks a live one crashed if it may not signal it
  (`MaySignal`): `main.rs:433` takes every failure of `kill(pid, 0)` for death,
  EPERM included, and `Root` has the runs of root. `claimed` and `heirs` are history: nothing reads them but
  properties.
- **SessionLifecycle** follows `main` in its order: one step per resource taken,
  a failure (`Fail`) and a kill (`Crash`) between any two, then the wait, the
  agent's end or a signal, and the cleanup. With `--pf` the child is `su`, so
  `KillChild` may leave the agent alive; `RemoveTmpdir` may leave the files of a run
  in `Stuck`, since the error is ignored; `Fail` may end in "hung" instead of "failed":
  the runtime that is dropped waits for handlers parked in `block_in_place`
  (`proxy.rs:202`), if the run's proxy has ever served anybody (`MayPark`). `Merged` is the configuration: the
  file that is read and what the command line adds to it. `served` is history: it
  records whose proxies answered the calls of each agent, through the port that
  the agent's environment names. The rows and rules of the database are
  `SessionStore`'s; here a row is only its status.
- **CertAuthority** names a CA by the process that generated it. A write is two
  steps, since `std::fs::write` empties the file first, so another run may read a
  torn file. `raced` is history: two runs generated a CA at the same time.
- **PacketFilter** has `setup_system` as one step that may stop after each of its
  commands. An anchor is loaded or not; its rules are text for the kernel. A flush
  may fail, which is only warned about.
- **ApprovalScreen** is the loop of `run` in `tui.rs`, one step for each thing
  that it reads (size of the log, its content, rules, pending approvals, keys) and
  one action per key. The daemon is its two lists, which change between any two of
  these steps; a request enters its list at its place by age, since `list_pending`
  sorts by a stamp that is older than the insertion. A line of the log has two
  halves, and a poll may see the first one only. What the terminal shows is `Drawn`
  from the moment the loop waits for a key until it waits again. A key is typed
  (`Type`) at such a frame and read later (`Read`): one that is typed while a poll
  blocks is read after the poll, against the new lists, and is the same as one typed
  at the old frame and not read in that turn. `waiting` keeps the frame that each key
  was typed at, and `act` what the last key sent; properties compare them.
- **ActionParser** and **CspFormat** work on sequences of symbols: separators,
  signs and opaque words, from a constant `Symbol`. A request comes with its query
  and headers split already. Blanks, comments and error messages are left out.
- **Templates** has one action per command, over files keyed by place. `made` is
  history: the decisions that a file was generated from. `Fits` is the matcher of
  `action_glob_match` for patterns whose only signs are single stars (`Plain`): a
  promoted star crosses "/" only at the end of the pattern or as a whole component,
  and brackets are literal, as the code escapes them. What `glob_match` makes of a
  pattern with another sign (`?`, `{`, `\`, a leading `!`, two stars) is that crate's
  affair: the symbols that hold one are the constant `Signed`, and what it answers is
  the constant `OddMatches`. Methods, hosts and paths are any symbols that an agent
  sends, signs, colons and lower-case methods included. Strings are ASCII, annotations
  are not empty, paths are origin-form, the working directory holds no template, and
  the prefix "Microsoft." is not written. Names given to `generate` are not empty.
  `init` does not escape its provider, so what it is given holds no quote and no
  backslash. Texts that a human writes hold any symbols. `Canonical`, `Read` and
  `Checked` are tables of `ParseAction`, `Parse` and `Check` over the requests and
  texts of the instance.
- **Handshakes** are one step that succeeds: one that fails closes the
  connection before anything is shared.

## 3. Runs

| Run | Question | Size |
|---|---|---|
| `tree_safety` | one-shots and forbids under two racing callers, seven kinds of change, a clock | 230,000 states |
| `vec_implements_tree` | are the locked walks atomic? | 200,000 |
| `queue_promise` | one sender per wait, acknowledged verdicts stand, refinement with liveness | 290,000 |
| `proxy_safety` | forbid, default deny, log, counter and history over three requests on two connections, one of which the log may lose | 2,960,000 |
| `proxy_liveness` | a verdict given is carried out; every request ends when humans attend and peers answer | 82,000 |
| `store_safety` | what is inherited, from whom and where; live sessions keep their status; what an exit wrote stays whole | 2,450,000 |
| `lifecycle` | is an agent ever without its proxy, is anything left, does the CA stay whole, over two runs that start, fail, are killed and end | 490,000 |
| `screen` | does a key act on what was marked when it was typed, is the log shown whole, does a parked request come up | 1,330,000 |
| `templates` | does a generated file fit its log through escape, parse and match; do check and list tell the truth; does an action keep the verb | 121,000 |
| `proxy_told`, `proxy_grant`, `store_twice` | what a doc or comment says and the code does not do: see `findings` | small |

Bounds. Two callers, connections or humans are what a race needs; every lock is
held by one step at a time, so a third would repeat the interleavings of two.
`MaxRules` (2 or 3 pushes) lets a one-shot, a permit and a forbid meet, be
replaced and come again. `MaxTime` = 1 lets a forbid expire and an entry age past
its timeout. `MaxTicket` = 2 gives three tickets to two requesters, so one comes
back while an old listing still shows its first request. Three requests let one
action be denied, approved and met again with the rule in place, and push the
first entry out of a history of two (the code's 20 only delays that). The log may
lose lines of the third (`Lossy` = {3}), whichever role it plays: all three would
add states and no new step. Three processes are a former session and two that
compete for it, or a chain of two resumes. One process has a template and another
one approves: what matters is that ids meet or differ. One of the processes is
root's (`Root` = {p3}), the others a user's. Two directories show that nothing
crosses over; they are interchangeable, hence the symmetry. Two runs with
different command lines and configuration files contend for 8443, one more port
and one CA; a third would repeat what two do; one of them cannot remove its
directory (`Stuck` = {r2}). Two entries and rules without a bound of their own
(each stems from an approval) let a list shrink under the selection and an older
request come in before a younger one; one key that waits is enough to be read at
another frame than it was typed at; two lines of two halves make a poll read one
of them torn. The requests of `templates` have one for each parser and each branch
that the properties tell apart, besides a path /repos/{x} (in `Signed`), a
namespace `*`, a segment with a colon and a lower-case "patch"; `OddMatches` says
that {x} matches x and no {x}. Two log entries and two loaded texts are what it
takes for a permit to meet a forbid; one name holds a quote, a backslash and two
dashes.

Fairness. `Approvals`, `ApprovalQueue`: a decided request wakes (a task whose
channel is filled is scheduled) and a resolve that has removed its entry goes on
to send (no await in between). `EnforcingProxy`: a handler that has read a request
runs on up to the network (`Handle`: the evaluation, the wakeup, the counter, the
log); nothing is assumed of clients, upstreams and humans in `FairSpec`, and
`CarriedOut` asks for no more than that the handler gets to the network. No
connect, read or write of the code has a timeout (`proxy.rs:484-611`), so what
comes then is up to the peers. `Served` has both as antecedents. `Attended`: the
IPC handler writes its line, and a human who keeps seeing a request decides it;
without it a parked request waits for ever, since nothing calls `expire`.
`PeersAnswer`: no client and no upstream is silent for ever, and with one that is
a handler stalls for ever. Weak fairness of a handler supposes that the runtime
finds it a thread; the limit of tokio's blocking pool is not modelled.
`SessionLifecycle`: each run's own steps (`Proceed`), which wait for nobody; not
an agent's end, a signal or a kill. A run that is hung takes no more steps, and
`EndsWithAgent` excepts it. `ApprovalScreen`: the loop turns (`WF` of `Loop \/
Key`: it polls keys with a timeout, and the human leaves the editor), and the poll
of the approvals succeeds if it is due again and again (`SF` of `AskPending`: half
a second passes, and the daemon answers while it is up).

Deadlock is not checked in `queue_promise` (agents may stop asking), in the runs
of `SessionStore` and in `lifecycle` (every process may have run its course), nor
in `screen` (the human may quit).

Observed without a run of its own:

- `permission.rs:92` takes the first permit in the order of the list, so a
  one-shot before a persistent permit is used up; `docs/permission-tree.md:112`
  says that the order does not matter. No production path creates a one-shot.
- A human's decision is logged by the IPC handler (`ipc.rs:265`) and again by
  the decider (`proxy.rs:157`). `DecisionsLogged` states it as it is.
- A write of the log that fails is not noticed (`proxy.rs:157`, `:426`, `ipc.rs:265`,
  `:287`): the decision stands, `total_decisions` counts it and the log has no line,
  where `docs/architecture.md:406` says that every decision produces an entry.
  `DecisionsLogged` says that this is the only way to lose one.
- A start of a user marks the live session of a `--pf` run crashed, which runs as
  root: `kill(pid, 0)` fails with EPERM (`main.rs:433`). `LiveIsRunning` excepts it.
- Under `--pf` a signal kills `su` (`main.rs:709`, `:745`), and the agent may live on
  behind a proxy that is gone. `NothingLeft` speaks of the agent itself only without pf.
- A failed flush is only warned about (`pf.rs:91`), so a failed start may leave its
  anchor loaded, as an orderly exit always does. No property claims otherwise.
- A run whose log cannot be written at the end (`main.rs:758`), or that fails after its
  proxy has served somebody, may hang in the drop of the runtime, which waits for a
  handler that is parked in `block_in_place` (`proxy.rs:202`).
- A key typed while a poll blocks, up to the timeouts of `ipc_send`, is read against
  newer lists (`tui.rs:1692-1707`): `y` may approve a request that the human did not see
  marked, if the selected one was decided elsewhere, an older one came in before it, or
  the list was empty when the key was typed. `ActsOnFrame` says when it cannot.
- `db.rs:115-119` reads the newest running session of the directory, which need
  not be the one that the UPDATE claimed. `SameDirectory` holds all the same.
- `db.rs:341` gives a session that is found crashed a fresh `last_used`, so an old
  crash may be resumed before a session that ended later.
- A crashed session has only the rules that it had persisted, none of this run's:
  `main.rs:796` is the only place that persists, and `docs/architecture.md:563`
  says no more. What a human approves after the copy of the tree at `main.rs:765`
  is granted and not persisted.
- `docs/permission-tree.md:105` and `:230` speak of a timeout of parked requests;
  `expire` (`approval.rs:107`) has no caller.
- `docs/permission-tree.md:280` says that forbids of a template stay; the TUI's
  delete removes any rule by its id.
- A resumed session that loads the same template again has its ids twice: the
  INSERT at `db.rs:203` fails on the second one and nothing is persisted, where
  `docs/architecture.md:189-190` says that the tree is. `WrittenWhole` speaks of
  distinct ids.
- `docs/architecture.md:563` says that the next network call of a killed session's
  agent fails; the agent lives on, and the next session that takes port 8443 serves
  it. `OwnProxy` speaks of live runs.
- An orderly exit ends in `process::exit`, which runs no destructor, so the pf
  anchor stays loaded; `flush_orphaned_anchors` (`pf.rs:301`) has no caller.
- Two first runs at the same time may leave a certificate and a key that do not
  match (`docs/architecture.md:93`, `:553`); `PairMatches` excepts them. A torn
  file makes every later start fail. `is_new_ca` is read before the CA is made
  (`main.rs:476`), so a crash between the two leaves a CA that no later run offers
  to trust.
- The `e` key opens an editor, and what was edited is never applied
  (`docs/architecture.md:298-305`, `tui.rs:1829`, `:1860`). The selected rule or
  approval may be off the screen when the list is longer than it.
- `generate` takes a denial whose reason contains "allow" as allowed
  (`template.rs:570`). `list` lets a file override a bundled one by its `@name`,
  `resolve` by its path; `ListedIsResolved` supposes that they agree.
- Paths, hosts and namespaces are the agent's, and `glob_match` gives their signs a
  meaning (`permission.rs:223`): a logged /repos/{x} becomes a permit that does not match
  its own action, a namespace `*` one for every namespace. `SavedFits` says nothing of
  such actions, and what it says of the others holds beside them in one file.
- Different requests become one action: a pod and its exec or log, the GCP verbs
  `getIamPolicy` and `setIamPolicy` of one resource, every POST to GitHub's /graphql
  (`parser.rs:206-231`, `:412-449`), and a method and the lower-case verb that a parser
  writes for it (`other => other`). `VerbKept` compares methods, and excepts the last.
- `audit.rs:77` takes the time of a line before the lock of the file, so
  timestamps may run backwards.

## 4. Proofs

`PermissionTreeProofs`, from `RulesAssumption` and `TreeAssumption` (the shape of
the constants only), for any number of callers and rules:

- `TypeCorrect`: `[]TypeOK`, with unique positions below `nextPos`. Every push
  goes through `PlacedProperties`, every evaluation through
  `MarkConsumedProperties`.
- `OneShotAtMostOnce`: `OneShotOnce` alone is not inductive; `OneShotInv` adds
  that a one-shot that has allowed is marked and that no rule is yet to come at a
  position that has.
- `ForbidWins`: an answer "allow" was computed at some instant of the call with
  no forbid in force, and a forbid that had expired then has expired now.

`PermissionVecProofs`, from `VecAssumption` and `RulesAssumption`, for any number of
callers and rules and any list to start from. `WalkSound` says nothing of the
caller that is about to take the lock and is not inductive. `VecInv` adds that
positions grow along the list and stay below `nextPos` (`Positions`), that a caller
is in the lock exactly while it walks and a writer is there alone (`LockOf`,
`Excluded`), that a caller has a call while it is not idle and read the clock since
the call began (`CallOf`), and what the walk has passed by so far (`WalkSound` itself). `Retain` is a
recursive function: that it exists and what it keeps is shown by induction on a
set of numbers, whose least element the library's theorem on finite sets gives.

- `VecTypeCorrect`: `[]TypeOK`.
- `WalksSound`: `[]WalkSound`.
- `VecImplementsTree`: `Spec => ImplementsTree`, the whole specification of
  `PermissionTree`. The turn of the loop that answers is the tree's `Evaluate` or
  `CheckForbid`; a change is the tree's change at its one write; every other step
  stutters. So `OneShotAtMostOnce` and `ForbidWins` hold of the code's loops.

`ApprovalQueueProofs`, from `QueueAssumption` (the bounds are numbers), for any
number of requesters, humans and tickets. `OneSender` and `AckStands` speak of
one moment and are not inductive. `QueueInv` adds who owns what: no two requests
hold a ticket (`TicketsUnique`), an entry belongs to the request that waits under
its id (`EntriesOwned`), so does one that was removed and not sent
(`SendersOwned`), an id never comes to mean another action (`SawRight`), a waiting
request is owed its verdict (`NobodyForgotten`), and what was acknowledged is
settled (`AcksSettled`). There is one lemma per action.

- `QueueTypeCorrect`: `[]TypeOK`.
- `NoLostWakeup`: `[]OneSender`.
- `VerdictStands`: `[]AckStands`.
- `QueueImplementsApprovals`: the initial states and the steps of `Approvals` under
  the mapping `AskedOf`, the safety part of `ImplementsPromise`. `Stages` says what
  a request is to `Approvals` in each of its stages.

`EnforcingProxyProofs`, from `ProxyAssumption` and `RulesAssumption`, for any
number of connections, humans, requests and rules:

- `ProxyTypeCorrect`: `[]TypeOK`. It needs `InProgress`: the request that a
  handler works on has been read and has an action.
- `ForbidAlwaysWins`: `[]NeverPastForbid`. No operation that a session performs
  adds a forbid (`NoNewForbid`), a request keeps its action (`ActionsStay`), and a
  handler gets to where the property speaks only past a guard that looked at the
  tree (`GuardedStep`).

Three more properties of `EnforcingProxy` speak of requests that have ended, and
none of them is inductive. `StageInv` adds what
holds on the way: no two handlers share a request, a request to come is untouched
(`Numbered`), and at each program counter what a human has said and what the
verdict is (`Staged`).

- `ForwardedEarnedAlways`: `[]ForwardedEarned`. `EarnInv` adds that every permit of
  the tree stems from the start or from an approval, and that a request with
  verdict "allow" has earned it already. Both outlive the deletion of the rule,
  since what a human said stays said.
- `DecisionsLoggedAlways`: `[]DecisionsLogged`, for every set `Lossy`. `LogInv` ties the
  line, written or lost, to the program counter; `CountInv` counts the handlers between
  the counter and the line, with the finiteness of that set; `HumanInv` counts a
  HumanApproval line from the moment an IPC handler owes it, as it may come after the
  request has ended.
- `HistoryTrueAlways`: `[]HistoryTrue`. `HistInv` adds that a request that is not
  decided is not in the history, and that its handler holds the verdict that the
  history tells until the line is written.

`SessionStoreProofs`, from `StoreAssumption`, for any number of processes and
directories and every set of root's. One invariant, `StoreInv`, carries all: types and registration,
`LiveIsRunning`, `Fresh` (what a process has not come to yet holds nothing),
`Here` (the session that a process is about to load is of its own directory),
`OnlyInherited`, `SameDirectory` and `Written` (what an exit wrote is what it
copied).

- `StoreTypes`, `LiveIsRunningAlways`, `OnlyInheritedAlways`, `SameDirectoryAlways`,
  `WrittenWholeAlways`.

`SessionLifecycleProofs`, from `ProcAssumption` and `LifecycleAssumption`, for any
number of runs, ports and configurations. `IInv` is `TypeOK`, `PairInv` (how far
the one maker of a CA is and what the files hold then; who reads finds a key, so
the certificate is final), `SetupHolds` and `LifeInv` (what each run has taken by
where it is, and whose proxy its agent has met).

- `LifecycleTypes`, `PreparedAlways`, `NothingLeftAlways`, `OwnProxyAlways`,
  `SetupHoldsAlways`, `PairMatchesAlways`, `EstablishedStaysAlways`.

`ApprovalScreenProofs`, from `ScreenAssumption`, for any number of entries, keys and
lines. `ScreenInv` adds that all lists, those in the frames of keys that wait included,
are in ascending order: pending approvals by age (`ParkKeeps`), rules by number. A list
from which nothing has gone and to which only younger items have come then has its items
where they were (`KeptInPlace`, by the least index that would differ). `TailInv` adds
that what is shown lies before the offset and that a line in whose middle the offset is
was read torn.

- `ScreenTypes`, `ActsOnFrameAlways`, `TailCompleteAlways`.

`TemplatesProofs`, from `TemplatesAssumption`, `RequestsAssumption`,
`SymbolAssumption` and `RulesAssumption`, for all symbols, requests, names, drafts
and bundled files. The readers and the matcher are recursive functions. That one
exists is shown once (`RecursionDefined`), along a measure of its arguments, and
what it computes then follows from its equation by induction on the text.

- `EmitReadBack`: `Parse(Emit(policy)) = {policy}` of every policy, whatever quotes,
  backslashes or semicolons its texts hold. It goes string by string (what the
  escape writes, the reader of a quoted string ends after), then statement by
  statement.
- `SavedFitsAlways`: `[]SavedFits`. A file that was generated reads as the policy it
  was written from. The glob of a tame request has no sign but its own stars
  (`PlainGlobs`), so the matcher reads it as written, whatever `OddMatches` says. It is
  the action itself, or it ends in a wildcard and covers the actions it stands for
  (`Covered`); what it matches has the same host, service or namespace, since no
  separator occurs in a tame request's words (`NothingElse`).
- `CheckTells`: `[]CheckAgrees`. The verdicts on the loaded texts one by one are the
  verdict of the tree, which holds exactly their rules.
- `ListLoads`: `[]ListedIsResolved`.
- `VerbKeptAlways`: `[]VerbKept`. Each parser's action tells the method of its
  tame request, but for the verbs that the parser writes itself (`MethodTold`): the verb is read off after the last colon, or it is
  spelled after the provider's name.
- `TemplatesTypeCorrect`: `[]TypeOK`, supposing `PlacesGiven`, as in the run: `Place`
  has the places that `generate` and `init` write to.

The inductive invariant `Inv` of the module has a part per variable: the log is
what may be logged and finite (`LogKept`), files are texts (`FilesKept`), a
generated file is the one of its decisions until it is overwritten (`MadeKept`),
loaded texts are texts (`LoadedKept`), and the tree is their rules (`TreeKept`).

Only model-checked: liveness, which the prover cannot reach (`CarriedOut`,
`Served`, `EndsWithAgent`, `ComesUp`, and the liveness half of
`ImplementsPromise`). No module declares a RECURSIVE operator.

## 5. Not modelled, and the plan

Not modelled:

- `sandbox.rs`: one generated text for the operating system, no state.
- `YoloDecider`, which allows all, and `PatternDecider`, which nothing but tests
  uses; a run with `--yolo` is in `SessionLifecycle`.
- The CONNECT and TLS handshakes, which share nothing when they fail; the leaf
  cache; the expiry of the CA after a year.
- The threads of the runtime: `block_in_place` takes one for each parked request.
- The socket server of `ipc.rs` and its framing; `Status` and `PendingApprovals`
  only read.
- The format and the timestamps of log lines, and the session events among them.
- The hub of the TUI (its delete is in `SessionStore`), layout, scrolling, the
  filter and the text of a search.
- The other settings of `config.rs`, which are passed on; the rules text of
  `pf.rs`; the sub-commands of `main.rs` that only print.

What would come next:

1. `AccessPolicy`, an abstract specification that `EnforcingProxy` implements: a
   request is forwarded or refused by what the tree and the humans said of it.
2. The runtime's threads as a resource, with the liveness of `Served` at its limit.
