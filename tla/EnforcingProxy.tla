---------------------------- MODULE EnforcingProxy ----------------------------
(***************************************************************************)
(* An enforcing session: the proxy's connection handlers and the decider   *)
(* (crates/closedshell-lib/src/proxy.rs) with what they share: the tree,   *)
(* the approval queue, the session state and the audit log, and the humans *)
(* who reach the same through the IPC handler (ipc.rs).                    *)
(*                                                                         *)
(* The tree is PermissionTree's (its operations are single steps), without *)
(* expiry times; the queue is Approvals', as nothing calls expire.  One    *)
(* step touches one of them, or the log; record_denial and record_decision *)
(* belong to the step that decides, and enqueue to the has_forbid before   *)
(* it: nothing adds a forbid in between.  A write of the log may fail, and *)
(* nobody is told.  What a request met is kept under its serial number.    *)
(***************************************************************************)
EXTENDS PermissionRules, FiniteSets

CONSTANTS
  Conn,          \* client connections, each with its handler
  Human,         \* IPC requests served concurrently
  NoAction,
  NetPattern,    \* the canonical actions that an action's net form matches
  InitialRules,  \* templates and restored rules
  HumanIds,      \* ids "human-<millis>": two approvals may get the same
  MaxRequests,   \* bound on the requests of the session
  MaxHistory,    \* MAX_HISTORY
  Lossy          \* bound: the requests of which the log may fail to write a line

ASSUME ProxyAssumption ==
  /\ NoAction \notin Action
  /\ NetPattern \in [Action -> SUBSET Action]
  /\ InitialRules \in Seq(Rule)
  /\ \A i \in DOMAIN InitialRules : InitialRules[i].expires = Never
  /\ HumanIds \subseteq RuleId
  /\ MaxRequests \in Nat
  /\ MaxHistory \in Nat \ {0}
  /\ Lossy \subseteq 1..MaxRequests

VARIABLES
  conn,         \* each handler's program counter, request and verdict
  asked,        \* the approval queue, as in Approvals
  rules,        \* the tree
  nextPos,
  lastDenial,   \* SessionState.last_denial
  history,      \* SessionState.history
  human,        \* each IPC handler
  total,        \* ProxyStats.total_decisions
  requests,     \* number of requests read
  request       \* what each request met: log lines, human's word, outcome

shared == <<lastDenial, history>>
tree   == <<rules, nextPos>>
vars   == <<conn, asked, tree, shared, human, total, requests, request>>

HumanSays == {"approved", "denied"}

Queue == INSTANCE Approvals WITH Requester <- Conn, Verdict <- HumanSays,
                                 NoVerdict <- "none"

Serial == 1..MaxRequests

Conns == [pc: {"closed", "idle", "evaluate", "check", "parked", "woken", "decided",
               "counted", "refuse", "upstream"},
          n: 0..MaxRequests, verdict: {"none", "allow", "deny"}]

Denial   == [action: Action, denied_by: {"forbid", "human"}]
NoDenial == [action |-> NoAction, denied_by |-> "none"]

(***************************************************************************)
(* action; the human's word; the position of the rule it added (0: none);  *)
(* lines of the audit log, those whose write failed, and the result of the *)
(* Decision line, written or lost; the action that the 403 names; what     *)
(* became of it.                                                           *)
(***************************************************************************)
Story == [action: Action \cup {NoAction}, said: HumanSays \cup {"none"}, rule: Nat,
          decisionLines: Nat, humanLines: Nat, lostDecisions: Nat, lostHumans: Nat,
          result: {"none", "allow", "deny"},
          told: Action \cup {NoAction}, outcome: {"none", "forwarded", "failed", "refused"}]

Untold == [action |-> NoAction, said |-> "none", rule |-> 0, decisionLines |-> 0,
           humanLines |-> 0, lostDecisions |-> 0, lostHumans |-> 0, result |-> "none",
           told |-> NoAction, outcome |-> "none"]

TypeOK ==
  /\ conn \in [Conn -> Conns]
  /\ Queue!TypeOK
  /\ rules \subseteq Rule
  /\ \A r \in rules : r.pos \in 1..(nextPos - 1)
  /\ nextPos \in Nat \ {0}
  /\ lastDenial \in Denial \cup {NoDenial}
  /\ history \in Seq([n: Serial, decision: {"allow", "deny"}])
  /\ Len(history) <= MaxHistory
  /\ human \in [Human -> 0..MaxRequests]
  /\ total \in Nat
  /\ requests \in 0..MaxRequests
  /\ request \in [Serial -> Story]

Init ==
  /\ conn = [c \in Conn |-> [pc |-> "closed", n |-> 0, verdict |-> "none"]]
  /\ Queue!Init
  /\ rules = Placed(InitialRules, 1)
  /\ nextPos = Len(InitialRules) + 1
  /\ lastDenial = NoDenial
  /\ history = <<>>
  /\ human = [h \in Human |-> 0]
  /\ total = 0
  /\ requests = 0
  /\ request = [n \in Serial |-> Untold]
-----------------------------------------------------------------------------
At(c, pc)   == conn[c].pc = pc
GoTo(c, pc) == conn' = [conn EXCEPT ![c].pc = pc]
Finish(c, pc) == conn' = [conn EXCEPT ![c] = [pc |-> pc, n |-> 0, verdict |-> "none"]]
ActionOf(c) == request[conn[c].n].action

\* Mutants of RecordDecision: the cap is one too high; every entry is a denial.
RecordOneMore(c, decision) ==
  LET kept == IF Len(history) > MaxHistory THEN Tail(history) ELSE history
  IN  history' = Append(kept, [n |-> conn[c].n, decision |-> decision])
RecordDeny(c, decision) ==
  LET kept == IF Len(history) >= MaxHistory THEN Tail(history) ELSE history
  IN  history' = Append(kept, [n |-> conn[c].n, decision |-> "deny"])

\* SessionState::record_decision: the oldest entry makes room.
RecordDecision(c, decision) ==
  LET kept == IF Len(history) >= MaxHistory THEN Tail(history) ELSE history
  IN  history' = Append(kept, [n |-> conn[c].n, decision |-> decision])

\* The decider returns its verdict, with record_decision before it.
Decide(c, pc, verdict) ==
  /\ conn' = [conn EXCEPT ![c].pc = pc, ![c].verdict = verdict]
  /\ RecordDecision(c, verdict)

RecordDenial(c, by) == lastDenial' = [action |-> ActionOf(c), denied_by |-> by]

\* let _ = audit.log(..): a HumanApproval line of request n is written, or lost.
HumanLine(n) ==
  \/ request' = [request EXCEPT ![n].humanLines = @ + 1]
  \/ n \in Lossy /\ request' = [request EXCEPT ![n].lostHumans = @ + 1]
-----------------------------------------------------------------------------
(***************************************************************************)
(* handle_client: one connection, one request after the other.             *)
(***************************************************************************)
\* CONNECT, the handshakes and the SNI check succeeded.
Connect(c) ==
  /\ At(c, "closed")
  /\ GoTo(c, "idle")
  /\ UNCHANGED <<asked, tree, shared, human, total, requests, request>>

Hangup(c) ==
  /\ At(c, "idle")
  /\ GoTo(c, "closed")
  /\ UNCHANGED <<asked, tree, shared, human, total, requests, request>>

\* A request is read and parsed.
Receive(c, a) ==
  /\ At(c, "idle")
  /\ requests < MaxRequests
  /\ requests' = requests + 1
  /\ conn' = [conn EXCEPT ![c] = [pc |-> "evaluate", n |-> requests', verdict |-> "none"]]
  /\ request' = [request EXCEPT ![requests'].action = a]
  /\ UNCHANGED <<asked, tree, shared, human, total>>

\* EnforcingDecider::evaluate asks the tree.
Evaluate(c) ==
  /\ At(c, "evaluate")
  /\ rules' = RulesAfter(rules, ActionOf(c), 0)
  /\ IF Outcome(rules, ActionOf(c), 0) = "allow"
     THEN Decide(c, "decided", "allow")
     ELSE GoTo(c, "check") /\ UNCHANGED history
  /\ UNCHANGED <<asked, nextPos, lastDenial, human, total, requests, request>>

\* Mutant of MustPark: the second look at the tree is forgotten.
AlwaysPark(a) == TRUE

MustPark(a) == ~HasForbid(rules, a, 0)

\* It was denied: for good if has_forbid, else it waits for a human.
CheckForbid(c) ==
  /\ At(c, "check")
  /\ IF MustPark(ActionOf(c))
     THEN Queue!Ask(c, ActionOf(c)) /\ GoTo(c, "parked") /\ UNCHANGED shared
     ELSE RecordDenial(c, "forbid") /\ Decide(c, "decided", "deny") /\ UNCHANGED asked
  /\ UNCHANGED <<tree, human, total, requests, request>>

\* Mutant of HumanRule: the rule that is added permits everything.
WideRule(id, a) ==
  [pos |-> nextPos, id |-> id, effect |-> "permit", action |-> Action,
   rule_type |-> "idempotent", consumed |-> FALSE, plan_id |-> NoPlan, expires |-> Never]

HumanRule(id, a) ==
  [pos |-> nextPos, id |-> id, effect |-> "permit", action |-> NetPattern[a],
   rule_type |-> "idempotent", consumed |-> FALSE, plan_id |-> NoPlan, expires |-> Never]

\* await_human_approval wakes: approved.
WakeApproved(c, id) ==
  /\ At(c, "parked")
  /\ asked[c].verdict = "approved"
  /\ Queue!Answer(c)
  /\ rules' = rules \cup {HumanRule(id, ActionOf(c))}
  /\ nextPos' = nextPos + 1
  /\ Decide(c, "woken", "allow")
  /\ request' = [request EXCEPT ![conn[c].n].rule = nextPos]
  /\ UNCHANGED <<lastDenial, human, total, requests>>

\* Mutant of WakeDenied: no arm takes the verdict.
WakeDeaf(c) == FALSE /\ UNCHANGED vars

\* It wakes: denied.
WakeDenied(c) ==
  /\ At(c, "parked")
  /\ asked[c].verdict = "denied"
  /\ Queue!Answer(c)
  /\ RecordDenial(c, "human")
  /\ Decide(c, "woken", "deny")
  /\ UNCHANGED <<tree, human, total, requests, request>>

\* The decider's own HumanApproval line.
LogApproval(c) ==
  /\ At(c, "woken")
  /\ Queue!Leave(c)
  /\ HumanLine(conn[c].n)
  /\ GoTo(c, "decided")
  /\ UNCHANGED <<tree, shared, human, total, requests>>

Count(c) ==
  /\ At(c, "decided")
  /\ total' = total + 1
  /\ GoTo(c, "counted")
  /\ UNCHANGED <<asked, tree, shared, human, requests, request>>

\* Mutant of LogDecision: a refusal returns before its line is written.
LogAllowedOnly(c) ==
  /\ At(c, "counted")
  /\ request' = IF conn[c].verdict = "deny" THEN request
                ELSE [request EXCEPT ![conn[c].n].decisionLines = @ + 1,
                                     ![conn[c].n].result = conn[c].verdict]
  /\ GoTo(c, IF conn[c].verdict = "allow" THEN "upstream" ELSE "refuse")
  /\ UNCHANGED <<asked, tree, shared, human, total, requests>>

LogDecision(c) ==
  /\ At(c, "counted")
  /\ LET n == conn[c].n IN
     \/ request' = [request EXCEPT ![n].decisionLines = @ + 1, ![n].result = conn[c].verdict]
     \/ /\ n \in Lossy
        /\ request' = [request EXCEPT ![n].lostDecisions = @ + 1, ![n].result = conn[c].verdict]
  /\ GoTo(c, IF conn[c].verdict = "allow" THEN "upstream" ELSE "refuse")
  /\ UNCHANGED <<asked, tree, shared, human, total, requests>>

\* The 403 is built from the shared last denial, and may fail to be written.
Refuse(c) ==
  /\ At(c, "refuse")
  /\ request' = [request EXCEPT ![conn[c].n].outcome = "refused",
                                ![conn[c].n].told = lastDenial.action]
  /\ \E pc \in {"idle", "closed"} : Finish(c, pc)
  /\ UNCHANGED <<asked, tree, shared, human, total, requests>>

\* The request goes upstream; the response keeps the connection or ends it.
Forward(c) ==
  /\ At(c, "upstream")
  /\ request' = [request EXCEPT ![conn[c].n].outcome = "forwarded"]
  /\ \E pc \in {"idle", "closed"} : Finish(c, pc)
  /\ UNCHANGED <<asked, tree, shared, human, total, requests>>

\* The upstream cannot be reached: the handler returns with the error.
UpstreamFails(c) ==
  /\ At(c, "upstream")
  /\ request' = [request EXCEPT ![conn[c].n].outcome = "failed"]
  /\ Finish(c, "closed")
  /\ UNCHANGED <<asked, tree, shared, human, total, requests>>
-----------------------------------------------------------------------------
(***************************************************************************)
(* EnforcingIpcHandler::handle.  human[h] is the request whose decision h  *)
(* has yet to log (0: none).                                               *)
(***************************************************************************)
\* Approve or Deny finds the request pending and resolves it.
Resolve(h, c, v) ==
  /\ human[h] = 0
  /\ Queue!Open(c)
  /\ Queue!Decide({c}, v)
  /\ human' = [human EXCEPT ![h] = conn[c].n]
  /\ request' = [request EXCEPT ![conn[c].n].said = v]
  /\ UNCHANGED <<conn, tree, shared, total, requests>>

\* The handler's HumanApproval line.
LogResolve(h) ==
  /\ human[h] # 0
  /\ HumanLine(human[h])
  /\ human' = [human EXCEPT ![h] = 0]
  /\ UNCHANGED <<conn, asked, tree, shared, total, requests>>

DeleteRule(id) ==
  /\ rules' = WithoutId(rules, id)
  /\ UNCHANGED <<conn, asked, nextPos, shared, human, total, requests, request>>

Next ==
  \/ \E c \in Conn : Connect(c)
  \/ \E c \in Conn : Hangup(c)
  \/ \E c \in Conn, a \in Action : Receive(c, a)
  \/ \E c \in Conn : Evaluate(c)
  \/ \E c \in Conn : CheckForbid(c)
  \/ \E c \in Conn, id \in HumanIds : WakeApproved(c, id)
  \/ \E c \in Conn : WakeDenied(c)
  \/ \E c \in Conn : LogApproval(c)
  \/ \E c \in Conn : Count(c)
  \/ \E c \in Conn : LogDecision(c)
  \/ \E c \in Conn : Refuse(c)
  \/ \E c \in Conn : Forward(c)
  \/ \E c \in Conn : UpstreamFails(c)
  \/ \E h \in Human, c \in Conn, v \in HumanSays : Resolve(h, c, v)
  \/ \E h \in Human : LogResolve(h)
  \/ \E id \in RuleId : DeleteRule(id)

\* Once it has read a request, a handler's task runs on up to the network,
Handle(c) ==
  \/ Evaluate(c) \/ CheckForbid(c)
  \/ \E id \in HumanIds : WakeApproved(c, id)
  \/ WakeDenied(c) \/ LogApproval(c) \/ Count(c) \/ LogDecision(c)

\* where it waits for its peer without any timeout: the client that is to read the
\* 403 or the response, the upstream that is to be reached and to respond.
Exchange(c) == Refuse(c) \/ Forward(c) \/ UpstreamFails(c)

Spec     == Init /\ [][Next]_vars
FairSpec == Spec /\ \A c \in Conn : WF_vars(Handle(c))

\* Besides, a human who keeps seeing a request pending decides it in the end,
Attended ==
  /\ \A h \in Human : WF_vars(LogResolve(h))
  /\ \A c \in Conn : SF_vars(\E h \in Human, v \in HumanSays : Resolve(h, c, v))

\* and no peer is silent for ever.  The code relies on it and does not see to it.
PeersAnswer == \A c \in Conn : WF_vars(Exchange(c))
-----------------------------------------------------------------------------
Allowed(c) == conn[c].verdict = "allow" /\ conn[c].pc \notin {"closed", "idle"}

(***************************************************************************)
(* Forbid always wins: while a request is parked for a human, and while it *)
(* is on its way upstream by whatever verdict, no forbid of the tree       *)
(* matches it.                                                             *)
(***************************************************************************)
NeverPastForbid ==
  \A c \in Conn : At(c, "parked") \/ Allowed(c) => ~HasForbid(rules, ActionOf(c), 0)

\* A permit that the session began with matches a.
PermittedAtStart(a) ==
  \E i \in DOMAIN InitialRules :
    InitialRules[i].effect = "permit" /\ Matches(InitialRules[i], a)

\* A human approved a request whose rule matches that of request n.
CoveredByHuman(n) ==
  \E m \in Serial :
    /\ request[m].said = "approved"
    /\ m = n \/ request[n].action \in NetPattern[request[m].action]

(***************************************************************************)
(* Default deny: what went upstream had a permit from the start, or a      *)
(* human approved that very request or one whose rule covers it; and no    *)
(* request that a human denied went upstream, though other requests with   *)
(* the same action were approved meanwhile.                                *)
(***************************************************************************)
ForwardedEarned ==
  \A n \in Serial : request[n].outcome \in {"forwarded", "failed"} =>
    /\ PermittedAtStart(request[n].action) \/ CoveredByHuman(n)
    /\ request[n].said # "denied"

(***************************************************************************)
(* Every decision of the proxy is offered to the log exactly once before   *)
(* the client hears of it, as what was then done, and counted whether the  *)
(* write succeeds or not.  A human's decision is offered twice, by the IPC *)
(* handler and by the decider.  So the log lacks a line only if its write  *)
(* failed, and then nothing tells of it (docs/architecture.md:406 says     *)
(* that every decision produces an entry).                                 *)
(***************************************************************************)
DecisionsLogged ==
  /\ \A n \in Serial :
       LET offered == request[n].decisionLines + request[n].lostDecisions
       IN /\ offered = IF request[n].result = "none" THEN 0 ELSE 1
          /\ request[n].outcome = "refused" => request[n].result = "deny"
          /\ request[n].outcome \in {"forwarded", "failed"} => request[n].result = "allow"
  /\ total = Cardinality({n \in Serial : request[n].result # "none"})
               + Cardinality({c \in Conn : At(c, "counted")})
  /\ \A n \in Serial : request[n].outcome # "none" =>
       request[n].humanLines + request[n].lostHumans + Cardinality({h \in Human : human[h] = n})
         = IF request[n].said = "none" THEN 0 ELSE 2

(***************************************************************************)
(* The history tells of each request at most once, and what it tells is    *)
(* what the log will say.                                                  *)
(***************************************************************************)
HistoryTrue ==
  /\ \A i, j \in DOMAIN history : history[i].n = history[j].n => i = j
  /\ \A i \in DOMAIN history :
       \/ request[history[i].n].result = history[i].decision
       \/ \E c \in Conn : conn[c].n = history[i].n /\ conn[c].verdict = history[i].decision

(***************************************************************************)
(* A verdict that a human gave is carried out: the handler wakes and, as   *)
(* the human said, gets to sending the request upstream or to refusing it. *)
(* What the peer then does is not its doing.                               *)
(***************************************************************************)
Reached(n, pc, outcomes) ==
  request[n].outcome \in outcomes \/ \E c \in Conn : At(c, pc) /\ conn[c].n = n

CarriedOut ==
  \A n \in Serial :
    /\ request[n].said = "approved" ~> Reached(n, "upstream", {"forwarded", "failed"})
    /\ request[n].said = "denied" ~> Reached(n, "refuse", {"refused"})

\* With humans who attend to the queue and peers that answer, every request ends.
Served ==
  Attended /\ PeersAnswer =>
    \A n \in Serial : request[n].action # NoAction ~> request[n].outcome # "none"
-----------------------------------------------------------------------------
(***************************************************************************)
(* What the documentation says and the code does not do.                   *)
(***************************************************************************)
\* docs/permission-tree.md:339: all denials return a 403 with the details of
\* the denial; proxy.rs:441 calls them "denial details".
ToldOfOwnDenial ==
  \A n \in Serial : request[n].outcome = "refused" => request[n].told = request[n].action

\* docs/permission-tree.md:162: an idempotent permit, "Once granted, matches on
\* every subsequent request": while the rule of an approval is in the tree, no
\* later request for the action that was approved is parked.  (For one
\* connection, where the approved request has ended when the later one begins.)
GrantMatches ==
  \A c \in Conn : At(c, "parked") =>
    ~\E m \in 1..(conn[c].n - 1) :
       /\ request[m].action = ActionOf(c)
       /\ request[m].said = "approved"
       /\ \E r \in rules : r.pos = request[m].rule
=============================================================================
