------------------------- MODULE EnforcingProxyProofs -------------------------
(***************************************************************************)
(* Proofs about EnforcingProxy, for every set of connections, humans,      *)
(* actions and rules and every bound: type correctness, that forbid always *)
(* wins, and what becomes of each request.                                 *)
(***************************************************************************)
EXTENDS EnforcingProxy, FiniteSetTheorems, TLAPS

(***************************************************************************)
(* Facts about the operators on rules, for every set of rules.             *)
(***************************************************************************)
LEMMA PlacedFromOne ==
  ASSUME NEW s \in Seq(Rule)
  PROVE  /\ Placed(s, 1) \subseteq Rule
         /\ \A r \in Placed(s, 1) : r.pos \in 1..Len(s)
<1> DEFINE at(i) == [s[i] EXCEPT !.pos = 1 + i - 1]
<1>1. ASSUME NEW i \in DOMAIN s
      PROVE  at(i) \in Rule /\ at(i).pos \in 1..Len(s)
  <2>1. i \in 1..Len(s) /\ s[i] \in Rule /\ Len(s) \in Nat
    BY <1>1
  <2>2. 1 + i - 1 = i /\ i \in Nat
    BY <2>1
  <2> QED BY <2>1, <2>2 DEF Rule
<1>2. \A r \in Placed(s, 1) : \E i \in DOMAIN s : r = at(i)
  BY DEF Placed
<1> HIDE DEF at
<1> QED BY <1>1, <1>2

\* Evaluating keeps the shape of the rules and brings no position.
LEMMA EvaluateKeepsShape ==
  ASSUME NEW R, R \subseteq Rule, NEW a, NEW t, NEW p, \A r \in R : r.pos \in 1..p
  PROVE  /\ RulesAfter(R, a, t) \subseteq Rule
         /\ \A r \in RulesAfter(R, a, t) : r.pos \in 1..p
<1>1. UsedUp(R, a, t) \subseteq R
  BY DEF UsedUp, PermitsOf
<1>2. ASSUME NEW q \in R
      PROVE  [q EXCEPT !.consumed = TRUE] \in Rule /\ [q EXCEPT !.consumed = TRUE].pos = q.pos
  BY DEF Rule
<1> QED BY <1>1, <1>2 DEF RulesAfter, MarkConsumed

\* Evaluating uses up a permit at most: it brings no forbid.
LEMMA EvaluateBringsNoForbid ==
  ASSUME NEW R, R \subseteq Rule, NEW a, NEW b, NEW t, HasForbid(RulesAfter(R, a, t), b, t)
  PROVE  HasForbid(R, b, t)
<1>1. PICK r \in RulesAfter(R, a, t) : r \in ForbidsOf(RulesAfter(R, a, t), b, t)
  BY DEF HasForbid, ForbidsOf
<1>2. r.effect = "forbid"
  BY <1>1 DEF ForbidsOf
<1>3. ASSUME NEW q \in UsedUp(R, a, t), r = [q EXCEPT !.consumed = TRUE]
      PROVE  FALSE
  <2>1. q \in Rule /\ q.effect = "permit"
    BY DEF UsedUp, PermitsOf
  <2>2. r.effect = "permit"
    BY <1>3, <2>1 DEF Rule
  <2> QED BY <1>2, <2>2
<1>4. r \in R
  BY <1>3 DEF RulesAfter, MarkConsumed
<1> QED BY <1>1, <1>4 DEF HasForbid, ForbidsOf
-----------------------------------------------------------------------------
(***************************************************************************)
(* Type correctness.                                                       *)
(***************************************************************************)
\* A handler at work holds the serial number of a request that was read.
InProgress ==
  \A c \in Conn : conn[c].pc \notin {"closed", "idle"} =>
    conn[c].n \in 1..requests /\ ActionOf(c) \in Action

ProxyInv == TypeOK /\ InProgress

\* A step of a handler with a request, on its own or with its peers.
Work(c) == Handle(c) \/ Exchange(c)

\* Story s after one more line of t's was offered to the log.
Offered(s) == s.decisionLines + s.lostDecisions
HumansOf(s) == s.humanLines + s.lostHumans

MoreHuman(s, t) ==
  /\ \E x, y \in Nat : s = [t EXCEPT !.humanLines = x, !.lostHumans = y]
  /\ HumansOf(s) = HumansOf(t) + 1

MoreDecision(s, t, v) ==
  /\ \E x, y \in Nat : s = [t EXCEPT !.decisionLines = x, !.lostDecisions = y, !.result = v]
  /\ Offered(s) = Offered(t) + 1

LEMMA MoreHumanKeeps ==
  ASSUME NEW t \in Story, NEW s, MoreHuman(s, t)
  PROVE  /\ s \in Story
         /\ s.action = t.action /\ s.said = t.said /\ s.outcome = t.outcome
         /\ s.result = t.result /\ Offered(s) = Offered(t)
<1>1. PICK x, y \in Nat : s = [t EXCEPT !.humanLines = x, !.lostHumans = y]
  BY DEF MoreHuman
<1> QED BY <1>1 DEF Story, Offered

LEMMA MoreDecisionKeeps ==
  ASSUME NEW t \in Story, NEW v \in {"none", "allow", "deny"}, NEW s, MoreDecision(s, t, v)
  PROVE  /\ s \in Story
         /\ s.action = t.action /\ s.said = t.said /\ s.outcome = t.outcome
         /\ s.result = v /\ HumansOf(s) = HumansOf(t)
<1>1. PICK x, y \in Nat :
        s = [t EXCEPT !.decisionLines = x, !.lostDecisions = y, !.result = v]
  BY DEF MoreDecision
<1> HIDE DEF Story
<1>2. s = [t EXCEPT !.decisionLines = x, !.lostDecisions = y, !.result = v]
  BY <1>1
<1> QED BY <1>2 DEF Story, HumansOf

LEMMA OneMoreHuman ==
  ASSUME NEW t \in Story, NEW x \in Nat, NEW y \in Nat,
         x + y = t.humanLines + t.lostHumans + 1,
         NEW s, s = [t EXCEPT !.humanLines = x, !.lostHumans = y]
  PROVE  MoreHuman(s, t)
<1>1. s.humanLines = x /\ s.lostHumans = y
  BY DEF Story
<1>2. HumansOf(s) = HumansOf(t) + 1
  BY <1>1 DEF HumansOf
<1>3. \E u, v \in Nat : s = [t EXCEPT !.humanLines = u, !.lostHumans = v]
  OBVIOUS
<1> QED BY <1>2, <1>3 DEF MoreHuman

LEMMA OneMoreDecision ==
  ASSUME NEW t \in Story, NEW x \in Nat, NEW y \in Nat, NEW v,
         x + y = t.decisionLines + t.lostDecisions + 1,
         NEW s, s = [t EXCEPT !.decisionLines = x, !.lostDecisions = y, !.result = v]
  PROVE  MoreDecision(s, t, v)
<1>1. s.decisionLines = x /\ s.lostDecisions = y
  BY DEF Story
<1>2. Offered(s) = Offered(t) + 1
  BY <1>1 DEF Offered
<1>3. \E u, w \in Nat : s = [t EXCEPT !.decisionLines = u, !.lostDecisions = w, !.result = v]
  OBVIOUS
<1> QED BY <1>2, <1>3 DEF MoreDecision

\* What is offered to the log is written or lost.
LEMMA HumanLineWrites ==
  ASSUME request \in [Serial -> Story], NEW n \in Serial, HumanLine(n)
  PROVE  /\ MoreHuman(request'[n], request[n])
         /\ request' = [request EXCEPT ![n] = request'[n]]
<1>1. /\ request[n] \in Story
      /\ request[n].humanLines \in Nat /\ request[n].lostHumans \in Nat
  BY DEF Story
<1>2. CASE request' = [request EXCEPT ![n].humanLines = @ + 1]
  <2> DEFINE x == request[n].humanLines + 1
             y == request[n].lostHumans
  <2>1. request'[n] = [request[n] EXCEPT !.humanLines = x, !.lostHumans = y]
    BY <1>1, <1>2 DEF Story
  <2>2. x \in Nat /\ y \in Nat /\ x + y = request[n].humanLines + request[n].lostHumans + 1
    BY <1>1
  <2>3. request' = [request EXCEPT ![n] = request'[n]]
    BY <1>2
  <2> HIDE DEF x, y
  <2> QED BY <1>1, <2>1, <2>2, <2>3, OneMoreHuman
<1>3. CASE request' = [request EXCEPT ![n].lostHumans = @ + 1]
  <2> DEFINE x == request[n].humanLines
             y == request[n].lostHumans + 1
  <2>1. request'[n] = [request[n] EXCEPT !.humanLines = x, !.lostHumans = y]
    BY <1>1, <1>3 DEF Story
  <2>2. x \in Nat /\ y \in Nat /\ x + y = request[n].humanLines + request[n].lostHumans + 1
    BY <1>1
  <2>3. request' = [request EXCEPT ![n] = request'[n]]
    BY <1>3
  <2> HIDE DEF x, y
  <2> QED BY <1>1, <2>1, <2>2, <2>3, OneMoreHuman
<1> QED BY <1>2, <1>3 DEF HumanLine

LEMMA LogDecisionWrites ==
  ASSUME request \in [Serial -> Story], NEW c \in Conn, conn[c].n \in Serial, LogDecision(c)
  PROVE  /\ MoreDecision(request'[conn[c].n], request[conn[c].n], conn[c].verdict)
         /\ request' = [request EXCEPT ![conn[c].n] = request'[conn[c].n]]
<1> DEFINE n == conn[c].n
           v == conn[c].verdict
<1>1. /\ request[n] \in Story
      /\ request[n].decisionLines \in Nat /\ request[n].lostDecisions \in Nat
  BY DEF Story
<1>2. \/ request' = [request EXCEPT ![n].decisionLines = @ + 1, ![n].result = v]
      \/ request' = [request EXCEPT ![n].lostDecisions = @ + 1, ![n].result = v]
  BY DEF LogDecision
<1>3. n \in Serial
  OBVIOUS
<1> HIDE DEF n, v
<1>4. CASE request' = [request EXCEPT ![n].decisionLines = @ + 1, ![n].result = v]
  <2> DEFINE x == request[n].decisionLines + 1
             y == request[n].lostDecisions
  <2>1. request'[n] = [request[n] EXCEPT !.decisionLines = x, !.lostDecisions = y, !.result = v]
    BY <1>1, <1>3, <1>4 DEF Story
  <2>2. x \in Nat /\ y \in Nat /\ x + y = request[n].decisionLines + request[n].lostDecisions + 1
    BY <1>1
  <2>3. request' = [request EXCEPT ![n] = request'[n]]
    BY <1>3, <1>4
  <2> HIDE DEF x, y
  <2>4. MoreDecision(request'[n], request[n], v)
    BY <1>1, <2>1, <2>2, OneMoreDecision
  <2> QED BY <2>3, <2>4 DEF n, v
<1>5. CASE request' = [request EXCEPT ![n].lostDecisions = @ + 1, ![n].result = v]
  <2> DEFINE x == request[n].decisionLines
             y == request[n].lostDecisions + 1
  <2>1. request'[n] = [request[n] EXCEPT !.decisionLines = x, !.lostDecisions = y, !.result = v]
    BY <1>1, <1>3, <1>5 DEF Story
  <2>2. x \in Nat /\ y \in Nat /\ x + y = request[n].decisionLines + request[n].lostDecisions + 1
    BY <1>1
  <2>3. request' = [request EXCEPT ![n] = request'[n]]
    BY <1>3, <1>5
  <2> HIDE DEF x, y
  <2>4. MoreDecision(request'[n], request[n], v)
    BY <1>1, <2>1, <2>2, OneMoreDecision
  <2> QED BY <2>3, <2>4 DEF n, v
<1> QED BY <1>2, <1>4, <1>5

\* The decider's record of a decision fits the history.
LEMMA RecordType ==
  ASSUME TypeOK, NEW c \in Conn, conn[c].n \in Serial, NEW d \in {"allow", "deny"},
         RecordDecision(c, d)
  PROVE  /\ history' \in Seq([n: Serial, decision: {"allow", "deny"}])
         /\ Len(history') <= MaxHistory
<1> DEFINE Entry == [n: Serial, decision: {"allow", "deny"}]
           entry == [n |-> conn[c].n, decision |-> d]
           kept  == IF Len(history) >= MaxHistory THEN Tail(history) ELSE history
<1>1. history \in Seq(Entry) /\ Len(history) <= MaxHistory /\ MaxHistory \in Nat \ {0}
  BY ProxyAssumption DEF TypeOK
<1>2. entry \in Entry
  OBVIOUS
<1>3. history' = Append(kept, entry)
  BY DEF RecordDecision
<1> HIDE DEF Entry, entry
<1>4. CASE Len(history) >= MaxHistory
  <2>1. history # <<>> /\ Len(history) \in Nat /\ kept = Tail(history)
    BY <1>1, <1>4
  <2>2. kept \in Seq(Entry) /\ Len(kept) = Len(history) - 1
    BY <1>1, <2>1
  <2> QED BY <1>1, <1>2, <1>3, <2>1, <2>2 DEF Entry
<1>5. CASE ~(Len(history) >= MaxHistory)
  <2>1. kept = history /\ Len(history) \in Nat /\ Len(history) < MaxHistory
    BY <1>1, <1>5
  <2> QED BY <1>1, <1>2, <1>3, <2>1 DEF Entry
<1> QED BY <1>4, <1>5

LEMMA InitProxyInv == Init => ProxyInv
<1> SUFFICES ASSUME Init PROVE ProxyInv
  OBVIOUS
<1>1. /\ Placed(InitialRules, 1) \subseteq Rule
      /\ \A r \in Placed(InitialRules, 1) : r.pos \in 1..Len(InitialRules)
  BY PlacedFromOne, ProxyAssumption
<1>2. /\ rules \subseteq Rule
      /\ \A r \in rules : r.pos \in 1..(nextPos - 1)
      /\ nextPos \in Nat \ {0}
  BY <1>1, ProxyAssumption DEF Init
<1>3. conn \in [Conn -> Conns] /\ \A c \in Conn : conn[c].pc = "closed"
  BY ProxyAssumption DEF Init, Conns
<1>4. Queue!TypeOK
  BY DEF Init, Queue!Init, Queue!TypeOK, Queue!Idle, Queue!Asked
<1>5. request \in [Serial -> Story]
  BY DEF Init, Untold, Story
<1>6. /\ history \in Seq([n: Serial, decision: {"allow", "deny"}])
      /\ Len(history) <= MaxHistory
  BY ProxyAssumption DEF Init
<1>7. /\ lastDenial \in Denial \cup {NoDenial}
      /\ human \in [Human -> 0..MaxRequests]
      /\ total \in Nat /\ requests \in 0..MaxRequests
  BY ProxyAssumption DEF Init
<1> QED BY <1>2, <1>3, <1>4, <1>5, <1>6, <1>7 DEF ProxyInv, TypeOK, InProgress
-----------------------------------------------------------------------------
\* A step of a handler that goes on with the same request.
LEMMA HandlerGoesOn ==
  ASSUME ProxyInv, NEW c \in Conn, conn[c].pc \notin {"closed", "idle"}, NEW pc, NEW v,
         [pc |-> pc, n |-> conn[c].n, verdict |-> v] \in Conns,
         conn' = [conn EXCEPT ![c].pc = pc, ![c].verdict = v],
         request' \in [Serial -> Story],
         \A n \in Serial : request'[n].action = request[n].action,
         requests' = requests
  PROVE  conn' \in [Conn -> Conns] /\ InProgress'
<1>1. conn \in [Conn -> Conns] /\ requests \in Nat /\ MaxRequests \in Nat
      /\ requests <= MaxRequests
  BY ProxyAssumption DEF ProxyInv, TypeOK
<1>2. /\ conn'[c] = [pc |-> pc, n |-> conn[c].n, verdict |-> v]
      /\ \A d \in Conn \ {c} : conn'[d] = conn[d]
  BY <1>1 DEF Conns
<1>3. conn' \in [Conn -> Conns]
  BY <1>1, <1>2
<1>4. ASSUME NEW d \in Conn, conn'[d].pc \notin {"closed", "idle"}
      PROVE  conn'[d].n \in 1..requests' /\ ActionOf(d)' \in Action
  <2>1. conn[d].pc \notin {"closed", "idle"} /\ conn'[d].n = conn[d].n
    <3>1. CASE d = c
      BY <1>2, <3>1
    <3>2. CASE d # c
      BY <1>2, <1>4, <3>2
    <3> QED BY <3>1, <3>2
  <2>2. conn[d].n \in 1..requests /\ request[conn[d].n].action \in Action
    BY <2>1 DEF ProxyInv, InProgress, ActionOf
  <2>3. conn[d].n \in Serial
    BY <1>1, <2>2 DEF Serial
  <2> QED BY <2>1, <2>2, <2>3 DEF ActionOf
<1> QED BY <1>3, <1>4 DEF InProgress

\* What a handler at work may rely on.
LEMMA AtWork ==
  ASSUME ProxyInv, NEW c \in Conn, conn[c].pc \notin {"closed", "idle"}
  PROVE  /\ conn[c] = [pc |-> conn[c].pc, n |-> conn[c].n, verdict |-> conn[c].verdict]
         /\ conn[c] \in Conns
         /\ conn[c].n \in Serial
         /\ ActionOf(c) \in Action
         /\ request[conn[c].n] \in Story
<1>1. conn[c] \in Conns /\ requests \in Nat /\ MaxRequests \in Nat /\ requests <= MaxRequests
      /\ request \in [Serial -> Story]
  BY ProxyAssumption DEF ProxyInv, TypeOK
<1>2. conn[c].n \in 1..requests /\ ActionOf(c) \in Action
  BY DEF ProxyInv, InProgress
<1>3. conn[c].n \in Serial
  BY <1>1, <1>2 DEF Serial
<1> QED BY <1>1, <1>2, <1>3 DEF Conns

LEMMA ConnectKeeps ==
  ASSUME ProxyInv, NEW c \in Conn, Connect(c) \/ Hangup(c)
  PROVE  ProxyInv'
<1>1. PICK pc \in {"closed", "idle"} : conn' = [conn EXCEPT ![c].pc = pc]
  BY DEF Connect, Hangup, GoTo
<1>2. UNCHANGED <<asked, tree, shared, human, total, requests, request>>
  BY DEF Connect, Hangup
<1>3. conn' \in [Conn -> Conns] /\ conn'[c].pc = pc /\ \A d \in Conn \ {c} : conn'[d] = conn[d]
  BY <1>1 DEF ProxyInv, TypeOK, Conns
<1>4. TypeOK'
  BY <1>2, <1>3 DEF ProxyInv, TypeOK, Queue!TypeOK, tree, shared
<1>5. InProgress'
  BY <1>2, <1>3 DEF ProxyInv, InProgress, ActionOf
<1> QED BY <1>4, <1>5 DEF ProxyInv

LEMMA ReceiveKeeps ==
  ASSUME ProxyInv, NEW c \in Conn, NEW a \in Action, Receive(c, a)
  PROVE  ProxyInv'
<1>1. /\ requests \in Nat /\ MaxRequests \in Nat /\ requests < MaxRequests
      /\ requests' = requests + 1
      /\ request \in [Serial -> Story] /\ conn \in [Conn -> Conns]
      /\ UNCHANGED <<asked, tree, shared, human, total>>
  BY ProxyAssumption DEF Receive, ProxyInv, TypeOK
<1>2. requests' \in Serial /\ requests' \in 0..MaxRequests
  BY <1>1 DEF Serial
<1>3. /\ conn'[c] = [pc |-> "evaluate", n |-> requests', verdict |-> "none"]
      /\ \A d \in Conn \ {c} : conn'[d] = conn[d]
      /\ conn' \in [Conn -> Conns]
  BY <1>1, <1>2 DEF Receive, Conns
<1>4. /\ request'[requests'] = [request[requests'] EXCEPT !.action = a]
      /\ \A n \in Serial \ {requests'} : request'[n] = request[n]
  BY <1>1, <1>2 DEF Receive
<1>5. request'[requests'] \in Story /\ request'[requests'].action = a
  <2>1. request[requests'] \in Story
    BY <1>1, <1>2
  <2> QED BY <1>4, <2>1 DEF Story
<1>6. request' \in [Serial -> Story]
  BY <1>1, <1>5 DEF Receive
<1>7. TypeOK'
  BY <1>1, <1>2, <1>3, <1>6 DEF ProxyInv, TypeOK, Queue!TypeOK, tree, shared
<1>8. ASSUME NEW d \in Conn \ {c}, conn'[d].pc \notin {"closed", "idle"}
      PROVE  conn'[d].n \in 1..requests' /\ ActionOf(d)' \in Action
  <2>1. conn[d].n \in 1..requests /\ ActionOf(d) \in Action /\ conn'[d] = conn[d]
    BY <1>3, <1>8 DEF ProxyInv, InProgress
  <2>2. conn[d].n \in Serial \ {requests'}
    BY <1>1, <2>1 DEF Serial
  <2> QED BY <1>1, <1>4, <2>1, <2>2 DEF ActionOf
<1>9. conn'[c].n \in 1..requests' /\ ActionOf(c)' \in Action
  BY <1>1, <1>2, <1>3, <1>5 DEF ActionOf
<1> QED BY <1>7, <1>8, <1>9 DEF ProxyInv, InProgress

LEMMA EvaluateKeeps ==
  ASSUME ProxyInv, NEW c \in Conn, Evaluate(c)
  PROVE  ProxyInv'
<1> DEFINE a == ActionOf(c)
<1>1. conn[c].pc = "evaluate" /\ conn[c].pc \notin {"closed", "idle"}
  BY DEF Evaluate, At
<1>2. /\ conn[c] \in Conns /\ conn[c].n \in Serial
      /\ conn \in [Conn -> Conns]
  BY <1>1, AtWork DEF ProxyInv, TypeOK
<1>3. /\ rules' = RulesAfter(rules, a, 0)
      /\ UNCHANGED <<asked, nextPos, lastDenial, human, total, requests, request>>
  BY DEF Evaluate
<1>4. rules' \subseteq Rule /\ \A r \in rules' : r.pos \in 1..(nextPos - 1)
  BY <1>3, EvaluateKeepsShape DEF ProxyInv, TypeOK
<1>5. PICK pc \in {"decided", "check"}, v \in {"none", "allow", "deny"} :
        conn' = [conn EXCEPT ![c].pc = pc, ![c].verdict = v]
  <2>1. CASE Outcome(rules, a, 0) = "allow"
    BY <2>1 DEF Evaluate, Decide
  <2>2. CASE Outcome(rules, a, 0) # "allow"
    <3>1. conn' = [conn EXCEPT ![c].pc = "check"]
      BY <2>2 DEF Evaluate, GoTo
    <3>2. conn' = [conn EXCEPT ![c].pc = "check", ![c].verdict = conn[c].verdict]
      BY <1>2, <3>1 DEF Conns
    <3> QED BY <1>2, <3>2 DEF Conns
  <2> QED BY <2>1, <2>2
<1>6. /\ history' \in Seq([n: Serial, decision: {"allow", "deny"}])
      /\ Len(history') <= MaxHistory
  <2>1. CASE Outcome(rules, a, 0) = "allow"
    BY <1>2, <2>1, RecordType DEF Evaluate, Decide, ProxyInv
  <2>2. CASE Outcome(rules, a, 0) # "allow"
    BY <2>2 DEF Evaluate, ProxyInv, TypeOK
  <2> QED BY <2>1, <2>2
<1>7. conn' \in [Conn -> Conns] /\ InProgress'
  <2>1. [pc |-> pc, n |-> conn[c].n, verdict |-> v] \in Conns
    BY <1>2 DEF Conns
  <2>2. request' \in [Serial -> Story] /\ requests' = requests
    BY <1>3 DEF ProxyInv, TypeOK
  <2> QED BY <1>1, <1>3, <1>5, <2>1, <2>2, HandlerGoesOn
<1> QED BY <1>3, <1>4, <1>6, <1>7 DEF ProxyInv, TypeOK, Queue!TypeOK

\* A step that leaves the tree, the session state and the humans alone, and
\* takes the handler on.
LEMMA HandlerOnlyKeeps ==
  ASSUME ProxyInv, NEW c \in Conn, conn[c].pc \notin {"closed", "idle"}, NEW pc, NEW v,
         [pc |-> pc, n |-> conn[c].n, verdict |-> v] \in Conns,
         conn' = [conn EXCEPT ![c].pc = pc, ![c].verdict = v],
         request' \in [Serial -> Story],
         \A n \in Serial : request'[n].action = request[n].action,
         asked' \in [Conn -> Queue!Asked], total' \in Nat,
         UNCHANGED <<tree, shared, human, requests>>
  PROVE  ProxyInv'
<1>1. conn' \in [Conn -> Conns] /\ InProgress'
  BY HandlerGoesOn
<1> QED BY <1>1 DEF ProxyInv, TypeOK, Queue!TypeOK, tree, shared

LEMMA CheckForbidKeeps ==
  ASSUME ProxyInv, NEW c \in Conn, CheckForbid(c)
  PROVE  ProxyInv'
<1> DEFINE a == ActionOf(c)
<1>1. conn[c].pc = "check" /\ conn[c].pc \notin {"closed", "idle"}
  BY DEF CheckForbid, At
<1>2. conn[c] \in Conns /\ conn[c].n \in Serial /\ a \in Action
  BY <1>1, AtWork
<1>3. UNCHANGED <<tree, human, total, requests, request>>
  BY DEF CheckForbid
<1>4. request' \in [Serial -> Story] /\ \A n \in Serial : request'[n].action = request[n].action
  BY <1>3 DEF ProxyInv, TypeOK
\* It is parked.
<1>5. CASE MustPark(a)
  <2>1. /\ asked' = [asked EXCEPT ![c].state = "open", ![c].action = a]
        /\ conn' = [conn EXCEPT ![c].pc = "parked"]
        /\ UNCHANGED shared
    BY <1>5 DEF CheckForbid, Queue!Ask, GoTo
  <2>2. asked' \in [Conn -> Queue!Asked]
    <3>1. asked \in [Conn -> Queue!Asked] /\ asked[c] \in Queue!Asked
      BY DEF ProxyInv, TypeOK, Queue!TypeOK
    <3>2. [asked[c] EXCEPT !.state = "open", !.action = a] \in Queue!Asked
      BY <1>2, <3>1 DEF Queue!Asked
    <3> QED BY <2>1, <3>1, <3>2
  <2>3. /\ conn' = [conn EXCEPT ![c].pc = "parked", ![c].verdict = conn[c].verdict]
        /\ [pc |-> "parked", n |-> conn[c].n, verdict |-> conn[c].verdict] \in Conns
    BY <1>2, <2>1 DEF ProxyInv, TypeOK, Conns
  <2>4. total' \in Nat
    BY <1>3 DEF ProxyInv, TypeOK
  <2> QED BY <1>1, <1>3, <1>4, <2>1, <2>2, <2>3, <2>4, HandlerOnlyKeeps
\* It is denied for good.
<1>6. CASE ~MustPark(a)
  <2>1. /\ lastDenial' = [action |-> a, denied_by |-> "forbid"]
        /\ conn' = [conn EXCEPT ![c].pc = "decided", ![c].verdict = "deny"]
        /\ RecordDecision(c, "deny")
        /\ UNCHANGED asked
    BY <1>6 DEF CheckForbid, RecordDenial, Decide
  <2>2. lastDenial' \in Denial
    BY <1>2, <2>1 DEF Denial
  <2>3. /\ history' \in Seq([n: Serial, decision: {"allow", "deny"}])
        /\ Len(history') <= MaxHistory
    BY <1>2, <2>1, RecordType DEF ProxyInv
  <2>4. conn' \in [Conn -> Conns] /\ InProgress'
    <3>1. [pc |-> "decided", n |-> conn[c].n, verdict |-> "deny"] \in Conns
      BY <1>2 DEF Conns
    <3> QED BY <1>1, <1>3, <1>4, <2>1, <3>1, HandlerGoesOn
  <2> QED BY <1>3, <2>1, <2>2, <2>3, <2>4 DEF ProxyInv, TypeOK, Queue!TypeOK, tree
<1> QED BY <1>5, <1>6

LEMMA WakeKeeps ==
  ASSUME ProxyInv, NEW c \in Conn,
         WakeDenied(c) \/ \E id \in HumanIds : WakeApproved(c, id)
  PROVE  ProxyInv'
<1> DEFINE a == ActionOf(c)
<1>1. conn[c].pc = "parked" /\ conn[c].pc \notin {"closed", "idle"}
  BY DEF WakeDenied, WakeApproved, At
<1>2. conn[c] \in Conns /\ conn[c].n \in Serial /\ a \in Action
  BY <1>1, AtWork
<1>3. /\ UNCHANGED <<human, total, requests>>
      /\ asked' = [asked EXCEPT ![c].state = "answered"]
  BY DEF WakeDenied, WakeApproved, Queue!Answer
<1>4. asked' \in [Conn -> Queue!Asked]
  BY <1>3 DEF ProxyInv, TypeOK, Queue!TypeOK, Queue!Asked
<1>5. PICK d \in {"allow", "deny"} :
        /\ conn' = [conn EXCEPT ![c].pc = "woken", ![c].verdict = d]
        /\ RecordDecision(c, d)
  BY DEF WakeDenied, WakeApproved, Decide
<1>6. /\ history' \in Seq([n: Serial, decision: {"allow", "deny"}])
      /\ Len(history') <= MaxHistory
  BY <1>2, <1>5, RecordType DEF ProxyInv
<1>7. /\ rules' \subseteq Rule /\ nextPos' \in Nat \ {0}
      /\ \A r \in rules' : r.pos \in 1..(nextPos' - 1)
      /\ lastDenial' \in Denial \cup {NoDenial}
      /\ request' \in [Serial -> Story]
      /\ \A n \in Serial : request'[n].action = request[n].action
  <2>1. CASE WakeDenied(c)
    BY <1>2, <2>1 DEF WakeDenied, RecordDenial, Denial, tree, ProxyInv, TypeOK
  <2>2. ASSUME NEW id \in HumanIds, WakeApproved(c, id)
        PROVE  /\ rules' \subseteq Rule /\ nextPos' \in Nat \ {0}
               /\ \A r \in rules' : r.pos \in 1..(nextPos' - 1)
               /\ lastDenial' \in Denial \cup {NoDenial}
               /\ request' \in [Serial -> Story]
               /\ \A n \in Serial : request'[n].action = request[n].action
    <3>1. /\ rules' = rules \cup {HumanRule(id, a)} /\ nextPos' = nextPos + 1
          /\ request' = [request EXCEPT ![conn[c].n].rule = nextPos]
          /\ lastDenial' = lastDenial
      BY <2>2 DEF WakeApproved
    <3>2. HumanRule(id, a) \in Rule /\ HumanRule(id, a).pos = nextPos
      BY <1>2, ProxyAssumption, RulesAssumption
      DEF HumanRule, Rule, RuleType, Effect, Never, ProxyInv, TypeOK
    <3>3. /\ request' \in [Serial -> Story]
          /\ \A n \in Serial : request'[n].action = request[n].action
      <4>1. request \in [Serial -> Story] /\ nextPos \in Nat
        BY DEF ProxyInv, TypeOK
      <4>2. ASSUME NEW n \in Serial
            PROVE  /\ [request[n] EXCEPT !.rule = nextPos] \in Story
                   /\ [request[n] EXCEPT !.rule = nextPos].action = request[n].action
        BY <4>1 DEF Story
      <4> QED BY <3>1, <4>1, <4>2
    <3> HIDE DEF a
    <3> QED BY <3>1, <3>2, <3>3 DEF ProxyInv, TypeOK
  <2> QED BY <2>1, <2>2
<1>8. conn' \in [Conn -> Conns] /\ InProgress'
  <2>1. [pc |-> "woken", n |-> conn[c].n, verdict |-> d] \in Conns
    BY <1>2 DEF Conns
  <2> QED BY <1>1, <1>3, <1>5, <1>7, <2>1, HandlerGoesOn
<1> QED BY <1>3, <1>4, <1>6, <1>7, <1>8 DEF ProxyInv, TypeOK, Queue!TypeOK

LEMMA LogApprovalKeeps ==
  ASSUME ProxyInv, NEW c \in Conn, LogApproval(c)
  PROVE  ProxyInv'
<1> DEFINE n == conn[c].n
<1>1. conn[c].pc = "woken" /\ conn[c].pc \notin {"closed", "idle"}
  BY DEF LogApproval, At
<1>2. conn[c] \in Conns /\ n \in Serial /\ request[n] \in Story
  BY <1>1, AtWork
<1>3. /\ asked' = [asked EXCEPT ![c] = Queue!Idle]
      /\ HumanLine(n)
      /\ conn' = [conn EXCEPT ![c].pc = "decided"]
      /\ UNCHANGED <<tree, shared, human, total, requests>>
  BY DEF LogApproval, Queue!Leave, GoTo
<1>4. asked' \in [Conn -> Queue!Asked]
  BY <1>3 DEF ProxyInv, TypeOK, Queue!TypeOK, Queue!Asked, Queue!Idle
<1>5. request' \in [Serial -> Story] /\ \A m \in Serial : request'[m].action = request[m].action
  <2>1. request \in [Serial -> Story]
    BY DEF ProxyInv, TypeOK
  <2>2. /\ MoreHuman(request'[n], request[n])
        /\ request' = [request EXCEPT ![n] = request'[n]]
    BY <1>2, <1>3, <2>1, HumanLineWrites
  <2>3. request'[n] \in Story /\ request'[n].action = request[n].action
    BY <1>2, <2>2, MoreHumanKeeps
  <2> QED BY <2>1, <2>2, <2>3
<1>6. /\ conn' = [conn EXCEPT ![c].pc = "decided", ![c].verdict = conn[c].verdict]
      /\ [pc |-> "decided", n |-> conn[c].n, verdict |-> conn[c].verdict] \in Conns
  BY <1>2, <1>3 DEF ProxyInv, TypeOK, Conns
<1>7. total' \in Nat
  BY <1>3 DEF ProxyInv, TypeOK
<1> QED BY <1>1, <1>3, <1>4, <1>5, <1>6, <1>7, HandlerOnlyKeeps

\* Counting and logging a request that is decided.
LEMMA TellKeeps ==
  ASSUME ProxyInv, NEW c \in Conn, Count(c) \/ LogDecision(c)
  PROVE  ProxyInv'
<1> DEFINE n == conn[c].n
<1>1. conn[c].pc \in {"decided", "counted"} /\ conn[c].pc \notin {"closed", "idle"}
  BY DEF Count, LogDecision, At
<1>2. conn[c] \in Conns /\ n \in Serial /\ request[n] \in Story
  BY <1>1, AtWork
<1>3. total \in Nat /\ request \in [Serial -> Story] /\ asked \in [Conn -> Queue!Asked]
  BY DEF ProxyInv, TypeOK, Queue!TypeOK
<1>4. /\ UNCHANGED <<asked, tree, shared, human, requests>>
      /\ total' \in Nat /\ asked' \in [Conn -> Queue!Asked]
  BY <1>3 DEF Count, LogDecision
<1>5. PICK pc \in {"counted", "upstream", "refuse"} : conn' = [conn EXCEPT ![c].pc = pc]
  BY DEF Count, LogDecision, GoTo
<1>6. request' \in [Serial -> Story] /\ \A m \in Serial : request'[m].action = request[m].action
  <2>1. CASE Count(c)
    BY <1>3, <2>1 DEF Count
  <2>2. CASE LogDecision(c)
    <3>1. /\ MoreDecision(request'[n], request[n], conn[c].verdict)
          /\ request' = [request EXCEPT ![n] = request'[n]]
      BY <1>2, <1>3, <2>2, LogDecisionWrites
    <3>2. conn[c].verdict \in {"none", "allow", "deny"}
      BY <1>2 DEF Conns
    <3>3. request'[n] \in Story /\ request'[n].action = request[n].action
      BY <1>2, <3>1, <3>2, MoreDecisionKeeps
    <3> QED BY <1>2, <1>3, <3>1, <3>3
  <2> QED BY <2>1, <2>2
<1>7. /\ conn' = [conn EXCEPT ![c].pc = pc, ![c].verdict = conn[c].verdict]
      /\ [pc |-> pc, n |-> conn[c].n, verdict |-> conn[c].verdict] \in Conns
  BY <1>2, <1>5 DEF ProxyInv, TypeOK, Conns
<1> QED BY <1>1, <1>4, <1>6, <1>7, HandlerOnlyKeeps

\* The request ends at a peer.
LEMMA ExchangeKeeps ==
  ASSUME ProxyInv, NEW c \in Conn, Exchange(c)
  PROVE  ProxyInv'
<1> DEFINE n == conn[c].n
<1>1. conn[c].pc \notin {"closed", "idle"}
  BY DEF Exchange, Refuse, Forward, UpstreamFails, At
<1>2. n \in Serial /\ request[n] \in Story
  BY <1>1, AtWork
<1>3. /\ request \in [Serial -> Story] /\ conn \in [Conn -> Conns] /\ MaxRequests \in Nat
      /\ lastDenial.action \in Action \cup {NoAction}
  BY ProxyAssumption DEF ProxyInv, TypeOK, Denial, NoDenial
<1>4. UNCHANGED <<asked, tree, shared, human, total, requests>>
  BY DEF Exchange, Refuse, Forward, UpstreamFails
<1>5. PICK pc \in {"idle", "closed"} :
        conn' = [conn EXCEPT ![c] = [pc |-> pc, n |-> 0, verdict |-> "none"]]
  BY DEF Exchange, Refuse, Forward, UpstreamFails, Finish
<1>6. request' \in [Serial -> Story] /\ \A m \in Serial : request'[m].action = request[m].action
  <2>1. \/ request' = [request EXCEPT ![n].outcome = "refused", ![n].told = lastDenial.action]
        \/ \E o \in {"forwarded", "failed"} : request' = [request EXCEPT ![n].outcome = o]
    BY DEF Exchange, Refuse, Forward, UpstreamFails
  <2>2. CASE request' = [request EXCEPT ![n].outcome = "refused", ![n].told = lastDenial.action]
    <3>1. /\ [request[n] EXCEPT !.outcome = "refused", !.told = lastDenial.action] \in Story
          /\ [request[n] EXCEPT !.outcome = "refused", !.told = lastDenial.action].action
               = request[n].action
      BY <1>2, <1>3 DEF Story
    <3> QED BY <1>2, <1>3, <2>2, <3>1
  <2>3. ASSUME NEW o \in {"forwarded", "failed"}, request' = [request EXCEPT ![n].outcome = o]
        PROVE  /\ request' \in [Serial -> Story]
               /\ \A m \in Serial : request'[m].action = request[m].action
    <3>1. /\ [request[n] EXCEPT !.outcome = o] \in Story
          /\ [request[n] EXCEPT !.outcome = o].action = request[n].action
      BY <1>2 DEF Story
    <3> QED BY <1>2, <1>3, <2>3, <3>1
  <2> QED BY <2>1, <2>2, <2>3
<1>7. /\ conn' \in [Conn -> Conns] /\ conn'[c].pc \in {"idle", "closed"}
      /\ \A d \in Conn \ {c} : conn'[d] = conn[d]
  BY <1>3, <1>5 DEF Conns
<1>8. TypeOK'
  BY <1>4, <1>6, <1>7 DEF ProxyInv, TypeOK, Queue!TypeOK, tree, shared
<1>9. ASSUME NEW d \in Conn, conn'[d].pc \notin {"closed", "idle"}
      PROVE  conn'[d].n \in 1..requests' /\ ActionOf(d)' \in Action
  <2>1. conn'[d] = conn[d]
    BY <1>7, <1>9
  <2>2. conn[d].n \in 1..requests /\ conn[d].n \in Serial /\ ActionOf(d) \in Action
    BY <1>9, <2>1, AtWork DEF ProxyInv, InProgress
  <2> QED BY <1>4, <1>6, <2>1, <2>2 DEF ActionOf
<1> QED BY <1>8, <1>9 DEF ProxyInv, InProgress

LEMMA HumanKeeps ==
  ASSUME ProxyInv,
         \/ \E h \in Human, c \in Conn, v \in HumanSays : Resolve(h, c, v)
         \/ \E h \in Human : LogResolve(h)
         \/ \E id \in RuleId : DeleteRule(id)
         \/ UNCHANGED vars
  PROVE  ProxyInv'
<1>1. /\ request \in [Serial -> Story] /\ conn \in [Conn -> Conns]
      /\ human \in [Human -> 0..MaxRequests] /\ MaxRequests \in Nat
      /\ asked \in [Conn -> Queue!Asked]
  BY ProxyAssumption DEF ProxyInv, TypeOK, Queue!TypeOK
<1>2. ASSUME UNCHANGED <<conn, requests>>, NEW n, NEW s \in Story,
             n \in Serial => s.action = request[n].action,
             request' = [request EXCEPT ![n] = s]
      PROVE  request' \in [Serial -> Story] /\ InProgress'
  <2>1. request' \in [Serial -> Story] /\ \A m \in Serial : request'[m].action = request[m].action
    BY <1>1, <1>2
  <2>2. ASSUME NEW c \in Conn, conn[c].pc \notin {"closed", "idle"}
        PROVE  conn[c].n \in 1..requests /\ request'[conn[c].n].action \in Action
    <3>1. conn[c].n \in 1..requests /\ conn[c].n \in Serial /\ ActionOf(c) \in Action
      BY <2>2, AtWork DEF ProxyInv, InProgress
    <3> QED BY <2>1, <3>1 DEF ActionOf
  <2> QED BY <1>2, <2>1, <2>2 DEF InProgress, ActionOf
<1>3. ASSUME NEW h \in Human, NEW c \in Conn, NEW v \in HumanSays, Resolve(h, c, v)
      PROVE  ProxyInv'
  <2>1. /\ asked' = [d \in Conn |-> IF d \in {c} THEN [asked[d] EXCEPT !.state = "decided", !.verdict = v]
                                  ELSE asked[d]]
        /\ human' = [human EXCEPT ![h] = conn[c].n]
        /\ request' = [request EXCEPT ![conn[c].n].said = v]
        /\ UNCHANGED <<conn, tree, shared, total, requests>>
    BY <1>3 DEF Resolve, Queue!Decide
  <2>2. asked' \in [Conn -> Queue!Asked]
    <3>1. asked[c] \in Queue!Asked
      BY <1>1
    <3>2. [asked[c] EXCEPT !.state = "decided", !.verdict = v] \in Queue!Asked
      BY <3>1 DEF Queue!Asked
    <3> QED BY <1>1, <2>1, <3>2
  <2>3. human' \in [Human -> 0..MaxRequests]
    BY <1>1, <2>1 DEF Conns
  <2>4. request' \in [Serial -> Story] /\ InProgress'
    <3>1. CASE conn[c].n \in Serial
      <4>1. /\ [request[conn[c].n] EXCEPT !.said = v] \in Story
            /\ [request[conn[c].n] EXCEPT !.said = v].action = request[conn[c].n].action
        BY <1>1, <3>1 DEF Story
      <4> QED BY <1>2, <2>1, <4>1
    <3>2. CASE conn[c].n \notin Serial
      <4>1. request' = request
        BY <1>1, <2>1, <3>2
      <4> QED BY <1>1, <2>1, <4>1 DEF ProxyInv, InProgress, ActionOf
    <3> QED BY <3>1, <3>2
  <2> QED BY <2>1, <2>2, <2>3, <2>4 DEF ProxyInv, TypeOK, Queue!TypeOK, tree, shared
<1>4. ASSUME NEW h \in Human, LogResolve(h)
      PROVE  ProxyInv'
  <2> DEFINE n == human[h]
  <2>1. /\ n # 0 /\ HumanLine(n)
        /\ human' = [human EXCEPT ![h] = 0]
        /\ UNCHANGED <<conn, asked, tree, shared, total, requests>>
    BY <1>4 DEF LogResolve
  <2>2. n \in Serial
    BY <1>1, <2>1 DEF Serial
  <2>3. /\ request' = [request EXCEPT ![n] = request'[n]]
        /\ request'[n] \in Story /\ request'[n].action = request[n].action
    BY <1>1, <2>1, <2>2, HumanLineWrites, MoreHumanKeeps
  <2>4. human' \in [Human -> 0..MaxRequests]
    BY <1>1, <2>1
  <2>5. request' \in [Serial -> Story] /\ InProgress'
    BY <1>2, <2>1, <2>3
  <2> QED BY <2>1, <2>4, <2>5 DEF ProxyInv, TypeOK, Queue!TypeOK, tree, shared
<1>5. ASSUME NEW id \in RuleId, DeleteRule(id)
      PROVE  ProxyInv'
  <2>1. rules' \subseteq rules /\ UNCHANGED <<conn, asked, nextPos, shared, human, total, requests, request>>
    BY <1>5 DEF DeleteRule, WithoutId
  <2> QED BY <2>1 DEF ProxyInv, TypeOK, Queue!TypeOK, shared, InProgress, ActionOf
<1>6. CASE UNCHANGED vars
  BY <1>6 DEF vars, ProxyInv, TypeOK, Queue!TypeOK, tree, shared, InProgress, ActionOf
<1> QED BY <1>3, <1>4, <1>5, <1>6

THEOREM ProxyInvariant == Spec => []ProxyInv
<1>1. ProxyInv /\ [Next]_vars => ProxyInv'
  BY ConnectKeeps, ReceiveKeeps, EvaluateKeeps, CheckForbidKeeps, WakeKeeps, LogApprovalKeeps,
     TellKeeps, ExchangeKeeps, HumanKeeps DEF Next, Exchange
<1> QED BY <1>1, InitProxyInv, PTL DEF Spec

(***************************************************************************)
(* The state of the session keeps its types: the history never exceeds     *)
(* MAX_HISTORY, every handler works on a request that exists.              *)
(***************************************************************************)
THEOREM ProxyTypeCorrect == Spec => []TypeOK
BY ProxyInvariant, PTL DEF ProxyInv
-----------------------------------------------------------------------------
\* The tree never gains a forbid.
LEMMA NoNewForbid ==
  ASSUME ProxyInv, [Next]_vars, NEW a, HasForbid(rules', a, 0)
  PROVE  HasForbid(rules, a, 0)
<1>1. rules \subseteq Rule
  BY DEF ProxyInv, TypeOK
<1>2. CASE rules' \subseteq rules
  BY <1>2 DEF HasForbid, ForbidsOf
<1>3. ASSUME NEW c \in Conn, Evaluate(c)
      PROVE  HasForbid(rules, a, 0)
  BY <1>1, <1>3, EvaluateBringsNoForbid DEF Evaluate
<1>4. ASSUME NEW c \in Conn, NEW id \in HumanIds, WakeApproved(c, id)
      PROVE  HasForbid(rules, a, 0)
  <2>1. rules' = rules \cup {HumanRule(id, ActionOf(c))} /\ HumanRule(id, ActionOf(c)).effect = "permit"
    BY <1>4 DEF WakeApproved, HumanRule
  <2> QED BY <2>1 DEF HasForbid, ForbidsOf
<1>5. \/ rules' \subseteq rules
      \/ \E c \in Conn : Evaluate(c)
      \/ \E c \in Conn, id \in HumanIds : WakeApproved(c, id)
  BY DEF Next, vars, tree, Connect, Hangup, Receive, CheckForbid, WakeDenied, LogApproval, Count,
         LogDecision, Refuse, Forward, UpstreamFails, Resolve, LogResolve, DeleteRule, WithoutId
<1> QED BY <1>2, <1>3, <1>4, <1>5

\* A request that was read keeps its action.
LEMMA ActionsStay ==
  ASSUME ProxyInv, [Next]_vars, NEW m \in 1..requests
  PROVE  request'[m].action = request[m].action
<1>1. /\ requests \in Nat /\ requests <= MaxRequests /\ MaxRequests \in Nat
      /\ request \in [Serial -> Story]
  BY ProxyAssumption DEF ProxyInv, TypeOK
<1>2. m \in Serial /\ m # requests + 1 /\ request[m] \in Story
  BY <1>1 DEF Serial
<1>3. CASE request' = request
  BY <1>3
<1>4. ASSUME NEW c \in Conn, NEW a \in Action, Receive(c, a)
      PROVE  request'[m].action = request[m].action
  BY <1>1, <1>2, <1>4 DEF Receive
<1>5. ASSUME NEW c \in Conn, NEW id \in HumanIds, WakeApproved(c, id)
      PROVE  request'[m].action = request[m].action
  BY <1>1, <1>2, <1>5 DEF WakeApproved, Story
<1>6. ASSUME NEW c \in Conn, LogApproval(c)
      PROVE  request'[m].action = request[m].action
  <2>1. conn[c].n \in Serial /\ HumanLine(conn[c].n)
    BY <1>6, AtWork DEF LogApproval, At
  <2> QED BY <1>1, <1>2, <2>1, HumanLineWrites, MoreHumanKeeps
<1>7. ASSUME NEW c \in Conn, LogDecision(c)
      PROVE  request'[m].action = request[m].action
  <2>1. conn[c].n \in Serial /\ conn[c].verdict \in {"none", "allow", "deny"}
    BY <1>7, AtWork DEF LogDecision, At, Conns
  <2>2. /\ MoreDecision(request'[conn[c].n], request[conn[c].n], conn[c].verdict)
        /\ request' = [request EXCEPT ![conn[c].n] = request'[conn[c].n]]
    BY <1>1, <1>7, <2>1, LogDecisionWrites
  <2>3. request[conn[c].n] \in Story
    BY <1>1, <2>1
  <2>4. request'[conn[c].n].action = request[conn[c].n].action
    BY <2>1, <2>2, <2>3, MoreDecisionKeeps
  <2> QED BY <1>1, <1>2, <2>1, <2>2, <2>4
<1>8. ASSUME NEW c \in Conn, Refuse(c) \/ Forward(c) \/ UpstreamFails(c)
      PROVE  request'[m].action = request[m].action
  BY <1>1, <1>2, <1>8 DEF Refuse, Forward, UpstreamFails, Story
<1>9. ASSUME NEW h \in Human, NEW c \in Conn, NEW v \in HumanSays, Resolve(h, c, v)
      PROVE  request'[m].action = request[m].action
  BY <1>1, <1>2, <1>9 DEF Resolve, Story
<1>10. ASSUME NEW h \in Human, LogResolve(h)
       PROVE  request'[m].action = request[m].action
  <2>1. human[h] \in Serial /\ HumanLine(human[h])
    BY <1>1, <1>10 DEF ProxyInv, TypeOK, LogResolve, Serial
  <2> QED BY <1>1, <1>2, <2>1, HumanLineWrites, MoreHumanKeeps
<1>11. \/ request' = request
       \/ \E c \in Conn, a \in Action : Receive(c, a)
       \/ \E c \in Conn, id \in HumanIds : WakeApproved(c, id)
       \/ \E c \in Conn : LogApproval(c)
       \/ \E c \in Conn : LogDecision(c)
       \/ \E c \in Conn : Refuse(c) \/ Forward(c) \/ UpstreamFails(c)
       \/ \E h \in Human, c \in Conn, v \in HumanSays : Resolve(h, c, v)
       \/ \E h \in Human : LogResolve(h)
  BY DEF Next, vars, Connect, Hangup, Evaluate, CheckForbid, WakeDenied, Count, DeleteRule
<1> QED BY <1>3, <1>4, <1>5, <1>6, <1>7, <1>8, <1>9, <1>10, <1>11

Guarded(c) == At(c, "parked") \/ Allowed(c)

\* A handler becomes guarded where the tree has just been asked.
LEMMA GuardedStep ==
  ASSUME ProxyInv, [Next]_vars, NEW c \in Conn, Guarded(c)'
  PROVE  /\ conn[c].pc \notin {"closed", "idle"} /\ conn'[c].n = conn[c].n
         /\ Guarded(c) \/ ~HasForbid(rules, ActionOf(c), 0)
<1>1. conn \in [Conn -> Conns] /\ conn[c] \in Conns
  BY DEF ProxyInv, TypeOK
<1>2. /\ conn'[c].pc \notin {"closed", "idle"}
      /\ conn'[c].pc = "parked" \/ conn'[c].verdict = "allow"
  BY DEF Guarded, Allowed, At
<1>3. CASE conn'[c] = conn[c]
  BY <1>2, <1>3 DEF Guarded, Allowed, At
<1>4. ASSUME Connect(c) \/ Hangup(c) \/ Refuse(c) \/ Forward(c) \/ UpstreamFails(c)
      PROVE  FALSE
  BY <1>1, <1>2, <1>4 DEF Connect, Hangup, Refuse, Forward, UpstreamFails, GoTo, Finish, Conns
<1>5. ASSUME NEW a \in Action, Receive(c, a)
      PROVE  FALSE
  BY <1>1, <1>2, <1>5 DEF Receive
<1>6. CASE Evaluate(c)
  <2>1. conn[c].pc = "evaluate"
    BY <1>6 DEF Evaluate, At
  <2>2. CASE Outcome(rules, ActionOf(c), 0) = "allow"
    BY <1>1, <1>6, <2>1, <2>2 DEF Evaluate, Decide, Outcome, Conns
  <2>3. CASE Outcome(rules, ActionOf(c), 0) # "allow"
    BY <1>1, <1>2, <1>6, <2>1, <2>3 DEF Evaluate, GoTo, Guarded, Allowed, Conns
  <2> QED BY <2>2, <2>3
<1>7. CASE CheckForbid(c)
  <2>1. conn[c].pc = "check"
    BY <1>7 DEF CheckForbid, At
  <2>2. CASE MustPark(ActionOf(c))
    BY <1>1, <1>7, <2>1, <2>2 DEF CheckForbid, GoTo, MustPark, Conns
  <2>3. CASE ~MustPark(ActionOf(c))
    BY <1>1, <1>2, <1>7, <2>3 DEF CheckForbid, Decide, Conns
  <2> QED BY <2>2, <2>3
<1>8. ASSUME NEW id \in HumanIds, WakeApproved(c, id) \/ WakeDenied(c)
      PROVE  conn[c].pc = "parked" /\ conn'[c].n = conn[c].n
  BY <1>1, <1>8 DEF WakeApproved, WakeDenied, Decide, At, Conns
<1>9. CASE WakeDenied(c)
  BY <1>1, <1>9 DEF WakeDenied, Decide, At, Guarded, Conns
<1>10. CASE LogApproval(c) \/ Count(c) \/ LogDecision(c)
  <2>1. /\ conn[c].pc \in {"woken", "decided", "counted"}
        /\ conn'[c].verdict = conn[c].verdict /\ conn'[c].n = conn[c].n
        /\ conn'[c].pc # "parked"
    BY <1>1, <1>10 DEF LogApproval, Count, LogDecision, GoTo, At, Conns
  <2> QED BY <1>2, <2>1 DEF Guarded, Allowed
<1>11. \/ conn'[c] = conn[c]
       \/ Connect(c) \/ Hangup(c) \/ \E a \in Action : Receive(c, a)
       \/ Evaluate(c) \/ CheckForbid(c) \/ \E id \in HumanIds : WakeApproved(c, id)
       \/ WakeDenied(c) \/ LogApproval(c) \/ Count(c) \/ LogDecision(c)
       \/ Refuse(c) \/ Forward(c) \/ UpstreamFails(c)
  <2>1. ASSUME NEW d \in Conn \ {c},
               \/ Connect(d) \/ Hangup(d) \/ \E a \in Action : Receive(d, a)
               \/ Evaluate(d) \/ CheckForbid(d) \/ \E id \in HumanIds : WakeApproved(d, id)
               \/ WakeDenied(d) \/ LogApproval(d) \/ Count(d) \/ LogDecision(d)
               \/ Refuse(d) \/ Forward(d) \/ UpstreamFails(d)
        PROVE  conn'[c] = conn[c]
    BY <1>1, <2>1 DEF Connect, Hangup, Receive, Evaluate, CheckForbid, WakeApproved, WakeDenied,
       LogApproval, Count, LogDecision, Refuse, Forward, UpstreamFails, Decide, GoTo, Finish
  <2>2. ASSUME \/ \E h \in Human, d \in Conn, v \in HumanSays : Resolve(h, d, v)
               \/ \E h \in Human : LogResolve(h)
               \/ \E id \in RuleId : DeleteRule(id)
               \/ UNCHANGED vars
        PROVE  conn' = conn
    BY <2>2 DEF Resolve, LogResolve, DeleteRule, vars
  <2> QED BY <2>1, <2>2 DEF Next
<1> QED BY <1>3, <1>4, <1>5, <1>6, <1>7, <1>8, <1>9, <1>10, <1>11 DEF Guarded, At

(***************************************************************************)
(* Forbid always wins: no request that a forbid of the tree matches is     *)
(* parked for a human or on its way upstream, whoever approves, evaluates  *)
(* or deletes rules meanwhile.  It rests on the second look at the tree in *)
(* CheckForbid and on the tree never gaining a forbid once it serves.      *)
(***************************************************************************)
THEOREM ForbidAlwaysWins == Spec => []NeverPastForbid
<1>1. NeverPastForbid <=> \A c \in Conn : Guarded(c) => ~HasForbid(rules, ActionOf(c), 0)
  BY DEF NeverPastForbid, Guarded
<1>2. Init => NeverPastForbid
  BY DEF Init, NeverPastForbid, Allowed, At
<1>3. ProxyInv /\ NeverPastForbid /\ [Next]_vars => NeverPastForbid'
  <2> SUFFICES ASSUME ProxyInv, NeverPastForbid, [Next]_vars, NEW c \in Conn, Guarded(c)',
                      HasForbid(rules', ActionOf(c)', 0)
               PROVE  FALSE
    BY DEF NeverPastForbid, Guarded
  <2>1. /\ conn[c].pc \notin {"closed", "idle"} /\ conn'[c].n = conn[c].n
        /\ Guarded(c) \/ ~HasForbid(rules, ActionOf(c), 0)
    BY GuardedStep
  <2>2. conn[c].n \in 1..requests
    BY <2>1 DEF ProxyInv, InProgress
  <2>3. ActionOf(c)' = ActionOf(c)
    BY <2>1, <2>2, ActionsStay DEF ActionOf
  <2>4. HasForbid(rules, ActionOf(c), 0)
    BY <2>3, NoNewForbid
  <2> QED BY <1>1, <2>1, <2>4
<1> QED BY <1>2, <1>3, ProxyInvariant, PTL DEF Spec
-----------------------------------------------------------------------------
(***************************************************************************)
(* What becomes of each request: what went upstream was earned, the log    *)
(* and the counter tell of every decision, the history is true.            *)
(***************************************************************************)
Busy(c) == conn[c].pc \notin {"closed", "idle"}
Own(c)  == request[conn[c].n]

\* No two handlers work on one request, and nothing is told of one to come.
Numbered ==
  /\ \A h \in Human : human[h] <= requests
  /\ \A c, d \in Conn : Busy(c) /\ Busy(d) /\ conn[c].n = conn[d].n => c = d
  /\ \A n \in Serial : n > requests => request[n] = Untold

\* What a human said of the request that a handler works on, and its verdict.
Staged(c) ==
  /\ asked[c].state = "open" => conn[c].pc = "parked"
  /\ Busy(c) => Own(c).outcome = "none"
  /\ conn[c].pc \in {"evaluate", "check"} => Own(c).said = "none"
  /\ conn[c].pc = "parked" =>
       \/ asked[c].state = "open" /\ Own(c).said = "none"
       \/ asked[c].state = "decided" /\ Own(c).said = asked[c].verdict
  /\ conn[c].pc \in {"woken", "decided", "counted"} => conn[c].verdict \in {"allow", "deny"}
  /\ conn[c].pc = "woken" =>
       Own(c).said = IF conn[c].verdict = "allow" THEN "approved" ELSE "denied"
  /\ conn[c].pc \in {"decided", "counted", "upstream"} /\ conn[c].verdict = "allow" =>
       Own(c).said # "denied"
  /\ conn[c].pc = "upstream" => conn[c].verdict = "allow"
  /\ conn[c].pc = "refuse" => conn[c].verdict = "deny"

StageInv == ProxyInv /\ Numbered /\ \A c \in Conn : Staged(c)
-----------------------------------------------------------------------------
(***************************************************************************)
(* The steps of a handler, field by field.                                 *)
(***************************************************************************)
Does(c, from, to, verdict) ==
  /\ conn[c].pc = from
  /\ conn'[c].pc = to
  /\ conn'[c].verdict = verdict

\* It touches nothing but its own.
LEMMA HandlerFrame ==
  ASSUME ProxyInv, NEW c \in Conn, Work(c)
  PROVE  /\ Busy(c) /\ conn[c].n \in Serial /\ (Busy(c)' => conn'[c].n = conn[c].n)
         /\ \A d \in Conn \ {c} : conn'[d] = conn[d] /\ asked'[d] = asked[d]
         /\ \A m \in Serial \ {conn[c].n} : request'[m] = request[m]
         /\ UNCHANGED <<human, requests>>
<1>1. Busy(c)
  BY DEF Work, Handle, Exchange, Evaluate, CheckForbid, WakeApproved, WakeDenied, LogApproval, Count,
     LogDecision,
     Refuse, Forward, UpstreamFails, At, Busy
<1>2. /\ conn \in [Conn -> Conns] /\ conn[c] \in Conns /\ conn[c].n \in Serial
      /\ asked \in [Conn -> Queue!Asked]
      /\ request \in [Serial -> Story]
  BY <1>1, AtWork DEF Busy, ProxyInv, TypeOK, Queue!TypeOK
<1>3. (Busy(c)' => conn'[c].n = conn[c].n) /\ \A d \in Conn \ {c} : conn'[d] = conn[d]
  <2>1. CASE Handle(c)
    BY <1>2, <2>1 DEF Handle, Evaluate, CheckForbid, WakeApproved, WakeDenied, LogApproval,
       Count, LogDecision, Decide, GoTo, Conns
  <2>2. CASE Exchange(c)
    BY <1>2, <2>2 DEF Exchange, Refuse, Forward, UpstreamFails, Finish, Busy, Conns
  <2> QED BY <2>1, <2>2 DEF Work
<1>4. \A d \in Conn \ {c} : asked'[d] = asked[d]
  BY <1>2 DEF Work, Handle, Exchange, Evaluate, CheckForbid, WakeApproved, WakeDenied, LogApproval,
     Count,
     LogDecision, Refuse, Forward, UpstreamFails, Queue!Ask, Queue!Answer, Queue!Leave
<1>5. \A m \in Serial \ {conn[c].n} : request'[m] = request[m]
  BY <1>2 DEF Work, Handle, Exchange, Evaluate, CheckForbid, WakeApproved, WakeDenied,
     LogApproval, HumanLine, Count, LogDecision, Refuse, Forward, UpstreamFails
<1>6. UNCHANGED <<human, requests>>
  BY DEF Work, Handle, Exchange, Evaluate, CheckForbid, WakeApproved, WakeDenied, LogApproval, Count,
     LogDecision, Refuse, Forward, UpstreamFails
<1> QED BY <1>1, <1>2, <1>3, <1>4, <1>5, <1>6

\* Up to the decision.
DecidingStep(c) ==
  \/ /\ Does(c, "evaluate", "decided", "allow")
     /\ Outcome(rules, ActionOf(c), 0) = "allow"
     /\ request' = request /\ asked'[c] = asked[c]
  \/ /\ Does(c, "evaluate", "check", conn[c].verdict)
     /\ request' = request /\ asked'[c] = asked[c]
  \/ /\ Does(c, "check", "parked", conn[c].verdict)
     /\ request' = request /\ asked'[c].state = "open"
  \/ /\ Does(c, "check", "decided", "deny")
     /\ request' = request /\ asked'[c] = asked[c]
  \/ /\ Does(c, "parked", "woken", "allow")
     /\ asked[c].state = "decided" /\ asked[c].verdict = "approved" /\ asked'[c].state = "answered"
     /\ request'[conn[c].n] = [Own(c) EXCEPT !.rule = nextPos]
  \/ /\ Does(c, "parked", "woken", "deny")
     /\ asked[c].state = "decided" /\ asked[c].verdict = "denied" /\ asked'[c].state = "answered"
     /\ request' = request

\* And from there to the end.
TellingStep(c) ==
  \/ /\ Does(c, "woken", "decided", conn[c].verdict)
     /\ asked'[c].state = "idle"
     /\ MoreHuman(request'[conn[c].n], Own(c))
  \/ /\ Does(c, "decided", "counted", conn[c].verdict)
     /\ asked'[c] = asked[c] /\ request' = request
  \/ /\ Does(c, "counted", IF conn[c].verdict = "allow" THEN "upstream" ELSE "refuse",
             conn[c].verdict)
     /\ asked'[c] = asked[c]
     /\ MoreDecision(request'[conn[c].n], Own(c), conn[c].verdict)
  \/ \E pc \in {"idle", "closed"} :
       /\ Does(c, "refuse", pc, "none")
       /\ asked'[c] = asked[c]
       /\ request'[conn[c].n] = [Own(c) EXCEPT !.outcome = "refused", !.told = lastDenial.action]
  \/ \E pc \in {"idle", "closed"}, o \in {"forwarded", "failed"} :
       /\ Does(c, "upstream", pc, "none")
       /\ asked'[c] = asked[c]
       /\ request'[conn[c].n] = [Own(c) EXCEPT !.outcome = o]

LEMMA HandlerSteps ==
  ASSUME ProxyInv, NEW c \in Conn, Work(c)
  PROVE  DecidingStep(c) \/ TellingStep(c)
<1>1. /\ conn \in [Conn -> Conns] /\ conn[c] \in Conns /\ conn[c].n \in Serial
      /\ asked \in [Conn -> Queue!Asked] /\ asked[c] \in Queue!Asked
      /\ request \in [Serial -> Story]
  BY HandlerFrame, AtWork DEF Busy, ProxyInv, TypeOK, Queue!TypeOK
<1>2. CASE Evaluate(c)
  BY <1>1, <1>2 DEF Evaluate, Decide, GoTo, At, Does, DecidingStep, Conns
<1>3. CASE CheckForbid(c)
  <2>1. CASE MustPark(ActionOf(c))
    BY <1>1, <1>3, <2>1 DEF CheckForbid, Queue!Ask, GoTo, At, Does, DecidingStep,
       Conns, Queue!Asked
  <2>2. CASE ~MustPark(ActionOf(c))
    BY <1>1, <1>3, <2>2 DEF CheckForbid, Decide, At, Does, DecidingStep, Conns
  <2> QED BY <2>1, <2>2
<1>4. ASSUME NEW id \in HumanIds, WakeApproved(c, id)
      PROVE  DecidingStep(c)
  BY <1>1, <1>4 DEF WakeApproved, Queue!Answer, Queue!Decided, Decide, At, Does,
     DecidingStep, Own,
     Conns, Queue!Asked
<1>5. CASE WakeDenied(c)
  BY <1>1, <1>5 DEF WakeDenied, Queue!Answer, Queue!Decided, Decide, At, Does,
     DecidingStep, Conns,
     Queue!Asked
<1>6. CASE LogApproval(c)
  <2>1. MoreHuman(request'[conn[c].n], Own(c))
    BY <1>1, <1>6, HumanLineWrites DEF LogApproval, Own
  <2> QED BY <1>1, <1>6, <2>1 DEF LogApproval, Queue!Leave, Queue!Idle, GoTo, At, Does,
      TellingStep, Conns
<1>7. CASE Count(c)
  BY <1>1, <1>7 DEF Count, GoTo, At, Does, TellingStep, Conns
<1>8. CASE LogDecision(c)
  <2>1. MoreDecision(request'[conn[c].n], Own(c), conn[c].verdict)
    BY <1>1, <1>8, LogDecisionWrites DEF Own
  <2> QED BY <1>1, <1>8, <2>1 DEF LogDecision, GoTo, At, Does, TellingStep, Conns
<1>9. CASE Refuse(c)
  BY <1>1, <1>9 DEF Refuse, Finish, At, Does, TellingStep, Own, Conns
<1>10. CASE Forward(c) \/ UpstreamFails(c)
  BY <1>1, <1>10 DEF Forward, UpstreamFails, Finish, At, Does, TellingStep, Own, Conns
<1> QED BY <1>2, <1>3, <1>4, <1>5, <1>6, <1>7, <1>8, <1>9, <1>10 DEF Work, Handle, Exchange

\* What a step writes into the story of its request.
LEMMA HandlerWrites ==
  ASSUME ProxyInv, NEW c \in Conn, Work(c)
  PROVE  /\ Own(c) \in Story /\ Own(c) = request[conn[c].n]
         /\ conn[c].verdict \in {"none", "allow", "deny"}
         /\ \/ /\ conn[c].pc \notin {"woken", "counted"} /\ conn'[c].pc \notin {"refuse", "upstream"}
               /\ request'[conn[c].n] = Own(c)
            \/ /\ conn[c].pc = "parked" /\ conn'[c].pc = "woken"
               /\ \E x \in Nat : request'[conn[c].n] = [Own(c) EXCEPT !.rule = x]
            \/ /\ conn[c].pc = "woken" /\ conn'[c].pc = "decided"
               /\ MoreHuman(request'[conn[c].n], Own(c))
            \/ /\ conn[c].pc = "counted" /\ conn'[c].pc \in {"refuse", "upstream"}
               /\ conn'[c].verdict = conn[c].verdict
               /\ MoreDecision(request'[conn[c].n], Own(c), conn[c].verdict)
            \/ /\ conn[c].pc = "refuse" /\ conn'[c].pc \in {"closed", "idle"}
               /\ \E a \in Action \cup {NoAction} :
                    request'[conn[c].n] = [Own(c) EXCEPT !.outcome = "refused", !.told = a]
            \/ /\ conn[c].pc = "upstream" /\ conn'[c].pc \in {"closed", "idle"}
               /\ \E o \in {"forwarded", "failed"} :
                    request'[conn[c].n] = [Own(c) EXCEPT !.outcome = o]
<1>1. Busy(c)
  BY HandlerFrame
<1>2. /\ Own(c) \in Story /\ Own(c) = request[conn[c].n]
      /\ conn[c].verdict \in {"none", "allow", "deny"}
  BY <1>1, AtWork DEF Conns, Own, Busy
<1>3. nextPos \in Nat /\ lastDenial.action \in Action \cup {NoAction}
  BY DEF ProxyInv, TypeOK, Denial, NoDenial
<1>4. CASE DecidingStep(c)
  BY <1>2, <1>3, <1>4 DEF DecidingStep, Does
<1>5. CASE TellingStep(c)
  BY <1>2, <1>3, <1>5 DEF TellingStep, Does
<1> QED BY <1>2, <1>4, <1>5, HandlerSteps

\* It changes neither what a human said nor the action, and ends a request only at the end.
LEMMA HandlerTells ==
  ASSUME ProxyInv, NEW c \in Conn, Work(c)
  PROVE  /\ request'[conn[c].n].said = Own(c).said
         /\ request'[conn[c].n].action = Own(c).action
         /\ \/ request'[conn[c].n].outcome = Own(c).outcome
            \/ conn'[c].pc \in {"closed", "idle"} /\ conn[c].pc = "refuse"
                 /\ request'[conn[c].n].outcome = "refused"
            \/ conn'[c].pc \in {"closed", "idle"} /\ conn[c].pc = "upstream"
                 /\ request'[conn[c].n].outcome \in {"forwarded", "failed"}
<1>1. Own(c) \in Story
  BY HandlerWrites
<1>2. \/ request'[conn[c].n] = Own(c)
      \/ \E x \in Nat : request'[conn[c].n] = [Own(c) EXCEPT !.rule = x]
      \/ MoreHuman(request'[conn[c].n], Own(c))
      \/ \E v \in {"none", "allow", "deny"} : MoreDecision(request'[conn[c].n], Own(c), v)
      \/ /\ conn'[c].pc \in {"closed", "idle"} /\ conn[c].pc = "refuse"
         /\ \E a \in Action \cup {NoAction} :
              request'[conn[c].n] = [Own(c) EXCEPT !.outcome = "refused", !.told = a]
      \/ /\ conn'[c].pc \in {"closed", "idle"} /\ conn[c].pc = "upstream"
         /\ \E o \in {"forwarded", "failed"} : request'[conn[c].n] = [Own(c) EXCEPT !.outcome = o]
  BY HandlerWrites
<1> DEFINE s == request'[conn[c].n]
           Same == s.said = Own(c).said /\ s.action = Own(c).action
<1>3. MoreHuman(s, Own(c)) => Same /\ s.outcome = Own(c).outcome
  BY <1>1, MoreHumanKeeps
<1>4. ASSUME NEW v \in {"none", "allow", "deny"}, MoreDecision(s, Own(c), v)
      PROVE  Same /\ s.outcome = Own(c).outcome
  BY <1>1, <1>4, MoreDecisionKeeps
<1>5. s = Own(c) \/ (\E x \in Nat : s = [Own(c) EXCEPT !.rule = x]) =>
        Same /\ s.outcome = Own(c).outcome
  BY <1>1 DEF Story
<1>6. (\E a \in Action \cup {NoAction} : s = [Own(c) EXCEPT !.outcome = "refused", !.told = a]) =>
        Same /\ s.outcome = "refused"
  BY <1>1 DEF Story
<1>7. (\E o \in {"forwarded", "failed"} : s = [Own(c) EXCEPT !.outcome = o]) =>
        Same /\ s.outcome \in {"forwarded", "failed"}
  BY <1>1 DEF Story
<1> QED BY <1>2, <1>3, <1>4, <1>5, <1>6, <1>7

\* Staged speaks of a handler and of two fields of its request.
LEMMA StagedStays ==
  ASSUME NEW d \in Conn, Staged(d), asked'[d] = asked[d],
         \/ ~Busy(d) /\ ~Busy(d)'
         \/ /\ conn'[d] = conn[d]
            /\ Busy(d) => Own(d)'.said = Own(d).said /\ Own(d)'.outcome = Own(d).outcome
  PROVE  Staged(d)'
BY DEF Staged, Busy

\* Connect, Hangup, DeleteRule and LogResolve change no handler at work, and
\* nothing that a human said.
LEMMA SkipsKeepStage ==
  ASSUME StageInv,
         \/ \E c \in Conn : Connect(c) \/ Hangup(c)
         \/ \E id \in RuleId : DeleteRule(id)
         \/ \E h \in Human : LogResolve(h)
         \/ UNCHANGED vars
  PROVE  Numbered' /\ \A d \in Conn : Staged(d)'
<1>1. /\ conn \in [Conn -> Conns] /\ request \in [Serial -> Story] /\ requests \in Nat
      /\ human \in [Human -> 0..MaxRequests] /\ MaxRequests \in Nat
  BY ProxyAssumption DEF StageInv, ProxyInv, TypeOK
<1>2. asked' = asked /\ requests' = requests
  BY DEF Connect, Hangup, DeleteRule, LogResolve, vars
<1>3. ASSUME NEW d \in Conn
      PROVE  conn'[d] = conn[d] \/ (~Busy(d) /\ ~Busy(d)')
  <2>1. ASSUME NEW c \in Conn, Connect(c) \/ Hangup(c)
        PROVE  conn'[d] = conn[d] \/ (~Busy(d) /\ ~Busy(d)')
    BY <1>1, <2>1 DEF Connect, Hangup, GoTo, At, Busy, Conns
  <2> QED BY <2>1 DEF DeleteRule, LogResolve, vars
<1>4. ASSUME NEW m \in Serial
      PROVE  /\ request'[m].said = request[m].said /\ request'[m].outcome = request[m].outcome
             /\ request'[m] = request[m] \/ \E h \in Human : human[h] = m
  <2>1. CASE request' = request
    BY <2>1
  <2>2. ASSUME NEW h \in Human, LogResolve(h)
        PROVE  /\ request'[m].said = request[m].said /\ request'[m].outcome = request[m].outcome
               /\ request'[m] = request[m] \/ human[h] = m
    <3>1. request[m] \in Story
      BY <1>1
    <3>2. CASE human[h] = m
      BY <1>1, <2>2, <3>1, <3>2, HumanLineWrites, MoreHumanKeeps DEF LogResolve
    <3>3. CASE human[h] # m
      BY <1>1, <2>2, <3>3 DEF LogResolve, HumanLine
    <3> QED BY <3>2, <3>3
  <2> QED BY <2>1, <2>2 DEF Connect, Hangup, DeleteRule, vars
<1>5. \A h \in Human : human'[h] \in {human[h], 0}
  BY <1>1 DEF Connect, Hangup, DeleteRule, LogResolve, vars
<1>6. ASSUME NEW d \in Conn
      PROVE  Staged(d)'
  <2>1. Busy(d) => conn[d].n \in Serial
    BY AtWork DEF Busy, StageInv
  <2> QED BY <1>2, <1>3, <1>4, <2>1, StagedStays DEF StageInv, Own
<1>7. \A c, d \in Conn : Busy(c)' /\ Busy(d)' /\ conn'[c].n = conn'[d].n => c = d
  BY <1>3 DEF StageInv, Numbered, Busy
<1>8. \A n \in Serial : n > requests' => request'[n] = Untold
  BY <1>1, <1>2, <1>4 DEF StageInv, Numbered, Serial
<1> QED BY <1>1, <1>2, <1>5, <1>6, <1>7, <1>8 DEF StageInv, Numbered

LEMMA ReceiveKeepsStage ==
  ASSUME StageInv, NEW c \in Conn, NEW a \in Action, Receive(c, a)
  PROVE  Numbered' /\ \A d \in Conn : Staged(d)'
<1>1. /\ conn \in [Conn -> Conns] /\ request \in [Serial -> Story] /\ requests \in Nat
      /\ human \in [Human -> 0..MaxRequests] /\ MaxRequests \in Nat
  BY ProxyAssumption DEF StageInv, ProxyInv, TypeOK
<1>2. /\ asked' = asked /\ human' = human /\ requests' = requests + 1 /\ requests' \in Serial
      /\ ~Busy(c)
  BY <1>1 DEF Receive, At, Busy, Serial
<1>3. /\ conn'[c] = [pc |-> "evaluate", n |-> requests', verdict |-> "none"]
      /\ \A d \in Conn \ {c} : conn'[d] = conn[d]
      /\ request'[requests'] = [Untold EXCEPT !.action = a]
      /\ \A m \in Serial \ {requests'} : request'[m] = request[m]
  <2>1. request[requests'] = Untold
    BY <1>1, <1>2 DEF StageInv, Numbered
  <2> QED BY <1>1, <1>2, <2>1 DEF Receive
<1>4. \A d \in Conn : Busy(d) => conn[d].n \in Serial /\ conn[d].n <= requests
  BY <1>1, AtWork DEF Busy, StageInv, ProxyInv, InProgress
<1>5. Staged(c)'
  <2>1. asked[c].state # "open"
    BY <1>2 DEF StageInv, Staged, Busy
  <2> QED BY <1>2, <1>3, <2>1 DEF Staged, Busy, Own, Untold
<1>6. ASSUME NEW d \in Conn \ {c}
      PROVE  Staged(d)'
  BY <1>1, <1>2, <1>3, <1>4, StagedStays DEF StageInv, Own
<1>7. \A d, e \in Conn : Busy(d)' /\ Busy(e)' /\ conn'[d].n = conn'[e].n => d = e
  BY <1>1, <1>2, <1>3, <1>4 DEF StageInv, Numbered, Busy
<1>8. \A n \in Serial : n > requests' => request'[n] = Untold
  BY <1>1, <1>2, <1>3 DEF StageInv, Numbered, Serial
<1>9. \A h \in Human : human'[h] <= requests'
  BY <1>1, <1>2 DEF StageInv, Numbered
<1> QED BY <1>5, <1>6, <1>7, <1>8, <1>9 DEF Numbered

\* A resolve finds its request parked and unspoken of.
LEMMA ResolveStep ==
  ASSUME StageInv, NEW h \in Human, NEW c \in Conn, NEW v \in HumanSays, Resolve(h, c, v)
  PROVE  /\ Busy(c) /\ conn[c].pc = "parked" /\ conn[c].n \in Serial /\ conn[c].n \in 1..requests
         /\ Own(c).said = "none" /\ Own(c).outcome = "none"
         /\ asked'[c].state = "decided" /\ asked'[c].verdict = v
         /\ \A d \in Conn \ {c} : asked'[d] = asked[d]
         /\ request'[conn[c].n] = [Own(c) EXCEPT !.said = v]
         /\ \A m \in Serial \ {conn[c].n} : request'[m] = request[m]
         /\ human[h] = 0 /\ human' = [human EXCEPT ![h] = conn[c].n]
         /\ UNCHANGED <<conn, tree, shared, total, requests>>
<1>1. asked[c].state = "open"
  BY DEF Resolve, Queue!Open
<1>2. conn[c].pc = "parked" /\ Busy(c)
  BY <1>1 DEF StageInv, Staged, Busy
<1>3. conn[c].n \in Serial /\ conn[c].n \in 1..requests
  BY <1>2, AtWork DEF StageInv, Busy, ProxyInv, InProgress
<1>4. Own(c).said = "none" /\ Own(c).outcome = "none"
  BY <1>1, <1>2 DEF StageInv, Staged
<1>5. request \in [Serial -> Story] /\ asked \in [Conn -> Queue!Asked]
  BY DEF StageInv, ProxyInv, TypeOK, Queue!TypeOK
<1>6. /\ asked'[c].state = "decided" /\ asked'[c].verdict = v
      /\ \A d \in Conn \ {c} : asked'[d] = asked[d]
  BY <1>5 DEF Resolve, Queue!Decide, Queue!Asked
<1>7. /\ request'[conn[c].n] = [Own(c) EXCEPT !.said = v]
      /\ \A m \in Serial \ {conn[c].n} : request'[m] = request[m]
  BY <1>3, <1>5 DEF Resolve, Own
<1> QED BY <1>2, <1>3, <1>4, <1>6, <1>7 DEF Resolve

LEMMA ResolveKeepsStage ==
  ASSUME StageInv, NEW h \in Human, NEW c \in Conn, NEW v \in HumanSays, Resolve(h, c, v)
  PROVE  Numbered' /\ \A d \in Conn : Staged(d)'
<1>0. /\ Busy(c) /\ conn[c].pc = "parked" /\ conn[c].n \in Serial /\ conn[c].n \in 1..requests
      /\ Own(c).said = "none" /\ Own(c).outcome = "none"
      /\ asked'[c].state = "decided" /\ asked'[c].verdict = v
      /\ \A d \in Conn \ {c} : asked'[d] = asked[d]
      /\ request'[conn[c].n] = [Own(c) EXCEPT !.said = v]
      /\ \A m \in Serial \ {conn[c].n} : request'[m] = request[m]
      /\ human' = [human EXCEPT ![h] = conn[c].n]
      /\ conn' = conn /\ requests' = requests
  BY ResolveStep
<1>1. /\ request \in [Serial -> Story] /\ requests \in Nat
      /\ human \in [Human -> 0..MaxRequests] /\ MaxRequests \in Nat
  BY ProxyAssumption DEF StageInv, ProxyInv, TypeOK
<1>2. \A d \in Conn : Busy(d) => conn[d].n \in Serial
  BY AtWork DEF Busy, StageInv
<1>3. Own(c) \in Story
  BY <1>0, <1>1 DEF Own
<1>4. Staged(c)'
  <2>1. /\ Own(c)' = request'[conn[c].n] /\ Own(c)'.said = v /\ Own(c)'.outcome = "none"
        /\ conn'[c].pc = "parked"
    BY <1>0, <1>3 DEF Own, Story
  <2> QED BY <1>0, <2>1 DEF Staged, Busy
<1>5. ASSUME NEW d \in Conn \ {c}
      PROVE  Staged(d)'
  <2>1. Busy(d) => conn[d].n # conn[c].n
    BY <1>0 DEF StageInv, Numbered
  <2>2. conn'[d] = conn[d] /\ asked'[d] = asked[d] /\ (Busy(d) => Own(d)' = Own(d))
    BY <1>0, <1>2, <2>1 DEF Own
  <2> QED BY <2>2, StagedStays DEF StageInv
<1>6. \A d, e \in Conn : Busy(d)' /\ Busy(e)' /\ conn'[d].n = conn'[e].n => d = e
  BY <1>0 DEF StageInv, Numbered, Busy
<1>7. \A n \in Serial : n > requests' => request'[n] = Untold
  BY <1>0, <1>1 DEF StageInv, Numbered, Serial
<1>8. \A g \in Human : human'[g] <= requests'
  BY <1>0, <1>1 DEF StageInv, Numbered
<1> QED BY <1>4, <1>5, <1>6, <1>7, <1>8 DEF Numbered

LEMMA HandleKeepsStage ==
  ASSUME StageInv, NEW c \in Conn, Work(c)
  PROVE  Numbered' /\ \A d \in Conn : Staged(d)'
<1>1. /\ request \in [Serial -> Story] /\ requests \in Nat /\ conn \in [Conn -> Conns]
      /\ MaxRequests \in Nat /\ ProxyInv
  BY ProxyAssumption DEF StageInv, ProxyInv, TypeOK
<1>2. /\ Busy(c) /\ (Busy(c)' => conn'[c].n = conn[c].n) /\ conn[c].n \in Serial
      /\ \A d \in Conn \ {c} : conn'[d] = conn[d] /\ asked'[d] = asked[d]
      /\ \A m \in Serial \ {conn[c].n} : request'[m] = request[m]
      /\ UNCHANGED <<human, requests>>
  BY <1>1, HandlerFrame
<1>3. \A d \in Conn : Busy(d) => conn[d].n \in Serial /\ conn[d].n \in 1..requests
  BY <1>1, AtWork DEF Busy, StageInv, ProxyInv, InProgress
<1>4. /\ Own(c) \in Story /\ conn[c] \in Conns
      /\ Own(c) = request[conn[c].n] /\ (Busy(c)' => Own(c)' = request'[conn[c].n])
  BY <1>1, <1>2 DEF Own
<1>5. Staged(c)'
  <2>1. CASE DecidingStep(c)
    BY <1>4, <2>1 DEF StageInv, Staged, DecidingStep, Does, Busy, Story
  <2>2. CASE TellingStep(c)
    <3>1. /\ asked'[c].state \in {asked[c].state, "idle"} /\ conn'[c].pc # "parked"
          /\ \/ ~Busy(c)'
             \/ /\ Own(c)'.said = Own(c).said /\ conn'[c].verdict = conn[c].verdict
                /\ Own(c)'.outcome = Own(c).outcome
      <4>1. /\ conn'[c].pc # "parked"
            /\ ~Busy(c)' \/ conn'[c].verdict = conn[c].verdict
            /\ asked'[c].state \in {asked[c].state, "idle"}
        BY <2>2 DEF TellingStep, Does, Busy
      <4> QED BY <1>1, <1>4, <4>1, HandlerTells DEF Busy
    <3>2. <<conn[c].pc, conn'[c].pc>> \in
            {<<"woken", "decided">>, <<"decided", "counted">>,
             <<"counted", IF conn[c].verdict = "allow" THEN "upstream" ELSE "refuse">>,
             <<"refuse", "idle">>, <<"refuse", "closed">>,
             <<"upstream", "idle">>, <<"upstream", "closed">>}
      BY <2>2 DEF TellingStep, Does
    <3>3. Staged(c)
      BY DEF StageInv
    <3> QED BY <3>1, <3>2, <3>3 DEF Staged, Busy
  <2> QED BY <1>1, <2>1, <2>2, HandlerSteps
<1>6. ASSUME NEW d \in Conn \ {c}
      PROVE  Staged(d)'
  <2>1. Busy(d) => conn[d].n # conn[c].n
    BY <1>2 DEF StageInv, Numbered
  <2>2. Busy(d) => Own(d)' = Own(d)
    BY <1>2, <1>3, <2>1 DEF Own
  <2> QED BY <1>2, <2>2, StagedStays DEF StageInv
<1>7. \A d, e \in Conn : Busy(d)' /\ Busy(e)' /\ conn'[d].n = conn'[e].n => d = e
  BY <1>2 DEF StageInv, Numbered, Busy
<1>8. \A n \in Serial : n > requests' => request'[n] = Untold
  BY <1>1, <1>2, <1>3 DEF StageInv, Numbered, Serial
<1> QED BY <1>2, <1>5, <1>6, <1>7, <1>8 DEF StageInv, Numbered

\* Next, sorted by what a step touches.
LEMMA NextSorted ==
  ASSUME [Next]_vars
  PROVE  \/ \E c \in Conn : Work(c)
         \/ \E c \in Conn, a \in Action : Receive(c, a)
         \/ \E h \in Human, c \in Conn, v \in HumanSays : Resolve(h, c, v)
         \/ \E h \in Human : LogResolve(h)
         \/ \E c \in Conn : Connect(c) \/ Hangup(c)
         \/ \E id \in RuleId : DeleteRule(id)
         \/ UNCHANGED vars
BY DEF Next, Work, Handle, Exchange

LEMMA InitStageInv == Init => StageInv
BY InitProxyInv, ProxyAssumption
DEF StageInv, Init, Numbered, Staged, Busy, Queue!Init, Queue!Idle

THEOREM StageInvariant == Spec => []StageInv
<1>2. StageInv /\ ProxyInv' /\ [Next]_vars => StageInv'
  <2> SUFFICES ASSUME StageInv, ProxyInv', [Next]_vars
               PROVE  Numbered' /\ \A c \in Conn : Staged(c)'
    BY DEF StageInv
  <2> QED BY NextSorted, HandleKeepsStage, ReceiveKeepsStage, ResolveKeepsStage,
     SkipsKeepStage
<1> QED BY <1>2, InitStageInv, ProxyInvariant, PTL DEF Spec
-----------------------------------------------------------------------------
(***************************************************************************)
(* Default deny.                                                           *)
(***************************************************************************)
\* An IPC handler's line changes nothing else of any request.
LEMMA LogResolveTells ==
  ASSUME ProxyInv, NEW h \in Human, LogResolve(h), NEW m \in Serial
  PROVE  /\ human[h] \in Serial /\ MoreHuman(request'[human[h]], request[human[h]])
         /\ m # human[h] => request'[m] = request[m]
         /\ request'[m].said = request[m].said /\ request'[m].outcome = request[m].outcome
         /\ request'[m].result = request[m].result /\ Offered(request'[m]) = Offered(request[m])
<1>1. /\ request \in [Serial -> Story] /\ human[h] \in Serial /\ HumanLine(human[h])
  BY ProxyAssumption DEF ProxyInv, TypeOK, LogResolve, Serial
<1>2. /\ MoreHuman(request'[human[h]], request[human[h]])
      /\ request' = [request EXCEPT ![human[h]] = request'[human[h]]]
  BY <1>1, HumanLineWrites
<1>3. m # human[h] => request'[m] = request[m]
  BY <1>1, <1>2
<1> QED BY <1>1, <1>2, <1>3, MoreHumanKeeps

\* What a human said stays said.
LEMMA SaidStays ==
  ASSUME StageInv, [Next]_vars, NEW m \in Serial, request[m].said # "none"
  PROVE  m \in 1..requests /\ request'[m].said = request[m].said
<1>1. /\ request \in [Serial -> Story] /\ requests \in Nat /\ MaxRequests \in Nat /\ ProxyInv
      /\ human \in [Human -> 0..MaxRequests]
  BY ProxyAssumption DEF StageInv, ProxyInv, TypeOK
<1>2. m \in 1..requests
  BY <1>1 DEF StageInv, Numbered, Untold, Serial
<1>3. ASSUME NEW c \in Conn, Work(c)
      PROVE  request'[m].said = request[m].said
  BY <1>1, <1>3, HandlerFrame, HandlerTells DEF Own
<1>4. ASSUME NEW c \in Conn, NEW a \in Action, Receive(c, a)
      PROVE  request'[m].said = request[m].said
  BY <1>1, <1>2, <1>4 DEF Receive, Serial
<1>5. ASSUME NEW h \in Human, NEW c \in Conn, NEW v \in HumanSays, Resolve(h, c, v)
      PROVE  request'[m].said = request[m].said
  BY <1>5, ResolveStep DEF Own
<1>6. ASSUME NEW h \in Human, LogResolve(h)
      PROVE  request'[m].said = request[m].said
  BY <1>1, <1>6, LogResolveTells
<1> QED BY <1>2, <1>3, <1>4, <1>5, <1>6, NextSorted DEF Connect, Hangup, DeleteRule,
   vars

Earned(n) == PermittedAtStart(request[n].action) \/ CoveredByHuman(n)

\* Where a permit of the tree comes from.
Stems(r) ==
  \/ \E i \in DOMAIN InitialRules :
       InitialRules[i].effect = "permit" /\ r.action = InitialRules[i].action
  \/ \E m \in Serial : request[m].said = "approved" /\ r.action = NetPattern[request[m].action]

LEMMA EarnedStays ==
  ASSUME StageInv, [Next]_vars, NEW n \in 1..requests, Earned(n)
  PROVE  Earned(n)'
<1>1. ProxyInv /\ \A m \in 1..requests : request'[m].action = request[m].action
  BY ActionsStay DEF StageInv
<1>2. CASE PermittedAtStart(request[n].action)
  BY <1>1, <1>2 DEF Earned, PermittedAtStart
<1>3. CASE CoveredByHuman(n)
  <2>1. PICK m \in Serial : /\ request[m].said = "approved"
                            /\ m = n \/ request[n].action \in NetPattern[request[m].action]
    BY <1>3 DEF CoveredByHuman
  <2>2. m \in 1..requests /\ request'[m].said = "approved"
    BY <2>1, SaidStays
  <2> QED BY <1>1, <2>1, <2>2 DEF Earned, CoveredByHuman
<1> QED BY <1>2, <1>3 DEF Earned

LEMMA StemsStays ==
  ASSUME StageInv, [Next]_vars, NEW r, Stems(r)
  PROVE  Stems(r)'
<1>1. ASSUME NEW m \in Serial, request[m].said = "approved",
             r.action = NetPattern[request[m].action]
      PROVE  request'[m].said = "approved" /\ r.action = NetPattern[request'[m].action]
  <2>1. m \in 1..requests /\ request'[m].said = "approved"
    BY <1>1, SaidStays
  <2> QED BY <1>1, <2>1, ActionsStay DEF StageInv
<1> QED BY <1>1 DEF Stems

\* A permit of the next tree is one of this tree or an approval's.
LEMMA PermitsStem ==
  ASSUME StageInv, [Next]_vars, NEW r \in rules', r.effect = "permit"
  PROVE  (\E q \in rules : q.effect = "permit" /\ q.action = r.action) \/ Stems(r)
<1>1. rules \subseteq Rule /\ ProxyInv
  BY DEF StageInv, ProxyInv, TypeOK
<1>2. CASE rules' \subseteq rules
  BY <1>2
<1>3. ASSUME NEW c \in Conn, Evaluate(c), r \notin rules
      PROVE  \E q \in rules : q.effect = "permit" /\ q.action = r.action
  <2>1. PICK q \in UsedUp(rules, ActionOf(c), 0) : r = [q EXCEPT !.consumed = TRUE]
    BY <1>3 DEF Evaluate, RulesAfter, MarkConsumed
  <2>2. q \in rules /\ q \in Rule
    BY <1>1, <2>1 DEF UsedUp, PermitsOf
  <2>3. r.effect = q.effect /\ r.action = q.action
    BY <2>1, <2>2 DEF Rule
  <2> QED BY <2>2, <2>3
<1>4. ASSUME NEW c \in Conn, NEW id \in HumanIds, WakeApproved(c, id), r \notin rules
      PROVE  Stems(r)
  <2>1. r.action = NetPattern[ActionOf(c)]
    BY <1>4 DEF WakeApproved, HumanRule
  <2>2. conn[c].pc = "parked" /\ asked[c].state = "decided" /\ asked[c].verdict = "approved"
    BY <1>4 DEF WakeApproved, Queue!Answer, Queue!Decided, At
  <2>3. Own(c).said = "approved"
    BY <2>2 DEF StageInv, Staged
  <2>4. conn[c].n \in Serial
    BY <1>1, <2>2, AtWork
  <2> QED BY <2>1, <2>3, <2>4 DEF Stems, Own, ActionOf
<1>5. \/ rules' \subseteq rules
      \/ \E c \in Conn : Evaluate(c)
      \/ \E c \in Conn, id \in HumanIds : WakeApproved(c, id)
  BY DEF Next, vars, tree, Connect, Hangup, Receive, CheckForbid, WakeDenied,
     LogApproval, Count,
         LogDecision, Refuse, Forward, UpstreamFails, Resolve, LogResolve, DeleteRule, WithoutId
<1> QED BY <1>2, <1>3, <1>4, <1>5

EarnInv ==
  /\ StageInv
  /\ \A r \in rules : r.effect = "permit" => Stems(r)
  /\ \A c \in Conn : Allowed(c) => Earned(conn[c].n)
  /\ ForwardedEarned

\* What the tree allows is earned.
LEMMA TreeEarned ==
  ASSUME EarnInv, NEW n \in Serial, Outcome(rules, request[n].action, 0) = "allow"
  PROVE  Earned(n)
<1>1. PICK r \in rules : r.effect = "permit" /\ request[n].action \in r.action
  BY DEF Outcome, HasForbid, PermitsOf, Matches
<1>2. Stems(r)
  BY <1>1 DEF EarnInv
<1>3. CASE \E i \in DOMAIN InitialRules :
             InitialRules[i].effect = "permit" /\ r.action = InitialRules[i].action
  BY <1>1, <1>3 DEF Earned, PermittedAtStart, Matches
<1>4. CASE \E m \in Serial :
             request[m].said = "approved" /\ r.action = NetPattern[request[m].action]
  BY <1>1, <1>4 DEF Earned, CoveredByHuman
<1> QED BY <1>2, <1>3, <1>4 DEF Stems

\* An allowed request was allowed before, or has just been: by the tree, or by
\* the human who approved it.
LEMMA AllowedEarned ==
  ASSUME EarnInv, [Next]_vars, NEW c \in Conn, Allowed(c)'
  PROVE  Earned(conn[c].n)'
<1>1. /\ StageInv /\ ProxyInv /\ conn[c] \in Conns /\ conn \in [Conn -> Conns]
      /\ request \in [Serial -> Story]
  BY DEF EarnInv, StageInv, ProxyInv, TypeOK
<1>2. ASSUME Busy(c), conn'[c].n = conn[c].n, Earned(conn[c].n)
      PROVE  Earned(conn[c].n)'
  <2>1. PICK n \in 1..requests : n = conn[c].n
    BY <1>1, <1>2 DEF ProxyInv, InProgress, Busy
  <2>2. Earned(n)
    BY <1>2, <2>1
  <2>3. Earned(n)'
    BY <1>1, <2>2, EarnedStays
  <2>4. conn'[c].n = n
    BY <1>2, <2>1
  <2> QED BY <2>3, <2>4 DEF Earned, CoveredByHuman
<1>3. conn'[c].verdict = "allow" /\ conn'[c].pc \notin {"closed", "idle"}
  BY DEF Allowed
<1>4. CASE conn'[c] = conn[c]
  <2>1. Allowed(c) /\ Busy(c)
    BY <1>3, <1>4 DEF Allowed, Busy
  <2> QED BY <1>2, <1>4, <2>1 DEF EarnInv
<1>5. CASE Work(c)
  <2>1. Busy(c) /\ conn'[c].n = conn[c].n /\ conn[c].n \in Serial
    BY <1>1, <1>3, <1>5, HandlerFrame DEF Busy
  <2>2. \/ conn[c].verdict = "allow"
        \/ Outcome(rules, ActionOf(c), 0) = "allow"
        \/ conn[c].pc = "parked" /\ asked[c].state = "decided" /\ asked[c].verdict = "approved"
    BY <1>1, <1>3, <1>5, HandlerSteps DEF DecidingStep, TellingStep, Does
  <2>3. CASE conn[c].verdict = "allow"
    BY <1>2, <2>1, <2>3 DEF EarnInv, Allowed, Busy
  <2>4. CASE Outcome(rules, ActionOf(c), 0) = "allow"
    BY <1>2, <2>1, <2>4, TreeEarned DEF ActionOf
  <2>5. CASE conn[c].pc = "parked" /\ asked[c].state = "decided" /\ asked[c].verdict = "approved"
    <3>1. Own(c).said = "approved"
      BY <1>1, <2>5 DEF StageInv, Staged
    <3> QED BY <1>2, <2>1, <3>1 DEF Earned, CoveredByHuman, Own
  <2> QED BY <2>2, <2>3, <2>4, <2>5
<1>6. ASSUME NEW a \in Action, Receive(c, a)
      PROVE  FALSE
  BY <1>1, <1>3, <1>6 DEF Receive
<1>7. ASSUME Connect(c) \/ Hangup(c)
      PROVE  FALSE
  BY <1>1, <1>3, <1>7 DEF Connect, Hangup, GoTo, Conns
<1>8. \/ conn'[c] = conn[c] \/ Work(c) \/ \E a \in Action : Receive(c, a)
      \/ Connect(c) \/ Hangup(c)
  <2>1. ASSUME NEW d \in Conn \ {c}, Work(d)
        PROVE  conn'[c] = conn[c]
    BY <1>1, <2>1, HandlerFrame
  <2>2. ASSUME NEW d \in Conn \ {c}, Connect(d) \/ Hangup(d) \/ \E a \in Action : Receive(d, a)
        PROVE  conn'[c] = conn[c]
    BY <1>1, <2>2 DEF Connect, Hangup, GoTo, Receive
  <2> QED BY <2>1, <2>2, NextSorted DEF Resolve, LogResolve, DeleteRule, vars
<1> QED BY <1>4, <1>5, <1>6, <1>7, <1>8

\* What has gone upstream went before, or was allowed until this step.
LEMMA ForwardedStep ==
  ASSUME StageInv, [Next]_vars, NEW n \in Serial, request'[n].outcome \in {"forwarded", "failed"}
  PROVE  /\ n \in 1..requests /\ request'[n].said = request[n].said
         /\ \/ request[n].outcome \in {"forwarded", "failed"}
            \/ \E c \in Conn : conn[c].n = n /\ conn[c].pc = "upstream"
<1>1. /\ request \in [Serial -> Story] /\ requests \in Nat /\ MaxRequests \in Nat /\ ProxyInv
      /\ human \in [Human -> 0..MaxRequests]
  BY ProxyAssumption DEF StageInv, ProxyInv, TypeOK
<1>2. ASSUME request[n].outcome # "none"
      PROVE  n \in 1..requests
  BY <1>1, <1>2 DEF StageInv, Numbered, Untold, Serial
<1>3. ASSUME NEW c \in Conn, Work(c)
      PROVE  /\ request'[n].said = request[n].said
             /\ \/ request[n].outcome \in {"forwarded", "failed"}
                \/ conn[c].n = n /\ conn[c].pc = "upstream"
  <2>1. CASE conn[c].n = n
    BY <1>1, <1>3, <2>1, HandlerTells DEF Own
  <2>2. CASE conn[c].n # n
    BY <1>1, <1>3, <2>2, HandlerFrame
  <2> QED BY <2>1, <2>2
<1>4. ASSUME NEW c \in Conn, NEW a \in Action, Receive(c, a)
      PROVE  request'[n].said = request[n].said /\ request'[n].outcome = request[n].outcome
  BY <1>1, <1>4 DEF Receive, Story
<1>5. ASSUME NEW h \in Human, NEW c \in Conn, NEW v \in HumanSays, Resolve(h, c, v)
      PROVE  request'[n] = request[n]
  <2>1. /\ conn[c].n \in Serial /\ Own(c).outcome = "none" /\ Own(c) \in Story
        /\ request'[conn[c].n] = [Own(c) EXCEPT !.said = v]
        /\ \A m \in Serial \ {conn[c].n} : request'[m] = request[m]
    BY <1>1, <1>5, ResolveStep DEF Own
  <2>2. n # conn[c].n
    BY <2>1 DEF Story
  <2> QED BY <2>1, <2>2
<1>6. ASSUME NEW h \in Human, LogResolve(h)
      PROVE  request'[n].said = request[n].said /\ request'[n].outcome = request[n].outcome
  BY <1>1, <1>6, LogResolveTells
<1>7. ASSUME NEW c \in Conn, conn[c].n = n, conn[c].pc = "upstream"
      PROVE  n \in 1..requests
  BY <1>1, <1>7 DEF ProxyInv, InProgress
<1>8. /\ request'[n].said = request[n].said
      /\ \/ request[n].outcome \in {"forwarded", "failed"}
         \/ \E c \in Conn : conn[c].n = n /\ conn[c].pc = "upstream"
  BY <1>3, <1>4, <1>5, <1>6, NextSorted DEF Connect, Hangup, DeleteRule, vars
<1> QED BY <1>2, <1>7, <1>8

LEMMA InitEarnInv == Init => EarnInv
<1> SUFFICES ASSUME Init PROVE EarnInv
  OBVIOUS
<1>1. \A r \in rules : r.effect = "permit" => Stems(r)
  <2> SUFFICES ASSUME NEW r \in Placed(InitialRules, 1), r.effect = "permit"
               PROVE  Stems(r)
    BY DEF Init
  <2>1. PICK i \in DOMAIN InitialRules : r = [InitialRules[i] EXCEPT !.pos = 1 + i - 1]
    BY DEF Placed
  <2>2. InitialRules[i] \in Rule
    BY ProxyAssumption
  <2>3. r.effect = InitialRules[i].effect /\ r.action = InitialRules[i].action
    BY <2>1, <2>2 DEF Rule
  <2> QED BY <2>3 DEF Stems
<1>2. \A c \in Conn : ~Allowed(c)
  BY DEF Init, Allowed
<1>3. ForwardedEarned
  BY DEF Init, ForwardedEarned, Untold
<1> QED BY <1>1, <1>2, <1>3, InitStageInv DEF EarnInv

LEMMA NextEarnInv ==
  ASSUME EarnInv, StageInv', [Next]_vars
  PROVE  EarnInv'
<1>1. \A r \in rules' : r.effect = "permit" => Stems(r)'
  <2> SUFFICES ASSUME NEW r \in rules', r.effect = "permit"
               PROVE  Stems(r)'
    OBVIOUS
  <2>1. ASSUME NEW q \in rules, q.effect = "permit", q.action = r.action
        PROVE  Stems(r)
    BY <2>1 DEF EarnInv, Stems
  <2> QED BY <2>1, PermitsStem, StemsStays DEF EarnInv
<1>2. \A c \in Conn : Allowed(c)' => Earned(conn[c].n)'
  BY AllowedEarned
<1>3. ForwardedEarned'
  <2> SUFFICES ASSUME NEW n \in Serial, request'[n].outcome \in {"forwarded", "failed"}
               PROVE  Earned(n)' /\ request'[n].said # "denied"
    BY DEF ForwardedEarned, Earned
  <2>1. /\ n \in 1..requests /\ request'[n].said = request[n].said
        /\ \/ request[n].outcome \in {"forwarded", "failed"}
           \/ \E c \in Conn : conn[c].n = n /\ conn[c].pc = "upstream"
    BY ForwardedStep DEF EarnInv
  <2>2. Earned(n) /\ request[n].said # "denied"
    <3>1. CASE request[n].outcome \in {"forwarded", "failed"}
      BY <3>1 DEF EarnInv, ForwardedEarned, Earned
    <3>2. ASSUME NEW c \in Conn, conn[c].n = n, conn[c].pc = "upstream"
          PROVE  Earned(n) /\ request[n].said # "denied"
      <4>1. Allowed(c) /\ Own(c).said # "denied"
        BY <3>2 DEF EarnInv, StageInv, Staged, Allowed
      <4> QED BY <3>2, <4>1 DEF EarnInv, Own
    <3> QED BY <2>1, <3>1, <3>2
  <2> QED BY <2>1, <2>2, EarnedStays DEF EarnInv
<1> QED BY <1>1, <1>2, <1>3 DEF EarnInv

(***************************************************************************)
(* Default deny: whatever handlers, humans and deletions do, what went     *)
(* upstream had a permit from the start, or a human approved that request  *)
(* or one whose rule covers it, and no human denied it.  It rests on every *)
(* permit of the tree stemming from the start or from an approval, and on  *)
(* a verdict reaching the request for which it was given.                  *)
(***************************************************************************)
THEOREM ForwardedEarnedAlways == Spec => []ForwardedEarned
<1>1. EarnInv => ForwardedEarned
  BY DEF EarnInv
<1> QED BY <1>1, InitEarnInv, NextEarnInv, StageInvariant, PTL DEF Spec
-----------------------------------------------------------------------------
(***************************************************************************)
(* The log and the counter.                                                *)
(***************************************************************************)
\* What was offered to the log of the request that a handler works on.
Logged(c) ==
  /\ conn[c].pc \in {"evaluate", "check", "parked", "woken", "decided", "counted"} =>
       Own(c).result = "none"
  /\ conn[c].pc \in {"refuse", "upstream"} => Own(c).result = conn[c].verdict

\* The first part of DecisionsLogged, of one request.
LoggedOnce(n) ==
  /\ Offered(request[n]) = IF request[n].result = "none" THEN 0 ELSE 1
  /\ request[n].outcome = "refused" => request[n].result = "deny"
  /\ request[n].outcome \in {"forwarded", "failed"} => request[n].result = "allow"

LogInv == StageInv /\ (\A c \in Conn : Logged(c)) /\ \A n \in Serial : LoggedOnce(n)

\* The log in a handler's step.
LEMMA HandlerLogs ==
  ASSUME ProxyInv, NEW c \in Conn, Work(c)
  PROVE  \/ /\ conn[c].pc = "counted" /\ conn'[c].pc \in {"refuse", "upstream"}
            /\ conn'[c].verdict = conn[c].verdict
            /\ Offered(request'[conn[c].n]) = Offered(Own(c)) + 1
            /\ request'[conn[c].n].result = conn[c].verdict
         \/ /\ conn[c].pc # "counted"
            /\ conn'[c].pc \in {"refuse", "upstream"} => FALSE
            /\ Offered(request'[conn[c].n]) = Offered(Own(c))
            /\ request'[conn[c].n].result = Own(c).result
<1>1. Own(c) \in Story /\ conn[c].verdict \in {"none", "allow", "deny"}
  BY HandlerWrites
<1>2. \/ /\ conn[c].pc # "counted" /\ conn'[c].pc \notin {"refuse", "upstream"}
         /\ \/ request'[conn[c].n] = Own(c)
            \/ \E x \in Nat : request'[conn[c].n] = [Own(c) EXCEPT !.rule = x]
            \/ MoreHuman(request'[conn[c].n], Own(c))
            \/ \E a \in Action \cup {NoAction} :
                 request'[conn[c].n] = [Own(c) EXCEPT !.outcome = "refused", !.told = a]
            \/ \E o \in {"forwarded", "failed"} :
                 request'[conn[c].n] = [Own(c) EXCEPT !.outcome = o]
      \/ /\ conn[c].pc = "counted" /\ conn'[c].pc \in {"refuse", "upstream"}
         /\ conn'[c].verdict = conn[c].verdict
         /\ MoreDecision(request'[conn[c].n], Own(c), conn[c].verdict)
  BY HandlerWrites
<1>3. MoreDecision(request'[conn[c].n], Own(c), conn[c].verdict) =>
        /\ Offered(request'[conn[c].n]) = Offered(Own(c)) + 1
        /\ request'[conn[c].n].result = conn[c].verdict
  <2>1. MoreDecision(request'[conn[c].n], Own(c), conn[c].verdict) =>
          Offered(request'[conn[c].n]) = Offered(Own(c)) + 1
    BY DEF MoreDecision
  <2> QED BY <1>1, <2>1, MoreDecisionKeeps
<1>4. MoreHuman(request'[conn[c].n], Own(c)) =>
        /\ Offered(request'[conn[c].n]) = Offered(Own(c))
        /\ request'[conn[c].n].result = Own(c).result
  BY <1>1, MoreHumanKeeps
<1>5. ASSUME \/ request'[conn[c].n] = Own(c)
             \/ \E x \in Nat : request'[conn[c].n] = [Own(c) EXCEPT !.rule = x]
             \/ \E a \in Action \cup {NoAction} :
                  request'[conn[c].n] = [Own(c) EXCEPT !.outcome = "refused", !.told = a]
             \/ \E o \in {"forwarded", "failed"} :
                  request'[conn[c].n] = [Own(c) EXCEPT !.outcome = o]
      PROVE  /\ Offered(request'[conn[c].n]) = Offered(Own(c))
             /\ request'[conn[c].n].result = Own(c).result
  BY <1>1, <1>5 DEF Story, Offered
<1> QED BY <1>2, <1>3, <1>4, <1>5

\* Steps that write no Decision line.
LEMMA LogUntouched ==
  ASSUME StageInv, NEW n \in Serial,
         \/ \E h \in Human, c \in Conn, v \in HumanSays : Resolve(h, c, v)
         \/ \E h \in Human : LogResolve(h)
         \/ \E c \in Conn : Connect(c) \/ Hangup(c)
         \/ \E id \in RuleId : DeleteRule(id)
         \/ UNCHANGED vars
  PROVE  /\ Offered(request'[n]) = Offered(request[n])
         /\ request'[n].result = request[n].result
         /\ request'[n].outcome = request[n].outcome
<1>1. ProxyInv /\ request \in [Serial -> Story] /\ human \in [Human -> 0..MaxRequests] /\ MaxRequests \in Nat
  BY ProxyAssumption DEF StageInv, ProxyInv, TypeOK
<1>2. ASSUME NEW h \in Human, NEW c \in Conn, NEW v \in HumanSays, Resolve(h, c, v)
      PROVE  /\ Offered(request'[n]) = Offered(request[n])
             /\ request'[n].result = request[n].result
             /\ request'[n].outcome = request[n].outcome
  <2>1. /\ conn[c].n \in Serial /\ Own(c) = request[conn[c].n] /\ Own(c) \in Story
        /\ request'[conn[c].n] = [Own(c) EXCEPT !.said = v]
        /\ \A m \in Serial \ {conn[c].n} : request'[m] = request[m]
    BY <1>1, <1>2, ResolveStep DEF Own
  <2> QED BY <2>1 DEF Story, Offered
<1>3. ASSUME NEW h \in Human, LogResolve(h)
      PROVE  /\ Offered(request'[n]) = Offered(request[n])
             /\ request'[n].result = request[n].result
             /\ request'[n].outcome = request[n].outcome
  BY <1>1, <1>3, LogResolveTells
<1> QED BY <1>2, <1>3 DEF Connect, Hangup, DeleteRule, vars

\* In such a step a handler stays where it is, or goes to and fro between requests.
LEMMA HandlersWait ==
  ASSUME ProxyInv, NEW d \in Conn,
         \/ \E h \in Human, c \in Conn, v \in HumanSays : Resolve(h, c, v)
         \/ \E h \in Human : LogResolve(h)
         \/ \E c \in Conn : Connect(c) \/ Hangup(c)
         \/ \E id \in RuleId : DeleteRule(id)
         \/ UNCHANGED vars
  PROVE  conn'[d] = conn[d] \/ (~Busy(d) /\ ~Busy(d)')
<1>1. conn \in [Conn -> Conns]
  BY DEF ProxyInv, TypeOK
<1>2. ASSUME NEW c \in Conn, Connect(c) \/ Hangup(c)
      PROVE  conn'[d] = conn[d] \/ (~Busy(d) /\ ~Busy(d)')
  BY <1>1, <1>2 DEF Connect, Hangup, GoTo, At, Busy, Conns
<1> QED BY <1>2 DEF Resolve, LogResolve, DeleteRule, vars

LEMMA ReceiveStep ==
  ASSUME StageInv, NEW c \in Conn, NEW a \in Action, Receive(c, a)
  PROVE  /\ ~Busy(c) /\ requests' = requests + 1 /\ requests' \in Serial
         /\ conn'[c] = [pc |-> "evaluate", n |-> requests', verdict |-> "none"]
         /\ \A d \in Conn \ {c} : conn'[d] = conn[d]
         /\ request'[requests'] = [Untold EXCEPT !.action = a]
         /\ \A m \in Serial \ {requests'} : request'[m] = request[m]
         /\ \A d \in Conn : Busy(d) => conn[d].n \in Serial \ {requests'}
<1>1. /\ conn \in [Conn -> Conns] /\ request \in [Serial -> Story] /\ requests \in Nat
      /\ MaxRequests \in Nat
  BY ProxyAssumption DEF StageInv, ProxyInv, TypeOK
<1>2. requests' = requests + 1 /\ requests' \in Serial /\ ~Busy(c)
  BY <1>1 DEF Receive, At, Busy, Serial
<1>3. request[requests'] = Untold
  BY <1>1, <1>2 DEF StageInv, Numbered
<1>4. \A d \in Conn : Busy(d) => conn[d].n \in Serial \ {requests'}
  BY <1>1, <1>2, AtWork DEF Busy, StageInv, ProxyInv, InProgress
<1> QED BY <1>1, <1>2, <1>3, <1>4 DEF Receive

LEMMA NextLogInv ==
  ASSUME LogInv, StageInv', [Next]_vars
  PROVE  LogInv'
<1>1. /\ StageInv /\ ProxyInv
      /\ \A d \in Conn : Busy(d) => conn[d].n \in Serial
  BY AtWork DEF LogInv, StageInv, Busy
<1>2. ASSUME NEW c \in Conn, Work(c)
      PROVE  (\A d \in Conn : Logged(d)') /\ \A n \in Serial : LoggedOnce(n)'
  <2>1. /\ Busy(c) /\ (Busy(c)' => conn'[c].n = conn[c].n) /\ conn[c].n \in Serial
        /\ \A d \in Conn \ {c} : conn'[d] = conn[d]
        /\ \A m \in Serial \ {conn[c].n} : request'[m] = request[m]
    BY <1>1, <1>2, HandlerFrame
  <2>2. Own(c) = request[conn[c].n] /\ (Busy(c)' => Own(c)' = request'[conn[c].n])
    BY <2>1 DEF Own
  <2>3. Logged(c)'
    <3>1. CASE conn[c].pc = "counted"
      BY <1>1, <1>2, <2>2, <3>1, HandlerLogs DEF LogInv, Logged, Busy
    <3>2. CASE conn[c].pc # "counted"
      <4>1. /\ conn'[c].pc \notin {"refuse", "upstream"}
            /\ Busy(c)' => Own(c)'.result = Own(c).result
        BY <1>1, <1>2, <2>2, <3>2, HandlerLogs
      <4>2. conn'[c].pc \in {"evaluate", "check", "parked", "woken", "decided", "counted"} =>
              conn[c].pc \in {"evaluate", "check", "parked", "woken", "decided", "counted"}
        BY <1>1, <1>2, HandlerSteps DEF DecidingStep, TellingStep, Does
      <4> QED BY <4>1, <4>2 DEF LogInv, Logged, Busy
    <3> QED BY <3>1, <3>2
  <2>4. ASSUME NEW d \in Conn \ {c}
        PROVE  Logged(d)'
    <3>1. Busy(d) => conn[d].n # conn[c].n
      BY <1>1, <2>1 DEF StageInv, Numbered
    <3>2. conn'[d] = conn[d] /\ (Busy(d) => Own(d)' = Own(d))
      BY <1>1, <2>1, <3>1 DEF Own
    <3> QED BY <3>2 DEF LogInv, Logged, Busy
  <2>5. ASSUME NEW n \in Serial, n = conn[c].n
        PROVE  LoggedOnce(n)'
    <3>1. Own(c) = request[n] /\ LoggedOnce(n) /\ Logged(c) /\ Own(c).outcome = "none"
      BY <1>1, <2>1, <2>5 DEF LogInv, Own, StageInv, Staged
    <3>2. CASE conn[c].pc = "counted"
      <4>1. Offered(Own(c)) = 0 /\ conn[c].verdict \in {"allow", "deny"}
        BY <1>1, <3>1, <3>2 DEF Logged, LoggedOnce, StageInv, Staged
      <4>2. /\ Offered(request'[n]) = 1 /\ request'[n].outcome = "none"
            /\ request'[n].result = conn[c].verdict
        BY <1>1, <1>2, <2>5, <3>1, <3>2, <4>1, HandlerLogs, HandlerTells
      <4> QED BY <4>1, <4>2 DEF LoggedOnce
    <3>3. CASE conn[c].pc # "counted"
      <4>1. /\ Offered(request'[n]) = Offered(request[n])
            /\ request'[n].result = request[n].result
        BY <1>1, <1>2, <2>5, <3>1, <3>3, HandlerLogs
      <4>2. conn[c].pc = "refuse" => request[n].result = "deny"
        BY <1>1, <3>1 DEF Logged, StageInv, Staged
      <4>3. conn[c].pc = "upstream" => request[n].result = "allow"
        BY <1>1, <3>1 DEF Logged, StageInv, Staged
      <4> QED BY <1>1, <1>2, <2>5, <3>1, <4>1, <4>2, <4>3, HandlerTells DEF LoggedOnce
    <3> QED BY <3>2, <3>3
  <2> QED BY <2>1, <2>3, <2>4, <2>5 DEF LogInv, LoggedOnce
<1>3. ASSUME NEW c \in Conn, NEW a \in Action, Receive(c, a)
      PROVE  (\A d \in Conn : Logged(d)') /\ \A n \in Serial : LoggedOnce(n)'
  <2>1. /\ ~Busy(c) /\ requests' \in Serial
        /\ conn'[c] = [pc |-> "evaluate", n |-> requests', verdict |-> "none"]
        /\ \A d \in Conn \ {c} : conn'[d] = conn[d]
        /\ request'[requests'] = [Untold EXCEPT !.action = a]
        /\ \A m \in Serial \ {requests'} : request'[m] = request[m]
        /\ \A d \in Conn : Busy(d) => conn[d].n \in Serial \ {requests'}
    BY <1>1, <1>3, ReceiveStep
  <2>2. Logged(c)'
    BY <2>1 DEF Logged, Own, Untold
  <2>3. ASSUME NEW d \in Conn \ {c}
        PROVE  Logged(d)'
    <3>1. conn'[d] = conn[d] /\ (Busy(d) => Own(d)' = Own(d))
      BY <2>1 DEF Own
    <3> QED BY <3>1 DEF LogInv, Logged, Busy
  <2>4. \A n \in Serial : n = requests' => LoggedOnce(n)'
    BY <2>1 DEF LoggedOnce, Untold, Offered
  <2>5. \A n \in Serial : n # requests' => LoggedOnce(n)'
    BY <2>1 DEF LogInv, LoggedOnce
  <2> QED BY <2>2, <2>3, <2>4, <2>5
<1>4. CASE \/ \E h \in Human, c \in Conn, v \in HumanSays : Resolve(h, c, v)
           \/ \E h \in Human : LogResolve(h)
           \/ \E c \in Conn : Connect(c) \/ Hangup(c)
           \/ \E id \in RuleId : DeleteRule(id)
           \/ UNCHANGED vars
  <2>1. ASSUME NEW n \in Serial
        PROVE  /\ Offered(request'[n]) = Offered(request[n])
               /\ request'[n].result = request[n].result
               /\ request'[n].outcome = request[n].outcome
    BY <1>1, <1>4, LogUntouched
  <2>2. ASSUME NEW d \in Conn
        PROVE  conn'[d] = conn[d] \/ (~Busy(d) /\ ~Busy(d)')
    BY <1>1, <1>4, HandlersWait
  <2>3. \A d \in Conn : Logged(d)'
    BY <1>1, <2>1, <2>2 DEF LogInv, Logged, Own, Busy
  <2>4. \A n \in Serial : LoggedOnce(n)'
    BY <2>1 DEF LogInv, LoggedOnce
  <2> QED BY <2>3, <2>4 DEF LogInv
<1> QED BY <1>2, <1>3, <1>4, NextSorted DEF LogInv

LEMMA InitLogInv == Init => LogInv
BY InitStageInv, ProxyAssumption DEF LogInv, Logged, LoggedOnce, Offered, Init, Untold

THEOREM LogInvariant == Spec => []LogInv
BY InitLogInv, NextLogInv, StageInvariant, PTL DEF Spec

\* What total_decisions counts: lines offered, and decisions whose line is yet to come.
LinesOffered == {n \in Serial : request[n].result # "none"}
LinesToCome  == {c \in Conn : At(c, "counted")}

CountInv ==
  /\ IsFiniteSet(LinesToCome)
  /\ total = Cardinality(LinesOffered) + Cardinality(LinesToCome)

LEMMA LinesFinite == IsFiniteSet(LinesOffered)
<1>1. IsFiniteSet(Serial)
  BY ProxyAssumption, FS_Interval DEF Serial
<1> QED BY <1>1, FS_Subset DEF LinesOffered

LEMMA TotalStep ==
  ASSUME NEW c \in Conn, Work(c)
  PROVE  total' = IF conn[c].pc = "decided" THEN total + 1 ELSE total
BY DEF Work, Handle, Exchange, Evaluate, CheckForbid, WakeApproved, WakeDenied, LogApproval, Count,
   LogDecision,
   Refuse, Forward, UpstreamFails, At

LEMMA HandlerCounts ==
  ASSUME LogInv, CountInv, NEW c \in Conn, Work(c)
  PROVE  CountInv'
<1>1. /\ StageInv /\ ProxyInv /\ total \in Nat
      /\ Busy(c) /\ conn[c].n \in Serial
      /\ \A d \in Conn \ {c} : conn'[d] = conn[d]
      /\ \A m \in Serial \ {conn[c].n} : request'[m] = request[m]
  BY HandlerFrame DEF LogInv, StageInv, ProxyInv, TypeOK
<1>2. CASE conn[c].pc = "decided"
  <2>1. conn'[c].pc = "counted" /\ request'[conn[c].n].result = Own(c).result
    BY <1>1, <1>2, HandlerSteps, HandlerLogs DEF DecidingStep, TellingStep, Does
  <2>2. LinesToCome' = LinesToCome \cup {c} /\ c \notin LinesToCome
    BY <1>1, <1>2, <2>1 DEF LinesToCome, At
  <2>3. LinesOffered' = LinesOffered
    BY <1>1, <2>1 DEF LinesOffered, Own
  <2>4. total' = total + 1
    BY <1>2, TotalStep
  <2>5. /\ IsFiniteSet(LinesToCome')
        /\ Cardinality(LinesToCome') = Cardinality(LinesToCome) + 1
    BY <2>2, FS_AddElement DEF CountInv
  <2>6. Cardinality(LinesToCome) \in Nat /\ Cardinality(LinesOffered) \in Nat
    BY LinesFinite, FS_CardinalityType DEF CountInv
  <2> QED BY <2>3, <2>4, <2>5, <2>6 DEF CountInv
<1>3. CASE conn[c].pc = "counted"
  <2>1. /\ conn'[c].pc \in {"refuse", "upstream"} /\ Own(c).result = "none"
        /\ request'[conn[c].n].result # "none"
    BY <1>1, <1>3, HandlerLogs DEF LogInv, Logged, StageInv, Staged
  <2>2. LinesToCome' = LinesToCome \ {c} /\ c \in LinesToCome
    BY <1>1, <1>3, <2>1 DEF LinesToCome, At
  <2>3. LinesOffered' = LinesOffered \cup {conn[c].n} /\ conn[c].n \notin LinesOffered
    BY <1>1, <2>1 DEF LinesOffered, Own
  <2>4. total' = total
    BY <1>3, TotalStep
  <2>5. /\ IsFiniteSet(LinesToCome')
        /\ Cardinality(LinesToCome') = Cardinality(LinesToCome) - 1
    BY <2>2, FS_RemoveElement DEF CountInv
  <2>6. Cardinality(LinesOffered') = Cardinality(LinesOffered) + 1
    BY <2>3, LinesFinite, FS_AddElement
  <2>7. Cardinality(LinesToCome) \in Nat /\ Cardinality(LinesOffered) \in Nat
    BY LinesFinite, FS_CardinalityType DEF CountInv
  <2> QED BY <2>4, <2>5, <2>6, <2>7 DEF CountInv
<1>4. CASE conn[c].pc \notin {"decided", "counted"}
  <2>1. conn'[c].pc # "counted" /\ request'[conn[c].n].result = Own(c).result
    BY <1>1, <1>4, HandlerSteps, HandlerLogs DEF DecidingStep, TellingStep, Does
  <2>2. LinesToCome' = LinesToCome
    BY <1>1, <1>4, <2>1 DEF LinesToCome, At
  <2>3. LinesOffered' = LinesOffered
    BY <1>1, <2>1 DEF LinesOffered, Own
  <2>4. total' = total
    BY <1>4, TotalStep
  <2> QED BY <2>2, <2>3, <2>4 DEF CountInv
<1> QED BY <1>2, <1>3, <1>4

LEMMA NextCountInv ==
  ASSUME LogInv, CountInv, [Next]_vars
  PROVE  CountInv'
<1>1. StageInv /\ ProxyInv /\ conn \in [Conn -> Conns]
  BY DEF LogInv, StageInv, ProxyInv, TypeOK
<1>2. ASSUME NEW c \in Conn, NEW a \in Action, Receive(c, a)
      PROVE  CountInv'
  <2>0. requests \in Nat
    BY ProxyAssumption DEF StageInv, ProxyInv, TypeOK, LogInv
  <2>1. /\ ~Busy(c) /\ requests' = requests + 1 /\ requests' \in Serial
        /\ conn'[c] = [pc |-> "evaluate", n |-> requests', verdict |-> "none"]
        /\ \A d \in Conn \ {c} : conn'[d] = conn[d]
        /\ request'[requests'] = [Untold EXCEPT !.action = a]
        /\ \A m \in Serial \ {requests'} : request'[m] = request[m]
    BY <1>1, <1>2, ReceiveStep
  <2>5. request[requests'] = Untold
    BY <1>1, <2>0, <2>1 DEF StageInv, Numbered
  <2>6. request'[requests'].result = request[requests'].result
    BY <2>1, <2>5 DEF Untold
  <2>2. LinesToCome' = LinesToCome
    BY <2>1 DEF LinesToCome, At, Busy
  <2>3. LinesOffered' = LinesOffered
    BY <2>1, <2>6 DEF LinesOffered
  <2>4. total' = total
    BY <1>2 DEF Receive
  <2> QED BY <2>2, <2>3, <2>4 DEF CountInv
<1>3. CASE \/ \E h \in Human, c \in Conn, v \in HumanSays : Resolve(h, c, v)
           \/ \E h \in Human : LogResolve(h)
           \/ \E c \in Conn : Connect(c) \/ Hangup(c)
           \/ \E id \in RuleId : DeleteRule(id)
           \/ UNCHANGED vars
  <2>1. \A n \in Serial : request'[n].result = request[n].result
    BY <1>1, <1>3, LogUntouched
  <2>2. \A d \in Conn : conn'[d] = conn[d] \/ (~Busy(d) /\ ~Busy(d)')
    BY <1>1, <1>3, HandlersWait
  <2>3. LinesToCome' = LinesToCome /\ LinesOffered' = LinesOffered
    BY <2>1, <2>2 DEF LinesToCome, LinesOffered, At, Busy
  <2>4. total' = total
    BY <1>3 DEF Resolve, LogResolve, Connect, Hangup, DeleteRule, vars
  <2> QED BY <2>3, <2>4 DEF CountInv
<1> QED BY <1>2, <1>3, HandlerCounts, NextSorted

LEMMA InitCountInv == Init => CountInv
<1> SUFFICES ASSUME Init PROVE CountInv
  OBVIOUS
<1>1. LinesOffered = {} /\ LinesToCome = {} /\ total = 0
  BY DEF LinesOffered, LinesToCome, Init, At, Untold
<1> QED BY <1>1, FS_EmptySet DEF CountInv

\* The HumanApproval lines of request n: offered to the log, and owed by IPC handlers.
HumansAt(n) == {h \in Human : human[h] = n}
HumanLog(n) == HumansOf(request[n]) + Cardinality(HumansAt(n))

HumanTold(c) ==
  \A n \in Serial : Busy(c) /\ conn[c].n = n =>
    HumanLog(n) = IF request[n].said = "none" THEN 0
                  ELSE IF conn[c].pc \in {"parked", "woken"} THEN 1 ELSE 2

HumanTwice(n) ==
  request[n].outcome # "none" => HumanLog(n) = IF request[n].said = "none" THEN 0 ELSE 2

HumanInv ==
  /\ \A n \in Serial : IsFiniteSet(HumansAt(n)) /\ HumanTwice(n)
  /\ \A c \in Conn : HumanTold(c)

\* A step that gives no request a HumanApproval line, nor an IPC handler one to write.
LEMMA NoHumanLine ==
  ASSUME NEW n \in Serial, UNCHANGED human, HumansOf(request'[n]) = HumansOf(request[n])
  PROVE  HumansAt(n)' = HumansAt(n) /\ HumanLog(n)' = HumanLog(n)
BY DEF HumansAt, HumanLog

LEMMA HandlerHumanLog ==
  ASSUME HumanInv, ProxyInv, NEW c \in Conn, Work(c), NEW n \in Serial
  PROVE  /\ HumansAt(n)' = HumansAt(n)
         /\ HumanLog(n)' = IF n = conn[c].n /\ conn[c].pc = "woken" THEN HumanLog(n) + 1
                           ELSE HumanLog(n)
<1>1. /\ Busy(c) /\ conn[c].n \in Serial /\ human' = human
      /\ \A m \in Serial \ {conn[c].n} : request'[m] = request[m]
  BY HandlerFrame
<1>2. Own(c) \in Story /\ Own(c) = request[conn[c].n]
  BY HandlerWrites
<1>3. \/ conn[c].pc = "woken" /\ MoreHuman(request'[conn[c].n], Own(c))
      \/ /\ conn[c].pc # "woken"
         /\ \/ request'[conn[c].n] = Own(c)
            \/ \E x \in Nat : request'[conn[c].n] = [Own(c) EXCEPT !.rule = x]
            \/ \E v \in {"none", "allow", "deny"} :
                 MoreDecision(request'[conn[c].n], Own(c), v)
            \/ \E a \in Action \cup {NoAction} :
                 request'[conn[c].n] = [Own(c) EXCEPT !.outcome = "refused", !.told = a]
            \/ \E o \in {"forwarded", "failed"} :
                 request'[conn[c].n] = [Own(c) EXCEPT !.outcome = o]
  BY HandlerWrites
<1>4. HumansOf(request'[conn[c].n]) =
        IF conn[c].pc = "woken" THEN HumansOf(Own(c)) + 1 ELSE HumansOf(Own(c))
  <2>1. \A v \in {"none", "allow", "deny"} : MoreDecision(request'[conn[c].n], Own(c), v) =>
          HumansOf(request'[conn[c].n]) = HumansOf(Own(c))
    BY <1>2, MoreDecisionKeeps
  <2>2. MoreHuman(request'[conn[c].n], Own(c)) =>
          HumansOf(request'[conn[c].n]) = HumansOf(Own(c)) + 1
    BY DEF MoreHuman
  <2>3. ASSUME \/ request'[conn[c].n] = Own(c)
               \/ \E x \in Nat : request'[conn[c].n] = [Own(c) EXCEPT !.rule = x]
               \/ \E a \in Action \cup {NoAction} :
                    request'[conn[c].n] = [Own(c) EXCEPT !.outcome = "refused", !.told = a]
               \/ \E o \in {"forwarded", "failed"} :
                    request'[conn[c].n] = [Own(c) EXCEPT !.outcome = o]
        PROVE  HumansOf(request'[conn[c].n]) = HumansOf(Own(c))
    BY <1>2, <2>3 DEF Story, HumansOf
  <2> QED BY <1>3, <2>1, <2>2, <2>3
<1>5. HumansAt(n)' = HumansAt(n)
  BY <1>1 DEF HumansAt
<1>6. Cardinality(HumansAt(n)) \in Nat /\ HumansOf(request[n]) \in Nat
  BY FS_CardinalityType DEF HumanInv, ProxyInv, TypeOK, Story, HumansOf
<1> QED BY <1>1, <1>2, <1>4, <1>5, <1>6 DEF HumanLog

LEMMA ResolveHumanLog ==
  ASSUME HumanInv, StageInv, NEW h \in Human, NEW c \in Conn, NEW v \in HumanSays,
         Resolve(h, c, v), NEW n \in Serial
  PROVE  /\ IsFiniteSet(HumansAt(n)')
         /\ HumanLog(n)' = IF n = conn[c].n THEN HumanLog(n) + 1 ELSE HumanLog(n)
<1>1. /\ request \in [Serial -> Story] /\ human \in [Human -> 0..MaxRequests]
      /\ MaxRequests \in Nat
  BY ProxyAssumption DEF StageInv, ProxyInv, TypeOK
<1>2. /\ conn[c].n \in Serial /\ human[h] = 0 /\ human' = [human EXCEPT ![h] = conn[c].n]
      /\ request'[conn[c].n] = [request[conn[c].n] EXCEPT !.said = v]
      /\ \A m \in Serial \ {conn[c].n} : request'[m] = request[m]
  BY <1>1, ResolveStep DEF Own, Resolve
<1>3. HumansOf(request'[n]) = HumansOf(request[n])
  BY <1>1, <1>2 DEF Story, HumansOf
<1>4. Cardinality(HumansAt(n)) \in Nat /\ HumansOf(request[n]) \in Nat /\ IsFiniteSet(HumansAt(n))
  BY <1>1, FS_CardinalityType DEF HumanInv, Story, HumansOf
<1>5. CASE n = conn[c].n
  <2>1. HumansAt(n)' = HumansAt(n) \cup {h} /\ h \notin HumansAt(n)
    BY <1>1, <1>2, <1>5 DEF HumansAt, Serial
  <2>2. IsFiniteSet(HumansAt(n)') /\ Cardinality(HumansAt(n)') = Cardinality(HumansAt(n)) + 1
    BY <1>4, <2>1, FS_AddElement
  <2> QED BY <1>3, <1>4, <1>5, <2>2 DEF HumanLog
<1>6. CASE n # conn[c].n
  <2>1. HumansAt(n)' = HumansAt(n)
    BY <1>1, <1>2, <1>6 DEF HumansAt, Serial
  <2> QED BY <1>3, <1>4, <1>6, <2>1 DEF HumanLog
<1> QED BY <1>5, <1>6

\* The IPC handler's line was counted before it was written.
LEMMA LogResolveHumanLog ==
  ASSUME HumanInv, StageInv, NEW h \in Human, LogResolve(h), NEW n \in Serial
  PROVE  IsFiniteSet(HumansAt(n)') /\ HumanLog(n)' = HumanLog(n)
<1>1. /\ request \in [Serial -> Story] /\ human \in [Human -> 0..MaxRequests]
      /\ MaxRequests \in Nat /\ human[h] \in Serial
      /\ MoreHuman(request'[human[h]], request[human[h]])
      /\ n # human[h] => request'[n] = request[n]
      /\ human' = [human EXCEPT ![h] = 0]
  <2>1. request \in [Serial -> Story] /\ human \in [Human -> 0..MaxRequests] /\ MaxRequests \in Nat
    BY ProxyAssumption DEF StageInv, ProxyInv, TypeOK
  <2>2. human[h] \in Serial /\ human' = [human EXCEPT ![h] = 0]
    BY <2>1 DEF LogResolve, Serial
  <2>3. /\ MoreHuman(request'[human[h]], request[human[h]])
        /\ n # human[h] => request'[n] = request[n]
    BY <2>1, <2>2, LogResolveTells DEF StageInv, ProxyInv
  <2> QED BY <2>1, <2>2, <2>3
<1>2. Cardinality(HumansAt(n)) \in Nat /\ HumansOf(request[n]) \in Nat /\ IsFiniteSet(HumansAt(n))
  <2>1. IsFiniteSet(HumansAt(n))
    BY DEF HumanInv
  <2>2. HumansOf(request[n]) \in Nat
    BY <1>1 DEF Story, HumansOf
  <2> QED BY <2>1, <2>2, FS_CardinalityType
<1>3. CASE n = human[h]
  <2>1. HumansAt(n)' = HumansAt(n) \ {h} /\ h \in HumansAt(n)
    BY <1>1, <1>3 DEF HumansAt, Serial
  <2>2. IsFiniteSet(HumansAt(n)') /\ Cardinality(HumansAt(n)') = Cardinality(HumansAt(n)) - 1
    BY <1>2, <2>1, FS_RemoveElement
  <2>3. HumansOf(request'[n]) = HumansOf(request[n]) + 1
    BY <1>1, <1>3 DEF MoreHuman
  <2> QED BY <1>2, <2>2, <2>3 DEF HumanLog
<1>4. CASE n # human[h]
  <2>1. HumansAt(n)' = HumansAt(n) /\ request'[n] = request[n]
    BY <1>1, <1>4 DEF HumansAt, Serial
  <2> QED BY <1>2, <2>1 DEF HumanLog
<1> QED BY <1>3, <1>4

LEMMA HandlerKeepsHumanInv ==
  ASSUME HumanInv, StageInv, NEW c \in Conn, Work(c)
  PROVE  HumanInv'
<1>1. /\ ProxyInv /\ Busy(c) /\ (Busy(c)' => conn'[c].n = conn[c].n) /\ conn[c].n \in Serial
      /\ \A d \in Conn \ {c} : conn'[d] = conn[d]
      /\ \A m \in Serial \ {conn[c].n} : request'[m] = request[m]
      /\ request'[conn[c].n].said = Own(c).said /\ Own(c).outcome = "none"
  BY HandlerFrame, HandlerTells DEF StageInv, Staged
<1>2. \A n \in Serial :
        /\ HumansAt(n)' = HumansAt(n)
        /\ HumanLog(n)' = IF n = conn[c].n /\ conn[c].pc = "woken" THEN HumanLog(n) + 1
                          ELSE HumanLog(n)
  BY <1>1, HandlerHumanLog
<1>3. ASSUME NEW n \in Serial
      PROVE  IsFiniteSet(HumansAt(n)') /\ HumanTwice(n)'
  <2>1. IsFiniteSet(HumansAt(n)')
    BY <1>2 DEF HumanInv
  <2>2. CASE n = conn[c].n
    <3>1. \/ request'[n].outcome = "none"
          \/ conn[c].pc \in {"refuse", "upstream"}
      BY <1>1, <2>2, HandlerTells
    <3>2. CASE conn[c].pc \in {"refuse", "upstream"}
      <4>1. HumanLog(n)' = HumanLog(n) /\ request'[n].said = request[n].said
        BY <1>1, <1>2, <2>2, <3>2 DEF Own
      <4>2. HumanLog(n) = IF request[n].said = "none" THEN 0 ELSE 2
        BY <1>1, <2>2, <3>2 DEF HumanInv, HumanTold
      <4> QED BY <2>1, <4>1, <4>2 DEF HumanTwice
    <3> QED BY <2>1, <3>1, <3>2 DEF HumanTwice
  <2>3. CASE n # conn[c].n
    <3>1. HumanLog(n)' = HumanLog(n) /\ request'[n] = request[n] /\ HumanTwice(n)
      BY <1>1, <1>2, <2>3 DEF HumanInv
    <3> QED BY <2>1, <3>1 DEF HumanTwice
  <2> QED BY <2>2, <2>3
<1>4. ASSUME NEW n \in Serial, n = conn[c].n, Busy(c)'
      PROVE  HumanLog(n)' = IF request'[n].said = "none" THEN 0
                            ELSE IF conn'[c].pc \in {"parked", "woken"} THEN 1 ELSE 2
  <2>1. /\ request'[n].said = request[n].said
        /\ HumanLog(n)' = IF conn[c].pc = "woken" THEN HumanLog(n) + 1 ELSE HumanLog(n)
        /\ HumanLog(n) = IF request[n].said = "none" THEN 0
                         ELSE IF conn[c].pc \in {"parked", "woken"} THEN 1 ELSE 2
    BY <1>1, <1>2, <1>4 DEF HumanInv, HumanTold, Own
  <2>2. /\ conn[c].pc = "check" => request[n].said = "none"
        /\ conn[c].pc = "woken" => request[n].said # "none"
    BY <1>4 DEF StageInv, Staged, Own, Busy
  <2>3. \/ conn[c].pc = "check"
        \/ conn[c].pc = "parked" /\ conn'[c].pc = "woken"
        \/ conn[c].pc = "woken" /\ conn'[c].pc = "decided"
        \/ conn[c].pc \notin {"parked", "woken"} /\ conn'[c].pc \notin {"parked", "woken"}
    BY <1>1, HandlerSteps DEF DecidingStep, TellingStep, Does
  <2> QED BY <2>1, <2>2, <2>3
<1>5. HumanTold(c)'
  BY <1>1, <1>4 DEF HumanTold
<1>6. ASSUME NEW d \in Conn \ {c}
      PROVE  HumanTold(d)'
  <2> SUFFICES ASSUME NEW n \in Serial, Busy(d)', conn'[d].n = n
               PROVE  HumanLog(n)' = IF request'[n].said = "none" THEN 0
                                     ELSE IF conn'[d].pc \in {"parked", "woken"} THEN 1 ELSE 2
    BY DEF HumanTold
  <2>1. conn'[d] = conn[d] /\ Busy(d) /\ n # conn[c].n
    BY <1>1 DEF StageInv, Numbered, Busy
  <2>2. HumanLog(n)' = HumanLog(n) /\ request'[n] = request[n]
    BY <1>1, <1>2, <2>1
  <2> QED BY <2>1, <2>2 DEF HumanInv, HumanTold
<1> QED BY <1>3, <1>5, <1>6 DEF HumanInv

LEMMA ResolveKeepsHumanInv ==
  ASSUME HumanInv, StageInv, NEW h \in Human, NEW c \in Conn, NEW v \in HumanSays, Resolve(h, c, v)
  PROVE  HumanInv'
<1>1. /\ Busy(c) /\ conn[c].pc = "parked" /\ conn[c].n \in Serial /\ conn' = conn
      /\ request[conn[c].n].said = "none" /\ request[conn[c].n].outcome = "none"
      /\ request[conn[c].n] \in Story
      /\ request'[conn[c].n] = [request[conn[c].n] EXCEPT !.said = v]
      /\ \A m \in Serial \ {conn[c].n} : request'[m] = request[m]
  BY ResolveStep DEF Own, StageInv, ProxyInv, TypeOK
<1>2. \A n \in Serial :
        /\ IsFiniteSet(HumansAt(n)')
        /\ HumanLog(n)' = IF n = conn[c].n THEN HumanLog(n) + 1 ELSE HumanLog(n)
  BY ResolveHumanLog
<1>3. ASSUME NEW n \in Serial
      PROVE  HumanTwice(n)'
  <2>1. CASE n = conn[c].n
    <3>1. request'[n].outcome = "none"
      BY <1>1, <2>1 DEF Story
    <3> QED BY <3>1 DEF HumanTwice
  <2>2. CASE n # conn[c].n
    <3>1. HumanLog(n)' = HumanLog(n) /\ request'[n] = request[n] /\ HumanTwice(n)
      BY <1>1, <1>2, <2>2 DEF HumanInv
    <3> QED BY <3>1 DEF HumanTwice
  <2> QED BY <2>1, <2>2
<1>4. ASSUME NEW d \in Conn
      PROVE  HumanTold(d)'
  <2> SUFFICES ASSUME NEW n \in Serial, Busy(d)', conn'[d].n = n
               PROVE  HumanLog(n)' = IF request'[n].said = "none" THEN 0
                                     ELSE IF conn'[d].pc \in {"parked", "woken"} THEN 1 ELSE 2
    BY DEF HumanTold
  <2>1. Busy(d) /\ conn[d].n = n /\ conn' = conn
    BY <1>1 DEF Busy
  <2>2. CASE n = conn[c].n
    <3>1. d = c
      BY <1>1, <2>1, <2>2 DEF StageInv, Numbered
    <3>2. HumanLog(n) = 0 /\ HumanLog(n)' = 1
      BY <1>1, <1>2, <2>2 DEF HumanInv, HumanTold
    <3>3. request'[n].said = v /\ v # "none"
      BY <1>1, <2>2 DEF Story, HumanSays
    <3> QED BY <1>1, <2>1, <3>1, <3>2, <3>3
  <2>3. CASE n # conn[c].n
    <3>1. HumanLog(n)' = HumanLog(n) /\ request'[n] = request[n]
      BY <1>1, <1>2, <2>3
    <3> QED BY <2>1, <3>1 DEF HumanInv, HumanTold
  <2> QED BY <2>2, <2>3
<1> QED BY <1>2, <1>3, <1>4 DEF HumanInv

\* The steps that change what no human said, and what no IPC handler has to write.
LEMMA OthersKeepHumanInv ==
  ASSUME HumanInv, StageInv,
         \A n \in Serial : /\ IsFiniteSet(HumansAt(n)') /\ HumanLog(n)' = HumanLog(n)
                           /\ request'[n].said = request[n].said
                           /\ request'[n].outcome = request[n].outcome,
         \A d \in Conn : conn'[d] = conn[d] \/ ~Busy(d)'
  PROVE  HumanInv'
<1>1. \A n \in Serial : HumanTwice(n)'
  BY DEF HumanInv, HumanTwice
<1>2. ASSUME NEW d \in Conn
      PROVE  HumanTold(d)'
  <2>1. CASE conn'[d] = conn[d]
    BY <2>1 DEF HumanInv, HumanTold, Busy
  <2>2. CASE ~Busy(d)'
    BY <2>2 DEF HumanTold
  <2> QED BY <2>1, <2>2
<1> QED BY <1>1, <1>2 DEF HumanInv

LEMMA ReceiveKeepsHumanInv ==
  ASSUME HumanInv, StageInv, NEW c \in Conn, NEW a \in Action, Receive(c, a)
  PROVE  HumanInv'
<1>1. /\ requests \in Nat /\ request \in [Serial -> Story] /\ human \in [Human -> 0..MaxRequests]
      /\ MaxRequests \in Nat
  BY ProxyAssumption DEF StageInv, ProxyInv, TypeOK
<1>2. /\ ~Busy(c) /\ requests' = requests + 1 /\ requests' \in Serial
      /\ conn'[c] = [pc |-> "evaluate", n |-> requests', verdict |-> "none"]
      /\ \A d \in Conn \ {c} : conn'[d] = conn[d]
      /\ request'[requests'] = [Untold EXCEPT !.action = a]
      /\ \A m \in Serial \ {requests'} : request'[m] = request[m]
      /\ \A d \in Conn : Busy(d) => conn[d].n \in Serial \ {requests'}
  BY ReceiveStep
<1>3. request[requests'] = Untold
  BY <1>1, <1>2 DEF StageInv, Numbered
<1>4. human' = human
  BY DEF Receive
<1>5. \A n \in Serial : n = requests' =>
        /\ request'[n].said = "none" /\ request'[n].outcome = "none"
        /\ HumansOf(request'[n]) = 0 /\ HumansOf(request[n]) = 0
  BY <1>2, <1>3 DEF Untold, HumansOf
<1>6. ASSUME NEW n \in Serial
      PROVE  HumansAt(n)' = HumansAt(n) /\ HumanLog(n)' = HumanLog(n)
  <2>1. HumansOf(request'[n]) = HumansOf(request[n])
    BY <1>2, <1>5
  <2> QED BY <1>4, <2>1, NoHumanLine
<1>7. \A n \in Serial : n = requests' => HumanLog(n) = 0
  <2>1. \A n \in Serial : n = requests' => HumansAt(n) = {}
    BY <1>1, <1>2 DEF StageInv, Numbered, HumansAt
  <2> QED BY <1>5, <2>1, FS_EmptySet DEF HumanLog
<1>8. ASSUME NEW n \in Serial
      PROVE  HumanTwice(n)'
  BY <1>2, <1>5, <1>6 DEF HumanInv, HumanTwice
<1>9. ASSUME NEW d \in Conn, NEW n \in Serial, Busy(d)', conn'[d].n = n
      PROVE  HumanLog(n)' = IF request'[n].said = "none" THEN 0
                            ELSE IF conn'[d].pc \in {"parked", "woken"} THEN 1 ELSE 2
  <2>1. CASE d = c
    BY <1>2, <1>5, <1>6, <1>7, <1>9, <2>1
  <2>2. CASE d # c
    <3>1. conn'[d] = conn[d] /\ Busy(d) /\ n # requests'
      BY <1>2, <1>9, <2>2 DEF Busy
    <3>2. HumanLog(n)' = HumanLog(n) /\ request'[n] = request[n]
      BY <1>2, <1>6, <3>1
    <3> QED BY <1>9, <3>1, <3>2 DEF HumanInv, HumanTold
  <2> QED BY <2>1, <2>2
<1> QED BY <1>6, <1>8, <1>9 DEF HumanInv, HumanTold

LEMMA NextHumanInv ==
  ASSUME HumanInv, StageInv, [Next]_vars
  PROVE  HumanInv'
<1>1. ProxyInv
  BY DEF StageInv
<1>2. CASE \/ \E h \in Human : LogResolve(h)
           \/ \E c \in Conn : Connect(c) \/ Hangup(c)
           \/ \E id \in RuleId : DeleteRule(id)
           \/ UNCHANGED vars
  <2>1. \A d \in Conn : conn'[d] = conn[d] \/ ~Busy(d)'
    BY <1>1, <1>2, HandlersWait
  <2>2. ASSUME NEW n \in Serial
        PROVE  IsFiniteSet(HumansAt(n)') /\ HumanLog(n)' = HumanLog(n)
    <3>1. CASE \E h \in Human : LogResolve(h)
      BY <3>1, LogResolveHumanLog
    <3>2. CASE UNCHANGED <<human, request>>
      BY <3>2, NoHumanLine DEF HumanInv
    <3> QED BY <1>2, <3>1, <3>2 DEF Connect, Hangup, DeleteRule, vars
  <2>3. ASSUME NEW n \in Serial
        PROVE  /\ request'[n].said = request[n].said
               /\ request'[n].outcome = request[n].outcome
    <3>1. ASSUME NEW h \in Human, LogResolve(h)
          PROVE  /\ request'[n].said = request[n].said
                 /\ request'[n].outcome = request[n].outcome
      BY <1>1, <3>1, LogResolveTells
    <3> QED BY <1>2, <3>1 DEF Connect, Hangup, DeleteRule, vars
  <2> QED BY <2>1, <2>2, <2>3, OthersKeepHumanInv
<1> QED BY <1>2, HandlerKeepsHumanInv, ResolveKeepsHumanInv, ReceiveKeepsHumanInv,
   NextSorted

LEMMA InitHumanInv == Init => HumanInv
<1> SUFFICES ASSUME Init PROVE HumanInv
  OBVIOUS
<1>1. \A n \in Serial : HumansAt(n) = {} /\ request[n].outcome = "none"
  BY DEF HumansAt, Init, Untold, Serial
<1> QED BY <1>1, FS_EmptySet DEF HumanInv, HumanTwice, HumanTold, Init, Busy

(***************************************************************************)
(* Every decision is offered to the log once and truly, before the client  *)
(* hears of it, and counted; a human's decision is offered twice.  What    *)
(* the log lacks in the end is what it failed to write, whatever lines     *)
(* those are, and a failed write changes nothing else.  An IPC handler's   *)
(* line may come long after the request has ended: the invariant counts it *)
(* from the moment its handler owes it.                                    *)
(***************************************************************************)
THEOREM DecisionsLoggedAlways == Spec => []DecisionsLogged
<1>1. LogInv /\ CountInv /\ HumanInv => DecisionsLogged
  <2> SUFFICES ASSUME LogInv, CountInv, HumanInv PROVE DecisionsLogged
    OBVIOUS
  <2>1. request \in [Serial -> Story] /\ \A n \in Serial : IsFiniteSet(HumansAt(n))
    BY DEF LogInv, StageInv, ProxyInv, TypeOK, HumanInv
  <2>2. \A n \in Serial : LoggedOnce(n)
    BY DEF LogInv
  <2>3. total = Cardinality({n \in Serial : request[n].result # "none"})
                  + Cardinality({c \in Conn : At(c, "counted")})
    BY DEF CountInv, LinesOffered, LinesToCome
  <2>4. ASSUME NEW n \in Serial, request[n].outcome # "none"
        PROVE  request[n].humanLines + request[n].lostHumans
                 + Cardinality({h \in Human : human[h] = n})
                 = IF request[n].said = "none" THEN 0 ELSE 2
    BY <2>4 DEF HumanInv, HumanTwice, HumanLog, HumansAt, HumansOf
  <2> QED BY <2>2, <2>3, <2>4 DEF LoggedOnce, Offered, DecisionsLogged
<1>2. Init => LogInv /\ CountInv /\ HumanInv
  BY InitLogInv, InitCountInv, InitHumanInv
<1>3. LogInv /\ CountInv /\ HumanInv /\ [Next]_vars => CountInv' /\ HumanInv'
  BY NextCountInv, NextHumanInv DEF LogInv
<1> QED BY <1>1, <1>2, <1>3, LogInvariant, PTL DEF Spec
-----------------------------------------------------------------------------
(***************************************************************************)
(* The history.                                                            *)
(***************************************************************************)
Entries == [n: Serial, decision: {"allow", "deny"}]

\* The log tells what entry e tells, or its handler is yet to write that line.
Reported(e) ==
  \/ request[e.n].result = e.decision
  \/ \E c \in Conn : /\ conn[c].pc \in {"woken", "decided", "counted"}
                     /\ conn[c].n = e.n /\ conn[c].verdict = e.decision

HistInv ==
  /\ \A e \in Entries, i \in DOMAIN history : history[i] = e => e.n \in 1..requests /\ Reported(e)
  /\ \A i, j \in DOMAIN history : history[i].n = history[j].n => i = j
  /\ \A c \in Conn : conn[c].pc \in {"evaluate", "check", "parked"} =>
       \A i \in DOMAIN history : history[i].n # conn[c].n

\* After record_decision: the entries that were kept, one place lower or not, and the new one.
LEMMA HistoryAfter ==
  ASSUME ProxyInv, NEW c \in Conn, NEW d \in {"allow", "deny"}, RecordDecision(c, d)
  PROVE  \E s \in {0, 1} : \A i \in DOMAIN history' :
           \/ i = Len(history') /\ history'[i] = [n |-> conn[c].n, decision |-> d]
           \/ i # Len(history') /\ i + s \in DOMAIN history /\ history'[i] = history[i + s]
<1> DEFINE entry == [n |-> conn[c].n, decision |-> d]
<1>1. /\ history \in Seq(Entries) /\ Len(history) \in Nat /\ MaxHistory \in Nat \ {0}
  BY ProxyAssumption DEF ProxyInv, TypeOK, Entries
<1>2. CASE Len(history) >= MaxHistory
  <2>1. history' = Append(Tail(history), entry)
    BY <1>2 DEF RecordDecision
  <2>2. history # <<>> /\ Tail(history) \in Seq(Entries) /\ Len(Tail(history)) = Len(history) - 1
    BY <1>1, <1>2
  <2> HIDE DEF entry
  <2>3. /\ DOMAIN history' = 1..Len(history) /\ Len(history') = Len(history)
        /\ history'[Len(history)] = entry
        /\ \A i \in 1..(Len(history) - 1) : history'[i] = Tail(history)[i]
    BY <1>1, <2>1, <2>2
  <2>4. \A i \in 1..(Len(history) - 1) : Tail(history)[i] = history[i + 1]
    BY <1>1, <2>2
  <2>5. \A i \in DOMAIN history' :
           \/ i = Len(history') /\ history'[i] = entry
           \/ i # Len(history') /\ i + 1 \in DOMAIN history /\ history'[i] = history[i + 1]
    BY <1>1, <2>3, <2>4
  <2> QED BY <2>5 DEF entry
<1>3. CASE ~(Len(history) >= MaxHistory)
  <2>1. history' = Append(history, entry)
    BY <1>3 DEF RecordDecision
  <2> HIDE DEF entry
  <2>2. \A i \in DOMAIN history' :
           \/ i = Len(history') /\ history'[i] = entry
           \/ i # Len(history') /\ i + 0 \in DOMAIN history /\ history'[i] = history[i + 0]
    BY <1>1, <2>1
  <2> QED BY <2>2 DEF entry
<1> QED BY <1>2, <1>3

\* The history in a handler's step.
LEMMA HandlerRecords ==
  ASSUME ProxyInv, NEW c \in Conn, Work(c)
  PROVE  \/ /\ conn[c].pc \in {"evaluate", "check", "parked"} /\ history' = history
            /\ conn'[c].pc \in {"check", "parked"}
         \/ /\ conn[c].pc \in {"evaluate", "check", "parked"}
            /\ conn'[c].pc \in {"woken", "decided"}
            /\ \E d \in {"allow", "deny"} : RecordDecision(c, d) /\ conn'[c].verdict = d
         \/ /\ conn[c].pc \in {"woken", "decided", "counted"} /\ history' = history
            /\ conn'[c].pc \in {"decided", "counted", "refuse", "upstream"}
            /\ conn'[c].verdict = conn[c].verdict
            /\ conn'[c].pc \in {"refuse", "upstream"} => conn[c].pc = "counted"
         \/ /\ conn[c].pc \in {"refuse", "upstream"} /\ history' = history
            /\ conn'[c].pc \in {"closed", "idle"}
<1>1. conn \in [Conn -> Conns] /\ conn[c] \in Conns
  BY DEF ProxyInv, TypeOK
<1>2. CASE Evaluate(c) \/ CheckForbid(c)
  <2>1. CASE Evaluate(c)
    BY <1>1, <2>1 DEF Evaluate, Decide, GoTo, At, Conns
  <2>2. CASE CheckForbid(c)
    BY <1>1, <2>2 DEF CheckForbid, Decide, GoTo, At, Conns, shared
  <2> QED BY <1>2, <2>1, <2>2
<1>3. ASSUME NEW id \in HumanIds, WakeApproved(c, id)
      PROVE  /\ conn[c].pc = "parked" /\ conn'[c].pc = "woken"
             /\ RecordDecision(c, "allow") /\ conn'[c].verdict = "allow"
  BY <1>1, <1>3 DEF WakeApproved, Decide, At, Conns
<1>4. CASE WakeDenied(c)
  BY <1>1, <1>4 DEF WakeDenied, Decide, At, Conns
<1>5. CASE LogApproval(c) \/ Count(c) \/ LogDecision(c)
  BY <1>1, <1>5 DEF LogApproval, Count, LogDecision, GoTo, At, Conns, shared
<1>6. CASE Refuse(c) \/ Forward(c) \/ UpstreamFails(c)
  BY <1>1, <1>6 DEF Refuse, Forward, UpstreamFails, Finish, At, Conns, shared
<1> QED BY <1>2, <1>3, <1>4, <1>5, <1>6 DEF Work, Handle, Exchange

LEMMA ReportedStays ==
  ASSUME LogInv, [Next]_vars, NEW e \in Entries, e.n \in 1..requests, Reported(e)
  PROVE  Reported(e)'
<1>1. /\ StageInv /\ ProxyInv /\ e.n \in Serial /\ e.decision \in {"allow", "deny"}
      /\ requests \in Nat
  BY ProxyAssumption DEF LogInv, StageInv, ProxyInv, TypeOK, Entries
<1>2. ASSUME NEW c \in Conn, Work(c)
      PROVE  Reported(e)'
  <2>1. /\ Busy(c) /\ (Busy(c)' => conn'[c].n = conn[c].n)
        /\ \A d \in Conn \ {c} : conn'[d] = conn[d]
        /\ \A m \in Serial \ {conn[c].n} : request'[m] = request[m]
    BY <1>1, <1>2, HandlerFrame
  <2>2. CASE request[e.n].result = e.decision
    <3>1. CASE e.n = conn[c].n
      <4>1. conn[c].pc # "counted"
        BY <1>1, <2>2, <3>1 DEF LogInv, Logged, Own
      <4>2. request'[conn[c].n].result = Own(c).result
        BY <1>1, <1>2, <4>1, HandlerLogs
      <4>3. request'[e.n].result = e.decision
        BY <2>2, <3>1, <4>2 DEF Own
      <4> QED BY <4>3 DEF Reported
    <3>2. CASE e.n # conn[c].n
      <4>1. request'[e.n].result = e.decision
        BY <1>1, <2>1, <2>2, <3>2
      <4> QED BY <4>1 DEF Reported
    <3> QED BY <3>1, <3>2
  <2>3. ASSUME NEW d \in Conn, conn[d].pc \in {"woken", "decided", "counted"},
               conn[d].n = e.n, conn[d].verdict = e.decision
        PROVE  Reported(e)'
    <3>1. CASE d # c
      <4>1. conn'[d] = conn[d]
        BY <2>1, <3>1
      <4> QED BY <2>3, <4>1 DEF Reported
    <3>2. CASE d = c /\ conn[c].pc = "counted"
      <4>1. request'[e.n].result = e.decision
        BY <1>1, <1>2, <2>3, <3>2, HandlerLogs
      <4> QED BY <4>1 DEF Reported
    <3>3. CASE d = c /\ conn[c].pc # "counted"
      <4>1. conn'[c].pc \in {"decided", "counted"} /\ conn'[c].verdict = conn[c].verdict
        BY <1>1, <1>2, <2>3, <3>3, HandlerRecords
      <4> QED BY <2>1, <2>3, <3>3, <4>1 DEF Reported, Busy
    <3> QED BY <3>1, <3>2, <3>3
  <2> QED BY <2>2, <2>3 DEF Reported
<1>3. ASSUME NEW c \in Conn, NEW a \in Action, Receive(c, a)
      PROVE  Reported(e)'
  <2>1. /\ ~Busy(c) /\ requests' = requests + 1
        /\ \A d \in Conn \ {c} : conn'[d] = conn[d]
        /\ \A m \in Serial \ {requests'} : request'[m] = request[m]
    BY <1>1, <1>3, ReceiveStep
  <2>2. request'[e.n] = request[e.n]
    BY <1>1, <2>1
  <2> QED BY <2>1, <2>2 DEF Reported, Busy
<1>4. CASE \/ \E h \in Human, c \in Conn, v \in HumanSays : Resolve(h, c, v)
           \/ \E h \in Human : LogResolve(h)
           \/ \E c \in Conn : Connect(c) \/ Hangup(c)
           \/ \E id \in RuleId : DeleteRule(id)
           \/ UNCHANGED vars
  <2>1. request'[e.n].result = request[e.n].result
    BY <1>1, <1>4, LogUntouched
  <2>2. \A d \in Conn : conn'[d] = conn[d] \/ (~Busy(d) /\ ~Busy(d)')
    BY <1>1, <1>4, HandlersWait
  <2> QED BY <2>1, <2>2 DEF Reported, Busy
<1> QED BY <1>2, <1>3, <1>4, NextSorted

LEMMA NextHistInv ==
  ASSUME HistInv, LogInv, LogInv', [Next]_vars
  PROVE  HistInv'
<1>1. /\ StageInv /\ ProxyInv /\ requests \in Nat
      /\ \A i \in DOMAIN history : history[i] \in Entries
      /\ \A i \in DOMAIN history' : history'[i] \in Entries
      /\ \A d \in Conn : Busy(d) => conn[d].n \in 1..requests
  <2>1. StageInv /\ ProxyInv /\ TypeOK /\ TypeOK'
    BY DEF LogInv, StageInv, ProxyInv
  <2>2. requests \in Nat /\ history \in Seq(Entries) /\ history' \in Seq(Entries)
    BY <2>1, ProxyAssumption DEF TypeOK, Entries
  <2>3. \A d \in Conn : Busy(d) => conn[d].n \in 1..requests
    BY <2>1 DEF ProxyInv, InProgress, Busy
  <2> QED BY <2>1, <2>2, <2>3
<1>2. CASE history' = history /\ requests' = requests
           /\ \A d \in Conn : conn'[d].pc \in {"evaluate", "check", "parked"} =>
                conn[d].pc \in {"evaluate", "check", "parked"} /\ conn'[d].n = conn[d].n
  <2>1. \A e \in Entries, i \in DOMAIN history' :
          history'[i] = e => e.n \in 1..requests' /\ Reported(e)'
    BY <1>2, ReportedStays DEF HistInv
  <2> QED BY <1>2, <2>1 DEF HistInv
<1>3. ASSUME NEW c \in Conn, Work(c)
      PROVE  HistInv'
  <2>1. /\ Busy(c) /\ (Busy(c)' => conn'[c].n = conn[c].n) /\ requests' = requests
        /\ \A d \in Conn \ {c} : conn'[d] = conn[d]
    BY <1>1, <1>3, HandlerFrame
  <2>2. ASSUME NEW d \in {"allow", "deny"}, RecordDecision(c, d), conn'[c].verdict = d,
               conn[c].pc \in {"evaluate", "check", "parked"},
               conn'[c].pc \in {"woken", "decided"}
        PROVE  HistInv'
    <3>1. PICK s \in {0, 1} : \A i \in DOMAIN history' :
            \/ i = Len(history') /\ history'[i] = [n |-> conn[c].n, decision |-> d]
            \/ i # Len(history') /\ i + s \in DOMAIN history /\ history'[i] = history[i + s]
      BY <1>1, <2>2, HistoryAfter
    <3>2. DOMAIN history' \subseteq Nat /\ conn'[c].n = conn[c].n
      BY <2>1, <2>2 DEF LogInv, StageInv, ProxyInv, TypeOK, Busy
    <3>3. ASSUME NEW e \in Entries, NEW i \in DOMAIN history', history'[i] = e
          PROVE  e.n \in 1..requests' /\ Reported(e)'
      <4>1. CASE e = [n |-> conn[c].n, decision |-> d]
        BY <1>1, <2>1, <2>2, <3>2, <4>1 DEF Reported
      <4>2. CASE i + s \in DOMAIN history /\ e = history[i + s]
        BY <2>1, <4>2, ReportedStays DEF HistInv
      <4> QED BY <3>1, <3>3, <4>1, <4>2
    <3>4. \A i, j \in DOMAIN history' : history'[i].n = history'[j].n => i = j
      <4>1. \A i \in DOMAIN history : history[i].n # conn[c].n
        BY <2>2 DEF HistInv
      <4> QED BY <3>1, <3>2, <4>1 DEF HistInv
    <3>5. ASSUME NEW e \in Conn, conn'[e].pc \in {"evaluate", "check", "parked"},
                 NEW i \in DOMAIN history'
          PROVE  history'[i].n # conn'[e].n
      <4>1. e # c /\ conn'[e] = conn[e] /\ conn[e].n # conn[c].n
        BY <1>1, <2>1, <2>2, <3>5 DEF StageInv, Numbered, Busy
      <4> QED BY <3>1, <3>5, <4>1 DEF HistInv
    <3> QED BY <3>3, <3>4, <3>5 DEF HistInv
  <2>3. CASE history' = history /\ ~(conn[c].pc \notin {"evaluate", "check", "parked"}
                                     /\ conn'[c].pc \in {"evaluate", "check", "parked"})
    BY <1>2, <2>1, <2>3 DEF Busy
  <2> QED BY <1>1, <1>3, <2>2, <2>3, HandlerRecords
<1>4. ASSUME NEW c \in Conn, NEW a \in Action, Receive(c, a)
      PROVE  HistInv'
  <2>1. /\ ~Busy(c) /\ requests' = requests + 1 /\ conn'[c].n = requests'
        /\ \A d \in Conn \ {c} : conn'[d] = conn[d]
        /\ history' = history
    <3>1. history' = history
      BY <1>4 DEF Receive, shared
    <3>2. conn'[c] = [pc |-> "evaluate", n |-> requests', verdict |-> "none"]
      BY <1>1, <1>4, ReceiveStep
    <3>3. ~Busy(c) /\ requests' = requests + 1 /\ \A d \in Conn \ {c} : conn'[d] = conn[d]
      BY <1>1, <1>4, ReceiveStep
    <3>4. conn'[c].n = requests'
      BY <3>2
    <3> QED BY <3>1, <3>3, <3>4
  <2>2. \A e \in Entries, i \in DOMAIN history' :
          history'[i] = e => e.n \in 1..requests /\ Reported(e)'
    BY <2>1, ReportedStays DEF HistInv
  <2>3. 1..requests \subseteq 1..requests'
    BY <1>1, <2>1
  <2>4. ASSUME NEW e \in Conn, conn'[e].pc \in {"evaluate", "check", "parked"},
               NEW i \in DOMAIN history'
        PROVE  history'[i].n # conn'[e].n
    <3>1. CASE e = c
      BY <1>1, <2>1, <2>2, <3>1
    <3>2. CASE e # c
      BY <2>1, <2>4, <3>2 DEF HistInv
    <3> QED BY <3>1, <3>2
  <2> QED BY <1>1, <2>1, <2>2, <2>3, <2>4 DEF HistInv
<1>5. CASE \/ \E h \in Human, c \in Conn, v \in HumanSays : Resolve(h, c, v)
           \/ \E h \in Human : LogResolve(h)
           \/ \E c \in Conn : Connect(c) \/ Hangup(c)
           \/ \E id \in RuleId : DeleteRule(id)
           \/ UNCHANGED vars
  <2>1. history' = history /\ requests' = requests
    BY <1>5 DEF Resolve, LogResolve, Connect, Hangup, DeleteRule, vars, shared
  <2>2. \A d \in Conn : conn'[d] = conn[d] \/ (~Busy(d) /\ ~Busy(d)')
    BY <1>1, <1>5, HandlersWait
  <2> QED BY <1>2, <2>1, <2>2 DEF Busy
<1> QED BY <1>3, <1>4, <1>5, NextSorted

(***************************************************************************)
(* The history names no request twice, and what it says of one is what the *)
(* log says or will say.  It rests on a request getting its entry in the   *)
(* step that decides it, and its handler keeping the verdict until the     *)
(* line is written.                                                        *)
(***************************************************************************)
THEOREM HistoryTrueAlways == Spec => []HistoryTrue
<1>1. HistInv /\ LogInv => HistoryTrue
  <2> SUFFICES ASSUME HistInv, LogInv PROVE HistoryTrue
    OBVIOUS
  <2>1. history \in Seq(Entries)
    BY DEF LogInv, StageInv, ProxyInv, TypeOK, Entries
  <2>2. \A i \in DOMAIN history : history[i] \in Entries
    BY <2>1
  <2> QED BY <2>2 DEF HistInv, Reported, HistoryTrue
<1>2. Init => HistInv
  BY DEF Init, HistInv
<1>3. HistInv /\ LogInv /\ LogInv' /\ [Next]_vars => HistInv'
  BY NextHistInv
<1> QED BY <1>1, <1>2, <1>3, LogInvariant, PTL DEF Spec
=============================================================================
