------------------------------- MODULE Approvals -------------------------------
(***************************************************************************)
(* What the approval queue promises the proxy: a parked request is decided *)
(* at most once, by one human or by an expiry, and then wakes with exactly *)
(* that verdict.  Nothing promises that it is ever decided.                *)
(* ApprovalQueue is the same component with its counter, lock and channels.*)
(***************************************************************************)
CONSTANTS
  Requester,   \* connection handlers that park requests
  Action,      \* what they ask about
  NoAction,
  Verdict,     \* what a parked request may be told
  NoVerdict

VARIABLE
  asked   \* each requester's current request

Asked == [state: {"idle", "open", "decided", "answered"},
          action: Action \cup {NoAction}, verdict: Verdict \cup {NoVerdict}]

TypeOK == asked \in [Requester -> Asked]

Idle == [state |-> "idle", action |-> NoAction, verdict |-> NoVerdict]

Init == asked = [r \in Requester |-> Idle]

Open(r)     == asked[r].state = "open"
Decided(r)  == asked[r].state = "decided"
Answered(r) == asked[r].state = "answered"

\* The request becomes visible to the humans.
Ask(r, a) ==
  /\ asked[r].state = "idle"
  /\ asked' = [asked EXCEPT ![r].state = "open", ![r].action = a]

\* Humans decide one request, an expiry any number of them at once.
Decide(S, v) ==
  /\ \A r \in S : Open(r)
  /\ asked' = [r \in Requester |->
       IF r \in S THEN [asked[r] EXCEPT !.state = "decided", !.verdict = v]
       ELSE asked[r]]

\* The requester wakes with the verdict.
Answer(r) ==
  /\ Decided(r)
  /\ asked' = [asked EXCEPT ![r].state = "answered"]

Leave(r) ==
  /\ Answered(r)
  /\ asked' = [asked EXCEPT ![r] = Idle]

Next ==
  \/ \E r \in Requester, a \in Action : Ask(r, a)
  \/ \E S \in SUBSET Requester, v \in Verdict : Decide(S, v)
  \/ \E r \in Requester : Answer(r)
  \/ \E r \in Requester : Leave(r)

Fairness == \A r \in Requester : WF_asked(Answer(r))

Spec == Init /\ [][Next]_asked /\ Fairness
=============================================================================
