----------------------------- MODULE ApprovalQueue -----------------------------
(***************************************************************************)
(* The queue of actions that wait for a human                              *)
(* (crates/closedshell-lib/src/approval.rs), with its callers' steps.      *)
(*                                                                         *)
(* enqueue takes a number from an atomic counter, reads the clock and      *)
(* inserts under the mutex: three steps that those of other threads may    *)
(* come between.  resolve removes under the mutex and sends afterwards.    *)
(* Humans resolve from a listing that may be stale by then; expire         *)
(* removes and sends in one go.  Each request has a oneshot channel, which *)
(* closes when its sender is dropped unused.                               *)
(*                                                                         *)
(* The specification implements Approvals: Promise!Spec.                   *)
(***************************************************************************)
EXTENDS Integers

CONSTANTS
  Requester,   \* connection handlers
  Human,       \* IPC requests that resolve approvals, concurrently
  Action,
  NoAction,
  Timeout,     \* the age expire is called with
  MaxTicket,   \* bound on the tickets taken
  MaxTime      \* bound on the clock

ASSUME QueueAssumption ==
  /\ MaxTicket \in Nat
  /\ MaxTime \in Nat
  /\ Timeout \in Nat
  /\ NoAction \notin Action

VARIABLES
  counter,   \* AtomicU64
  pending,   \* the HashMap: entry of an id, or NoEntry
  req,       \* each requester's enqueue call and wait
  chan,      \* each requester's current oneshot channel
  human,     \* each human's resolve call
  acks,      \* history: the resolve calls that returned Ok
  now        \* Instant::now

vars == <<counter, pending, req, chan, human, acks, now>>

Ticket    == 0..MaxTicket
HumanSays == {"approved", "denied"}
Verdict   == HumanSays \cup {"timed out"}
NoVerdict == "none"

\* PendingEntry; tx names the channel of the requester that made it.
Entry   == [action: Action, created: 0..MaxTime, tx: Requester]
NoEntry == [action |-> NoAction]

Req == [pc: {"idle", "numbered", "stamped", "waiting", "answered"}, id: Ticket,
        action: Action \cup {NoAction}, created: 0..MaxTime,
        verdict: Verdict \cup {NoVerdict}]

\* id, and the action the human saw under it; what resolve removed.
HumanCall == [pc: {"idle", "chosen", "sending"}, id: Ticket,
              saw: Action \cup {NoAction}, verdict: HumanSays \cup {NoVerdict},
              entry: Entry \cup {NoEntry}]

Ack == [id: Ticket, saw: Action, verdict: HumanSays, action: Action]

TypeOK ==
  /\ counter \in Nat
  /\ pending \in [Ticket -> Entry \cup {NoEntry}]
  /\ req \in [Requester -> Req]
  /\ chan \in [Requester -> Verdict \cup {"none", "closed"}]
  /\ human \in [Human -> HumanCall]
  /\ acks \subseteq Ack
  /\ now \in 0..MaxTime

IdleReq  == [pc |-> "idle", id |-> 0, action |-> NoAction, created |-> 0,
             verdict |-> NoVerdict]
IdleHuman == [pc |-> "idle", id |-> 0, saw |-> NoAction, verdict |-> NoVerdict,
              entry |-> NoEntry]

Init ==
  /\ counter = 0
  /\ pending = [i \in Ticket |-> NoEntry]
  /\ req = [r \in Requester |-> IdleReq]
  /\ chan = [r \in Requester |-> "none"]
  /\ human = [h \in Human |-> IdleHuman]
  /\ acks = {}
  /\ now = 0

Listed == {i \in Ticket : pending[i] # NoEntry}
-----------------------------------------------------------------------------
(***************************************************************************)
(* enqueue and the wait on its channel.                                    *)
(***************************************************************************)
\* Mutants of NextTicket: the counter is not written back, or counts down.
SameTicket == counter' = counter
LastTicket == counter' = counter - 1

NextTicket == counter' = counter + 1

TakeTicket(r, a) ==
  /\ req[r].pc \in {"idle", "answered"}
  /\ counter <= MaxTicket
  /\ NextTicket
  /\ req' = [req EXCEPT ![r] = [IdleReq EXCEPT !.pc = "numbered", !.id = counter,
                                               !.action = a]]
  /\ chan' = [chan EXCEPT ![r] = "none"]
  /\ UNCHANGED <<pending, human, acks, now>>

Stamp(r) ==
  /\ req[r].pc = "numbered"
  /\ req' = [req EXCEPT ![r].pc = "stamped", ![r].created = now]
  /\ UNCHANGED <<counter, pending, chan, human, acks, now>>

\* HashMap::insert drops the entry it replaces, and its sender with it.
Insert(r) ==
  /\ req[r].pc = "stamped"
  /\ req' = [req EXCEPT ![r].pc = "waiting"]
  /\ pending' = [pending EXCEPT ![req[r].id] =
                   [action |-> req[r].action, created |-> req[r].created, tx |-> r]]
  /\ chan' = [q \in Requester |->
                IF req[r].id \in Listed /\ pending[req[r].id].tx = q THEN "closed"
                ELSE chan[q]]
  /\ UNCHANGED <<counter, human, acks, now>>

\* rx.await returns; a closed channel reads as a timeout.
Wake(r) ==
  /\ req[r].pc = "waiting"
  /\ chan[r] # "none"
  /\ req' = [req EXCEPT ![r].pc = "answered",
               ![r].verdict = IF chan[r] = "closed" THEN "timed out" ELSE chan[r]]
  /\ UNCHANGED <<counter, pending, chan, human, acks, now>>
-----------------------------------------------------------------------------
(***************************************************************************)
(* list_pending, resolve and expire.                                       *)
(***************************************************************************)
\* A human picks an id from a listing.
Look(h, i) ==
  /\ human[h].pc = "idle"
  /\ i \in Listed
  /\ human' = [human EXCEPT ![h] = [IdleHuman EXCEPT !.pc = "chosen", !.id = i,
                                                     !.saw = pending[i].action]]
  /\ UNCHANGED <<counter, pending, req, chan, acks, now>>

\* Mutant of Removed: the entry is looked up and left in the map.
LeftIn(S) == pending

\* The map without the ids of S.
Removed(S) == [i \in Ticket |-> IF i \in S THEN NoEntry ELSE pending[i]]

\* resolve, under the lock: the id is taken out, or it is no longer there.
Resolve(h, v) ==
  /\ human[h].pc = "chosen"
  /\ IF human[h].id \in Listed
     THEN /\ human' = [human EXCEPT ![h].pc = "sending", ![h].verdict = v,
                                    ![h].entry = pending[human[h].id]]
          /\ pending' = Removed({human[h].id})
     ELSE /\ human' = [human EXCEPT ![h] = IdleHuman]
          /\ UNCHANGED pending
  /\ UNCHANGED <<counter, req, chan, acks, now>>

\* resolve, after the lock: send the verdict and return Ok(info).
Send(h) ==
  /\ human[h].pc = "sending"
  /\ chan' = [chan EXCEPT ![human[h].entry.tx] = human[h].verdict]
  /\ acks' = acks \cup {[id |-> human[h].id, saw |-> human[h].saw,
                         verdict |-> human[h].verdict,
                         action |-> human[h].entry.action]}
  /\ human' = [human EXCEPT ![h] = IdleHuman]
  /\ UNCHANGED <<counter, pending, req, now>>

Expired == {i \in Listed : now - pending[i].created > Timeout}

Expire ==
  /\ Expired # {}
  /\ pending' = Removed(Expired)
  /\ chan' = [r \in Requester |->
                IF \E i \in Expired : pending[i].tx = r THEN "timed out" ELSE chan[r]]
  /\ UNCHANGED <<counter, req, human, acks, now>>

Tick ==
  /\ now < MaxTime
  /\ now' = now + 1
  /\ UNCHANGED <<counter, pending, req, chan, human, acks>>

Next ==
  \/ \E r \in Requester, a \in Action : TakeTicket(r, a)
  \/ \E r \in Requester : Stamp(r)
  \/ \E r \in Requester : Insert(r)
  \/ \E r \in Requester : Wake(r)
  \/ \E h \in Human, i \in Ticket : Look(h, i)
  \/ \E h \in Human, v \in HumanSays : Resolve(h, v)
  \/ \E h \in Human : Send(h)
  \/ Expire
  \/ Tick

\* A woken task runs, and a resolve that has removed its entry sends.
Fairness ==
  /\ \A r \in Requester : WF_vars(Wake(r))
  /\ \A h \in Human : WF_vars(Send(h))

Spec == Init /\ [][Next]_vars /\ Fairness
-----------------------------------------------------------------------------
\* The channels that an entry or a resolve in progress will send on.
Senders(r) ==
  {<<"pending", i>> : i \in {i \in Listed : pending[i].tx = r}} \cup
  {<<"sending", h>> : h \in {h \in Human : human[h].pc = "sending" /\ human[h].entry.tx = r}}

(***************************************************************************)
(* No lost wakeup and no double verdict: a waiting request either has its  *)
(* verdict or exactly one sender that still owes it, and a request that    *)
(* does not wait is owed nothing.                                          *)
(***************************************************************************)
OneSender ==
  \A r \in Requester :
    /\ \A s, u \in Senders(r) : s = u
    /\ (req[r].pc = "waiting" /\ chan[r] = "none") <=> Senders(r) # {}

(***************************************************************************)
(* resolve told a human Ok only for the action the human saw under that    *)
(* id, however stale the listing, and the request that holds the id never  *)
(* hears anything else: not another human's verdict, not an expiry's.      *)
(***************************************************************************)
AckStands ==
  \A k \in acks :
    /\ k.action = k.saw
    /\ \A j \in acks : j.id = k.id => j = k
    /\ \A r \in Requester :
         req[r].id = k.id /\ req[r].pc \in {"waiting", "answered"} =>
           /\ req[r].action = k.saw
           /\ chan[r] = k.verdict
           /\ req[r].pc = "answered" => req[r].verdict = k.verdict
-----------------------------------------------------------------------------
(***************************************************************************)
(* A request is open while its entry is listed, and decided from the       *)
(* moment the entry is taken out: the lock is where a resolve or an expiry *)
(* takes effect.                                                           *)
(***************************************************************************)
SendingTo(r) == {h \in Human : human[h].pc = "sending" /\ human[h].entry.tx = r}
Sender(r)    == CHOOSE h \in SendingTo(r) : TRUE

AskedOf(r) ==
  IF req[r].pc \in {"idle", "numbered", "stamped"}
  THEN [state |-> "idle", action |-> NoAction, verdict |-> NoVerdict]
  ELSE [state |-> IF req[r].pc = "answered" THEN "answered"
                  ELSE IF chan[r] # "none" \/ SendingTo(r) # {} THEN "decided" ELSE "open",
        action |-> req[r].action,
        verdict |-> IF SendingTo(r) # {}
                    THEN human[Sender(r)].verdict ELSE chan[r]]

AskedNow == [r \in Requester |-> AskedOf(r)]

Promise == INSTANCE Approvals WITH asked <- AskedNow

(***************************************************************************)
(* Every behaviour of the code is one in which a request is decided once   *)
(* and then wakes with that verdict: safety and, under Fairness, liveness. *)
(***************************************************************************)
ImplementsPromise == Promise!Spec
=============================================================================
