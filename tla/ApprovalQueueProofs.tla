-------------------------- MODULE ApprovalQueueProofs --------------------------
(***************************************************************************)
(* Proofs about ApprovalQueue, for every set of requesters, humans and     *)
(* actions, every timeout and every bound: type correctness, that no       *)
(* wakeup is lost or doubled, and that an acknowledged verdict stands.     *)
(***************************************************************************)
EXTENDS ApprovalQueue, TLAPS

Holds(r, i) == req[r].pc # "idle" /\ req[r].id = i

Waits(r, i, a) ==
  /\ req[r].pc = "waiting"
  /\ req[r].id = i
  /\ req[r].action = a
  /\ chan[r] = "none"

\* Tickets are handed out once, each to one request, which has an action.
TicketsUnique ==
  /\ \A r \in Requester :
       req[r].pc # "idle" => req[r].id < counter /\ req[r].action \in Action
  /\ \A r, q \in Requester : req[r].pc # "idle" /\ Holds(q, req[r].id) => r = q
  /\ \A r \in Requester : req[r].pc \in {"numbered", "stamped"} => chan[r] = "none"

\* An entry belongs to the request that waits under its id.
EntriesOwned ==
  \A i \in Listed :
    /\ i < counter
    /\ pending[i] \in Entry
    /\ Waits(pending[i].tx, i, pending[i].action)

\* What a resolve has removed and not sent yet belongs to a request that waits.
SendersOwned ==
  \A h \in Human : human[h].pc = "sending" =>
    /\ human[h].entry \in Entry
    /\ human[h].verdict \in HumanSays
    /\ human[h].id \notin Listed
    /\ Waits(human[h].entry.tx, human[h].id, human[h].entry.action)
    /\ \A g \in Human : human[g].pc = "sending" /\ human[g].id = human[h].id => g = h

\* The listing may be stale, but an id never comes to mean another action.
SawRight ==
  \A h \in Human : human[h].pc # "idle" =>
    /\ human[h].id < counter
    /\ human[h].saw \in Action
    /\ \A r \in Requester : Holds(r, human[h].id) =>
         req[r].action = human[h].saw /\ req[r].pc \in {"waiting", "answered"}

\* Who waits without a verdict has somebody who owes it.
NobodyForgotten ==
  \A r \in Requester : req[r].pc = "waiting" /\ chan[r] = "none" =>
    \/ req[r].id \in Listed
    \/ \E h \in Human : human[h].pc = "sending" /\ human[h].id = req[r].id

\* What was acknowledged is over.
AcksSettled ==
  \A k \in acks :
    /\ k.id < counter
    /\ k.action = k.saw
    /\ k.id \notin Listed
    /\ \A h \in Human : human[h].pc = "sending" => human[h].id # k.id
    /\ \A j \in acks : j.id = k.id => j = k
    /\ \A r \in Requester : Holds(r, k.id) =>
         /\ req[r].pc \in {"waiting", "answered"}
         /\ req[r].action = k.saw
         /\ chan[r] = k.verdict
         /\ req[r].pc = "answered" => req[r].verdict = k.verdict

QueueInv ==
  /\ TypeOK
  /\ TicketsUnique
  /\ EntriesOwned
  /\ SendersOwned
  /\ SawRight
  /\ NobodyForgotten
  /\ AcksSettled
-----------------------------------------------------------------------------
LEMMA InitQueueInv == Init => QueueInv
BY QueueAssumption
   DEF Init, QueueInv, TypeOK, TicketsUnique, EntriesOwned, SendersOwned, SawRight,
       NobodyForgotten, AcksSettled, Holds, Listed, IdleReq, IdleHuman, Req, HumanCall,
       Ticket, NoVerdict

\* A request takes a ticket above all others; nothing is known of it yet.
LEMMA TakeTicketKeeps ==
  ASSUME QueueInv, NEW r \in Requester, NEW a \in Action, TakeTicket(r, a)
  PROVE  QueueInv'
<1>1. TypeOK
  BY DEF QueueInv
<1>2. /\ counter \in Ticket
      /\ counter' = counter + 1
      /\ req[r].pc \in {"idle", "answered"}
      /\ UNCHANGED <<pending, human, acks, now>>
  BY <1>1, QueueAssumption DEF TakeTicket, NextTicket, TypeOK, Ticket
<1>3. /\ req'[r] = [pc |-> "numbered", id |-> counter, action |-> a, created |-> 0,
                    verdict |-> NoVerdict]
      /\ chan'[r] = "none"
      /\ \A q \in Requester \ {r} : req'[q] = req[q] /\ chan'[q] = chan[q]
  BY <1>1 DEF TakeTicket, TypeOK, IdleReq
<1>4. TypeOK'
  <2>1. req'[r] \in Req
    BY <1>2, <1>3, QueueAssumption DEF Req
  <2>2. req' \in [Requester -> Req] /\ chan' \in [Requester -> Verdict \cup {"none", "closed"}]
    BY <1>1, <1>3, <2>1 DEF TakeTicket, TypeOK
  <2> QED BY <1>1, <1>2, <2>2 DEF TypeOK
<1>5. TicketsUnique'
  <2> USE <1>1, <1>2, <1>3 DEF QueueInv, TypeOK, TicketsUnique, Holds, Ticket
  <2>1. \A q \in Requester : req[q].id \in Int /\ counter \in Int
    BY DEF Req
  <2>2. \A q \in Requester :
          req'[q].pc # "idle" => req'[q].id < counter' /\ req'[q].action \in Action
    BY <2>1
  <2>3. ASSUME NEW p \in Requester, NEW q \in Requester,
               req'[p].pc # "idle", Holds(q, req[p].id)'
        PROVE  p = q
    BY <2>1, <2>3
  <2>4. \A q \in Requester : req'[q].pc \in {"numbered", "stamped"} => chan'[q] = "none"
    OBVIOUS
  <2> QED BY <2>2, <2>3, <2>4
<1>6. EntriesOwned'
  BY <1>1, <1>2, <1>3 DEF QueueInv, TypeOK, EntriesOwned, Waits, Listed, Ticket, Entry
<1>7. SendersOwned'
  BY <1>1, <1>2, <1>3 DEF QueueInv, TypeOK, SendersOwned, Waits, Listed, Entry
<1>8. SawRight'
  BY <1>1, <1>2, <1>3 DEF QueueInv, TypeOK, SawRight, Holds, Ticket, HumanCall
<1>9. NobodyForgotten'
  BY <1>1, <1>2, <1>3 DEF QueueInv, NobodyForgotten, Listed
<1>10. AcksSettled'
  BY <1>1, <1>2, <1>3 DEF QueueInv, TypeOK, AcksSettled, Holds, Listed, Ticket, Ack
<1> QED BY <1>4, <1>5, <1>6, <1>7, <1>8, <1>9, <1>10 DEF QueueInv

LEMMA StampKeeps ==
  ASSUME QueueInv, NEW r \in Requester, Stamp(r)
  PROVE  QueueInv'
<1>1. TypeOK
  BY DEF QueueInv
<1>2. /\ req[r].pc = "numbered"
      /\ UNCHANGED <<counter, pending, chan, human, acks, now>>
  BY DEF Stamp
<1>3. /\ req'[r] = [req[r] EXCEPT !.pc = "stamped", !.created = now]
      /\ \A q \in Requester \ {r} : req'[q] = req[q]
  BY <1>1 DEF Stamp, TypeOK
<1>4. TypeOK'
  <2>1. req[r] \in Req /\ now \in 0..MaxTime
    BY <1>1 DEF TypeOK
  <2>2. req'[r] \in Req
    BY <1>2, <1>3, <2>1 DEF Req
  <2>3. req' \in [Requester -> Req]
    BY <1>1, <1>3, <2>2 DEF Stamp, TypeOK
  <2> QED BY <1>1, <1>2, <2>3 DEF TypeOK
<1>5. /\ req'[r].pc = "stamped" /\ req'[r].id = req[r].id /\ req'[r].action = req[r].action
      /\ \A q \in Requester \ {r} : req'[q] = req[q]
  BY <1>1, <1>3 DEF TypeOK, Req
<1>6. TicketsUnique'
  BY <1>2, <1>5 DEF QueueInv, TicketsUnique, Holds
<1>7. EntriesOwned'
  BY <1>2, <1>5 DEF QueueInv, EntriesOwned, Waits, Listed, Entry
<1>8. SendersOwned'
  BY <1>2, <1>5 DEF QueueInv, SendersOwned, Waits, Listed, Entry
<1>9. SawRight'
  BY <1>2, <1>5 DEF QueueInv, SawRight, Holds
<1>10. NobodyForgotten'
  BY <1>2, <1>5 DEF QueueInv, NobodyForgotten, Listed
<1>11. AcksSettled'
  BY <1>2, <1>5 DEF QueueInv, AcksSettled, Holds, Listed
<1> QED BY <1>4, <1>6, <1>7, <1>8, <1>9, <1>10, <1>11 DEF QueueInv

\* The id is nobody else's, so no sender is dropped.
LEMMA InsertKeeps ==
  ASSUME QueueInv, NEW r \in Requester, Insert(r)
  PROVE  QueueInv'
<1> DEFINE i == req[r].id
           e == [action |-> req[r].action, created |-> req[r].created, tx |-> r]
<1>1. TypeOK
  BY DEF QueueInv
<1>2. /\ req[r].pc = "stamped" /\ chan[r] = "none"
      /\ i \in Ticket /\ i < counter /\ req[r].action \in Action
      /\ UNCHANGED <<counter, human, acks, now>>
  BY <1>1 DEF Insert, QueueInv, TicketsUnique, TypeOK, Req
<1>3. i \notin Listed
  BY <1>2 DEF QueueInv, EntriesOwned, TicketsUnique, Waits, Holds, Entry
<1>4. /\ pending'[i] = e
      /\ \A j \in Ticket \ {i} : pending'[j] = pending[j]
      /\ req'[r] = [req[r] EXCEPT !.pc = "waiting"]
      /\ \A q \in Requester \ {r} : req'[q] = req[q]
  BY <1>1, <1>2 DEF Insert, TypeOK
<1>5. chan' = chan
  BY <1>1, <1>3 DEF Insert, TypeOK
<1>6. e \in Entry /\ e # NoEntry /\ req'[r] \in Req
  BY <1>1, <1>2, <1>4, QueueAssumption DEF TypeOK, Req, Entry, NoEntry
<1>7. TypeOK'
  <2>1. req' \in [Requester -> Req]
    BY <1>1, <1>4, <1>6 DEF Insert, TypeOK
  <2>2. pending' \in [Ticket -> Entry \cup {NoEntry}]
    BY <1>1, <1>2, <1>4, <1>6 DEF Insert, TypeOK
  <2> QED BY <1>1, <1>2, <1>5, <2>1, <2>2 DEF TypeOK
<1>8. /\ req'[r].pc = "waiting" /\ req'[r].id = i /\ req'[r].action = req[r].action
      /\ \A q \in Requester \ {r} : req'[q] = req[q]
      /\ e.action = req[r].action /\ e.tx = r
  BY <1>1, <1>4 DEF TypeOK, Req
<1>9. Listed' = Listed \cup {i}
  BY <1>2, <1>4, <1>6 DEF Listed
<1> HIDE DEF e
<1>10. TicketsUnique'
  BY <1>2, <1>5, <1>8 DEF QueueInv, TicketsUnique, Holds
<1>11. EntriesOwned'
  <2>1. ASSUME NEW j \in Ticket, j = i
        PROVE  pending'[j] \in Entry /\ Waits(pending[j].tx, j, pending[j].action)'
    BY <2>1, <1>2, <1>4, <1>5, <1>6, <1>8 DEF Waits
  <2>2. ASSUME NEW j \in Listed
        PROVE  /\ j < counter /\ pending'[j] \in Entry
               /\ Waits(pending[j].tx, j, pending[j].action)'
    <3>1. /\ j # i /\ pending'[j] = pending[j] /\ j < counter /\ pending[j] \in Entry
          /\ Waits(pending[j].tx, j, pending[j].action)
      BY <1>3, <1>4 DEF QueueInv, EntriesOwned, Listed
    <3>2. pending[j].tx \in Requester \ {r}
      BY <1>2, <3>1 DEF Waits, Entry
    <3> QED BY <1>5, <1>8, <3>1, <3>2 DEF Waits
  <2>3. Listed' \subseteq Ticket /\ \A j \in Listed' : j \in Listed \/ j = i
    BY <1>9 DEF Listed
  <2> QED BY <1>2, <2>1, <2>2, <2>3 DEF EntriesOwned
<1>12. SendersOwned'
  <2>1. \A h \in Human : human[h].pc = "sending" => human[h].id # i
    BY <1>2 DEF QueueInv, SendersOwned, TicketsUnique, Waits, Holds, Entry
  <2> QED BY <1>2, <1>4, <1>5, <1>8, <1>9, <2>1 DEF QueueInv, SendersOwned, Waits, Entry
<1>13. SawRight'
  BY <1>2, <1>8 DEF QueueInv, SawRight, Holds
<1>14. NobodyForgotten'
  BY <1>2, <1>5, <1>8, <1>9 DEF QueueInv, NobodyForgotten
<1>15. AcksSettled'
  BY <1>2, <1>5, <1>8, <1>9 DEF QueueInv, AcksSettled, Holds
<1> QED BY <1>7, <1>10, <1>11, <1>12, <1>13, <1>14, <1>15 DEF QueueInv

LEMMA WakeKeeps ==
  ASSUME QueueInv, NEW r \in Requester, Wake(r)
  PROVE  QueueInv'
<1> DEFINE v == IF chan[r] = "closed" THEN "timed out" ELSE chan[r]
<1>1. TypeOK
  BY DEF QueueInv
<1>2. /\ req[r].pc = "waiting" /\ chan[r] # "none"
      /\ UNCHANGED <<counter, pending, chan, human, acks, now>>
  BY DEF Wake
<1>3. /\ req'[r] = [req[r] EXCEPT !.pc = "answered", !.verdict = v]
      /\ \A q \in Requester \ {r} : req'[q] = req[q]
  BY <1>1 DEF Wake, TypeOK
<1>4. v \in Verdict
  BY <1>1, <1>2 DEF TypeOK, Verdict
<1>5. TypeOK'
  <2>1. req'[r] \in Req
    BY <1>1, <1>3, <1>4 DEF TypeOK, Req
  <2>2. req' \in [Requester -> Req]
    BY <1>1, <1>3, <2>1 DEF Wake, TypeOK
  <2> QED BY <1>1, <1>2, <2>2 DEF TypeOK
<1>6. /\ req'[r].pc = "answered" /\ req'[r].id = req[r].id
      /\ req'[r].action = req[r].action /\ req'[r].verdict = v
      /\ \A q \in Requester \ {r} : req'[q] = req[q]
  BY <1>1, <1>3 DEF TypeOK, Req
<1> HIDE DEF v
<1>7. TicketsUnique'
  BY <1>2, <1>6 DEF QueueInv, TicketsUnique, Holds
<1>8. EntriesOwned'
  BY <1>2, <1>6 DEF QueueInv, EntriesOwned, Waits, Listed, Entry
<1>9. SendersOwned'
  BY <1>2, <1>6 DEF QueueInv, SendersOwned, Waits, Listed, Entry
<1>10. SawRight'
  BY <1>2, <1>6 DEF QueueInv, SawRight, Holds
<1>11. NobodyForgotten'
  BY <1>2, <1>6 DEF QueueInv, NobodyForgotten, Listed
<1>12. AcksSettled'
  <2>1. \A k \in acks : k.verdict = chan[r] => k.verdict = v
    BY <1>1 DEF TypeOK, Ack, HumanSays, v
  <2> QED BY <1>2, <1>6, <2>1 DEF QueueInv, AcksSettled, Holds, Listed
<1> QED BY <1>5, <1>7, <1>8, <1>9, <1>10, <1>11, <1>12 DEF QueueInv

-----------------------------------------------------------------------------
LEMMA LookKeeps ==
  ASSUME QueueInv, NEW h \in Human, NEW i \in Ticket, Look(h, i)
  PROVE  QueueInv'
<1>1. TypeOK
  BY DEF QueueInv
<1>2. /\ human[h].pc = "idle" /\ i \in Listed
      /\ UNCHANGED <<counter, pending, req, chan, acks, now>>
  BY DEF Look
<1>3. /\ human'[h] = [pc |-> "chosen", id |-> i, saw |-> pending[i].action,
                      verdict |-> NoVerdict, entry |-> NoEntry]
      /\ \A g \in Human \ {h} : human'[g] = human[g]
  BY <1>1 DEF Look, TypeOK, IdleHuman
<1>4. /\ i < counter /\ pending[i].tx \in Requester /\ pending[i].action \in Action
      /\ Waits(pending[i].tx, i, pending[i].action)
  BY <1>2 DEF QueueInv, EntriesOwned, Entry
<1>5. TypeOK'
  <2>1. human'[h] \in HumanCall
    BY <1>3, <1>4 DEF HumanCall
  <2>2. human' \in [Human -> HumanCall]
    BY <1>1, <1>3, <2>1 DEF Look, TypeOK
  <2> QED BY <1>1, <1>2, <2>2 DEF TypeOK
<1>6. TicketsUnique' /\ EntriesOwned'
  BY <1>2 DEF QueueInv, TicketsUnique, EntriesOwned, Waits, Holds, Listed, Entry
<1>7. SendersOwned'
  BY <1>2, <1>3 DEF QueueInv, SendersOwned, Waits, Listed, Entry
<1>8. SawRight'
  <2>1. ASSUME NEW r \in Requester, Holds(r, i)
        PROVE  req[r].action = pending[i].action /\ req[r].pc \in {"waiting", "answered"}
    BY <1>4, <2>1 DEF QueueInv, TicketsUnique, Waits, Holds
  <2> QED BY <1>2, <1>3, <1>4, <2>1 DEF QueueInv, SawRight, Holds
<1>9. NobodyForgotten'
  BY <1>2, <1>3 DEF QueueInv, NobodyForgotten, Listed
<1>10. AcksSettled'
  BY <1>2, <1>3 DEF QueueInv, AcksSettled, Holds, Listed
<1> QED BY <1>5, <1>6, <1>7, <1>8, <1>9, <1>10 DEF QueueInv

LEMMA ResolveKeeps ==
  ASSUME QueueInv, NEW h \in Human, NEW v \in HumanSays, Resolve(h, v)
  PROVE  QueueInv'
<1> DEFINE i == human[h].id
<1>1. TypeOK
  BY DEF QueueInv
<1>2. /\ human[h].pc = "chosen" /\ i \in Ticket
      /\ UNCHANGED <<counter, req, chan, acks, now>>
  BY <1>1 DEF Resolve, TypeOK, HumanCall
<1>3. \A g \in Human \ {h} : human'[g] = human[g]
  BY <1>1 DEF Resolve, TypeOK
<1>4. TicketsUnique'
  BY <1>2 DEF QueueInv, TicketsUnique, Holds
\* The id is no longer there.
<1>5. CASE i \notin Listed
  <2>1. human'[h] = IdleHuman /\ pending' = pending
    BY <1>1, <1>5 DEF Resolve, TypeOK
  <2>2. human'[h].pc = "idle"
    BY <2>1 DEF IdleHuman
  <2>3. TypeOK'
    <3>1. IdleHuman \in HumanCall
      BY QueueAssumption DEF IdleHuman, HumanCall, Ticket
    <3>2. human' \in [Human -> HumanCall]
      BY <1>1, <1>5, <3>1 DEF Resolve, TypeOK
    <3> QED BY <1>1, <1>2, <2>1, <3>2 DEF TypeOK
  <2>4. EntriesOwned'
    BY <1>2, <2>1 DEF QueueInv, EntriesOwned, Waits, Listed, Entry
  <2>5. SendersOwned'
    BY <1>2, <1>3, <2>1, <2>2 DEF QueueInv, SendersOwned, Waits, Listed, Entry
  <2>6. SawRight'
    BY <1>2, <1>3, <2>2 DEF QueueInv, SawRight, Holds
  <2>7. NobodyForgotten'
    BY <1>2, <1>3, <2>1, <2>2 DEF QueueInv, NobodyForgotten, Listed
  <2>8. AcksSettled'
    BY <1>2, <1>3, <2>1, <2>2 DEF QueueInv, AcksSettled, Holds, Listed
  <2> QED BY <1>4, <2>3, <2>4, <2>5, <2>6, <2>7, <2>8 DEF QueueInv
\* The entry is taken out.
<1>6. CASE i \in Listed
  <2>1. /\ human'[h] = [human[h] EXCEPT !.pc = "sending", !.verdict = v, !.entry = pending[i]]
        /\ pending' = Removed({i})
    BY <1>1, <1>6 DEF Resolve, TypeOK
  <2>2. /\ pending'[i] = NoEntry
        /\ \A j \in Ticket \ {i} : pending'[j] = pending[j]
        /\ pending' \in [Ticket -> Entry \cup {NoEntry}]
    BY <1>1, <1>2, <2>1 DEF Removed, TypeOK
  <2>3. Listed' = Listed \ {i}
    BY <1>2, <2>2 DEF Listed
  <2>4. /\ i < counter /\ pending[i] \in Entry
        /\ Waits(pending[i].tx, i, pending[i].action)
    BY <1>6 DEF QueueInv, EntriesOwned
  <2>5. TypeOK'
    <3>1. human[h] \in HumanCall
      BY <1>1 DEF TypeOK
    <3>2. human'[h] \in HumanCall
      BY <2>1, <2>4, <3>1 DEF HumanCall
    <3>3. human' \in [Human -> HumanCall]
      BY <1>1, <1>6, <3>2 DEF Resolve, TypeOK
    <3> QED BY <1>1, <1>2, <2>2, <3>3 DEF TypeOK
  <2>6. /\ human'[h].pc = "sending" /\ human'[h].id = i /\ human'[h].saw = human[h].saw
        /\ human'[h].verdict = v /\ human'[h].entry = pending[i]
    BY <1>1, <2>1 DEF TypeOK, HumanCall
  <2>7. EntriesOwned'
    BY <1>2, <2>2, <2>3 DEF QueueInv, EntriesOwned, Waits, Listed
  <2>8. SendersOwned'
    BY <1>2, <1>3, <1>6, <2>3, <2>4, <2>6 DEF QueueInv, SendersOwned, Waits
  <2>9. SawRight'
    BY <1>2, <1>3, <2>6 DEF QueueInv, SawRight, Holds
  <2>10. NobodyForgotten'
    BY <1>2, <1>3, <2>3, <2>6 DEF QueueInv, NobodyForgotten
  <2>11. AcksSettled'
    BY <1>2, <1>3, <1>6, <2>3, <2>6 DEF QueueInv, AcksSettled, Holds
  <2> QED BY <1>4, <2>5, <2>7, <2>8, <2>9, <2>10, <2>11 DEF QueueInv
<1> QED BY <1>5, <1>6

\* The sender of the entry is used, and nobody else has one.
LEMMA SendKeeps ==
  ASSUME QueueInv, NEW h \in Human, Send(h)
  PROVE  QueueInv'
<1> DEFINE i == human[h].id
           v == human[h].verdict
           e == human[h].entry
           k == [id |-> i, saw |-> human[h].saw, verdict |-> v, action |-> e.action]
<1>1. TypeOK
  BY DEF QueueInv
<1>2. /\ human[h].pc = "sending" /\ i \in Ticket
      /\ UNCHANGED <<counter, pending, req, now>>
      /\ acks' = acks \cup {k}
  BY <1>1 DEF Send, TypeOK, HumanCall
<1>3. /\ e \in Entry /\ v \in HumanSays /\ i \notin Listed /\ Waits(e.tx, i, e.action)
      /\ i < counter /\ human[h].saw \in Action
      /\ \A g \in Human : human[g].pc = "sending" /\ human[g].id = i => g = h
  BY <1>2 DEF QueueInv, SendersOwned, SawRight
<1>4. e.tx \in Requester /\ e.action \in Action
  BY <1>3 DEF Entry
<1>5. e.action = human[h].saw
  BY <1>2, <1>3, <1>4 DEF QueueInv, SawRight, Holds, Waits
<1>6. /\ human'[h] = IdleHuman
      /\ \A g \in Human \ {h} : human'[g] = human[g]
      /\ chan'[e.tx] = v
      /\ \A q \in Requester \ {e.tx} : chan'[q] = chan[q]
  BY <1>1, <1>4 DEF Send, TypeOK
<1>7. human'[h].pc = "idle" /\ v # "none" /\ v # "closed"
  BY <1>3, <1>6 DEF IdleHuman, HumanSays
<1>8. TypeOK'
  <2>1. IdleHuman \in HumanCall
    BY QueueAssumption DEF IdleHuman, HumanCall, Ticket
  <2>2. human' \in [Human -> HumanCall]
    BY <1>1, <2>1 DEF Send, TypeOK
  <2>3. k \in Ack
    BY <1>2, <1>3, <1>4 DEF Ack
  <2>4. chan' \in [Requester -> Verdict \cup {"none", "closed"}]
    BY <1>1, <1>3 DEF Send, TypeOK, Verdict
  <2> QED BY <1>1, <1>2, <2>2, <2>3, <2>4 DEF TypeOK
<1>9. k.id = i /\ k.saw = human[h].saw /\ k.verdict = v /\ k.action = e.action
  OBVIOUS
<1> HIDE DEF k
<1>10. TicketsUnique'
  BY <1>2, <1>3, <1>6 DEF QueueInv, TicketsUnique, Waits, Holds
<1>11. EntriesOwned'
  <2>1. ASSUME NEW j \in Listed
        PROVE  /\ j < counter /\ pending[j] \in Entry
               /\ Waits(pending[j].tx, j, pending[j].action)
               /\ pending[j].tx \in Requester \ {e.tx}
    BY <1>3 DEF QueueInv, EntriesOwned, Waits, Entry
  <2> QED BY <1>2, <1>6, <2>1 DEF EntriesOwned, Waits, Listed
<1>12. SendersOwned'
  <2>1. ASSUME NEW g \in Human \ {h}, human[g].pc = "sending"
        PROVE  /\ human[g].entry \in Entry /\ human[g].verdict \in HumanSays
               /\ human[g].id \notin Listed
               /\ Waits(human[g].entry.tx, human[g].id, human[g].entry.action)
               /\ human[g].entry.tx \in Requester \ {e.tx}
               /\ \A f \in Human : human[f].pc = "sending" /\ human[f].id = human[g].id => f = g
    BY <1>3, <2>1 DEF QueueInv, SendersOwned, Waits, Entry
  <2> QED BY <1>2, <1>6, <1>7, <2>1 DEF SendersOwned, Waits, Listed
<1>13. SawRight'
  BY <1>2, <1>6, <1>7 DEF QueueInv, SawRight, Holds
<1>14. NobodyForgotten'
  <2>1. ASSUME NEW r \in Requester, req[r].pc = "waiting", chan'[r] = "none"
        PROVE  r # e.tx /\ chan[r] = "none" /\ req[r].id # i
    BY <1>2, <1>3, <1>4, <1>6, <1>7, <2>1 DEF QueueInv, TicketsUnique, Holds, Waits
  <2> QED BY <1>2, <1>6, <1>7, <2>1 DEF QueueInv, NobodyForgotten, Listed
<1>15. AcksSettled'
  <2>1. ASSUME NEW r \in Requester, Holds(r, i)
        PROVE  r = e.tx /\ req[r].pc = "waiting" /\ req[r].action = e.action
    BY <1>3, <1>4, <2>1 DEF QueueInv, TicketsUnique, Holds, Waits
  <2>2. ASSUME NEW j \in acks
        PROVE  j.id # i
    BY <1>2 DEF QueueInv, AcksSettled
  <2>3. ASSUME NEW j \in acks, NEW r \in Requester, Holds(r, j.id)
        PROVE  chan'[r] = chan[r]
    BY <1>3, <1>6, <2>2, <2>3 DEF Holds, Waits
  <2>4. /\ k.id < counter /\ k.action = k.saw /\ k.id \notin Listed
        /\ \A g \in Human : human'[g].pc = "sending" => human'[g].id # k.id
        /\ \A r \in Requester : Holds(r, k.id) =>
             req[r].pc = "waiting" /\ req[r].action = k.saw /\ chan'[r] = k.verdict
    BY <1>3, <1>5, <1>6, <1>7, <1>9, <2>1
  <2>5. ASSUME NEW j \in acks
        PROVE  /\ j.id < counter /\ j.action = j.saw /\ j.id \notin Listed
               /\ \A g \in Human : human'[g].pc = "sending" => human'[g].id # j.id
               /\ \A l \in acks : l.id = j.id => l = j
               /\ \A r \in Requester : Holds(r, j.id) =>
                    /\ req[r].pc \in {"waiting", "answered"}
                    /\ req[r].action = j.saw
                    /\ chan'[r] = j.verdict
                    /\ req[r].pc = "answered" => req[r].verdict = j.verdict
    BY <1>6, <1>7, <2>3 DEF QueueInv, AcksSettled
  <2> QED BY <1>2, <1>9, <2>2, <2>4, <2>5 DEF AcksSettled, Holds, Listed
<1> QED BY <1>8, <1>10, <1>11, <1>12, <1>13, <1>14, <1>15 DEF QueueInv

LEMMA ExpireKeeps ==
  ASSUME QueueInv, Expire
  PROVE  QueueInv'
<1> DEFINE late == {r \in Requester : \E i \in Expired : pending[i].tx = r}
<1>1. TypeOK
  BY DEF QueueInv
<1>2. /\ UNCHANGED <<counter, req, human, acks, now>>
      /\ Expired \subseteq Listed /\ Listed \subseteq Ticket
      /\ \A i \in Expired : pending'[i] = NoEntry
      /\ \A i \in Ticket \ Expired : pending'[i] = pending[i]
      /\ \A r \in late : chan'[r] = "timed out"
      /\ \A r \in Requester \ late : chan'[r] = chan[r]
  BY <1>1 DEF Expire, Removed, Expired, Listed, TypeOK
<1>3. Listed' = Listed \ Expired
  BY <1>2 DEF Listed
<1>4. ASSUME NEW r \in late
      PROVE  req[r].pc = "waiting" /\ chan[r] = "none" /\ req[r].id \in Expired
  <2>1. PICK i \in Expired : pending[i].tx = r
    OBVIOUS
  <2>2. Waits(r, i, pending[i].action)
    BY <1>2, <2>1 DEF QueueInv, EntriesOwned
  <2> QED BY <2>2 DEF Waits
<1>5. TypeOK'
  <2>1. pending' \in [Ticket -> Entry \cup {NoEntry}]
    BY <1>1 DEF Expire, Removed, TypeOK
  <2>2. chan' \in [Requester -> Verdict \cup {"none", "closed"}]
    BY <1>1 DEF Expire, TypeOK, Verdict
  <2> QED BY <1>1, <1>2, <2>1, <2>2 DEF TypeOK
<1>6. UNCHANGED <<counter, req, human, acks>>
  BY <1>2
<1>7. ASSUME NEW r \in Requester, r \notin late
       PROVE  chan'[r] = chan[r]
  BY <1>2, <1>7
<1> HIDE DEF late
<1>8. TicketsUnique'
  BY <1>2, <1>4 DEF QueueInv, TicketsUnique, Holds
<1>9. EntriesOwned'
  <2>1. ASSUME NEW i \in Listed \ Expired
        PROVE  /\ i < counter /\ pending[i] \in Entry
               /\ Waits(pending[i].tx, i, pending[i].action)
               /\ pending[i].tx \in Requester \ late
    <3>1. /\ i < counter /\ pending[i] \in Entry
          /\ Waits(pending[i].tx, i, pending[i].action)
      BY DEF QueueInv, EntriesOwned
    <3>2. pending[i].tx \in Requester /\ req[pending[i].tx].id \notin Expired
      BY <3>1 DEF Entry, Waits
    <3> QED BY <1>4, <3>1, <3>2
  <2>2. \A i \in Listed \ Expired : pending'[i] = pending[i]
    BY <1>2
  <2>3. ASSUME NEW i \in Listed \ Expired
        PROVE  /\ i < counter /\ pending'[i] \in Entry
               /\ Waits(pending[i].tx, i, pending[i].action)'
    BY <1>6, <1>7, <2>1, <2>2 DEF Waits
  <2> QED BY <1>3, <1>6, <2>3 DEF EntriesOwned
<1>10. SendersOwned'
  <2>1. ASSUME NEW h \in Human, human[h].pc = "sending"
        PROVE  human[h].entry.tx \in Requester \ late
    <3>1. /\ human[h].id \notin Listed /\ human[h].entry \in Entry
          /\ Waits(human[h].entry.tx, human[h].id, human[h].entry.action)
      BY <2>1 DEF QueueInv, SendersOwned
    <3> QED BY <1>2, <1>4, <3>1 DEF Waits, Entry
  <2>2. ASSUME NEW h \in Human, human[h].pc = "sending"
        PROVE  Waits(human[h].entry.tx, human[h].id, human[h].entry.action)'
    <3>1. Waits(human[h].entry.tx, human[h].id, human[h].entry.action)
      BY <2>2 DEF QueueInv, SendersOwned
    <3> QED BY <1>6, <1>7, <2>1, <2>2, <3>1 DEF Waits
  <2> QED BY <1>3, <1>6, <2>2 DEF QueueInv, SendersOwned
<1>11. SawRight'
  BY <1>2 DEF QueueInv, SawRight, Holds
<1>12. NobodyForgotten'
  <2>1. ASSUME NEW r \in Requester, req[r].pc = "waiting", chan'[r] = "none", req[r].id \in Listed
        PROVE  req[r].id \notin Expired
    <3>1. Waits(pending[req[r].id].tx, req[r].id, pending[req[r].id].action)
          /\ pending[req[r].id].tx \in Requester
      BY <2>1 DEF QueueInv, EntriesOwned, Entry
    <3>2. pending[req[r].id].tx = r
      BY <2>1, <3>1 DEF QueueInv, TicketsUnique, Holds, Waits
    <3> QED BY <1>2, <2>1, <3>2 DEF late
  <2>2. ASSUME NEW r \in Requester, chan'[r] = "none"
        PROVE  chan[r] = "none"
    BY <1>2, <2>2
  <2> QED BY <1>2, <1>3, <2>1, <2>2 DEF QueueInv, NobodyForgotten
<1>13. AcksSettled'
  <2>1. ASSUME NEW k \in acks, NEW r \in Requester, Holds(r, k.id)
        PROVE  r \notin late
    <3>1. k.id \notin Listed /\ req[r].id = k.id
      BY <2>1 DEF QueueInv, AcksSettled, Holds
    <3> QED BY <1>2, <1>4, <3>1
  <2> QED BY <1>3, <1>6, <1>7, <2>1 DEF QueueInv, AcksSettled, Holds
<1> QED BY <1>5, <1>8, <1>9, <1>10, <1>11, <1>12, <1>13 DEF QueueInv

\* The clock, or nothing, moves.
LEMMA OthersKeep ==
  ASSUME QueueInv, Tick \/ UNCHANGED vars
  PROVE  QueueInv'
<1>1. UNCHANGED <<counter, pending, req, chan, human, acks>> /\ now' \in 0..MaxTime
  BY QueueAssumption DEF Tick, vars, QueueInv, TypeOK
<1>2. TypeOK'
  BY <1>1 DEF QueueInv, TypeOK
<1>3. TicketsUnique' /\ EntriesOwned' /\ SendersOwned'
  BY <1>1 DEF QueueInv, TicketsUnique, EntriesOwned, SendersOwned, Waits, Holds, Listed, Entry
<1>4. SawRight' /\ NobodyForgotten' /\ AcksSettled'
  BY <1>1 DEF QueueInv, SawRight, NobodyForgotten, AcksSettled, Holds, Listed
<1> QED BY <1>2, <1>3, <1>4 DEF QueueInv

THEOREM QueueInvariant == Spec => []QueueInv
<1>1. Init => QueueInv
  BY InitQueueInv
<1>2. QueueInv /\ [Next]_vars => QueueInv'
  BY TakeTicketKeeps, StampKeeps, InsertKeeps, WakeKeeps, LookKeeps, ResolveKeeps,
     SendKeeps, ExpireKeeps, OthersKeep DEF Next
<1> QED BY <1>1, <1>2, PTL DEF Spec

(***************************************************************************)
(* The queue keeps its types.                                              *)
(***************************************************************************)
THEOREM QueueTypeCorrect == Spec => []TypeOK
<1>1. QueueInv => TypeOK
  BY DEF QueueInv
<1> QED BY <1>1, QueueInvariant, PTL

(***************************************************************************)
(* Every waiting request has its verdict or exactly one sender that owes   *)
(* it, whatever the interleaving of enqueues, resolves and expiries.       *)
(***************************************************************************)
THEOREM NoLostWakeup == Spec => []OneSender
<1>1. ASSUME QueueInv, NEW r \in Requester, NEW s \in Senders(r)
      PROVE  /\ req[r].pc = "waiting" /\ chan[r] = "none"
             /\ \/ req[r].id \in Listed /\ s = <<"pending", req[r].id>>
                \/ \E h \in Human : /\ human[h].pc = "sending" /\ human[h].id = req[r].id
                                     /\ s = <<"sending", h>>
  BY <1>1 DEF Senders, QueueInv, EntriesOwned, SendersOwned, Waits
<1>2. ASSUME QueueInv, NEW r \in Requester, NEW s \in Senders(r), NEW u \in Senders(r)
      PROVE  s = u
  BY <1>1, <1>2 DEF QueueInv, SendersOwned
<1>3. ASSUME QueueInv, NEW r \in Requester, req[r].pc = "waiting", chan[r] = "none"
      PROVE  Senders(r) # {}
  <2>1. CASE req[r].id \in Listed
    <3>1. pending[req[r].id].tx = r
      BY <1>3, <2>1 DEF QueueInv, EntriesOwned, TicketsUnique, Holds, Waits, Entry
    <3> QED BY <2>1, <3>1 DEF Senders
  <2>2. ASSUME NEW h \in Human, human[h].pc = "sending", human[h].id = req[r].id
        PROVE  Senders(r) # {}
    <3>1. human[h].entry.tx = r
      BY <1>3, <2>2 DEF QueueInv, SendersOwned, TicketsUnique, Holds, Waits, Entry
    <3> QED BY <2>2, <3>1 DEF Senders
  <2> QED BY <1>3, <2>1, <2>2 DEF QueueInv, NobodyForgotten
<1>4. QueueInv => OneSender
  BY <1>1, <1>2, <1>3 DEF OneSender
<1> QED BY <1>4, QueueInvariant, PTL

(***************************************************************************)
(* What resolve acknowledged to a human is what the request hears, and it  *)
(* is about the action that the human saw in the listing.                  *)
(***************************************************************************)
THEOREM VerdictStands == Spec => []AckStands
<1>1. QueueInv => AckStands
  BY DEF QueueInv, AcksSettled, AckStands, Holds
<1> QED BY <1>1, QueueInvariant, PTL
-----------------------------------------------------------------------------
(***************************************************************************)
(* The code implements Approvals.  AskedOf is a record with a CHOOSE in    *)
(* it, so what it is in each stage of a request is said first.             *)
(***************************************************************************)
\* Whoever sends to a request is alone, and the request waits for it.
LEMMA SenderAlone ==
  ASSUME QueueInv, NEW r \in Requester, NEW h \in SendingTo(r)
  PROVE  /\ SendingTo(r) = {h}
         /\ req[r].pc = "waiting" /\ chan[r] = "none" /\ req[r].id = human[h].id
         /\ human[h].id \notin Listed
<1>1. ASSUME NEW g \in SendingTo(r)
      PROVE  /\ human[g].pc = "sending" /\ human[g].id = req[r].id
             /\ req[r].pc = "waiting" /\ chan[r] = "none"
             /\ human[g].id \notin Listed
             /\ \A f \in Human : human[f].pc = "sending" /\ human[f].id = human[g].id => f = g
  BY DEF SendingTo, QueueInv, SendersOwned, Waits
<1>2. \A g \in SendingTo(r) : g = h
  BY <1>1 DEF SendingTo
<1> QED BY <1>1, <1>2

View(state, a, v) == [state |-> state, action |-> a, verdict |-> v]

LEMMA ViewAsked ==
  ASSUME NEW x, x = View("idle", NoAction, NoVerdict), NEW a
  PROVE  x.state = "idle" /\ [x EXCEPT !.state = "open", !.action = a] = View("open", a, NoVerdict)
<1> DEFINE y == [x EXCEPT !.state = "open"]
<1>1. x.state = "idle" /\ y = View("open", NoAction, NoVerdict)
  BY DEF View
<1>2. [x EXCEPT !.state = "open", !.action = a] = [y EXCEPT !.action = a]
  OBVIOUS
<1> HIDE DEF y
<1>3. [y EXCEPT !.action = a] = View("open", a, NoVerdict)
  BY <1>1 DEF View
<1> QED BY <1>1, <1>2, <1>3

\* What a request is to Approvals, in each of its stages.
Stages ==
  /\ AskedNow = [r \in Requester |-> AskedNow[r]]
  /\ \A r \in Requester :
       /\ req[r].pc \in {"idle", "numbered", "stamped"} => AskedNow[r] = View("idle", NoAction, NoVerdict)
       /\ req[r].pc = "answered" => AskedNow[r] = View("answered", req[r].action, chan[r])
       /\ req[r].pc = "waiting" /\ chan[r] # "none" =>
            AskedNow[r] = View("decided", req[r].action, chan[r])
       /\ req[r].pc = "waiting" /\ chan[r] = "none" /\ SendingTo(r) = {} =>
            AskedNow[r] = View("open", req[r].action, NoVerdict)
       /\ \A h \in SendingTo(r) : AskedNow[r] = View("decided", req[r].action, human[h].verdict)

LEMMA StagesOfRequest == QueueInv => Stages
<1> SUFFICES ASSUME QueueInv, NEW r \in Requester
             PROVE  /\ req[r].pc \in {"idle", "numbered", "stamped"} =>
                         AskedNow[r] = View("idle", NoAction, NoVerdict)
                    /\ req[r].pc = "answered" => AskedNow[r] = View("answered", req[r].action, chan[r])
                    /\ req[r].pc = "waiting" /\ chan[r] # "none" =>
                         AskedNow[r] = View("decided", req[r].action, chan[r])
                    /\ req[r].pc = "waiting" /\ chan[r] = "none" /\ SendingTo(r) = {} =>
                         AskedNow[r] = View("open", req[r].action, NoVerdict)
                    /\ \A h \in SendingTo(r) :
                         AskedNow[r] = View("decided", req[r].action, human[h].verdict)
  BY DEF Stages, AskedNow
<1>1. req[r].pc # "waiting" \/ chan[r] # "none" => SendingTo(r) = {}
  BY SenderAlone
<1>2. ASSUME NEW h \in SendingTo(r)
      PROVE  AskedNow[r] = View("decided", req[r].action, human[h].verdict)
  <2>1. SendingTo(r) = {h} /\ req[r].pc = "waiting"
    BY SenderAlone
  <2>2. Sender(r) = h
    BY <2>1 DEF Sender
  <2> QED BY <2>1, <2>2 DEF AskedNow, AskedOf, View
<1>3. CASE req[r].pc = "answered"
  BY <1>1, <1>3 DEF AskedNow, AskedOf, View
<1>4. CASE req[r].pc = "waiting" /\ chan[r] # "none"
  BY <1>1, <1>4 DEF AskedNow, AskedOf, View
<1>5. CASE req[r].pc = "waiting" /\ chan[r] = "none" /\ SendingTo(r) = {}
  BY <1>5 DEF AskedNow, AskedOf, View, NoVerdict
<1>6. CASE req[r].pc \in {"idle", "numbered", "stamped"}
  BY <1>1, <1>6 DEF AskedNow, AskedOf, View
<1> QED BY <1>1, <1>2, <1>3, <1>4, <1>5, <1>6

\* A request that nobody touches stays what it was.
LEMMA Undisturbed ==
  ASSUME TypeOK, Stages, Stages', NEW r \in Requester,
         req'[r] = req[r], chan'[r] = chan[r], SendingTo(r)' = SendingTo(r),
         \A h \in SendingTo(r) : human'[h].verdict = human[h].verdict
  PROVE  AskedNow'[r] = AskedNow[r]
<1>1. req[r].pc \in {"idle", "numbered", "stamped", "waiting", "answered"}
  BY DEF TypeOK, Req
<1>2. CASE req[r].pc = "waiting" /\ chan[r] = "none" /\ SendingTo(r) # {}
  <2>1. PICK h \in SendingTo(r) : TRUE
    BY <1>2
  <2>2. h \in SendingTo(r)'
    BY <2>1
  <2> QED BY <2>1, <2>2 DEF Stages
<1>3. CASE req[r].pc = "waiting" /\ chan[r] = "none" /\ SendingTo(r) = {}
  BY <1>3 DEF Stages
<1>4. CASE req[r].pc = "waiting" /\ chan[r] # "none"
  BY <1>4 DEF Stages
<1>5. CASE req[r].pc # "waiting"
  BY <1>1, <1>5 DEF Stages
<1> QED BY <1>2, <1>3, <1>4, <1>5

\* Steps that send nothing and take nothing out leave the senders.
LEMMA SendersStay ==
  ASSUME NEW r \in Requester, UNCHANGED human
  PROVE  SendingTo(r)' = SendingTo(r)
BY DEF SendingTo

\* A new request is none of Approvals' until it is inserted: who had an answer leaves.
LEMMA TakeTicketLeaves ==
  ASSUME QueueInv, Stages, Stages', NEW r \in Requester, NEW a \in Action, TakeTicket(r, a)
  PROVE  [Promise!Next]_AskedNow
<1>1. /\ req[r].pc \in {"idle", "answered"} /\ req'[r].pc = "numbered"
      /\ \A q \in Requester \ {r} : req'[q] = req[q] /\ chan'[q] = chan[q]
      /\ UNCHANGED human
  BY DEF TakeTicket, QueueInv, TypeOK
<1>2. \A q \in Requester \ {r} : AskedNow'[q] = AskedNow[q]
  BY <1>1, Undisturbed, SendersStay DEF QueueInv
<1>3. AskedNow'[r] = View("idle", NoAction, NoVerdict)
  BY <1>1 DEF Stages
<1>4. CASE req[r].pc = "idle"
  <2>1. AskedNow'[r] = AskedNow[r]
    BY <1>3, <1>4 DEF Stages
  <2> QED BY <1>2, <2>1 DEF Stages
<1>5. CASE req[r].pc = "answered"
  <2>1. AskedNow[r] = View("answered", req[r].action, chan[r])
    BY <1>5 DEF Stages
  <2>2. Promise!Leave(r)
    BY <1>2, <1>3, <2>1 DEF Promise!Leave, Promise!Answered, Promise!Idle, Stages, View
  <2> QED BY <2>2 DEF Promise!Next
<1> QED BY <1>1, <1>4, <1>5

\* Nobody else has the id, so the insertion closes no channel: it only asks.
LEMMA InsertAsks ==
  ASSUME QueueInv, Stages, Stages', NEW r \in Requester, Insert(r)
  PROVE  Promise!Ask(r, req[r].action) /\ req[r].action \in Action
<1>1. TypeOK /\ req[r].pc = "stamped" /\ chan[r] = "none" /\ UNCHANGED human
      /\ req[r].action \in Action /\ req[r].id \in Ticket
  BY DEF Insert, QueueInv, TicketsUnique, TypeOK, Req
<1>2. req[r].id \notin Listed
  BY <1>1 DEF QueueInv, EntriesOwned, TicketsUnique, Waits, Holds, Entry
<1>3. chan' = chan
  BY <1>1, <1>2 DEF Insert, TypeOK
<1>4. /\ req'[r].pc = "waiting" /\ req'[r].action = req[r].action
      /\ \A q \in Requester \ {r} : req'[q] = req[q]
  BY <1>1 DEF Insert, TypeOK, Req
<1>5. \A q \in Requester \ {r} : AskedNow'[q] = AskedNow[q]
  BY <1>1, <1>3, <1>4, Undisturbed, SendersStay
<1>6. SendingTo(r)' = {}
  BY <1>1, SenderAlone, SendersStay
<1>7. /\ AskedNow[r] = View("idle", NoAction, NoVerdict)
      /\ AskedNow'[r] = View("open", req[r].action, NoVerdict)
  BY <1>1, <1>3, <1>4, <1>6 DEF Stages
<1>8. AskedNow' = [AskedNow EXCEPT ![r].state = "open", ![r].action = req[r].action]
  <2>1. AskedNow'[r] = [AskedNow[r] EXCEPT !.state = "open", !.action = req[r].action]
    BY <1>7, ViewAsked
  <2> QED BY <1>5, <2>1 DEF Stages
<1> QED BY <1>1, <1>7, <1>8, ViewAsked DEF Promise!Ask

LEMMA WakeAnswers ==
  ASSUME QueueInv, Stages, Stages', NEW r \in Requester, Wake(r)
  PROVE  Promise!Answer(r)
<1>1. /\ req[r].pc = "waiting" /\ chan[r] # "none" /\ UNCHANGED <<chan, human>>
      /\ req'[r].pc = "answered" /\ req'[r].action = req[r].action
      /\ \A q \in Requester \ {r} : req'[q] = req[q]
  BY DEF Wake, QueueInv, TypeOK, Req
<1>2. \A q \in Requester \ {r} : AskedNow'[q] = AskedNow[q]
  BY <1>1, Undisturbed, SendersStay DEF QueueInv
<1>3. /\ AskedNow[r] = View("decided", req[r].action, chan[r])
      /\ AskedNow'[r] = View("answered", req[r].action, chan[r])
  BY <1>1 DEF Stages
<1> QED BY <1>2, <1>3 DEF Promise!Answer, Promise!Decided, Stages, View
-----------------------------------------------------------------------------
\* Requests that go from open to decided together are one Decide.
LEMMA DecideAll ==
  ASSUME Stages, Stages', NEW S \in SUBSET Requester, NEW v,
         \A r \in Requester \ S : AskedNow'[r] = AskedNow[r],
         \A r \in S : /\ AskedNow[r] = View("open", req[r].action, NoVerdict)
                      /\ AskedNow'[r] = View("decided", req[r].action, v)
  PROVE  Promise!Decide(S, v)
<1>1. ASSUME NEW r \in S
      PROVE  /\ AskedNow[r].state = "open"
             /\ [AskedNow[r] EXCEPT !.state = "decided", !.verdict = v] = AskedNow'[r]
  <2> DEFINE x == AskedNow[r]
             a == req[r].action
  <2>1. x = View("open", a, NoVerdict) /\ AskedNow'[r] = View("decided", a, v)
    OBVIOUS
  <2> HIDE DEF x, a
  <2> DEFINE y == [x EXCEPT !.state = "decided"]
  <2>2. x.state = "open" /\ y = View("decided", a, NoVerdict)
    BY <2>1 DEF View
  <2>3. [x EXCEPT !.state = "decided", !.verdict = v] = [y EXCEPT !.verdict = v]
    OBVIOUS
  <2> HIDE DEF y
  <2>4. [y EXCEPT !.verdict = v] = View("decided", a, v)
    BY <2>2 DEF View
  <2> QED BY <2>1, <2>2, <2>3, <2>4 DEF x
<1>2. AskedNow' = [r \in Requester |->
         IF r \in S THEN [AskedNow[r] EXCEPT !.state = "decided", !.verdict = v]
         ELSE AskedNow[r]]
  BY <1>1 DEF Stages
<1> QED BY <1>1, <1>2 DEF Promise!Decide, Promise!Open

\* Looking at the list is nothing to Approvals.
LEMMA LookStutters ==
  ASSUME QueueInv, Stages, Stages', NEW h \in Human, NEW i \in Ticket, Look(h, i)
  PROVE  UNCHANGED AskedNow
<1>1. /\ UNCHANGED <<req, chan>> /\ human[h].pc # "sending" /\ human'[h].pc # "sending"
      /\ \A g \in Human \ {h} : human'[g] = human[g]
  BY DEF Look, QueueInv, TypeOK, IdleHuman
<1>2. \A r \in Requester : SendingTo(r)' = SendingTo(r)
  BY <1>1 DEF SendingTo
<1>3. \A r \in Requester : \A g \in SendingTo(r) : human'[g].verdict = human[g].verdict
  BY <1>1 DEF SendingTo
<1> QED BY <1>1, <1>2, <1>3, Undisturbed DEF QueueInv, Stages

\* A resolve that finds the entry decides its request; one that does not, nothing.
LEMMA ResolveDecides ==
  ASSUME QueueInv, Stages, Stages', NEW h \in Human, NEW v \in HumanSays, Resolve(h, v)
  PROVE  [Promise!Next]_AskedNow
<1> DEFINE i == human[h].id
<1>1. /\ TypeOK /\ human[h].pc = "chosen" /\ UNCHANGED <<req, chan>>
      /\ \A g \in Human \ {h} : human'[g] = human[g]
  BY DEF Resolve, QueueInv, TypeOK
<1>2. CASE i \notin Listed
  <2>1. human'[h].pc = "idle"
    BY <1>1, <1>2 DEF Resolve, TypeOK, IdleHuman
  <2>2. \A r \in Requester : SendingTo(r)' = SendingTo(r)
    BY <1>1, <2>1 DEF SendingTo
  <2>3. \A r \in Requester : \A g \in SendingTo(r) : human'[g].verdict = human[g].verdict
    BY <1>1 DEF SendingTo
  <2> QED BY <1>1, <2>2, <2>3, Undisturbed DEF Stages
<1>3. CASE i \in Listed
  <2> PICK q \in Requester : q = pending[i].tx
    BY <1>3 DEF QueueInv, EntriesOwned, Entry
  <2>1. human'[h].pc = "sending" /\ human'[h].verdict = v /\ human'[h].entry = pending[i]
    BY <1>1, <1>3 DEF Resolve, TypeOK, HumanCall
  <2>2. req[q].pc = "waiting" /\ chan[q] = "none" /\ req[q].id = i
    BY <1>3 DEF QueueInv, EntriesOwned, Entry, Waits
  <2>3. SendingTo(q) = {}
    BY <1>3, <2>2, SenderAlone
  <2>4. h \in SendingTo(q)'
    BY <2>1 DEF SendingTo
  <2>5. \A r \in Requester \ {q} : SendingTo(r)' = SendingTo(r)
    BY <1>1, <2>1 DEF SendingTo
  <2>6. \A r \in Requester : \A g \in SendingTo(r) : human'[g].verdict = human[g].verdict
    BY <1>1 DEF SendingTo
  <2>7. \A r \in Requester \ {q} : AskedNow'[r] = AskedNow[r]
    BY <1>1, <2>5, <2>6, Undisturbed
  <2>8. /\ AskedNow[q] = View("open", req[q].action, NoVerdict)
        /\ AskedNow'[q] = View("decided", req[q].action, v)
    BY <1>1, <2>1, <2>2, <2>3, <2>4 DEF Stages
  <2> HIDE DEF i
  <2>9. Promise!Decide({q}, v)
    BY <2>7, <2>8, DecideAll
  <2> QED BY <2>2, <2>9 DEF Promise!Next, Verdict
<1> QED BY <1>2, <1>3

\* The verdict was the request's already.
LEMMA SendStutters ==
  ASSUME QueueInv, Stages, Stages', NEW h \in Human, Send(h)
  PROVE  UNCHANGED AskedNow
<1>1. /\ TypeOK /\ human[h].pc = "sending" /\ human[h].entry \in Entry
      /\ human[h].verdict \in HumanSays /\ UNCHANGED req
  BY DEF Send, QueueInv, SendersOwned
<1> PICK q \in Requester : q = human[h].entry.tx
  BY <1>1 DEF Entry
<1>2. /\ h \in SendingTo(q)
      /\ human'[h].pc = "idle"
      /\ \A g \in Human \ {h} : human'[g] = human[g]
      /\ chan'[q] = human[h].verdict
      /\ \A r \in Requester \ {q} : chan'[r] = chan[r]
  BY <1>1 DEF Send, TypeOK, Entry, SendingTo, IdleHuman
<1>3. SendingTo(q) = {h} /\ req[q].pc = "waiting"
  BY <1>2, SenderAlone
<1>4. \A r \in Requester \ {q} : SendingTo(r)' = SendingTo(r)
  BY <1>2 DEF SendingTo
<1>5. \A r \in Requester \ {q} : \A g \in SendingTo(r) : human'[g].verdict = human[g].verdict
  BY <1>2 DEF SendingTo
<1>6. \A r \in Requester \ {q} : AskedNow'[r] = AskedNow[r]
  BY <1>1, <1>2, <1>4, <1>5, Undisturbed
<1>7. /\ AskedNow[q] = View("decided", req[q].action, human[h].verdict)
      /\ AskedNow'[q] = View("decided", req[q].action, human[h].verdict)
  BY <1>1, <1>2, <1>3 DEF Stages, HumanSays
<1> QED BY <1>6, <1>7 DEF Stages

\* An expiry decides all the requests that it finds too old.
LEMMA ExpireDecides ==
  ASSUME QueueInv, Stages, Stages', Expire
  PROVE  \E S \in SUBSET Requester : Promise!Decide(S, "timed out")
<1> DEFINE late == {r \in Requester : \E i \in Expired : pending[i].tx = r}
<1>1. /\ TypeOK /\ UNCHANGED <<req, human>> /\ Expired \subseteq Listed
      /\ \A r \in late : chan'[r] = "timed out"
      /\ \A r \in Requester \ late : chan'[r] = chan[r]
  BY DEF Expire, Expired, QueueInv, TypeOK
<1>2. ASSUME NEW r \in late
      PROVE  req[r].pc = "waiting" /\ chan[r] = "none" /\ SendingTo(r) = {}
  <2>1. PICK i \in Expired : pending[i].tx = r
    OBVIOUS
  <2>2. Waits(r, i, pending[i].action) /\ i \in Listed
    BY <1>1, <2>1 DEF QueueInv, EntriesOwned
  <2>3. SendingTo(r) = {}
    BY <2>2, SenderAlone DEF Waits
  <2> QED BY <2>2, <2>3 DEF Waits
<1>3. \A r \in Requester \ late : AskedNow'[r] = AskedNow[r]
  BY <1>1, Undisturbed, SendersStay
<1>4. ASSUME NEW r \in late
      PROVE  /\ AskedNow[r] = View("open", req[r].action, NoVerdict)
             /\ AskedNow'[r] = View("decided", req[r].action, "timed out")
  <2>1. r \in Requester /\ req'[r] = req[r] /\ chan'[r] = "timed out"
    BY <1>1
  <2> QED BY <1>2, <2>1 DEF Stages
<1>5. late \in SUBSET Requester
  OBVIOUS
<1> HIDE DEF late
<1>6. Promise!Decide(late, "timed out")
  BY <1>3, <1>4, <1>5, DecideAll
<1> QED BY <1>5, <1>6

\* Whatever else happens is nothing to Approvals.
LEMMA OthersStutter ==
  ASSUME QueueInv, Stages, Stages',
         \/ \E r \in Requester : Stamp(r)
         \/ Tick
         \/ UNCHANGED vars
  PROVE  UNCHANGED AskedNow
<1>1. ASSUME NEW r \in Requester, Stamp(r)
      PROVE  UNCHANGED AskedNow
  <2>1. /\ TypeOK /\ UNCHANGED <<chan, human>>
        /\ req[r].pc = "numbered" /\ req'[r].pc = "stamped"
        /\ \A q \in Requester \ {r} : req'[q] = req[q]
    BY <1>1 DEF Stamp, QueueInv, TypeOK
  <2>2. \A q \in Requester \ {r} : AskedNow'[q] = AskedNow[q]
    BY <2>1, Undisturbed, SendersStay
  <2>3. AskedNow'[r] = AskedNow[r]
    BY <2>1 DEF Stages
  <2> QED BY <2>2, <2>3 DEF Stages
<1>2. ASSUME UNCHANGED <<req, chan, human>>
      PROVE  UNCHANGED AskedNow
  BY <1>2, Undisturbed, SendersStay DEF QueueInv, Stages
<1> QED BY <1>1, <1>2 DEF Tick, vars

(***************************************************************************)
(* Every step of the code is one of Approvals, or none: a request is       *)
(* decided once, where its entry is taken out of the map under the lock,   *)
(* and wakes with exactly that verdict.                                    *)
(***************************************************************************)
THEOREM QueueImplementsApprovals == Spec => Promise!Init /\ [][Promise!Next]_AskedNow
<1>1. Init => Promise!Init
  BY DEF Init, Promise!Init, Promise!Idle, AskedNow, AskedOf, IdleReq
<1>2. QueueInv /\ Stages /\ Stages' /\ [Next]_vars => [Promise!Next]_AskedNow
  <2> SUFFICES ASSUME QueueInv, Stages, Stages', [Next]_vars
               PROVE  [Promise!Next]_AskedNow
    OBVIOUS
  <2>1. ASSUME NEW r \in Requester, Insert(r) \/ Wake(r)
        PROVE  Promise!Next
    BY <2>1, InsertAsks, WakeAnswers DEF Promise!Next
  <2>2. ASSUME Expire
        PROVE  Promise!Next
    BY <2>2, ExpireDecides DEF Promise!Next, Verdict
  <2> QED
    BY <2>1, <2>2, TakeTicketLeaves, LookStutters, ResolveDecides, SendStutters,
       OthersStutter DEF Next
<1> QED BY <1>1, <1>2, QueueInvariant, StagesOfRequest, PTL DEF Spec
=============================================================================
