------------------------ MODULE SessionLifecycleProofs ------------------------
(***************************************************************************)
(* Proofs about SessionLifecycle and the modules of its steps, for every   *)
(* set of runs, ports, command lines and configuration files.              *)
(***************************************************************************)
EXTENDS SessionLifecycle, TLAPS

(***************************************************************************)
(* The files of the CA, while no two runs generate one at the same time.   *)
(***************************************************************************)
OneMaker ==
  \A p, q \in Proc : caAt[p] \in Making /\ caAt[q] \in Making => p = q

\* How far the maker is, and what the files hold then.
MakerFiles(p) ==
  /\ caAt[p] \in Making => ca[p] = [cert |-> p, key |-> p]
  /\ caAt[p] \in {"open cert", "write cert", "open key"} => caKey = Absent
  /\ caAt[p] \in {"open key", "write key"} => caCert = p
  /\ caAt[p] = "write key" => caKey = Torn

\* A run only reads where there is a key, so that the certificate is final.
ReaderHolds(p) ==
  /\ caAt[p] \in {"read cert", "read key"} => caKey # Absent
  /\ caAt[p] = "read key" => ca[p].cert = caCert
  /\ caAt[p] \in {"trust", "have"} => ca[p].cert = ca[p].key

FilesFit ==
  /\ caKey # Absent => caCert \in Proc
  /\ caKey \in Proc => caCert = caKey

PairInv ==
  raced \/ (OneMaker /\ FilesFit /\ \A p \in Proc : MakerFiles(p) /\ ReaderHolds(p))


\* A run that does not move sees what it saw, if the files stay,
LEMMA FilesStay ==
  ASSUME NEW q \in Proc, MakerFiles(q), ReaderHolds(q),
         caAt'[q] = caAt[q], ca'[q] = ca[q], caCert' = caCert, caKey' = caKey
  PROVE  MakerFiles(q)' /\ ReaderHolds(q)'
BY Zenon DEF MakerFiles, ReaderHolds

\* or if another one writes them, which nobody reads before there is a key.
LEMMA FilesWritten ==
  ASSUME NEW q \in Proc, caAt[q] \notin Making, ReaderHolds(q),
         caAt'[q] = caAt[q], ca'[q] = ca[q],
         caKey = Absent \/ (caCert' = caCert /\ caKey' # Absent)
  PROVE  MakerFiles(q)' /\ ReaderHolds(q)'
<1>1. MakerFiles(q)'
  BY DEF MakerFiles, Making
<1>2. ReaderHolds(q)'
  BY DEF ReaderHolds
<1> QED BY <1>1, <1>2

LEMMA RaceType ==
  ASSUME NEW p \in Proc, raced \in BOOLEAN, LookForBoth(p) PROVE raced' \in BOOLEAN
<1> DEFINE other == \E q \in Proc \ {p} : caAt[q] \in Making
<1>1. raced' = raced \/ raced' = (raced \/ other)
  BY DEF LookForBoth
<1>2. other \in BOOLEAN
  OBVIOUS
<1> HIDE DEF other
<1> QED BY <1>1, <1>2

\* The steps of load_or_create keep the types.
LEMMA CaTypeKept ==
  ASSUME CaTypeOK, NEW p \in Proc, CaStep(p) \/ CaStop(p)
  PROVE  CaTypeOK'
<1> USE ProcAssumption DEF CaTypeOK, CaPlace, Making, File, CaGoTo
<1>1. CASE LookForCert(p)
  BY <1>1 DEF LookForCert
<1>2. CASE LookForBoth(p)
  <2>1. raced' \in BOOLEAN
    BY <1>2, RaceType
  <2>2. ca' \in [Proc -> [cert : File, key : File]]
    <3>1. ca' = ca \/ ca' = [ca EXCEPT ![p] = [cert |-> p, key |-> p]]
      BY <1>2, Zenon DEF LookForBoth
    <3>2. p \in File
      OBVIOUS
    <3> HIDE DEF File
    <3>3. CASE ca' = ca
      BY <3>3
    <3>4. CASE ca' = [ca EXCEPT ![p] = [cert |-> p, key |-> p]]
      BY <3>2, <3>4
    <3> QED BY <3>1, <3>3, <3>4
  <2>3. caAt' \in [Proc -> CaPlace]
    BY <1>2 DEF LookForBoth
  <2>4. UNCHANGED <<caCert, caKey, isNew, trusted>>
    BY <1>2 DEF LookForBoth
  <2> QED BY <2>1, <2>2, <2>3, <2>4
<1>3. CASE ReadCert(p)
  BY <1>3 DEF ReadCert
<1>4. CASE ReadKey(p)
  BY <1>4 DEF ReadKey
<1>5. CASE WriteCert(p)
  BY <1>5 DEF WriteCert
<1>6. CASE WriteKey(p)
  BY <1>6 DEF WriteKey
<1>7. CASE Trust(p)
  BY <1>7 DEF Trust
<1>8. CASE CaStop(p)
  BY <1>8 DEF CaStop, NoCa
<1> QED BY <1>1, <1>2, <1>3, <1>4, <1>5, <1>6, <1>7, <1>8 DEF CaStep

\* Each step of load_or_create and each death of a run keep the pair together.
LEMMA PairKept ==
  ASSUME CaTypeOK, PairInv, NEW p \in Proc, CaStep(p) \/ CaStop(p)
  PROVE  PairInv'
<1> SUFFICES ASSUME ~raced'
             PROVE  OneMaker' /\ FilesFit' /\ \A q \in Proc : MakerFiles(q)' /\ ReaderHolds(q)'
  BY DEF PairInv
<1>0. ~raced
  BY Zenon DEF CaStep, CaStop, LookForCert, LookForBoth, ReadCert, ReadKey, WriteCert,
     WriteKey, Trust
<1>a. OneMaker /\ FilesFit /\ \A q \in Proc : MakerFiles(q) /\ ReaderHolds(q)
  BY <1>0 DEF PairInv
<1>b. \A q \in Proc \ {p} : caAt'[q] = caAt[q] /\ ca'[q] = ca[q]
  BY DEF CaTypeOK, CaGoTo, CaStep, CaStop, LookForCert, LookForBoth, ReadCert, ReadKey,
     WriteCert, WriteKey, Trust
<1>c. ASSUME caAt'[p] \in Making => caAt[p] \in Making
      PROVE  OneMaker'
  BY <1>a, <1>b, <1>c DEF OneMaker
<1>d. ASSUME caCert' = caCert, caKey' = caKey, NEW q \in Proc \ {p}
      PROVE  MakerFiles(q)' /\ ReaderHolds(q)'
  BY <1>a, <1>b, <1>d, FilesStay
<1>e. ASSUME caCert' = caCert, caKey' = caKey
      PROVE  FilesFit'
  BY <1>a, <1>e DEF FilesFit
<1>f. ASSUME caAt[p] \in Making, caKey = Absent \/ (caCert' = caCert /\ caKey' # Absent),
             NEW q \in Proc \ {p}
      PROVE  MakerFiles(q)' /\ ReaderHolds(q)'
  BY <1>a, <1>b, <1>f, FilesWritten DEF OneMaker
<1>1. CASE LookForCert(p)
  <2>1. caAt'[p] = "look" /\ caCert' = caCert /\ caKey' = caKey
    BY <1>1 DEF LookForCert, CaTypeOK, CaGoTo
  <2>2. OneMaker'
    BY <1>c, <2>1 DEF Making
  <2>3. MakerFiles(p)'
    BY <1>a, <2>1 DEF MakerFiles, Making
  <2>4. ReaderHolds(p)'
    BY <1>a, <2>1 DEF ReaderHolds, FilesFit
  <2> QED BY <1>d, <1>e, <2>1, <2>2, <2>3, <2>4
<1>2. CASE LookForBoth(p)
  <2>0. caCert' = caCert /\ caKey' = caKey
    BY <1>2 DEF LookForBoth
  <2>1. CASE CaThere
    <3>1. caAt'[p] = "read cert" /\ caKey' # Absent
      BY <1>2, <2>1 DEF LookForBoth, CaThere, CaTypeOK, CaGoTo
    <3>2. OneMaker'
      BY <1>c, <3>1 DEF Making
    <3>3. MakerFiles(p)' /\ ReaderHolds(p)'
      BY <3>1 DEF MakerFiles, ReaderHolds, Making
    <3> QED BY <1>d, <1>e, <2>0, <3>2, <3>3
  <2>2. CASE ~CaThere
    <3>1. /\ caAt'[p] = "open cert" /\ ca'[p] = [cert |-> p, key |-> p]
          /\ raced' = (raced \/ \E q \in Proc \ {p} : caAt[q] \in Making)
      BY <1>2, <2>2 DEF LookForBoth, CaTypeOK, CaGoTo
    <3>2. \A q \in Proc \ {p} : caAt[q] \notin Making
      BY <3>1, Zenon
    <3>3. caKey' = Absent
      BY <1>a, <2>0, <2>2, ProcAssumption DEF CaThere, FilesFit
    <3>4. OneMaker'
      BY <1>b, <3>2 DEF OneMaker
    <3>5. MakerFiles(p)' /\ ReaderHolds(p)'
      BY <3>1, <3>3 DEF MakerFiles, ReaderHolds, Making
    <3> QED BY <1>d, <1>e, <2>0, <3>4, <3>5
  <2> QED BY <2>1, <2>2
<1>3. CASE ReadCert(p)
  <2>1. /\ caAt[p] = "read cert" /\ caAt'[p] = "read key" /\ ca'[p].cert = caCert
        /\ caCert' = caCert /\ caKey' = caKey
    BY <1>3 DEF ReadCert, CaTypeOK, CaGoTo
  <2>2. OneMaker'
    BY <1>c, <2>1 DEF Making
  <2>3. MakerFiles(p)'
    BY <1>a, <2>1 DEF MakerFiles, Making
  <2>4. ReaderHolds(p)'
    BY <1>a, <2>1 DEF ReaderHolds, FilesFit
  <2> QED BY <1>d, <1>e, <2>1, <2>2, <2>3, <2>4
<1>4. CASE ReadKey(p)
  <2>0. ca[p] \in [cert : File, key : File] /\ ca' = [ca EXCEPT ![p].key = caKey]
    BY <1>4 DEF ReadKey, CaTypeOK
  <2>1. /\ caAt[p] = "read key" /\ ca'[p].cert = ca[p].cert /\ ca'[p].key = caKey
        /\ caKey \in {Absent, Torn} \cup Proc
        /\ caCert' = caCert /\ caKey' = caKey
    <3>1. ca'[p] = [ca[p] EXCEPT !.key = caKey]
      BY <2>0 DEF CaTypeOK
    <3>2. ca'[p].cert = ca[p].cert /\ ca'[p].key = caKey
      BY <2>0, <3>1
    <3> QED BY <1>4, <3>2 DEF ReadKey, CaTypeOK, File
  <2>5. caAt'[p] = "stopped" \/ (caAt'[p] = "trust" /\ caKey # Torn)
    <3>1. caAt'[p] = IF Torn \in {ca[p].cert, caKey} THEN "stopped" ELSE "trust"
      BY <1>4 DEF ReadKey, CaTypeOK, CaGoTo
    <3> QED BY <3>1
  <2>2. OneMaker'
    BY <1>c, <2>5, <2>1 DEF Making
  <2>3. MakerFiles(p)'
    BY <1>a, <2>5, <2>1 DEF MakerFiles, Making
  <2>4. ReaderHolds(p)'
    BY <1>a, <2>5, <2>1 DEF ReaderHolds, FilesFit
  <2> QED BY <1>d, <1>e, <2>1, <2>2, <2>3, <2>4
<1>5. CASE WriteCert(p)
  <2>1. /\ ca'[p] = ca[p] /\ caKey' = caKey
        /\ \/ caAt[p] = "open cert" /\ caCert' = Torn /\ caAt'[p] = "write cert"
           \/ caAt[p] = "write cert" /\ caCert' = p /\ caAt'[p] = "open key"
    BY <1>5 DEF WriteCert, CaTypeOK, CaGoTo
  <2>2. caAt[p] \in Making /\ caKey = Absent
    BY <1>a, <2>1 DEF MakerFiles, Making
  <2>3. OneMaker'
    BY <1>c, <2>2
  <2>4. FilesFit'
    BY <2>1, <2>2, ProcAssumption DEF FilesFit
  <2>5. MakerFiles(p)' /\ ReaderHolds(p)'
    BY <1>a, <2>1 DEF MakerFiles, ReaderHolds, Making
  <2> QED BY <1>f, <2>2, <2>3, <2>4, <2>5
<1>6. CASE WriteKey(p)
  <2>1. /\ ca'[p] = ca[p] /\ caCert' = caCert
        /\ \/ caAt[p] = "open key" /\ caKey' = Torn /\ caAt'[p] = "write key"
           \/ caAt[p] = "write key" /\ caKey' = p /\ caAt'[p] = "trust"
    BY <1>6 DEF WriteKey, CaTypeOK, CaGoTo
  <2>2. caAt[p] \in Making /\ caCert = p
    BY <1>a, <2>1 DEF MakerFiles, Making
  <2>0. caKey' # Absent
    BY <2>1, ProcAssumption DEF Torn, Absent
  <2>3. OneMaker'
    BY <1>c, <2>2
  <2>4. FilesFit'
    BY <2>1, <2>2, ProcAssumption DEF FilesFit
  <2>5. MakerFiles(p)'
    BY <1>a, <2>1, <2>2 DEF MakerFiles, Making
  <2>6. ReaderHolds(p)'
    <3>1. caAt[p] \in Making => ca[p] = [cert |-> p, key |-> p]
      BY <1>a DEF MakerFiles
    <3>2. ca'[p] = [cert |-> p, key |-> p]
      BY <2>1, <2>2, <3>1, Zenon
    <3>3. ca'[p].cert = ca'[p].key
      BY <3>2
    <3>4. caAt'[p] \notin {"read cert", "read key"}
      BY <2>1
    <3> QED BY <3>3, <3>4 DEF ReaderHolds
  <2> QED BY <1>f, <2>0, <2>1, <2>2, <2>3, <2>4, <2>5, <2>6
<1>7. CASE Trust(p)
  <2>1. /\ caAt[p] = "trust" /\ caAt'[p] = "have" /\ ca'[p] = ca[p]
        /\ caCert' = caCert /\ caKey' = caKey
    BY <1>7 DEF Trust, CaTypeOK, CaGoTo
  <2>2. OneMaker'
    BY <1>c, <2>1 DEF Making
  <2>3. MakerFiles(p)'
    BY <1>a, <2>1 DEF MakerFiles, Making
  <2>4. ReaderHolds(p)'
    BY <1>a, <2>1 DEF ReaderHolds, FilesFit
  <2> QED BY <1>d, <1>e, <2>1, <2>2, <2>3, <2>4
<1>8. CASE CaStop(p)
  <2>1. /\ caAt'[p] = "stopped"
        /\ caCert' = caCert /\ caKey' = caKey
    BY <1>8 DEF CaStop, CaTypeOK, CaGoTo
  <2>2. OneMaker'
    BY <1>c, <2>1 DEF Making
  <2>3. MakerFiles(p)'
    BY <1>a, <2>1 DEF MakerFiles, Making
  <2>4. ReaderHolds(p)'
    BY <1>a, <2>1 DEF ReaderHolds, FilesFit
  <2> QED BY <1>d, <1>e, <2>1, <2>2, <2>3, <2>4
<1> QED BY <1>1, <1>2, <1>3, <1>4, <1>5, <1>6, <1>7, <1>8 DEF CaStep

-----------------------------------------------------------------------------
(***************************************************************************)
(* What holds of a run at each place: the resources it has taken and not   *)
(* yet released.                                                           *)
(***************************************************************************)
Waiting   == {"signals", "wait"}
Listening ==
  Waiting \cup
    {"profile", "pf", "chown", "ipc", "register", "spawn", "log", "persist", "stop"}

Fits(p) ==
  /\ Live(p) => p \in tmpdir
  /\ p \in bound <=> at[p] \in Listening
  /\ at[p] = "chown" => p \in anchor
  /\ at[p] \in {"ipc", "register", "spawn"} \cup Waiting /\ Merged(p).pf => p \in anchor
  /\ at[p] \in {"register", "spawn"} \cup Waiting => p \in socket \/ Merged(p).yolo
  /\ at[p] \in {"spawn"} \cup Waiting => row[p] = "running"
  /\ at[p] = "gone" /\ p \in tmpdir \cup socket => p \in Stuck

\* Its agent runs from spawn on, and into a cleanup only under su.
AgentFits(p) ==
  /\ agent[p] = "running" =>
       \/ at[p] \in Waiting \cup {"failed", "hung", "dead"}
       \/ Merged(p).pf /\ at[p] \in Cleanup \cup {"gone"}
  /\ at[p] = "unborn" => served[p] = {}
  /\ Live(p) /\ at[p] # "remove" => served[p] \subseteq {p}

LifeInv == \A p \in Proc : Fits(p) /\ AgentFits(p)

IInv == TypeOK /\ PairInv /\ SetupHolds /\ LifeInv

\* A run keeps what it has when a step is another's.
LEMMA OthersStep ==
  ASSUME NEW q \in Proc, Fits(q), AgentFits(q),
         at'[q] = at[q], agent'[q] = agent[q], row'[q] = row[q], served'[q] = served[q],
         q \in tmpdir' <=> q \in tmpdir, q \in bound' <=> q \in bound,
         q \in socket' <=> q \in socket, q \in anchor' <=> q \in anchor
  PROVE  Fits(q)' /\ AgentFits(q)'
BY DEF Fits, AgentFits, Live, Merged, Loaded

LEMMA InitFits == Init => IInv
<1> SUFFICES ASSUME Init PROVE IInv
  OBVIOUS
<1>1. CaTypeOK
  BY DEF Init, CaInit, CaTypeOK, NoCa, File, CaPlace
<1>2. TypeOK
  BY <1>1 DEF Init, PfInit, PfTypeOK, TypeOK, File
<1>3. PairInv
  BY ProcAssumption DEF Init, CaInit, PairInv, OneMaker, FilesFit, MakerFiles,
     ReaderHolds, Making
<1>4. SetupHolds
  BY DEF Init, PfInit, SetupHolds
<1>5. LifeInv
  BY DEF Init, LifeInv, Fits, AgentFits, Live, Over, Waiting, Listening
<1> QED BY <1>2, <1>3, <1>4, <1>5 DEF IInv

Acts(p) ==
  Begin(p) \/ Proceed(p) \/ Call(p) \/ AgentEnds(p) \/ Interrupted(p) \/ Crash(p)

\* What a run does keeps the types of the CA and of the pf setup,
LEMMA PartsKept ==
  ASSUME TypeOK, PairInv, SetupHolds, NEW p \in Proc, Acts(p)
  PROVE  CaTypeOK' /\ PairInv' /\ PfTypeOK' /\ SetupHolds'
<1>1. (CaStep(p) \/ CaStop(p)) \/ UNCHANGED caVars
  BY Zenon DEF Acts, Proceed, Begin, Certify, Bundle, StartProxy, WriteProfile, LoadPf,
     Chown, StartIpc, Register, Spawn, Listen, ChildWaited, LogEnd, Persist,
     StopServers, RemoveTmpdir, Fail, Call, AgentEnds, Interrupted, Crash
<1>2. UNCHANGED setupVars
  BY Zenon DEF Acts, Proceed, pfVars, Begin, Certify, Bundle, StartProxy, WriteProfile,
     LoadPf, Chown, StartIpc, Register, Spawn, Listen, ChildWaited, LogEnd, Persist,
     StopServers, RemoveTmpdir, Fail, Call, AgentEnds, Interrupted, Crash
<1>3. CaTypeOK' /\ PairInv'
  <2>1. CASE CaStep(p) \/ CaStop(p)
    BY <2>1, CaTypeKept, PairKept DEF TypeOK
  <2>2. CASE UNCHANGED caVars
    BY <2>2 DEF caVars, TypeOK, CaTypeOK, PairInv, OneMaker, FilesFit, MakerFiles,
       ReaderHolds
  <2> QED BY <1>1, <2>1, <2>2
<1>4. PfTypeOK' /\ SetupHolds'
  BY <1>2 DEF setupVars, TypeOK, PfTypeOK, SetupHolds
<1> QED BY <1>3, <1>4

\* and touches only what is its own.
LEMMA OnlyOwn ==
  ASSUME TypeOK, NEW p \in Proc, Acts(p), NEW q \in Proc \ {p}
  PROVE  /\ at'[q] = at[q] /\ agent'[q] = agent[q] /\ row'[q] = row[q] /\ served'[q] = served[q]
         /\ q \in tmpdir' <=> q \in tmpdir
         /\ q \in bound' <=> q \in bound
         /\ q \in socket' <=> q \in socket
         /\ q \in anchor' <=> q \in anchor
<1> USE DEF TypeOK, Step, own, pfVars, LoadAnchor, DropEnforcer, KillChild
<1>1. CASE Begin(p)
  BY <1>1 DEF Begin
<1>2. CASE Certify(p)
  BY <1>2 DEF Certify
<1>3. CASE Bundle(p)
  BY <1>3 DEF Bundle
<1>4. CASE StartProxy(p)
  BY <1>4 DEF StartProxy
<1>5. CASE WriteProfile(p)
  BY <1>5 DEF WriteProfile
<1>6. CASE LoadPf(p)
  BY <1>6 DEF LoadPf
<1>7. CASE Chown(p)
  BY <1>7 DEF Chown
<1>8. CASE StartIpc(p)
  BY <1>8 DEF StartIpc
<1>9. CASE Register(p)
  BY <1>9 DEF Register
<1>10. CASE Spawn(p)
  BY <1>10 DEF Spawn
<1>11. CASE Listen(p)
  BY <1>11 DEF Listen
<1>12. CASE ChildWaited(p)
  BY <1>12 DEF ChildWaited
<1>13. CASE LogEnd(p)
  BY <1>13 DEF LogEnd
<1>14. CASE Persist(p)
  BY <1>14 DEF Persist
<1>15. CASE StopServers(p)
  BY <1>15 DEF StopServers
<1>16. CASE RemoveTmpdir(p)
  BY <1>16 DEF RemoveTmpdir
<1>17. CASE Fail(p)
  BY <1>17 DEF Fail
<1>18. CASE Call(p)
  BY <1>18 DEF Call
<1>19. CASE AgentEnds(p)
  BY <1>19 DEF AgentEnds
<1>20. CASE Interrupted(p)
  BY <1>20 DEF Interrupted
<1>21. CASE Crash(p)
  BY <1>21 DEF Crash
<1> QED BY <1>1, <1>2, <1>3, <1>4, <1>5, <1>6, <1>7, <1>8, <1>9, <1>10, <1>11, <1>12,
   <1>13, <1>14, <1>15, <1>16, <1>17, <1>18, <1>19, <1>20, <1>21 DEF Acts, Proceed

\* Each step of a run keeps what holds of it.
LEMMA OwnFits ==
  ASSUME TypeOK, NEW p \in Proc, Fits(p), AgentFits(p), Acts(p)
  PROVE  Fits(p)' /\ AgentFits(p)'
<1> USE DEF TypeOK, Step, own, pfVars, Fits, AgentFits, Live, Over, Waiting, Listening,
   Startup, Cleanup
<1>1. CASE Begin(p)
  BY <1>1 DEF Begin
<1>2. CASE Certify(p)
  BY <1>2 DEF Certify
<1>3. CASE Bundle(p)
  BY <1>3 DEF Bundle
<1>4. CASE StartProxy(p)
  BY <1>4 DEF StartProxy
<1>5. CASE WriteProfile(p)
  BY <1>5 DEF WriteProfile
<1>6. CASE LoadPf(p)
  BY <1>6 DEF LoadPf, LoadAnchor
<1>7. CASE Chown(p)
  BY <1>7 DEF Chown
<1>8. CASE StartIpc(p)
  BY <1>8 DEF StartIpc
<1>9. CASE Register(p)
  BY <1>9 DEF Register
<1>10. CASE Spawn(p)
  BY <1>10 DEF Spawn
<1>11. CASE Listen(p)
  BY <1>11 DEF Listen
<1>12. CASE ChildWaited(p)
  BY <1>12 DEF ChildWaited
<1>13. CASE LogEnd(p)
  BY <1>13 DEF LogEnd
<1>14. CASE Persist(p)
  BY <1>14 DEF Persist
<1>15. CASE StopServers(p)
  BY <1>15 DEF StopServers
<1>16. CASE RemoveTmpdir(p)
  BY <1>16 DEF RemoveTmpdir
<1>17. CASE Fail(p)
  BY <1>17 DEF Fail, DropEnforcer
<1>18. CASE Call(p)
  BY <1>18 DEF Call
<1>19. CASE AgentEnds(p)
  BY <1>19 DEF AgentEnds
<1>20. CASE Interrupted(p)
  BY <1>20 DEF Interrupted, KillChild
<1>21. CASE Crash(p)
  BY <1>21 DEF Crash
<1> QED BY <1>1, <1>2, <1>3, <1>4, <1>5, <1>6, <1>7, <1>8, <1>9, <1>10, <1>11, <1>12,
   <1>13, <1>14, <1>15, <1>16, <1>17, <1>18, <1>19, <1>20, <1>21 DEF Acts, Proceed

\* Each step of a run keeps the types.
LEMMA TypeKept ==
  ASSUME TypeOK, NEW p \in Proc, Fits(p), Acts(p), CaTypeOK', PfTypeOK'
  PROVE  TypeOK'
<1> USE DEF TypeOK, Step, own, pfVars
<1>1. CASE Begin(p)
  BY <1>1 DEF Begin, Startup, Cleanup, Over
<1>2. CASE Certify(p)
  BY <1>2 DEF Certify, Startup, Cleanup, Over
<1>3. CASE Bundle(p)
  <2>1. ca[p].cert \in File
    BY DEF CaTypeOK
  <2> QED BY <1>3, <2>1 DEF Bundle, Startup
<1>4. CASE StartProxy(p)
  <2>1. PICK n \in Port : n \in Free /\ port' = [port EXCEPT ![p] = n]
    BY <1>4 DEF StartProxy, Free, Port
  <2>2. p \notin bound
    BY <1>4 DEF StartProxy, Fits, Listening, Waiting
  <2>3. \A q, r \in bound' : port'[q] = port'[r] => q = r
    BY <1>4, <2>1, <2>2 DEF StartProxy, Free
  <2> QED BY <1>4, <2>1, <2>3 DEF StartProxy, Startup
<1>5. CASE WriteProfile(p)
  BY <1>5 DEF WriteProfile, Startup, Cleanup, Over
<1>6. CASE LoadPf(p)
  BY <1>6 DEF LoadPf, LoadAnchor, Startup
<1>7. CASE Chown(p)
  BY <1>7 DEF Chown, Startup, Cleanup, Over
<1>8. CASE StartIpc(p)
  BY <1>8 DEF StartIpc, Startup, Fits, Live, Over
<1>9. CASE Register(p)
  BY <1>9 DEF Register, Startup, Cleanup, Over
<1>10. CASE Spawn(p)
  BY <1>10 DEF Spawn, Startup, Cleanup, Over
<1>11. CASE Listen(p)
  BY <1>11 DEF Listen, Startup, Cleanup, Over
<1>12. CASE ChildWaited(p)
  BY <1>12 DEF ChildWaited, Startup, Cleanup, Over
<1>13. CASE LogEnd(p)
  BY <1>13 DEF LogEnd, Startup, Cleanup, Over
<1>14. CASE Persist(p)
  BY <1>14 DEF Persist, Startup, Cleanup, Over
<1>15. CASE StopServers(p)
  BY <1>15 DEF StopServers, Startup, Cleanup, Over
<1>16. CASE RemoveTmpdir(p)
  BY <1>16 DEF RemoveTmpdir, Over, File
<1>17. CASE Fail(p)
  BY <1>17 DEF Fail, DropEnforcer, Startup, Over
<1>18. CASE Call(p)
  BY <1>18 DEF Call
<1>19. CASE AgentEnds(p)
  BY <1>19 DEF AgentEnds, Startup, Cleanup, Over
<1>20. CASE Interrupted(p)
  BY <1>20 DEF Interrupted, KillChild, Cleanup
<1>21. CASE Crash(p)
  BY <1>21 DEF Crash, Startup, Cleanup, Over
<1> QED BY <1>1, <1>2, <1>3, <1>4, <1>5, <1>6, <1>7, <1>8, <1>9, <1>10, <1>11, <1>12,
   <1>13, <1>14, <1>15, <1>16, <1>17, <1>18, <1>19, <1>20, <1>21 DEF Acts, Proceed

LEMMA InvKept == IInv /\ [Next]_vars => IInv'
<1> SUFFICES ASSUME IInv, [Next]_vars PROVE IInv'
  OBVIOUS
<1> USE DEF IInv
<1>1. ASSUME NEW p \in Proc, Acts(p) PROVE IInv'
  <2>1. CaTypeOK' /\ PairInv' /\ PfTypeOK' /\ SetupHolds'
    BY <1>1, PartsKept
  <2>2. TypeOK'
    BY <1>1, <2>1, TypeKept DEF LifeInv
  <2>3. Fits(p)' /\ AgentFits(p)'
    BY <1>1, OwnFits DEF LifeInv
  <2>4. ASSUME NEW q \in Proc \ {p} PROVE Fits(q)' /\ AgentFits(q)'
    BY <1>1, OnlyOwn, OthersStep DEF LifeInv
  <2>5. LifeInv'
    BY <2>3, <2>4 DEF LifeInv
  <2> QED BY <2>1, <2>2, <2>5
<1>2. CASE Setup /\ UNCHANGED <<own, caVars>>
  <2>1. PfTypeOK' /\ SetupHolds' /\ UNCHANGED <<anchor, own, caVars>>
    <3>1. UNCHANGED <<anchor, own, caVars>>
      BY <1>2 DEF Setup
    <3>2. CASE pfUser' = "unnumbered" /\ ~UserHasUid /\ UNCHANGED <<pfLine, setUp>>
      BY <3>1, <3>2 DEF UserHasUid, TypeOK, PfTypeOK, SetupHolds
    <3>3. CASE /\ pfUser' = "numbered"
               /\ \/ UNCHANGED <<pfLine, setUp>>
                  \/ pfLine' = TRUE /\ UNCHANGED setUp
                  \/ pfLine' = TRUE /\ setUp' = TRUE
      <4>1. pfLine' \in BOOLEAN /\ setUp' \in BOOLEAN
        BY <3>3 DEF TypeOK, PfTypeOK
      <4>2. setUp' => pfLine'
        BY <3>3 DEF SetupHolds
      <4> QED BY <3>1, <3>3, <4>1, <4>2 DEF PfTypeOK, SetupHolds
    <3> QED BY <1>2, <3>2, <3>3 DEF Setup, UserHasUid
  <2>2. TypeOK'
    BY <2>1 DEF own, caVars, TypeOK, CaTypeOK
  <2>3. PairInv'
    BY <2>1 DEF caVars, PairInv, OneMaker, FilesFit, MakerFiles, ReaderHolds
  <2>4. LifeInv'
    BY <2>1, OthersStep DEF own, LifeInv
  <2> QED BY <2>1, <2>2, <2>3, <2>4
<1>3. CASE UNCHANGED vars
  <2>1. TypeOK' /\ SetupHolds'
    BY <1>3 DEF vars, own, caVars, pfVars, setupVars, TypeOK, CaTypeOK, PfTypeOK,
       SetupHolds
  <2>2. PairInv'
    BY <1>3 DEF vars, caVars, PairInv, OneMaker, FilesFit, MakerFiles, ReaderHolds
  <2>3. LifeInv'
    BY <1>3, OthersStep DEF vars, own, pfVars, LifeInv
  <2> QED BY <2>1, <2>2, <2>3
<1> QED BY <1>1, <1>2, <1>3 DEF Next, Acts

LEMMA Always == Spec => []IInv
BY InitFits, InvKept, PTL DEF Spec
-----------------------------------------------------------------------------
\* TypeOK holds throughout: what every other theorem here rests on.
THEOREM LifecycleTypes == Spec => []TypeOK
<1>1. IInv => TypeOK
  BY DEF IInv
<1> QED BY <1>1, Always, PTL

\* While a run waits for its agent, its proxy, tmpdir, row, pf rules and socket
\* are there (main.rs), whatever the other runs do.
THEOREM PreparedAlways == Spec => []Prepared
<1>1. IInv => Prepared
  BY LifecycleAssumption DEF IInv, TypeOK, LifeInv, Fits, Prepared, Live, Over,
     Waiting, Listening, Merged
<1> QED BY <1>1, Always, PTL

\* After an orderly exit the proxy has stopped, the tmpdir and the socket are gone
\* where remove_dir_all can remove them, and no agent runs but under su (the
\* cleanup of main.rs).
THEOREM NothingLeftAlways == Spec => []NothingLeft
<1>1. IInv => NothingLeft
  BY DEF IInv, LifeInv, Fits, AgentFits, NothingLeft, Waiting, Listening
<1> QED BY <1>1, Always, PTL

\* Until a run stops its servers its agent is served by its proxy only (proxy.rs, main.rs).
THEOREM OwnProxyAlways == Spec => []OwnProxy
<1>1. IInv => OwnProxy
  BY DEF IInv, LifeInv, AgentFits, OwnProxy
<1> QED BY <1>1, Always, PTL

\* A setup that completed has left what a session with pf asks for (pf.rs).
THEOREM SetupHoldsAlways == Spec => []SetupHolds
<1>1. IInv => SetupHolds
  BY DEF IInv
<1> QED BY <1>1, Always, PTL

\* The certificate and the key of the CA belong together, in memory and on
\* disk, but after two first runs at the same time (load_or_create in tls.rs).
THEOREM PairMatchesAlways == Spec => []PairMatches
<1>1. IInv => PairMatches
  <2> SUFFICES ASSUME IInv, ~raced PROVE PairMatches
    BY DEF PairMatches
  <2>1. FilesFit /\ \A p \in Proc : ReaderHolds(p)
    BY DEF IInv, PairInv
  <2> QED BY <2>1 DEF PairMatches, FilesFit, ReaderHolds, Established
<1> QED BY <1>1, Always, PTL

\* A step of a CA keeps it once it is established,
LEMMA EstablishedKept ==
  ASSUME CaTypeOK, Established, NEW p \in Proc, CaStep(p) \/ CaStop(p)
  PROVE  Established' /\ UNCHANGED <<caCert, caKey>>
<1> USE ProcAssumption DEF CaTypeOK, Established, Making, CaGoTo
<1>1. CaThere
  BY DEF CaThere
<1>2. caAt[p] \notin Making
  OBVIOUS
<1>3. UNCHANGED <<caCert, caKey>>
  BY <1>2 DEF CaStep, CaStop, LookForCert, LookForBoth, ReadCert, ReadKey, WriteCert,
     WriteKey, Trust
<1>4. caAt'[p] \notin Making
  BY <1>1, <1>2 DEF CaStep, CaStop, LookForCert, LookForBoth, ReadCert, ReadKey,
     WriteCert, WriteKey, Trust
<1>5. \A q \in Proc \ {p} : caAt'[q] = caAt[q]
  BY DEF CaStep, CaStop, LookForCert, LookForBoth, ReadCert, ReadKey, WriteCert,
     WriteKey, Trust
<1> QED BY <1>3, <1>4, <1>5

\* so that every later session reuses it and it never changes (tls.rs).
THEOREM EstablishedStaysAlways == Spec => EstablishedStays
<1>1. IInv /\ [Next]_vars => [Established => Established' /\ UNCHANGED <<caCert, caKey>>]_caVars
  <2> SUFFICES ASSUME IInv, [Next]_vars, Established
               PROVE  Established' /\ UNCHANGED <<caCert, caKey>>
    OBVIOUS
  <2>1. (\E p \in Proc : CaStep(p) \/ CaStop(p)) \/ UNCHANGED caVars
    BY Zenon DEF Next, vars, Proceed, Begin, Certify, Bundle, StartProxy, WriteProfile,
       LoadPf, Chown, StartIpc, Register, Spawn, Listen, ChildWaited, LogEnd, Persist,
       StopServers, RemoveTmpdir, Fail, Call, AgentEnds, Interrupted, Crash
  <2>2. CASE \E p \in Proc : CaStep(p) \/ CaStop(p)
    BY <2>2, EstablishedKept DEF IInv, TypeOK
  <2>3. CASE UNCHANGED caVars
    BY <2>3 DEF caVars, Established
  <2> QED BY <2>1, <2>2, <2>3
<1> QED BY <1>1, Always, PTL DEF Spec, EstablishedStays
=============================================================================
