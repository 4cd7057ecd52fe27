----------------------------- MODULE CertAuthority -----------------------------
(***************************************************************************)
(* The persistent CA (crates/closedshell-lib/src/tls.rs) in its two files, *)
(* as the runs of closedshell find, read and write them.  std::fs::write   *)
(* empties the file first, so another process may read a torn file, and a  *)
(* crash may leave one.  A CA is named by the process that generated it.   *)
(*                                                                         *)
(* A module of steps: SessionLifecycle makes them part of a start.         *)
(***************************************************************************)
EXTENDS FiniteSets

CONSTANT Proc

VARIABLES
  caCert,   \* ca.pem
  caKey,    \* ca-key.pem
  caAt,     \* how far each process is
  isNew,    \* is_new_ca
  ca,       \* SessionCA: the CA of its certificate and the one of its key
  trusted,  \* certificates in the user's trust store
  raced     \* history: two runs generated a CA at the same time

caVars == <<caCert, caKey, caAt, isNew, ca, trusted, raced>>

Absent == "absent"
Torn   == "torn"
File   == {Absent, Torn} \cup Proc
NoCa   == [cert |-> Absent, key |-> Absent]

ASSUME ProcAssumption == Absent \notin Proc /\ Torn \notin Proc

Making == {"open cert", "write cert", "open key", "write key"}
CaPlace == Making \cup {"before", "look", "read cert", "read key", "trust", "have", "stopped"}

CaTypeOK ==
  /\ caCert \in File
  /\ caKey \in File
  /\ caAt \in [Proc -> CaPlace]
  /\ isNew \in [Proc -> BOOLEAN]
  /\ ca \in [Proc -> [cert: File, key: File]]
  /\ trusted \subseteq Proc
  /\ raced \in BOOLEAN

CaInit ==
  /\ caCert = Absent
  /\ caKey = Absent
  /\ caAt = [p \in Proc |-> "before"]
  /\ isNew = [p \in Proc |-> FALSE]
  /\ ca = [p \in Proc |-> NoCa]
  /\ trusted = {}
  /\ raced = FALSE

CaGoTo(p, at) == caAt' = [caAt EXCEPT ![p] = at]
-----------------------------------------------------------------------------
\* is_new_ca.
LookForCert(p) ==
  /\ caAt[p] = "before"
  /\ isNew' = [isNew EXCEPT ![p] = caCert = Absent]
  /\ CaGoTo(p, "look")
  /\ UNCHANGED <<caCert, caKey, ca, trusted, raced>>

\* Mutant of CaThere: a CA for each session.
CaNeverThere == FALSE

CaThere == caCert # Absent /\ caKey # Absent

\* load_or_create: load, or generate.
LookForBoth(p) ==
  /\ caAt[p] = "look"
  /\ \/ CaThere /\ CaGoTo(p, "read cert") /\ UNCHANGED <<ca, raced>>
     \/ /\ ~CaThere
        /\ ca' = [ca EXCEPT ![p] = [cert |-> p, key |-> p]]
        /\ raced' = (raced \/ \E q \in Proc \ {p} : caAt[q] \in Making)
        /\ CaGoTo(p, "open cert")
  /\ UNCHANGED <<caCert, caKey, isNew, trusted>>

ReadCert(p) ==
  /\ caAt[p] = "read cert"
  /\ ca' = [ca EXCEPT ![p].cert = caCert]
  /\ CaGoTo(p, "read key")
  /\ UNCHANGED <<caCert, caKey, isNew, trusted, raced>>

\* from_pem parses both; it does not compare them.
ReadKey(p) ==
  /\ caAt[p] = "read key"
  /\ ca' = [ca EXCEPT ![p].key = caKey]
  /\ CaGoTo(p, IF Torn \in {ca[p].cert, caKey} THEN "stopped" ELSE "trust")
  /\ UNCHANGED <<caCert, caKey, isNew, trusted, raced>>

\* Mutant of WriteCert: a certificate that is there is kept.
WriteCertOnce(p) ==
  \/ /\ caAt[p] = "open cert"
     /\ caCert' = IF caCert = Absent THEN Torn ELSE caCert
     /\ CaGoTo(p, "write cert")
     /\ UNCHANGED <<caKey, isNew, ca, trusted, raced>>
  \/ /\ caAt[p] = "write cert"
     /\ caCert' = IF caCert = Torn THEN p ELSE caCert
     /\ CaGoTo(p, "open key")
     /\ UNCHANGED <<caKey, isNew, ca, trusted, raced>>

WriteCert(p) ==
  \/ /\ caAt[p] = "open cert"
     /\ caCert' = Torn
     /\ CaGoTo(p, "write cert")
     /\ UNCHANGED <<caKey, isNew, ca, trusted, raced>>
  \/ /\ caAt[p] = "write cert"
     /\ caCert' = p
     /\ CaGoTo(p, "open key")
     /\ UNCHANGED <<caKey, isNew, ca, trusted, raced>>

WriteKey(p) ==
  \/ /\ caAt[p] = "open key"
     /\ caKey' = Torn
     /\ CaGoTo(p, "write key")
     /\ UNCHANGED <<caCert, isNew, ca, trusted, raced>>
  \/ /\ caAt[p] = "write key"
     /\ caKey' = p
     /\ CaGoTo(p, "trust")
     /\ UNCHANGED <<caCert, isNew, ca, trusted, raced>>

\* trust_ca_macos, on a first run only: the helper trusts the file.  It may
\* fail, which is only reported.
Trust(p) ==
  /\ caAt[p] = "trust"
  /\ \/ isNew[p] /\ trusted' = trusted \cup ({caCert} \cap Proc)
     \/ UNCHANGED trusted
  /\ isNew' = [isNew EXCEPT ![p] = FALSE]
  /\ CaGoTo(p, "have")
  /\ UNCHANGED <<caCert, caKey, ca, raced>>

CaStep(p) ==
  \/ LookForCert(p)
  \/ LookForBoth(p)
  \/ ReadCert(p)
  \/ ReadKey(p)
  \/ WriteCert(p)
  \/ WriteKey(p)
  \/ Trust(p)

\* The process ends, or an I/O error ends it, and with it what it has in memory.
CaStop(p) ==
  /\ CaGoTo(p, "stopped")
  /\ isNew' = [isNew EXCEPT ![p] = FALSE]
  /\ ca' = [ca EXCEPT ![p] = NoCa]
  /\ UNCHANGED <<caCert, caKey, trusted, raced>>

\* generate_leaf_cert: what p's proxy shows for a host is signed with p's key,
\* from the cache or not, and accepted by a client that trusts that CA.
LeafAccepted(p, cert) == ca[p].key = cert
-----------------------------------------------------------------------------
Established == {caCert, caKey} \subseteq Proc /\ \A p \in Proc : caAt[p] \notin Making

(***************************************************************************)
(* The certificate that a run hands to its agent and the key that it signs *)
(* with belong together, in memory and on disk, however many runs were     *)
(* killed in the middle of writing theirs: a first run that finds half of  *)
(* a CA replaces both.  (Two first runs at the same time may leave a pair  *)
(* that does not match.)                                                   *)
(***************************************************************************)
PairMatches ==
  \/ raced
  \/ /\ \A p \in Proc : caAt[p] \in {"trust", "have"} => ca[p].cert = ca[p].key
     /\ Established => caCert = caKey

(***************************************************************************)
(* docs/architecture.md:93: every later session reuses the CA.  Once it is *)
(* on disk and no run is generating one, none ever does, and it never      *)
(* changes.                                                                *)
(***************************************************************************)
EstablishedStays == [][Established => Established' /\ UNCHANGED <<caCert, caKey>>]_caVars
=============================================================================
