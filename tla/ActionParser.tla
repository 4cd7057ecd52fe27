---------------------------- MODULE ActionParser ----------------------------
(***************************************************************************)
(* HTTP request -> canonical action (crates/closedshell-lib/src/parser.rs) *)
(* and its risk (risk.rs).                                                 *)
(*                                                                         *)
(* A string is a sequence of symbols: the separators ":" "/" "." apart,    *)
(* the text between them opaque; an AWS operation is its first word and    *)
(* the rest, which is what the risk looks at.  A request has the symbols   *)
(* of its host, the domain last; the segments of its path, << >> being "/" *)
(* and <<"a", "">> "/a/"; and what the parsers read of its query and       *)
(* headers, already extracted: query is Action, target the part of         *)
(* x-amz-target after its last dot (<< >> = absent), key the access key of *)
(* the signature or "default", watch the k8s flag.  "Microsoft." is not    *)
(* written before the Azure namespaces.                                    *)
(***************************************************************************)
EXTENDS Naturals, Sequences, SequencesExt, FiniteSetsExt

CONSTANTS
  Requests,     \* the requests of an agent
  Version,      \* the path segments that read v<digits>
  Opaque        \* those that hold a digit or another sign: ids, not resources

Domain(req) == Last(req.host)

Within(req, domain) == Domain(req) = domain /\ Len(req.host) > 1

PathText(path) ==
  IF path = << >> THEN <<"/">> ELSE FlattenSeq([i \in DOMAIN path |-> <<"/", path[i]>>])

NetForm(req) == <<"net", ":", req.method, ":">> \o req.host \o PathText(req.path)

\* The segment after the first of the segments that is key.
After(path, key, default) ==
  LET at == {i \in 1 .. Len(path) - 1 : path[i] = key}
  IN IF at = {} THEN default ELSE path[Min(at) + 1]

Named(segments) ==
  FlattenSeq([i \in DOMAIN segments |-> IF segments[i] = "" THEN << >> ELSE <<segments[i]>>])

CrudVerb(method, post) ==
  CASE method = "GET"    -> "get"
    [] method = "POST"   -> post
    [] method = "PUT"    -> "update"
    [] method = "PATCH"  -> "patch"
    [] method = "DELETE" -> "delete"
    [] OTHER             -> method

(***************************************************************************)
(* AWS                                                                     *)
(***************************************************************************)
\* The bucket is the first segment, the key all that follows.
S3Parts(path) ==
  IF Named(path) = << >> THEN 0
  ELSE IF Len(path) = 1 \/ path = <<path[1], "">> THEN 1 ELSE 2

S3Operation(method, path) ==
  LET n     == S3Parts(path)
      thing == IF n = 1 THEN "Bucket" ELSE "Object"
  IN CASE method = "GET"            -> <<<<"List", "Buckets">>, <<"List", "Objects">>, <<"Get", "Object">>>>[n + 1]
       [] method = "PUT"            -> <<IF n = 1 THEN "Create" ELSE "Put", thing>>
       [] method = "DELETE"         -> <<"Delete", thing>>
       [] method = "HEAD"           -> <<"Head", thing>>
       [] method = "POST" /\ n = 1 -> <<"Post", "Object">>
       [] OTHER                     -> <<method, ":">> \o PathText(path)

Aws(req) ==
  <<"aws", "[profile=", req.key, "]", ":", Head(req.host), ":">>
    \o (IF req.query # << >> THEN req.query
        ELSE IF req.target # << >> THEN req.target
        ELSE IF Head(req.host) = "s3" THEN S3Operation(req.method, req.path)
        ELSE <<req.method, ":">> \o PathText(req.path))

(***************************************************************************)
(* GCP: the segments that name resources, dotted, and the verb.            *)
(***************************************************************************)
\* Whole segments: a skipped key takes its value with it.
GcpResources(service, path) ==
  LET from[i \in 1 .. Len(path) + 2] ==
        IF i > Len(path) THEN << >>
        ELSE IF path[i] \in Version \/ <<path[i]>> = service THEN from[i + 1]
        ELSE IF path[i] \in {"projects", "zones", "regions", "locations", "global"}
          THEN from[i + 2]
        ELSE IF path[i] \in Opaque \cup {""} THEN from[i + 1]
        ELSE <<path[i], ".">> \o from[i + 1]
  IN from[1]

Gcp(req) ==
  <<"gcp", "[project=", After(req.path, "projects", "unknown"), "]", ":">>
    \o Front(req.host) \o <<":">> \o GcpResources(Front(req.host), req.path)
    \o <<CrudVerb(req.method, "insert")>>

Github(req) == <<"gh", ":">> \o Tail(PathText(req.path)) \o <<":", req.method>>

(***************************************************************************)
(* Azure and Kubernetes: {} when the parser declines.                      *)
(***************************************************************************)
AzureResource(name, method) ==
  (IF name = "" THEN << >> ELSE <<name, ".">>) \o <<CrudVerb(method, "create")>>

AzureManagement(req) ==
  LET path == req.path
      service == After(path, "providers", "")
      at == Min({i \in 1 .. Len(path) : path[i] = "providers"}) + 2
  IN IF service = "" THEN {}
     ELSE {<<"az", "[subscription=", After(path, "subscriptions", "unknown"), "]", ":", service, ":">>
             \o AzureResource(IF at \in DOMAIN path THEN path[at] ELSE "", req.method)}

DataPlane ==
  [blob |-> "blob.core.windows.net", table |-> "table.core.windows.net",
   queue |-> "queue.core.windows.net", keyvault |-> "vault.azure.net",
   sql |-> "database.windows.net", cosmosdb |-> "documents.azure.com"]

AzureData(req) ==
  {<<"az", "[account=">> \o Front(req.host) \o <<"]", ":", service, ":">>
     \o AzureResource(Head(Named(req.path) \o <<"">>), req.method) :
     service \in {s \in DOMAIN DataPlane : Within(req, DataPlane[s])}}

Azure(req) ==
  IF req.host = <<"management.azure.com">> THEN AzureManagement(req) ELSE AzureData(req)

K8sResources ==
  {"pods", "services", "deployments", "replicasets", "statefulsets", "daemonsets", "jobs",
   "cronjobs", "configmaps", "secrets", "nodes", "namespaces", "ingresses",
   "networkpolicies", "persistentvolumeclaims", "serviceaccounts", "roles",
   "rolebindings", "clusterroles", "clusterrolebindings"}

\* Mutant of K8sVerb: a patch is called an update.
K8sMerged(req, named) == CrudVerb(IF req.method = "PATCH" THEN "PUT" ELSE req.method, "create")

K8sVerb(req, named) ==
  IF req.method # "GET" THEN CrudVerb(req.method, "create")
  ELSE IF req.watch THEN "watch" ELSE IF named THEN "get" ELSE "list"

\* Of the host nothing is kept.
K8s(req) ==
  LET path  == Named(req.path)
      at    == {i \in DOMAIN path : path[i] = "namespaces"}
      start == IF at # {} THEN Min(at) + 2 ELSE IF path[1] = "apis" THEN 4 ELSE 3
  IN IF /\ Len(req.path) > 1 /\ req.path[1] \in {"api", "apis"}
        /\ start \in DOMAIN path /\ path[start] \in K8sResources
     THEN {(IF at = {} THEN <<"k8s", ":">> ELSE <<"k8s", "[ns=", path[start - 1], "]", ":">>)
             \o <<path[start], ":", K8sVerb(req, start + 1 \in DOMAIN path)>>}
     ELSE {}

\* The first parser that accepts the request answers.
ParseAction(req) ==
  IF Within(req, "amazonaws.com") THEN Aws(req)
  ELSE IF Within(req, "googleapis.com") THEN Gcp(req)
  ELSE IF req.host = <<"api.github.com">> THEN Github(req)
  ELSE CHOOSE a \in IF Azure(req) # {} THEN Azure(req)
                    ELSE IF K8s(req) # {} THEN K8s(req) ELSE {NetForm(req)} : TRUE

Canonical == [req \in Requests |-> ParseAction(req)]

(***************************************************************************)
(* Risk: of the operation, what follows the last colon.                    *)
(***************************************************************************)
Position(s, symbol) == {i \in DOMAIN s : s[i] = symbol}

LastColon(a) == Max(Position(a, ":"))

ClassifyRisk(a) ==
  LET operation == a[LastColon(a) + 1]
  IN CASE operation \in {"Describe", "List", "Get", "Head", "read"}              -> "safe"
       [] operation \in {"Delete", "Terminate", "Remove", "Revoke", "Detach"}    -> "dangerous"
       [] OTHER                                                                  -> "moderate"
=============================================================================
