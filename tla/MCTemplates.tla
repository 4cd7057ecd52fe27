----------------------------- MODULE MCTemplates -----------------------------
(***************************************************************************)
(* A small instance of Templates: a request for each parser and each       *)
(* branch the properties tell apart, a provider that is also bundled, and  *)
(* a name that holds a quote, a backslash and two dashes.  The agent also  *)
(* writes {x} as a repository, * as a namespace, a colon as a segment and  *)
(* a method in lower case.                                                 *)
(***************************************************************************)
EXTENDS Templates

MCSymbol == STRING

MCReq(method, host, path) ==
  [method |-> method, host |-> host, path |-> path, query |-> << >>, target |-> << >>,
   key |-> "default", watch |-> FALSE]

Pod == <<"api", "v1", "namespaces", "dev", "pods", "p1">>

MCRead  == MCReq("GET", <<"acme", ".com">>, << >>)
MCPost  == MCReq("POST", <<"acme", ".com">>, <<"a", "b">>)

\* What is logged, and what may be requested besides.
MCAllowed ==
  {MCReq("GET", <<"s3", "amazonaws.com">>, <<"b", "k">>),
   MCReq("DELETE", <<"s3", "eu", "amazonaws.com">>, <<"b", "">>),
   MCReq("GET", <<"api.github.com">>, <<"repos", "\"">>),
   MCReq("PUT", <<"k8s", ".com">>, Pod), MCReq("PATCH", <<"k8s", ".com">>, Pod),
   MCReq("patch", <<"k8s", ".com">>, Pod), MCRead,
   MCReq("PUT", <<"kube", ".com">>, <<"api", "v1", "namespaces", "*", "pods", "p1">>),
   MCReq("GET", <<"api.github.com">>, <<"repos", "{x}">>)}

MCRequests ==
  MCAllowed \cup
  {[MCReq("POST", <<"ec2", "amazonaws.com">>, << >>) EXCEPT !.query = <<"Describe", "Instances">>],
   MCReq("POST", <<"ec2", "amazonaws.com">>, << >>),
   MCReq("GET", <<"compute", "googleapis.com">>, <<"compute", "v1", "projects", "p1", "zones", "z1", "instances">>),
   MCReq("PUT", <<"management.azure.com">>, <<"subscriptions", "s1", "providers", "Compute", "vms">>),
   MCReq("GET", <<"acct", "blob.core.windows.net">>, <<"box">>),
   [MCReq("GET", <<"k8s", ".com">>, Pod) EXCEPT !.watch = TRUE],
   MCReq("POST", <<"k8s", ".com">>, Pod \o <<"exec">>),
   MCReq("GET", <<"acme", ".com">>, <<":">>),
   MCReq("GET", <<"api.github.com">>, <<"repos", "x">>), MCPost}

\* The pattern repos/{x} is of repos/x alone.
MCSigned == {"{x}"}
MCOddMatches ==
  {<<ParseAction(MCReq("GET", <<"api.github.com">>, <<"repos", "{x}">>)),
     ParseAction(MCReq("GET", <<"api.github.com">>, <<"repos", "x">>))>>}

MCLogged ==
  [req : MCAllowed, result : {"allow"}]
    \cup [req : {MCPost}, result : {"deny", "deny: not allowed"}]

MCAction  == {ParseAction(r) : r \in MCRequests}
MCVersion == {"v1"}
MCOpaque  == {"p1", "z1", "s1"}

Acme == <<<<"acme">>, <<"full">>>>
MCPlace == {Acme, <<<<"a", "-", "\\", "\"">>, <<"c">>>>}
MCNames == {<<"acme", "-", "full">>, <<"a", "-", "\\", "\"", "-", "c">>}
MCProviders == {<<"acme">>}

MCPolicy(name, statements) ==
  Emit([name |-> name, description |-> << >>, statements |-> statements])

MCStatement(effect, glob) == [effect |-> effect, action |-> glob, reason |-> <<"r">>]

MCBundled ==
  (Acme :> MCPolicy(<<"acme", "-", "full">>,
                    <<MCStatement("permit", <<"net", ":", "*", ":", "acme", ".com", "/", "*">>)>>))

\* A file named otherwise that permits all but one host's posts, and one that does not parse.
MCDrafts ==
  {MCPolicy(<<"other">>, <<MCStatement("permit", <<"*">>),
                           MCStatement("forbid", <<"net", ":", "POST", "*">>)>>),
   <<"permit", "(", "action", ";">>}
=============================================================================
