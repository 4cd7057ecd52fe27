------------------------------ MODULE Templates ------------------------------
(***************************************************************************)
(* Templates (crates/closedshell-lib/src/template.rs and the template      *)
(* commands of main.rs): what a session logs is codified as a .csp file,   *)
(* files are scaffolded, written by hand, listed, resolved and loaded into *)
(* the tree of a session.                                                  *)
(*                                                                         *)
(* A template is at <<dir, file>> of the user's directory or among the     *)
(* bundled ones.  The working directory holds no template, so a name never *)
(* names a file of it.  A request is origin-form.  What its host, path and *)
(* method hold is the agent's choice: glob signs and colons among it.      *)
(***************************************************************************)
EXTENDS PermissionRules, ActionParser, CspFormat

CONSTANTS
  Signed,      \* symbols that glob_match does not read as they are: they hold ? { \ or begin with !
  OddMatches,  \* what glob_match makes of patterns with such symbols: <<pattern, action>>
  Logged,      \* what a session may log: [req, result]
  MaxLog,      \* bound on the decisions logged
  Bundled,     \* the files compiled in: place -> text
  Place,       \* the places the user's directory may have
  Names,       \* what --name is given
  Providers,   \* what init is given
  Drafts,      \* the texts a human writes
  MaxLoads     \* bound on the templates of a session

\* The name of a template, and what generate and init write besides the format's words.
NameOf(place) == place[1] \o <<"-">> \o place[2]

Written ==
  {"net", ":", "/", "-", "full", "Auto-generated", "Allow", "]", "aws", "[profile=", "s3", "ec2",
   "Describe", "sts", "gcp", "[project=", "storage", "compute", "management.azure.com",
   "login.microsoftonline.com", "api.github.com", "github.com", ".com"}

\* A canonical action is text with a colon; init does not escape its provider; the files
\* compiled in bear their places' names.
ASSUME TemplatesAssumption ==
  /\ MaxLog \in Nat /\ MaxLoads \in Nat
  /\ \A e \in Logged : e.req \in Requests
  /\ \A a \in Action : a \in Seq(Symbol) /\ Position(a, ":") # {}
  /\ \A req \in Requests : Canonical[req] \in Action
  /\ Written \subseteq Symbol /\ "*" \notin Signed
  /\ Names \subseteq Seq(Symbol) \ {<< >>} /\ Providers \subseteq Seq(Symbol \ Sign)
  /\ Drafts \subseteq Seq(Symbol)
  /\ \A place \in DOMAIN Bundled :
       /\ Bundled[place] \in Seq(Symbol)
       /\ \A p \in Parse(Bundled[place]) : p.name = NameOf(place)

ASSUME RequestsAssumption ==
  \A req \in Requests :
    /\ req.method \in Symbol /\ req.key \in Symbol
    /\ req.host \in Seq(Symbol) \ {<< >>}
    /\ req.path \in Seq(Symbol) /\ req.query \in Seq(Symbol) /\ req.target \in Seq(Symbol)

VARIABLES
  log,      \* the decisions of a session's log
  files,    \* the user's templates: place -> text
  made,     \* history: place -> the decisions it was generated from
  loaded,   \* the texts loaded into a session, in order
  tree      \* the session's rules

vars == <<log, files, made, loaded, tree>>

(***************************************************************************)
(* Globs, and what generate makes of the actions.                          *)
(***************************************************************************)
\* A star that is a whole component of the pattern, with more behind it.
Component(pattern, i) ==
  /\ i < Len(pattern) /\ pattern[i + 1] = "/"
  /\ i = 1 \/ pattern[i - 1] = "/"

\* A star is promoted to **, which reaches over "/" only at the end or as a component.
Reaches(pattern, i, a, j, k) ==
  j <= k /\ (i = Len(pattern) \/ Component(pattern, i) \/ \A m \in j .. k - 1 : a[m] # "/")

\* For each symbol of the pattern on, where in a what is left of it may start.  A
\* component may stand for nothing, its "/" included.  Brackets are literal.
Fits(pattern, a) ==
  LET from[i \in 1 .. Len(pattern) + 1] ==
        IF i > Len(pattern) THEN {Len(a) + 1}
        ELSE IF pattern[i] = "*" THEN
          {j \in 1 .. Len(a) + 1 :
             \/ \E k \in from[i + 1] : Reaches(pattern, i, a, j, k)
             \/ Component(pattern, i) /\ j \in from[i + 2]}
        ELSE {j \in 1 .. Len(a) : a[j] = pattern[i] /\ j + 1 \in from[i + 1]}
  IN from

\* No sign but stars, none beside another.
Plain(pattern) ==
  \A i \in DOMAIN pattern :
    pattern[i] \notin Signed /\ (i < Len(pattern) => {pattern[i], pattern[i + 1]} # {"*"})

Glob(pattern, a) ==
  IF Plain(pattern) THEN 1 \in Fits(pattern, a)[1] ELSE <<pattern, a>> \in OddMatches

Matched(pattern) == {a \in Action : Glob(pattern, a)}

HostGlob(host) == <<"net", ":", "*", ":">> \o host \o <<"/", "*">>

\* The host of net:METHOD:host/path.
NetHost(a) == SubSeq(a, 5, Min(Position(a, "/") \cup {Len(a) + 1}) - 1)

\* provider:...:operation without the operation.
Prefix(a) == SubSeq(a, 1, LastColon(a) - 1)

Grouped(a) == a[1] \in {"aws", "gcp", "azure", "k8s"} /\ LastColon(a) < Len(a)

Collapsed(actions) ==
  LET nets   == {a \in actions : a[1] = "net"}
      groups == {a \in actions : Grouped(a)}
      Alone(a) == \A b \in groups : Prefix(b) = Prefix(a) => b = a
  IN {HostGlob(NetHost(a)) : a \in nets}
       \cup {IF Alone(a) THEN a ELSE Prefix(a) \o <<":", "*">> : a \in groups}
       \cup (actions \ (nets \cup groups))

\* result.contains("allow"): generate takes a denial whose reason contains it for one, too.
Misread(e) == e.result = "deny: not allowed"

ReadsAllowed(e) == e.result = "allow" \/ Misread(e)

Codified(decisions) == {Canonical[e.req] : e \in {d \in decisions : ReadsAllowed(d)}}

Permits(globs) ==
  LET s == SetToSeq(globs)
  IN [i \in DOMAIN s |-> [effect |-> "permit", action |-> s[i], reason |-> NoReason]]

Generation(name, decisions) ==
  [name |-> name, description |-> <<"Auto-generated">>,
   statements |-> Permits(Collapsed(Codified(decisions)))]

Generated(name, decisions) == Emit(Generation(name, decisions))

ScaffoldGlobs(provider) ==
  LET Of(head, ends) == {head \o e : e \in ends}
  IN CASE provider = <<"aws">> ->
            Of(<<"aws", "[profile=", "*", "]", ":">>,
               {<<"s3", ":", "*">>, <<"ec2", ":", "Describe", "*">>, <<"sts", ":", "*">>})
       [] provider = <<"gcp">> ->
            Of(<<"gcp", "[project=", "*", "]", ":">>,
               {<<"storage", ":", "*">>, <<"compute", ":", "*">>})
       [] provider = <<"azure">> ->
            {HostGlob(<<"management.azure.com">>), HostGlob(<<"login.microsoftonline.com">>)}
       [] provider = <<"github">> -> {HostGlob(<<"api.github.com">>), HostGlob(<<"github.com">>)}
       [] OTHER -> {HostGlob(provider \o <<".com">>)}

Scaffolding(provider) ==
  [name |-> provider \o <<"-", "full">>, description |-> <<"Allow">>,
   statements |-> Permits(ScaffoldGlobs(provider))]

Scaffold(provider) == Emit(Scaffolding(provider))

(***************************************************************************)
(* The texts that the commands and a human write, and what each reads as.  *)
(***************************************************************************)
Texts ==
  Drafts \cup {Bundled[f] : f \in DOMAIN Bundled} \cup {Scaffold(p) : p \in Providers}
    \cup {Generated(name, decisions) :
            name \in Names, decisions \in {d \in SUBSET Logged : IsFiniteSet(d) /\ Cardinality(d) <= MaxLog}}

Read == [text \in Texts |-> Parse(text)]

(***************************************************************************)
(* What the commands find.                                                 *)
(***************************************************************************)
\* resolve of dir/file: the user's file, else the bundled one; {} = not found.
Resolve(place) ==
  IF place \in DOMAIN files THEN {files[place]}
  ELSE IF place \in DOMAIN Bundled THEN {Bundled[place]} ELSE {}

Rows(store) ==
  UNION {{[name |-> p.name, place |-> f, policy |-> p] : p \in Read[store[f]]} :
           f \in DOMAIN store}

\* Mutant of Listed: the bundled ones are inserted last.
ListedBundledLast ==
  Rows(Bundled) \cup {r \in Rows(files) : \A b \in Rows(Bundled) : b.name # r.name}

\* The rows that list may show: by name, a user's one for a bundled one.  Of two
\* user's files with one name the directory's order decides.
Listed ==
  Rows(files) \cup {b \in Rows(Bundled) : \A r \in Rows(files) : r.name # b.name}

\* validate reports nothing.
Valid(policy) ==
  /\ policy.name # << >> /\ policy.statements # << >>
  /\ \A st \in ToSet(policy.statements) :
       st.action # << >> /\ (st.effect = "forbid" => st.reason # NoReason)

\* Mutant of Check: the first statement that matches answers.
CheckFirst(text, a) ==
  LET hits(p) == SelectSeq(p.statements, LAMBDA st : Glob(st.action, a))
  IN {IF hits(p) = << >> THEN "no match" ELSE Head(hits(p)).effect : p \in Read[text]}

Check(text, a) ==
  LET Hit(p, effect) ==
        \E st \in ToSet(p.statements) : st.effect = effect /\ Glob(st.action, a)
  IN {IF Hit(p, "forbid") THEN "forbid" ELSE IF Hit(p, "permit") THEN "permit" ELSE "no match" :
        p \in Read[text]}

Checked == [text \in Texts |-> [a \in Action |-> Check(text, a)]]

(***************************************************************************)
(* The commands.                                                           *)
(***************************************************************************)
Init ==
  /\ log = {} /\ files = << >> /\ made = << >> /\ loaded = << >> /\ tree = {}

\* A session decides on a request and logs it.
Decide(e) ==
  /\ Cardinality(log) < MaxLog
  /\ log' = log \cup {e}
  /\ UNCHANGED <<files, made, loaded, tree>>

With(f, place, value) ==
  [x \in DOMAIN f \cup {place} |-> IF x = place THEN value ELSE f[x]]

Without(f, place) == [x \in DOMAIN f \ {place} |-> f[x]]

Put(place, text) ==
  /\ files' = With(files, place, text)
  /\ UNCHANGED <<log, loaded, tree>>

\* Mutant of SavePlace: the name is split at its first dash.
SaveAtFirst(name) ==
  LET dash == Min(Position(name, "-") \cup {Len(name) + 1})
  IN <<SubSeq(name, 1, dash - 1), SubSeq(name, dash + 1, Len(name))>>

SavePlace(name) ==
  IF Position(name, "-") = {} THEN <<name, <<"full">>>>
  ELSE LET dash == Max(Position(name, "-"))
       IN <<SubSeq(name, 1, dash - 1), SubSeq(name, dash + 1, Len(name))>>

\* template generate --name --save: writes over what is there.
Generate(name) ==
  /\ Codified(log) # {}
  /\ Put(SavePlace(name), Generated(name, log))
  /\ made' = With(made, SavePlace(name), log)

\* template init: refuses what exists.
InitTemplate(provider) ==
  LET place == <<provider, <<"full">>>>
  IN /\ place \notin DOMAIN files
     /\ Put(place, Scaffold(provider))
     /\ UNCHANGED made

\* A human writes a file or removes one.
Write(place, text) == Put(place, text) /\ made' = Without(made, place)

Delete(place) ==
  /\ place \in DOMAIN files
  /\ files' = Without(files, place)
  /\ made' = Without(made, place)
  /\ UNCHANGED <<log, loaded, tree>>

\* The rules of a policy's globs, for load_template.
RulesOf(policy) ==
  TemplateRules([name |-> policy.name, statements |->
    [i \in DOMAIN policy.statements |->
       [policy.statements[i] EXCEPT !.action = Matched(@)]]])

\* cs --template dir/file: a start that finds no policy ends there.
Load(place) ==
  /\ Len(loaded) < MaxLoads
  /\ \E text \in Resolve(place) : \E p \in Read[text] :
       /\ loaded' = Append(loaded, text)
       /\ tree' = tree \cup Placed(RulesOf(p), Cardinality(tree) + 1)
  /\ UNCHANGED <<log, files, made>>

Next ==
  \/ \E e \in Logged : Decide(e)
  \/ \E name \in Names : Generate(name)
  \/ \E provider \in Providers : InitTemplate(provider)
  \/ \E place \in Place, text \in Drafts : Write(place, text)
  \/ \E place \in Place : Delete(place)
  \/ \E place \in Place \cup DOMAIN Bundled : Load(place)

Spec == Init /\ [][Next]_vars

(***************************************************************************)
(* Properties.                                                             *)
(***************************************************************************)
\* The commands put templates where resolve looks for them, and a session holds
\* at most its templates' rules.
TypeOK ==
  /\ log \subseteq Logged
  /\ DOMAIN files \subseteq Place /\ DOMAIN made \subseteq DOMAIN files
  /\ \A place \in DOMAIN made : made[place] \subseteq log
  /\ Len(loaded) <= MaxLoads
  /\ \A r \in tree : r.effect \in Effect /\ r.action \subseteq Action

\* Requests that write no sign of an action or a glob where a name belongs: a path
\* /repos/{x}, a namespace * or a segment with a colon is none of them.
Word == Symbol \ {":", "/", "*", "]"}

Tame ==
  {req \in Requests :
    /\ req.method \in Word /\ req.key \in Word
    /\ req.host \in Seq(Word) /\ req.path \in Seq(Word)
    /\ req.query \in Seq(Word) /\ req.target \in Seq(Word)
    /\ \A i \in DOMAIN Canonical[req] : Canonical[req][i] \notin Signed \cup {"*"}}

\* A request that the generated globs let through is one of a host the log shows
\* (one AWS service has several), or of a k8s namespace and resource it shows.
SameUse(r, q) ==
  \/ Domain(r) = Domain(q) /\ Head(r.host) = Head(q.host)
  \/ /\ Canonical[r][1] = "k8s" /\ Canonical[q][1] = "k8s"
     /\ Prefix(Canonical[r]) = Prefix(Canonical[q])

\* A file that generate saved is one that validate accepts under the name it was
\* given, whatever the log holds; it permits, escaped, parsed and matched, every tame
\* request it was generated from that was allowed; and if all it codified is tame, no
\* tame request of another host or namespace than those logged as allowed or misread
\* as such.  A logged action with signs may miss itself or permit others (template.rs,
\* action_glob_match).
SavedFits ==
  \A place \in DOMAIN made :
    /\ \E p \in Read[files[place]] : Valid(p) /\ SavePlace(p.name) = place
    /\ \A e \in made[place] :
         e.result = "allow" /\ e.req \in Tame =>
           Checked[files[place]][Canonical[e.req]] = {"permit"}
    /\ (\A e \in made[place] : ReadsAllowed(e) => e.req \in Tame) =>
         \A r \in Tame :
           Checked[files[place]][Canonical[r]] = {"permit"} =>
             \E e \in made[place] : (e.result = "allow" \/ Misread(e)) /\ SameUse(r, e.req)

\* What "template check" says of the texts one by one is what the tree answers
\* that they were all loaded into, in any order: forbidden if one forbids, else
\* allowed if one permits (main.rs, load_template).
CheckAgrees ==
  \A a \in Action :
    LET said == UNION {Checked[t][a] : t \in ToSet(loaded)}
    IN Outcome(tree, a, 0) =
         IF "forbid" \in said THEN "forbidden"
         ELSE IF "permit" \in said THEN "allow" ELSE "no match"

\* While the user's files are well-formed and named after their places, what
\* list shows under dir-file is what --template dir/file loads.
ListedIsResolved ==
  (\A f \in DOMAIN files : \E p \in Read[files[f]] : p.name = NameOf(f)) =>
    \A r \in Listed : \A text \in Resolve(r.place) : Read[text] = {r.policy}

Verb == {"get", "list", "watch", "create", "insert", "update", "patch", "delete"}

\* Outside AWS, where the agent names the operation, two tame requests with one action
\* have one HTTP method, unless a method is spelled as a verb of the parsers ("patch"
\* and PATCH are one).  The method is all that is kept: a pod and its exec, or every
\* POST to /graphql, are one action.  Of S3's own operations the risk is safe exactly
\* for a read and dangerous exactly for a delete (parser.rs, risk.rs).
VerbKept ==
  /\ \A d, e \in {l \in log : l.req \in Tame} :
       Canonical[d.req] = Canonical[e.req] /\ Canonical[d.req][1] # "aws" =>
         d.req.method = e.req.method \/ {d.req.method, e.req.method} \cap Verb # {}
  /\ \A e \in {l \in log : l.req \in Tame} :
       Within(e.req, "amazonaws.com") /\ Head(e.req.host) = "s3" /\ e.req.query = << >> /\ e.req.target = << >> =>
         LET risk == ClassifyRisk(Canonical[e.req])
         IN /\ risk = "safe" <=> e.req.method \in {"GET", "HEAD"}
            /\ risk = "dangerous" <=> e.req.method = "DELETE"
=============================================================================
