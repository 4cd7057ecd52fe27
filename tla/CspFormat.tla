------------------------------ MODULE CspFormat ------------------------------
(***************************************************************************)
(* The .csp format of a policy: parse and emit of                          *)
(* crates/closedshell-lib/src/template.rs.                                 *)
(*                                                                         *)
(* A file is a sequence of symbols.  Blanks and comments between symbols   *)
(* are left out, an error has no message, and the string of an annotation  *)
(* or a reason is not empty.  Strings are ASCII: the parser reads bytes.   *)
(***************************************************************************)
EXTENDS Naturals, Sequences, SequencesExt

CONSTANT Symbol     \* the symbols of texts

Quote     == "\""
Backslash == "\\"
Semicolon == ";"

\* The signs that are escaped.
Sign == {Quote, Backslash}

\* What the format itself writes, and what stands for a line's end and any action.
Syntax ==
  Sign \cup {"@", "name", "description", "(", ")", Semicolon, "permit", "forbid", "action", "==",
             "reason", "newline", "*"}

ASSUME SymbolAssumption == Syntax \subseteq Symbol

NoReason == << >>

Statement == [effect: {"permit", "forbid"}, action: Seq(Symbol), reason: Seq(Symbol)]

Policy == [name: Seq(Symbol), description: Seq(Symbol), statements: Seq(Statement)]

\* Mutant of Escape: quotes are escaped, backslashes are not.
EscapeQuotes(s) ==
  FlattenSeq([i \in DOMAIN s |-> IF s[i] = Quote THEN <<Backslash, s[i]>> ELSE <<s[i]>>])

Escape(s) ==
  FlattenSeq([i \in DOMAIN s |->
    IF s[i] \in Sign THEN <<Backslash, s[i]>> ELSE <<s[i]>>])

Literal(s) == <<Quote>> \o Escape(s) \o <<Quote>>

Bracketed(s) == <<"(">> \o Literal(s) \o <<")">>

Annotation(key, value) == IF value = << >> THEN << >> ELSE <<"@", key>> \o Bracketed(value)

Clause(reason) == IF reason = NoReason THEN << >> ELSE <<"reason">> \o Bracketed(reason)

EmitStatement(st) ==
  <<st.effect, "(", "action", "==">> \o Literal(st.action) \o <<")">> \o Clause(st.reason) \o <<Semicolon>>

Emit(policy) ==
  Annotation("name", policy.name) \o Annotation("description", policy.description)
    \o FlattenSeq([i \in DOMAIN policy.statements |-> EmitStatement(policy.statements[i])])

(***************************************************************************)
(* Parsing.  A part that is read returns where the next one starts, and 0  *)
(* when the text is not as expected.                                       *)
(***************************************************************************)
At(t, i, symbol) == i \in DOMAIN t /\ t[i] = symbol

Nothing == [next |-> 0, value |-> << >>]

\* \n is a newline, which emit writes as it is; another escape keeps its backslash.
Unescaped(c) ==
  IF c \in Sign THEN <<c>>
  ELSE IF c = "n" THEN <<"newline">> ELSE <<Backslash, c>>

Onto(s, r) == IF r.next = 0 THEN r ELSE [r EXCEPT !.value = s \o @]

\* What is read of a string from each symbol on, up to its closing quote.
StringFrom(t) ==
  LET body[i \in 1 .. Len(t) + 1] ==
        IF i > Len(t) THEN Nothing
        ELSE IF t[i] = Quote THEN [next |-> i + 1, value |-> << >>]
        ELSE IF t[i] # Backslash THEN Onto(<<t[i]>>, body[i + 1])
        ELSE IF i = Len(t) THEN Nothing
        ELSE Onto(Unescaped(t[i + 1]), body[i + 2])
  IN body

ReadString(t, start) == IF At(t, start, Quote) THEN StringFrom(t)[start + 1] ELSE Nothing

Closed(t, r) == IF At(t, r.next, ")") THEN [r EXCEPT !.next = @ + 1] ELSE Nothing

\* "(" string ")" from i on.
ReadArgument(t, i) == IF At(t, i, "(") THEN Closed(t, ReadString(t, i + 1)) ELSE Nothing

\* Of several reasons the last one stays.
Reasoned(reason, rest) ==
  IF rest.next # 0 /\ rest.value = NoReason THEN [rest EXCEPT !.value = reason] ELSE rest

\* The clauses from each symbol on, up to ";".
ClausesFrom(t) ==
  LET from[i \in 0 .. Len(t) + 1] ==
        LET On(r) == Reasoned(r.value, from[r.next])
        IN IF At(t, i, Semicolon) THEN [next |-> i + 1, value |-> NoReason]
           ELSE IF At(t, i, "reason") THEN On(ReadArgument(t, i + 1)) ELSE Nothing
  IN from

ReadClauses(t, start) == ClausesFrom(t)[start]

\* A bare action is "*".
ReadScope(t, i) ==
  IF At(t, i, "==") THEN Closed(t, ReadString(t, i + 1))
  ELSE Closed(t, [next |-> i, value |-> <<"*">>])

\* permit or forbid of "(" "action" [ "==" string ] ")" clauses.
ReadStatement(t, i) ==
  LET Joined(scope, clauses) ==
        IF clauses.next = 0 THEN Nothing
        ELSE [next |-> clauses.next,
              value |-> <<[effect |-> t[i], action |-> scope.value, reason |-> clauses.value]>>]
      Of(scope) == Joined(scope, ReadClauses(t, scope.next))
  IN IF At(t, i + 1, "(") /\ At(t, i + 2, "action") THEN Of(ReadScope(t, i + 3)) ELSE Nothing

\* The policy from each symbol on, {} when that does not parse.  Of two annotations
\* with one key the last stays.
PolicyFrom(t) ==
  LET from[i \in 0 .. Len(t) + 1] ==
        LET Annotated(key, r) ==
              {IF p[key] # << >> THEN p ELSE [p EXCEPT ![key] = r.value] : p \in from[r.next]}
            Stated(r) == {[p EXCEPT !.statements = r.value \o @] : p \in from[r.next]}
        IN IF i > Len(t) THEN {[name |-> << >>, description |-> << >>, statements |-> << >>]}
           ELSE IF At(t, i, "@") /\ (At(t, i + 1, "name") \/ At(t, i + 1, "description")) THEN
             Annotated(t[i + 1], ReadArgument(t, i + 2))
           ELSE IF At(t, i, "permit") \/ At(t, i, "forbid") THEN Stated(ReadStatement(t, i))
           ELSE {}
  IN from

\* {} when the file does not parse.
Parse(t) == PolicyFrom(t)[1]
=============================================================================
