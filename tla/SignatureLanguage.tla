------------------------- MODULE SignatureLanguage -------------------------
(***************************************************************************)
(* The language in which a hook says what its provider signs and where it  *)
(* puts the signature (src/domain/signature/lexer.rs, parser.rs, ast.rs).  *)
(*                                                                         *)
(* An expression is typed token by token.  The parser is a function of the *)
(* tokens; its results are checked against a definition of the expressions *)
(* the language has, and against the printer.  String literals have their  *)
(* own characters: plain ones and the ones the lexer treats apart.         *)
(***************************************************************************)
EXTENDS SignatureExpressions

CONSTANTS
    MaxNodes,       \* MAX_NODES, 512
    Alphabet,       \* the tokens that are typed
    MaxTyped,       \* bound: tokens typed
    MaxExpression,  \* MAX_EXPRESSION_BYTES, 8 KiB
    MaxChars        \* bound: characters of a literal or a source

ASSUME LanguageAssumption == {MaxNodes, MaxTyped, MaxExpression, MaxChars} \subseteq Nat

VARIABLE typed      \* the tokens of the expression so far

(* Tokens: identifiers, string literals, integers and punctuation.         *)
Ident(name) == [t |-> "id", v |-> name]
Text(text) == [t |-> "text", v |-> text]
Integer(n) == [t |-> "int", v |-> n]
Sign(s) == [t |-> s, v |-> s]

----------------------------------------------------------------------------
(* The parser.  A result is an expression with the position behind it and  *)
(* the nodes counted so far, or an error and where it is.                  *)

Parsed(expr, at, nodes) == [ok |-> TRUE, expr |-> expr, at |-> at, nodes |-> nodes]
Failed(why, at) == [ok |-> FALSE, why |-> why, at |-> at]
Here(toks, at, sign) == at <= Len(toks) /\ toks[at].t = sign

CountNode(nodes) == nodes + 1 > MaxNodes

(* validate_path: only blocks the contract defines.                        *)
Supported(path) ==
    LET first == IF path.segments = <<>> THEN [t |-> "none"] ELSE path.segments[1]
        Is(names) == first.t = "key" /\ first.v \in names
    IN  \/ path.root = "request" /\ Is(RequestBlocks)
        \/ path.root = "hook" /\ Len(path.segments) = 1 /\ Is({"id", "url"})
        \/ path.root = "secret" /\ path.segments = <<>>
        \/ path.root = "key" /\ Len(path.segments) = 1 /\ Is({"public"})

(* One segment: .name, ["name"] or [index].                                *)
Segment(toks, at) ==
    IF Here(toks, at, ".")
    THEN IF Here(toks, at + 1, "id") THEN [ok |-> TRUE, s |-> [t |-> "key", v |-> toks[at + 1].v], at |-> at + 2]
         ELSE Failed("unexpected", at + 1)
    ELSE IF Here(toks, at + 1, "text") \/ Here(toks, at + 1, "int")
         THEN IF Here(toks, at + 2, "]")
              THEN [ok |-> TRUE, at |-> at + 3, s |->
                      [t |-> IF toks[at + 1].t = "text" THEN "key" ELSE "index", v |-> toks[at + 1].v]]
              ELSE Failed("unexpected", at + 2)
         ELSE Failed("unexpected", at + 1)

RECURSIVE PathFrom(_, _, _, _, _)
PathFrom(toks, at, path, nodes, start) ==
    IF ~(Here(toks, at, ".") \/ Here(toks, at, "["))
    THEN IF Supported(path) THEN Parsed(path, at, nodes) ELSE Failed("unsupported_path", start)
    ELSE LET segment == Segment(toks, at)
         IN  IF ~segment.ok THEN segment
             ELSE IF CountNode(nodes) THEN Failed("too_many_nodes", segment.at)
             ELSE PathFrom(toks, segment.at, [path EXCEPT !.segments = Append(@, segment.s)],
                           nodes + 1, start)

(* The keyword arguments: name, colon and value.                           *)
Option(toks, at, call, nodes) ==
    LET name == toks[at].v
        given == Here(toks, at + 2, IF name = "separator" THEN "text" ELSE "id")
        value == toks[at + 2].v
    IN  CASE name = "separator" /\ call.function = "join" ->
               IF call.separator # None THEN Failed("duplicate_option", at)
               ELSE IF ~given THEN Failed("unexpected", at + 2)
               ELSE IF value \notin Separators THEN Failed("invalid_separator", at + 2)
               ELSE Parsed([call EXCEPT !.separator = {value}], at + 3, nodes)
          [] name = "order" /\ call.function \in Sorting ->
               IF call.order # None THEN Failed("duplicate_option", at)
               ELSE IF ~given THEN Failed("unexpected", at + 2)
               ELSE IF value \notin Orders THEN Failed("invalid_order", at + 2)
               ELSE Parsed([call EXCEPT !.order = {value}], at + 3, nodes)
          [] OTHER -> Failed("unexpected_option", at)

(* The call with an argument more.                                         *)
Taken(call, argument) ==
    IF argument.ok THEN [argument EXCEPT !.expr = [call EXCEPT !.arguments = Append(@, argument.expr)]]
    ELSE argument
RECURSIVE Expression(_, _, _, _), Arguments(_, _, _, _, _, _), AfterArgument(_, _, _, _)
(* expression(): a literal, a path or a call.                              *)
Expression(toks, at, depth, nodes) ==
    IF depth > MaxDepth THEN Failed("too_deep", at)
    ELSE IF CountNode(nodes) THEN Failed("too_many_nodes", at)
    ELSE IF Here(toks, at, "text") THEN Parsed(Literal(toks[at].v), at + 1, nodes + 1)
    ELSE IF ~Here(toks, at, "id") THEN Failed("unexpected", at)
    ELSE LET name == toks[at].v
         IN  IF ~Here(toks, at + 1, "(")
             THEN IF name \notin Roots THEN Failed("unknown_root", at)
                  ELSE PathFrom(toks, at + 1, Path(name, <<>>), nodes + 1, at)
             ELSE IF name \notin Functions THEN Failed("unknown_function", at)
             ELSE LET call == Call(name, <<>>, None, None)
                  IN  IF Here(toks, at + 2, ")")
                      THEN IF ValidCall(call) THEN Parsed(call, at + 3, nodes + 1)
                           ELSE Failed("arity", at)
                      ELSE Arguments(toks, at + 2, call, depth, nodes + 1, at)
(* argument() until the closing parenthesis.                               *)
Arguments(toks, at, call, depth, nodes, start) ==
    IF Here(toks, at, "id") /\ Here(toks, at + 1, ":")
    THEN AfterArgument(Option(toks, at, call, nodes), toks, depth, start)
    ELSE AfterArgument(Taken(call, Expression(toks, at, depth + 1, nodes)), toks, depth, start)
(* Behind an argument: the next one or the end of the call.                *)
AfterArgument(taken, toks, depth, start) ==
    IF ~taken.ok THEN taken
    ELSE IF Here(toks, taken.at, ",")
         THEN Arguments(toks, taken.at + 1, taken.expr, depth, taken.nodes, start)
    ELSE IF Here(toks, taken.at, ")")
         THEN IF ValidCall(taken.expr) THEN Parsed(taken.expr, taken.at + 1, taken.nodes)
              ELSE Failed("arity", start)
    ELSE Failed("unexpected", taken.at)

(* parse(): the whole of the input is one expression.                      *)
ToTheEnd(result, toks) ==
    IF result.ok /\ result.at <= Len(toks) THEN Failed("unexpected", result.at) ELSE result
Parse(toks) == IF toks = <<>> THEN Failed("empty", 1) ELSE ToTheEnd(Expression(toks, 1, 0, 0), toks)

----------------------------------------------------------------------------
(* The printer (Display).                                                  *)

RECURSIVE PrintSegments(_), Printed(_), PrintAll(_)
PrintSegments(segments) ==
    IF segments = <<>> THEN <<>>
    ELSE LET s == segments[1]
         IN  (IF s.t = "index" THEN <<Sign("["), Integer(s.v), Sign("]")>>
              ELSE IF s.v \in RequestBlocks \cup {"id", "public"} THEN <<Sign("."), Ident(s.v)>>
              ELSE <<Sign("["), Text(s.v), Sign("]")>>)
             \o PrintSegments(Tail(segments))
(* Mutant: options are printed without a comma behind them.                *)
OptionsRun(call) ==
    (IF call.separator = None THEN <<>>
     ELSE <<Ident("separator"), Sign(":"), Text(CHOOSE s \in call.separator : TRUE)>>)
    \o (IF call.order = None THEN <<>>
        ELSE <<Ident("order"), Sign(":"), Ident(CHOOSE o \in call.order : TRUE)>>)
Options(call) ==
    (IF call.separator = None THEN <<>>
     ELSE <<Ident("separator"), Sign(":"), Text(CHOOSE s \in call.separator : TRUE), Sign(",")>>)
    \o (IF call.order = None THEN <<>>
        ELSE <<Ident("order"), Sign(":"), Ident(CHOOSE o \in call.order : TRUE), Sign(",")>>)
PrintAll(exprs) ==
    IF exprs = <<>> THEN <<>>
    ELSE IF Len(exprs) = 1 THEN Printed(exprs[1])
    ELSE Printed(exprs[1]) \o <<Sign(",")>> \o PrintAll(Tail(exprs))
Printed(e) ==
    CASE e.kind = "literal" -> <<Text(e.text)>>
      [] e.kind = "path" -> <<Ident(e.root)>> \o PrintSegments(e.segments)
      [] e.kind = "call" -> <<Ident(e.function), Sign("(")>> \o Options(e)
                            \o PrintAll(e.arguments) \o <<Sign(")")>>

----------------------------------------------------------------------------
(* String literals: quote and lex_string.                                  *)

Chars == {"plain", "quote", "backslash", "newline", "tab", "control"}
(* Characters of a source; inside quotes "\" starts an escape.             *)
Written == {"\"", "\\", "n", "1", "-", ".", "tab", "control"}
Quote(c) ==
    CASE c = "quote" -> <<"\\", "\"">>
      [] c = "backslash" -> <<"\\", "\\">>
      [] c = "newline" -> <<"\\", "n">>
      [] c = "tab" -> <<"\\", "t">>
      [] OTHER -> <<c>>
RECURSIVE Quoted(_), LexString(_)
Quoted(text) == IF text = <<>> THEN <<"\"">> ELSE Quote(Head(text)) \o Quoted(Tail(text))
Escaped == [u \in {"\"", "\\", "n", "t", "u"} |->
    CASE u = "\"" -> "quote" [] u = "\\" -> "backslash" [] u = "n" -> "newline"
      [] u = "t" -> "tab" [] u = "u" -> "control"]
Unread == [ok |-> FALSE, text |-> <<>>, rest |-> <<>>]
(* From behind the opening quote: the text and what follows the closing    *)
(* one, or that there is none.                                             *)
LexString(source) ==
    LET After(rest, c) == LET more == LexString(rest)
                          IN  IF more.ok THEN [more EXCEPT !.text = <<c>> \o @] ELSE Unread
    IN  IF source = <<>> THEN Unread
        ELSE CASE Head(source) = "\"" -> [ok |-> TRUE, text |-> <<>>, rest |-> Tail(source)]
               [] Head(source) = "\\" ->
                    IF Len(source) = 1 \/ source[2] \notin DOMAIN Escaped THEN Unread
                    ELSE After(Tail(Tail(source)), Escaped[source[2]])
               [] Head(source) \in {"newline", "control"} -> Unread
               [] Head(source) \in {"n", "t", "u", "1", "-", "."} -> After(Tail(source), "plain")
               [] OTHER -> After(Tail(source), Head(source))

(* Letters, digits and the hyphens of names such as webhook-id.            *)
Letters == {"n", "t", "u"}
Digits == {"1"}
Blanks == {"tab", "newline"}
RECURSIVE Tokenize(_)
(* A run of characters: as long as they continue it.                       *)
Run(source, continues) ==
    CHOOSE n \in 1 .. Len(source) :
        /\ \A i \in 2 .. n : source[i] \in continues
        /\ n < Len(source) => source[n + 1] \notin continues
Behind(source, n) == SubSeq(source, n + 1, Len(source))
(* tokenize: the spelling of every token, or that there is a character     *)
(* that starts none.                                                       *)
Tokenize(source) ==
    LET Then(token, rest) == LET more == Tokenize(rest)
                             IN  IF more.ok THEN [more EXCEPT !.tokens = <<token>> \o @] ELSE more
        Runs(continues) == LET n == Run(source, continues)
                           IN  Then(SubSeq(source, 1, n), Behind(source, n))
        text == LexString(Tail(source))
    IN  IF source = <<>> THEN [ok |-> TRUE, tokens |-> <<>>]
        ELSE CASE Head(source) \in Blanks -> Tokenize(Tail(source))
               [] Head(source) = "." -> Then(<<".">>, Tail(source))
               [] Head(source) = "\"" ->
                    IF text.ok THEN Then(SubSeq(source, 1, Len(source) - Len(text.rest)), text.rest)
                    ELSE [ok |-> FALSE, tokens |-> <<>>]
               [] Head(source) \in Digits -> Runs(Digits)
               [] Head(source) \in Letters -> Runs(Letters \cup Digits \cup {"-"})
               [] OTHER -> [ok |-> FALSE, tokens |-> <<>>]
Lex(source) == IF Len(source) > MaxExpression THEN [ok |-> FALSE, tokens |-> <<>>] ELSE Tokenize(source)

----------------------------------------------------------------------------
(* Typing an expression.  One that failed before its last token is not     *)
(* continued.                                                              *)

LanguageInit == typed = <<>>
MayGoOn(result) == result.ok \/ result.at >= Len(typed)
Type(token) ==
    /\ Len(typed) < MaxTyped
    /\ MayGoOn(Parse(typed))
    /\ typed' = Append(typed, token)
LanguageNext == \E token \in Alphabet : Type(token)
LanguageSpec == LanguageInit /\ [][LanguageNext]_typed

----------------------------------------------------------------------------
(* The expressions of the language, by themselves.                         *)

RECURSIVE Depth(_), Size(_), WellFormed(_)
MaxOf(f) == IF DOMAIN f = {} THEN 0
            ELSE CHOOSE m \in {f[i] : i \in DOMAIN f} : \A i \in DOMAIN f : f[i] <= m
RECURSIVE Total(_)
Total(s) == IF s = <<>> THEN 0 ELSE Head(s) + Total(Tail(s))
Depth(e) == IF e.kind # "call" THEN 0
            ELSE 1 + MaxOf([i \in DOMAIN e.arguments |-> Depth(e.arguments[i])])
Size(e) == CASE e.kind = "literal" -> 1
             [] e.kind = "path" -> 1 + Len(e.segments)
             [] OTHER -> 1 + Total([i \in DOMAIN e.arguments |-> Size(e.arguments[i])])
WellFormed(e) ==
    CASE e.kind = "literal" -> TRUE
      [] e.kind = "path" ->
           /\ e.root \in Roots
           /\ \/ /\ e.root = "request" /\ e.segments # <<>>
                 /\ e.segments[1].t = "key" /\ e.segments[1].v \in RequestBlocks
              \/ e.root = "secret" /\ e.segments = <<>>
              \/ <<e.root, e.segments>> \in
                    {<<"hook", <<[t |-> "key", v |-> "id"]>>>>, <<"hook", <<[t |-> "key", v |-> "url"]>>>>,
                     <<"key", <<[t |-> "key", v |-> "public"]>>>>}
      [] OTHER ->
           /\ e.arguments # <<>> /\ \A i \in DOMAIN e.arguments : WellFormed(e.arguments[i])
           /\ Len(e.arguments) > 1 => e.function \in {"concat", "join"}
           /\ (e.separator # None) = (e.function = "join")
           /\ e.order # None => e.function \in {"sort", "sort_keys"}
           /\ e.separator \subseteq Separators /\ e.order \subseteq Orders
Accepted(e) == WellFormed(e) /\ Depth(e) <= MaxDepth /\ Size(e) <= MaxNodes

(* Small expressions, right and wrong.                                     *)
Keys == {[t |-> "key", v |-> k] : k \in {"headers", "id", "zz"}} \cup {[t |-> "index", v |-> 0]}
Leaves == {Literal(".")} \cup
    {Path(r, s) : r \in {"request", "hook", "secret"},
                  s \in {<<>>} \cup {<<k>> : k \in Keys} \cup {<<a, b>> : a, b \in Keys}}
Calls(arguments) ==
    {Call(f, a, s, o) : f \in {"concat", "join", "sort", "hex"}, a \in arguments,
                        s \in {None, {"."}}, o \in {None, {"asc"}}}
Lists(leaves) == {<<>>} \cup {<<e>> : e \in leaves} \cup {<<a, b>> : a, b \in leaves}
Few == {Literal("."), Path("secret", <<>>),
        Path("request", <<[t |-> "key", v |-> "headers"], [t |-> "key", v |-> "zz"]>>)}
Nested(e, n) == LET f[k \in 0 .. n] == IF k = 0 THEN e ELSE Call("hex", <<f[k - 1]>>, None, None)
                IN  f[n]
SmallExpressions ==
    Leaves \cup Calls(Lists(Few)) \cup Calls(Lists(Calls(Lists({Literal(".")})) \cup {Literal(".")}))
    \cup {Nested(e, n) : e \in Few, n \in 0 .. MaxDepth + 2}

IsReadRightly(result, e) == IF Accepted(e) THEN result.ok /\ result.expr = e ELSE ~result.ok
(* An expression is accepted exactly if it is one of the language: known   *)
(* blocks, arities, options and separators, within the depth and the       *)
(* nodes; and it is read as what was written.                              *)
AcceptsExactlyTheLanguage ==
    typed = <<>> =>
        \A e \in SmallExpressions :
            IsReadRightly(Parse(Printed(e)), e)

(* Whatever is typed, what the parser makes of it is in the language, the  *)
(* nodes are the ones it counted, and its text reads back as the same.     *)
IsReadBack(result) ==
    result.ok => /\ Accepted(result.expr) /\ result.nodes = Size(result.expr)
                 /\ IsReadRightly(Parse(Printed(result.expr)), result.expr)
ReadsBack == IsReadBack(Parse(typed))

(* A literal is quoted so that it reads back, unless it holds a control    *)
(* character that only an escape can write.                                *)
QuotedReadsBack ==
    typed = <<>> =>
        \A n \in 0 .. MaxChars : \A text \in [1 .. n -> Chars] :
            LexString(Quoted(text)) = IF \E i \in 1 .. n : text[i] = "control" THEN Unread
                                      ELSE [ok |-> TRUE, text |-> text, rest |-> <<>>]

RECURSIVE Spelling(_), Unspaced(_, _)
Spelling(tokens) == IF tokens = <<>> THEN <<>> ELSE Head(tokens) \o Spelling(Tail(tokens))
(* A source without the blanks outside its literals.                       *)
Unspaced(source, quoted) ==
    IF source = <<>> THEN <<>>
    ELSE LET c == Head(source)
             more == Unspaced(Tail(source), IF c = "\"" THEN ~quoted ELSE quoted)
         IN  IF quoted /\ c = "\\" /\ Len(source) > 1
             THEN SubSeq(source, 1, 2) \o Unspaced(Tail(Tail(source)), quoted)
             ELSE IF ~quoted /\ c \in Blanks THEN more ELSE <<c>> \o more
(* The tokens are all of the source: nothing but blanks is skipped, taken  *)
(* twice or read into a neighbour; names and numbers are as long as can be. *)
NothingIsLost ==
    typed = <<>> =>
        \A n \in 0 .. MaxChars : \A source \in [1 .. n -> Written] :
            LET result == Lex(source)
            IN  result.ok => /\ Spelling(result.tokens) = Unspaced(source, FALSE)
                             /\ n > 1 /\ (\A i \in 1 .. n : source[i] \in Letters \cup Digits \cup {"-"})
                                /\ source[1] \in Letters => result.tokens = <<source>>

(* Text and structure agree in both directions: exactly what the printer   *)
(* writes of the language is accepted, and it is read as what was written; *)
(* for expressions, for literals, and for the tokens of any source.        *)
TextReadsBack == AcceptsExactlyTheLanguage /\ ReadsBack /\ QuotedReadsBack /\ NothingIsLost
=============================================================================
