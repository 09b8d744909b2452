------------------------ MODULE SignatureExpressions ------------------------
(***************************************************************************)
(* The expressions of the signature language, as the parser leaves them    *)
(* (src/domain/signature/ast.rs): what the language and the check of       *)
(* signatures have in common.                                              *)
(***************************************************************************)
EXTENDS Naturals, Sequences, FiniteSets

CONSTANT MaxDepth       \* MAX_DEPTH, 32

ASSUME DepthAssumption == MaxDepth \in Nat

Variadic == {"concat", "join"}
Orders == {"asc", "desc"}
Sorting == {"sort", "sort_keys"}
Functions == Variadic \cup Sorting \cup
    {"utf8", "ascii", "url_encode", "url_decode", "percent_encode", "percent_decode",
     "canonicalize_url", "canonicalize_query", "json_encode", "form_encode",
     "sha1", "sha256", "sha384", "sha512", "hex", "hex_decode", "base64", "base64_decode",
     "base64url", "base64url_decode", "lowercase", "uppercase", "trim"}
Separators == {"", ".", ":", ",", ";", "\n", " "}
Roots == {"request", "hook", "secret", "key"}
RequestBlocks == {"raw_body", "raw_body_bytes", "body", "form", "multipart", "method", "url",
    "scheme", "authority", "host", "hostname", "port", "path", "query_string", "query",
    "headers", "cookies"}

Literal(text) == [kind |-> "literal", text |-> text]
Path(root, segments) == [kind |-> "path", root |-> root, segments |-> segments]
Call(f, arguments, separator, order) ==
    [kind |-> "call", function |-> f, arguments |-> arguments,
     separator |-> separator, order |-> order]
None == {}      \* an option that is not given; {s} is one that is

(* validate_call: arity and required options.                              *)
ValidCall(call) ==
    /\ Len(call.arguments) >= 1
    /\ call.function \in Variadic \/ Len(call.arguments) = 1
    /\ call.function = "join" => call.separator # None

(* The expressions whose calls nest at most n deep: those that were parsed *)
(* and not rejected as too deep.                                           *)
Segments == [t : {"key"}, v : STRING] \cup [t : {"index"}, v : Nat]
LeafExpressions ==
    [kind : {"literal"}, text : STRING] \cup [kind : {"path"}, root : Roots, segments : Seq(Segments)]
CallsOn(arguments) ==
    {call \in [kind : {"call"}, function : Functions, arguments : Seq(arguments),
               separator : SUBSET Separators, order : SUBSET Orders] : ValidCall(call)}
ExpressionsTo[n \in 0 .. MaxDepth] ==
    IF n = 0 THEN LeafExpressions ELSE LeafExpressions \cup CallsOn(ExpressionsTo[n - 1])
=============================================================================
