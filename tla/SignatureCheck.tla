--------------------------- MODULE SignatureCheck ---------------------------
(***************************************************************************)
(* What an expression of the signature language is worth for a request,    *)
(* and whether a request's signature is the one its provider would give    *)
(* (src/domain/signature/value.rs, eval.rs, verify.rs, config.rs, keys.rs). *)
(*                                                                         *)
(* Text and bytes are sequences of characters; "ff" is a byte that is not  *)
(* UTF-8.  An encoding writes a byte as a mark and the byte's name; a      *)
(* digest starts with "ff" and holds what it was made from, a signature is *)
(* a term: decoding, equality and UTF-8 come out as they should.           *)
(***************************************************************************)
EXTENDS SignatureExpressions

CONSTANTS
    Characters,     \* what text is written in
    MaxCandidates,  \* MAX_SIGNATURE_CANDIDATES, 16
    MaxPresented,   \* MAX_PRESENTED_SIGNATURE_BYTES, 8 KiB
    MaxLabel,       \* the longest label, 16
    MaxNesting      \* serde_json's limit on nested values, 128

ASSUME CheckAssumption ==
    /\ {" ", ","} \subseteq Characters
    /\ {MaxCandidates, MaxPresented, MaxLabel, MaxNesting} \subseteq Nat /\ MaxLabel > 0

VARIABLES
    case,       \* a request, a hook's configuration and key, and the provider
    outcome     \* what verify said

checkVars == <<case, outcome>>

----------------------------------------------------------------------------
(* Values.                                                                 *)

Value(type, chars) == [type |-> type, chars |-> chars]
ListOf(items) == [type |-> "list", items |-> items]
ObjectOf(members) == [type |-> "object", members |-> members]
Null == Value("null", <<>>)
Ok(value) == [ok |-> TRUE, value |-> value]
Error(why) == [ok |-> FALSE, why |-> why]
Utf8(chars) == \A i \in DOMAIN chars : chars[i] # "ff"
Scalar == {"boolean", "number", "text", "bytes"}

(* Mutant: what is absent counts as nothing.                               *)
IntoBytesOrNothing(v) == IF v.type \in Scalar \cup {"null"} THEN Ok(v.chars) ELSE Error("type")
(* into_bytes and into_text.                                               *)
IntoBytes(v) == CASE v.type = "null" -> Error("missing")
                  [] v.type \in Scalar -> Ok(v.chars)
                  [] OTHER -> Error("type")
IntoText(v) == LET bytes == IntoBytes(v)
               IN  IF bytes.ok /\ v.type = "bytes" /\ ~Utf8(v.chars) THEN Error("utf8") ELSE bytes

(* member and element: what is not there is null, in a scalar an error.    *)
Find(members, key) ==
    IF \E i \in DOMAIN members : members[i][1] = key
    THEN members[CHOOSE i \in DOMAIN members : /\ members[i][1] = key
                                               /\ \A j \in 1 .. i - 1 : members[j][1] # key][2]
    ELSE Null
Member(v, segment) ==
    CASE v.type = "null" -> Ok(Null)
      [] segment.t = "key" /\ v.type = "object" -> Ok(Find(v.members, <<segment.v>>))
      [] segment.t = "index" /\ v.type = "list" ->
           Ok(IF segment.v < Len(v.items) THEN v.items[segment.v + 1] ELSE Null)
      [] OTHER -> Error("not_indexable")

(* The order of bytes, for the characters in use.                          *)
ByteOrder == <<" ", "!", "\"", "#", "$", "%", "&", "+", ",", "20", "25", "26", "2B", "2C", "3D", "3F", ":", "=", "?", "A", "FF", "S", "X", "[", "]",
    "_", "a", "b", "c", "l", "sig", "null", "url", "frag", "{", "}", "|", "é", "sha1", "sha256", "sha384",
    "sha512", "ff">>
Rank == [c \in {ByteOrder[i] : i \in DOMAIN ByteOrder} |-> CHOOSE i \in DOMAIN ByteOrder : ByteOrder[i] = c]
Before(s, t) ==
    \/ Len(s) < Len(t) /\ SubSeq(t, 1, Len(s)) = s
    \/ \E n \in 1 .. Len(s) : /\ n <= Len(t) /\ Rank[s[n]] < Rank[t[n]]
                             /\ SubSeq(s, 1, n - 1) = SubSeq(t, 1, n - 1)
Precedes(s, t, order) == IF order = {"desc"} THEN Before(t, s) ELSE Before(s, t)
(* A stable sort: an item comes behind those whose keys precede its own    *)
(* and, of equal keys, behind the earlier ones.                            *)
SortBy(s, Key(_), order) ==
    LET key == [i \in DOMAIN s |-> Key(s[i])]
        InFront(j, i) == \/ Precedes(key[j], key[i], order)
                         \/ j < i /\ ~Precedes(key[i], key[j], order)
        ahead == [i \in DOMAIN s |-> Cardinality({j \in DOMAIN s : InFront(j, i)})]
    IN  [n \in DOMAIN s |-> s[CHOOSE i \in DOMAIN s : ahead[i] = n - 1]]

----------------------------------------------------------------------------
(* Encodings.                                                              *)

JoinBy(parts, separator) ==
    LET upTo[n \in 0 .. Len(parts)] ==
            IF n = 0 THEN <<>>
            ELSE IF n = 1 THEN parts[1] ELSE upTo[n - 1] \o separator \o parts[n]
    IN  upTo[Len(parts)]
EachChar(s, F(_)) == JoinBy([i \in DOMAIN s |-> F(s[i])], <<>>)
(* Names of the bytes that mean something by themselves.                   *)
Specials == {<<"ff", "FF">>, <<" ", "20">>, <<"%", "25">>, <<"&", "26">>, <<"+", "2B">>, <<",", "2C">>,
             <<"=", "3D">>, <<"?", "3F">>}
Escapes == {p[2] : p \in Specials}
Name(c) == IF \E p \in Specials : p[1] = c THEN (CHOOSE p \in Specials : p[1] = c)[2] ELSE c
Unname(c) == IF \E p \in Specials : p[2] = c THEN (CHOOSE p \in Specials : p[2] = c)[1] ELSE c
Unreserved == {"A", "a", "b", "c"}
Marked(s, mark) == EachChar(s, LAMBDA c : <<mark, Name(c)>>)
Percent(s, space) ==
    EachChar(s, LAMBDA c : IF c \in Unreserved THEN <<c>>
                           ELSE IF c = " " THEN space ELSE <<"%", Name(c)>>)
(* Decodes marked pairs; other characters stand for themselves after "%"   *)
(* and are malformed elsewhere.                                            *)
Prepend(c, rest) == IF rest.ok THEN Ok(<<c>> \o rest.value) ELSE rest
Unmark(s, mark) ==
    LET from[n \in 1 .. Len(s) + 1] ==
            IF n > Len(s) THEN Ok(<<>>)
            ELSE IF s[n] = mark /\ n < Len(s) THEN Prepend(Unname(s[n + 1]), from[n + 2])
            ELSE IF mark # "%" THEN Error("encoding")
            ELSE Prepend(s[n], from[n + 1])
    IN  from[1]
(* The pieces between the places where c stands.                           *)
Split(s, c) ==
    LET cuts == {0, Len(s) + 1} \cup {i \in DOMAIN s : s[i] = c}
        cut == [k \in 0 .. Cardinality(cuts) - 1 |->
                   CHOOSE i \in cuts : Cardinality({j \in cuts : j < i}) = k]
    IN  [k \in 1 .. Cardinality(cuts) - 1 |-> SubSeq(s, cut[k - 1] + 1, cut[k] - 1)]
Trim(s) ==
    LET kept == {i \in DOMAIN s : s[i] # " "}
    IN  IF kept = {} THEN <<>>
        ELSE SubSeq(s, CHOOSE i \in kept : \A j \in kept : i <= j, CHOOSE i \in kept : \A j \in kept : j <= i)
Lowered(c) == IF c = "A" THEN "a" ELSE c
Raised(c) == IF c = "a" THEN "A" ELSE c
Digest(f, bytes) == <<"ff", f>> \o bytes
(* Mutant: plus is no blank.                                               *)
UrlDecodePercent(s) == Unmark(s, "%").value
UrlDecode(s) == Unmark([i \in DOMAIN s |-> IF s[i] = "+" THEN " " ELSE s[i]], "%").value

(* form_urlencoded: pairs from text and back.                              *)
ParseQuery(s) ==
    LET parts == SelectSeq(Split(s, "&"), LAMBDA p : p # <<>>)
        Pair(p) == LET halves == Split(p, "=")
                   IN  <<UrlDecode(halves[1]), UrlDecode(JoinBy(Tail(halves), <<"=">>))>>
    IN  [i \in DOMAIN parts |-> Pair(parts[i])]
SerializePairs(pairs) ==
    JoinBy([i \in DOMAIN pairs |-> Percent(pairs[i][1], <<"+">>) \o <<"=">> \o Percent(pairs[i][2], <<"+">>)],
           <<"&">>)
(* Mutant: pairs are sorted by name alone.                                 *)
SortPairsByName(pairs) == SortBy(pairs, LAMBDA p : p[1], {"asc"})
SortPairs(pairs) ==
    SortBy(SortBy(pairs, LAMBDA p : p[2], {"asc"}), LAMBDA p : p[1], {"asc"})

(* Of several results the values, or the first error.                      *)
Gathered(results) ==
    IF \A i \in DOMAIN results : results[i].ok THEN Ok([i \in DOMAIN results |-> results[i].value])
    ELSE results[CHOOSE i \in DOMAIN results : ~results[i].ok /\ \A j \in 1 .. i - 1 : results[j].ok]
Bracketed(open, texts, close) ==
    IF texts.ok THEN Ok(<<open>> \o JoinBy(texts.value, <<",">>) \o <<close>>) ELSE texts
(* A map keeps of members of one name the last, and them in the order of   *)
(* their names.                                                            *)
LastMembers(members) ==
    SelectSeq([i \in DOMAIN members |->
                  IF \E j \in DOMAIN members : j > i /\ members[j][1] = members[i][1] THEN <<>> ELSE members[i]],
              LAMBDA m : m # <<>>)
Mapped(members) == SortBy(LastMembers(members), LAMBDA m : m[1], {"asc"})
(* The values nested at most n deep.                                       *)
Flat == [type : Scalar \cup {"null"}, chars : Seq(Characters)]
Around(values) ==
    [type : {"list"}, items : Seq(values)] \cup [type : {"object"}, members : Seq(Seq(Characters) \X values)]
ValuesTo[n \in 0 .. MaxNesting] == IF n = 0 THEN Flat ELSE Flat \cup Around(ValuesTo[n - 1])

Named(name, json) == IF json.ok THEN Ok(name \o <<":">> \o json.value) ELSE json
(* to_json, as text, from the texts of what is inside v.                   *)
JsonFrom(v, inside) ==
    CASE v.type = "null" -> Ok(<<"null">>)
      [] v.type \in {"boolean", "number"} -> Ok(v.chars)
      [] v.type \in {"text", "bytes"} ->
           IF Utf8(v.chars) THEN Ok(<<"\"">> \o v.chars \o <<"\"">>) ELSE Error("utf8")
      [] v.type = "list" -> Bracketed("[", Gathered([i \in DOMAIN v.items |-> inside[v.items[i]]]), "]")
      [] v.type = "object" ->
           LET members == Mapped(v.members)
           IN  Bracketed("{", Gathered([i \in DOMAIN members |-> Named(members[i][1], inside[members[i][2]])]), "}")
Json(v) ==
    LET at[n \in 0 .. MaxNesting] == [x \in ValuesTo[n] |-> JsonFrom(x, at[n - 1])]
    IN  at[MaxNesting][v]

----------------------------------------------------------------------------
(* Evaluation of expressions.                                              *)

TextValue(s) == Value("text", s)
Pairs(pairs) == ObjectOf([i \in DOMAIN pairs |-> <<pairs[i][1], TextValue(pairs[i][2])>>])
(* headers_object: repeated headers are joined, where the first one is.    *)
WithName(names, name) ==
    IF \E i \in DOMAIN names : names[i] = name THEN names ELSE Append(names, name)
Names(headers) ==
    LET upTo[n \in 0 .. Len(headers)] == IF n = 0 THEN <<>> ELSE WithName(upTo[n - 1], headers[n][1])
    IN  upTo[Len(headers)]
WithValue(values, header, name) == IF header[1] = name THEN Append(values, header[2]) ELSE values
ValuesOf(headers, name) ==
    LET upTo[n \in 0 .. Len(headers)] == IF n = 0 THEN <<>> ELSE WithValue(upTo[n - 1], headers[n], name)
    IN  upTo[Len(headers)]
HeadersObject(headers) ==
    LET names == Names(headers)
    IN  Pairs([i \in DOMAIN names |-> <<names[i], JoinBy(ValuesOf(headers, names[i]), <<",", " ">>)>>])

(* request_block; method stands for the blocks that are always text.       *)
RequestBlock(name, r) ==
    CASE name = "raw_body" -> IF Utf8(r.body) THEN Ok(TextValue(r.body)) ELSE Error("body_not_text")
      [] name = "raw_body_bytes" -> Ok(Value("bytes", r.body))
      [] name = "body" -> IF r.json = None THEN Error("body_not_json") ELSE Ok(CHOOSE j \in r.json : TRUE)
      [] name = "form" -> IF r.form = None THEN Error("body_not_form")
                          ELSE Ok(Pairs(ParseQuery(CHOOSE f \in r.form : TRUE)))
      [] name = "port" -> Ok(IF r.port = None THEN Null ELSE TextValue(CHOOSE p \in r.port : TRUE))
      [] name = "query_string" -> Ok(TextValue(r.query))
      [] name = "query" -> Ok(Pairs(ParseQuery(r.query)))
      [] name = "url" -> Ok(TextValue(<<"url", "?">> \o r.query \o <<"frag">>))
      [] name = "headers" -> Ok(HeadersObject(r.headers))
      [] name = "method" -> Ok(TextValue(<<"A">>))
      [] OTHER -> Error("unsupported_block")
Bytes(option) == IF option = None THEN Null ELSE Value("bytes", CHOOSE b \in option : TRUE)
MemberOf(result, segment) == IF result.ok THEN Member(result.value, segment) ELSE result
Index(result, segments) ==
    LET upTo[n \in 0 .. Len(segments)] == IF n = 0 THEN result ELSE MemberOf(upTo[n - 1], segments[n])
    IN  upTo[Len(segments)]
(* Header names are looked up in lower case.                               *)
Lower(segments) ==
    [i \in DOMAIN segments |->
        IF segments[i].t = "key" THEN [segments[i] EXCEPT !.v = Lowered(@)] ELSE segments[i]]
EvaluatePath(p, r, key) ==
    CASE p.root = "request" ->
           LET block == p.segments[1].v
           IN  Index(RequestBlock(block, r),
                     IF block = "headers" THEN Lower(Tail(p.segments)) ELSE Tail(p.segments))
      [] p.root = "hook" -> Ok(TextValue(<<"b">>))
      [] p.root = "secret" -> Ok(Bytes(key.secret))
      [] OTHER -> Ok(Bytes(key.public))

(* canonicalize_url, for what is before and behind the question mark.      *)
CanonicalUrl(base, pairs) ==
    Ok(TextValue(base \o (IF pairs = <<>> THEN <<>> ELSE <<"?">> \o SerializePairs(pairs))))
AsText(chars) == IF Utf8(chars) THEN Ok(TextValue(chars)) ELSE Error("utf8")
AsBytes(decoded) == IF decoded.ok THEN Ok(Value("bytes", decoded.value)) ELSE decoded

(* The functions of one argument, for text, for bytes and for the rest.    *)
OnText(f, s) ==
    CASE f = "utf8" -> Ok(TextValue(s))
      [] f = "lowercase" -> Ok(TextValue([i \in DOMAIN s |-> Lowered(s[i])]))
      [] f = "uppercase" -> Ok(TextValue([i \in DOMAIN s |-> Raised(s[i])]))
      [] f = "trim" -> Ok(TextValue(Trim(s)))
      [] f = "ascii" -> IF \E i \in DOMAIN s : s[i] = "é" THEN Error("encoding") ELSE Ok(TextValue(s))
      [] f = "percent_encode" -> Ok(TextValue(Percent(s, <<"%", "20">>)))
      [] f \in {"url_decode", "percent_decode"} ->
           AsText(IF f = "url_decode" THEN UrlDecode(s) ELSE Unmark(s, "%").value)
      [] f \in {"hex_decode", "base64_decode", "base64url_decode"} ->
           AsBytes(Unmark(Trim(s), CASE f = "hex_decode" -> "#" [] f = "base64_decode" -> "$" [] OTHER -> "_"))
      [] f = "canonicalize_url" ->
           IF s = <<>> \/ Head(s) # "url" THEN Error("encoding")
           ELSE LET halves == Split(Split(s, "frag")[1], "?")
                IN  CanonicalUrl(halves[1], SortPairs(ParseQuery(JoinBy(Tail(halves), <<"?">>))))
OnBytes(f, s) ==
    CASE f = "url_encode" -> Ok(TextValue(Percent(s, <<"+">>)))
      [] f = "hex" -> Ok(TextValue(Marked(s, "#")))
      [] f = "base64" -> Ok(TextValue(Marked(s, "$")))
      [] f = "base64url" -> Ok(TextValue(Marked(s, "_")))
      [] OTHER -> Ok(Value("bytes", Digest(f, s)))
BytesFunctions == {"url_encode", "hex", "base64", "base64url", "sha1", "sha256", "sha384", "sha512"}
(* object_pairs: every member as text.                                     *)
Paired(members, texts) ==
    IF texts.ok THEN Ok([i \in DOMAIN members |-> <<members[i][1], texts.value[i]>>]) ELSE texts
ObjectPairs(members) == Paired(members, Gathered([i \in DOMAIN members |-> IntoText(members[i][2])]))
(* The pairs of a query or form: an object's, or what its text says.       *)
PairsOf(v, text) ==
    CASE v.type = "object" -> ObjectPairs(v.members)
      [] text.ok -> Ok(ParseQuery(text.value))
      [] OTHER -> text
Serialized(f, pairs) ==
    IF pairs.ok THEN Ok(TextValue(SerializePairs(IF f = "form_encode" THEN pairs.value ELSE SortPairs(pairs.value))))
    ELSE pairs
Sorted(items, keys, order) == IF keys.ok THEN Ok(ListOf(SortBy(items, LAMBDA x : x.chars, order))) ELSE keys
WithBytes(f, b) == IF b.ok THEN OnBytes(f, b.value) ELSE b
WithText(f, t) == IF t.ok THEN OnText(f, t.value) ELSE t
JsonText(json) == IF json.ok THEN Ok(TextValue(json.value)) ELSE json
Apply(f, v, order) ==
    CASE f = "json_encode" -> JsonText(Json(v))
      [] f = "sort" /\ v.type = "list" ->
           Sorted(v.items, Gathered([i \in DOMAIN v.items |-> IntoBytes(v.items[i])]), order)
      [] f = "sort_keys" /\ v.type = "object" -> Ok(ObjectOf(SortBy(v.members, LAMBDA m : m[1], order)))
      [] f = "sort" /\ v.type # "list" -> Error("type")
      [] f \in {"sort_keys", "form_encode"} /\ v.type # "object" -> Error("type")
      [] f = "form_encode" /\ v.type = "object" -> Serialized(f, PairsOf(v, IntoText(v)))
      [] f = "canonicalize_query" -> Serialized(f, PairsOf(v, IntoText(v)))
      [] f \in BytesFunctions -> WithBytes(f, IntoBytes(v))
      [] OTHER -> WithText(f, IntoText(v))

(* concat and join: bytes if one of them is, else text.  flatten puts what *)
(* a list holds in its place.                                              *)
Flattened(v) == IF v.type = "list" THEN v.items ELSE <<v>>
PartsOf(v, flatten) ==
    LET values == IF flatten THEN Flattened(v) ELSE <<v>>
    IN  Gathered([i \in DOMAIN values |-> IntoBytes(values[i])])
HasBytes(v, flatten) ==
    v.type = "bytes" \/ (flatten /\ \E i \in DOMAIN Flattened(v) : Flattened(v)[i].type = "bytes")
Concatenated(parts, separator, bytes) ==
    IF ~parts.ok THEN parts
    ELSE Ok(Value(IF bytes THEN "bytes" ELSE "text", JoinBy(JoinBy(parts.value, <<>>), separator)))
Concatenate(values, separator, flatten) ==
    Concatenated(Gathered([i \in DOMAIN values |-> PartsOf(values[i], flatten)]), separator,
                 \E i \in DOMAIN values : HasBytes(values[i], flatten))

CallWith(e, values) ==
    CASE ~values.ok -> values
      [] values.ok /\ e.function = "concat" -> Concatenate(values.value, <<>>, FALSE)
      [] values.ok /\ e.function = "join" ->
           Concatenate(values.value, <<CHOOSE s \in e.separator : TRUE>>, TRUE)
      [] values.ok /\ e.function \notin Variadic -> Apply(e.function, values.value[1], e.order)
(* What e is worth, from what its arguments are.                           *)
Worth(e, r, key, inside) ==
    CASE e.kind = "literal" -> Ok(TextValue(<<e.text>>))
      [] e.kind = "path" -> EvaluatePath(e, r, key)
      [] e.kind = "call" -> CallWith(e, Gathered([i \in DOMAIN e.arguments |-> inside[e.arguments[i]]]))
Evaluate(e, r, key) ==
    LET at[n \in 0 .. MaxDepth] == [x \in ExpressionsTo[n] |-> Worth(x, r, key, at[n - 1])]
    IN  at[MaxDepth][e]

----------------------------------------------------------------------------
(* The signature a request presents.                                       *)

LabelChars == {"a", "b", "c", "A", "l", "S", "X"}
(* A token, and what stands behind a short label=.                         *)
Pieces(token) ==
    LET IsSign(i) == token[i] = "=" /\ \A j \in 1 .. i - 1 : token[j] # "="
        at == CHOOSE i \in DOMAIN token : IsSign(i)
        label == SubSeq(token, 1, at - 1)
        rest == SubSeq(token, at + 1, Len(token))
    IN  IF /\ \E i \in DOMAIN token : IsSign(i)
           /\ rest # <<>> /\ Len(label) \in 1 .. MaxLabel
           /\ \A i \in DOMAIN label : label[i] \in LabelChars
        THEN <<token, rest>> ELSE <<token>>
(* The text is cut at blanks and commas; open is the token so far.         *)
Closed(scan) == IF scan.open = <<>> THEN scan.done ELSE Append(scan.done, scan.open)
Scanned(scan, c) ==
    IF c \in {" ", ","} THEN [done |-> Closed(scan), open |-> <<>>]
    ELSE [scan EXCEPT !.open = Append(@, c)]
Tokens(presented) ==
    LET upTo[n \in 0 .. Len(presented)] ==
            IF n = 0 THEN [done |-> <<>>, open |-> <<>>] ELSE Scanned(upTo[n - 1], presented[n])
    IN  Closed(upTo[Len(presented)])
(* candidates(): the first MaxCandidates of them.                          *)
Candidates(presented) ==
    LET all == JoinBy([i \in DOMAIN Tokens(presented) |-> Pieces(Tokens(presented)[i])], <<>>)
    IN  SubSeq(all, 1, IF Len(all) < MaxCandidates THEN Len(all) ELSE MaxCandidates)

Symmetric == {"hmac", "digest"}
(* What a signature is made of; a plain digest leaves the key out.         *)
Signed(algorithm, k, payload) ==
    IF algorithm = "digest" THEN <<"digest", payload>> ELSE <<algorithm, payload, k>>
Genuine(c) == Signed(c.config.algorithm, c.provider.k, c.provider.payload)

(* "S" is the provider's signature in the configured encoding, "X" another *)
(* one.  base64 may be padded; hex may not.  Raw bytes are always some.    *)
Another == <<"another">>
DecodeCandidate(piece, encoding, genuine) ==
    LET bare == IF encoding \in {"hex", "raw"} \/ piece = <<>> \/ piece[Len(piece)] # "=" THEN piece
                ELSE SubSeq(piece, 1, Len(piece) - 1)
    IN  IF bare = <<"S">> THEN {genuine}
        ELSE IF bare = <<"X">> \/ encoding = "raw" THEN {Another}
        ELSE {}

Rejected(why) == [verified |-> FALSE, why |-> why]
(* What there is to compare: the bytes themselves, or the candidates that  *)
(* decode.                                                                 *)
Found(v, c) ==
    IF ~v.ok THEN Rejected("signature_not_text")
    ELSE IF Len(v.value) > MaxPresented THEN Rejected("signature_too_large")
    ELSE IF (IF c.config.encoding = "raw" THEN v.value ELSE Trim(v.value)) = <<>> THEN Rejected("signature_missing")
    ELSE LET pieces == IF c.config.encoding = "raw" THEN <<v.value>> ELSE Candidates(v.value)
         IN  [verified |-> TRUE, found |->
                UNION {DecodeCandidate(pieces[i], c.config.encoding, Genuine(c)) : i \in DOMAIN pieces}]
Presented(value, c) ==
    IF ~value.ok THEN Rejected("signature_unavailable")
    ELSE IF value.value = Null THEN Rejected("signature_missing")
    ELSE Found(IF c.config.encoding = "raw" THEN IntoBytes(value.value) ELSE IntoText(value.value), c)

(* Mutant: without a secret, an empty one is used.                         *)
KeyOrEmpty(c) == IF c.key.secret = None /\ c.key.public = None THEN {<<>>} ELSE c.key.secret \cup c.key.public
(* The secret or public key the algorithm goes with.                       *)
KeyFor(c) == IF c.config.algorithm \in Symmetric THEN c.key.secret ELSE c.key.public

(* signed_payload: the bytes that were to be signed.                       *)
SignedPayload(payload) == IF payload.ok THEN IntoBytes(payload.value) ELSE payload
Payload(c) == Evaluate(c.config.payload, c.request, c.key)
(* verify(): the payload, then what was presented, then the key.           *)
Judge(payload, presented, c) ==
    IF ~payload.ok THEN Rejected("payload_unavailable")
    ELSE IF ~presented.verified THEN presented
    ELSE IF KeyFor(c) = None
         THEN Rejected(IF c.config.algorithm \in Symmetric THEN "secret_missing" ELSE "public_key_missing")
    ELSE IF \E k \in KeyFor(c) : Signed(c.config.algorithm, k, payload.value) \in presented.found
         THEN [verified |-> TRUE, why |-> "none"]
    ELSE Rejected("signature_mismatch")
Verdict(c) ==
    Judge(SignedPayload(Payload(c)), Presented(Evaluate(c.config.signature, c.request, c.key), c), c)

(* One request, with the hook's configuration and key and the provider.    *)
CheckInit(c) == case = c /\ outcome = [verified |-> FALSE, why |-> "none"]
Verify ==
    /\ outcome.why = "none" /\ ~outcome.verified
    /\ outcome' = Verdict(case)
    /\ UNCHANGED case
CheckNext == Verify

(* The parser has accepted the expressions, headers are names and values,  *)
(* and the names the encodings give to bytes are no bytes themselves.      *)
IsCase(c) ==
    /\ {c.config.payload, c.config.signature} \subseteq ExpressionsTo[MaxDepth]
    /\ c.request.headers \in Seq(Seq(Characters) \X Seq(Characters))
    /\ c.request.body \in Seq(Characters \ Escapes)
CheckSpec == IsCase(case) /\ CheckInit(case) /\ [][CheckNext]_checkVars

----------------------------------------------------------------------------
(* Properties.                                                             *)

(* The kinds of values; text is always UTF-8, bytes given to concat or     *)
(* join stay bytes.                                                        *)
OfAKind(result) ==
    result.ok => /\ result.value.type \in Scalar \cup {"null", "list", "object"}
                 /\ result.value.type = "text" => Utf8(result.value.chars)
CheckTypeOK == IsCase(case) /\ outcome.verified \in BOOLEAN /\ OfAKind(Payload(case))

(* The paths an expression needs: json_encode alone writes an absent one.  *)
NeededBy(e, inside) ==
    CASE e.kind = "literal" -> {}
      [] e.kind = "path" -> {e}
      [] e.kind = "call" ->
           IF e.function = "json_encode" THEN {} ELSE UNION {inside[e.arguments[i]] : i \in DOMAIN e.arguments}
Needed(e) ==
    LET at[n \in 0 .. MaxDepth] == [x \in ExpressionsTo[n] |-> NeededBy(x, at[n - 1])]
    IN  at[MaxDepth][e]
Given(result) == result.ok /\ result.value # Null
(* A request that lacks a header, member, port or key the payload needs is *)
(* never verified: what is absent does not count as empty.                 *)
AbsentIsNeverSigned ==
    outcome.verified =>
        \A p \in Needed(case.config.payload) :
            Given(EvaluatePath(p, case.request, case.key))

(* A verified request carries a signature of the payload as evaluated,     *)
(* made with the key the hook holds.                                       *)
VerifiedWasSigned ==
    outcome.verified =>
        /\ Payload(case).value.chars = case.provider.payload
        /\ case.config.algorithm # "digest" => case.provider.k \in case.key.secret \cup case.key.public

(* Where the provider puts its signature, and how: in one of the           *)
(* conventions, bare, padded or behind a label, alone or among others, in  *)
(* one header or several; or, as raw bytes, by itself.                     *)
Located == Path("request", <<[t |-> "key", v |-> "headers"], [t |-> "key", v |-> "sig"]>>)
PresentsGenuine(values, encoding) ==
    IF encoding = "raw" THEN values = <<<<"S">>>>
    ELSE LET tokens == Tokens(JoinBy(values, <<" ">>))
         IN  \E i \in DOMAIN tokens : /\ 2 * i <= MaxCandidates
                                      /\ \/ tokens[i] \in {<<"S">>, <<"l", "=", "S">>}
                                         \/ tokens[i] = <<"S", "=">> /\ encoding # "hex"
(* What the provider sends verifies, unless it is too long.                *)
GenuineVerifies ==
    LET c == case
        values == ValuesOf(c.request.headers, <<"sig">>)
    IN  /\ outcome.why # "none"
        /\ SignedPayload(Payload(c)) = Ok(c.provider.payload)
        /\ c.provider.k \in KeyFor(c)
        /\ c.config.signature = Located
        /\ PresentsGenuine(values, c.config.encoding)
        => Len(JoinBy(values, <<" ">>)) + Len(values) > MaxPresented

Block(name) == Path("request", <<[t |-> "key", v |-> name]>>)
Applied(f, e) == Call(f, <<e>>, None, None)
(* A query is canonical: the order of its pairs does not matter, nor       *)
(* whether its text or its pairs are given, and it is canonical already.   *)
(* Stated of the requests whose query string is signed: once of each.      *)
QueryIsCanonical ==
    case.config.payload = Block("query_string") =>
    LET r == case.request
        parts == Split(r.query, "&")
        turned == [r EXCEPT !.query = JoinBy([i \in DOMAIN parts |-> parts[Len(parts) + 1 - i]], <<"&">>)]
        ways == {<<Block("query_string"), r>>, <<Block("query_string"), turned>>, <<Block("query"), r>>,
                 <<Applied("canonicalize_query", Block("query_string")), r>>}
    IN  Cardinality({Evaluate(Applied("canonicalize_query", w[1]), w[2], case.key) : w \in ways}) = 1

(* What was encoded decodes to the same bytes; text that is not UTF-8 is   *)
(* refused.  Stated of the requests whose raw body is signed.              *)
EncodingsDecode ==
    case.config.payload = Block("raw_body_bytes") =>
    LET bytes == case.request.body
        codes == {<<"hex", "hex_decode">>, <<"base64", "base64_decode">>, <<"base64url", "base64url_decode">>,
                  <<"url_encode", "url_decode">>, <<"percent_encode", "percent_decode">>}
        Same(result, binary) ==
            IF binary \/ Utf8(bytes) THEN result.ok /\ result.value.chars = bytes ELSE result = Error("utf8")
    IN  \A code \in codes :
            Same(Evaluate(Applied(code[2], Applied(code[1], Block("raw_body_bytes"))), case.request, case.key),
                 code[1] \in {"hex", "base64", "base64url"})

(* A request verifies exactly if a signature of its payload as evaluated,  *)
(* made with the key the hook holds, is among what it presents.            *)
VerifiesExactlyTheSigned == VerifiedWasSigned /\ GenuineVerifies

(* The functions of expressions agree with each other: their values keep   *)
(* their kinds, and canonical queries are canonical.                       *)
FunctionsAgree == CheckTypeOK /\ QueryIsCanonical
=============================================================================
