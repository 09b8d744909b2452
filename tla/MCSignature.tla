---------------------------- MODULE MCSignature ----------------------------
(* Small instances of the signature language and of the check of a         *)
(* request's signature for TLC.  Only one of them moves in a behaviour; a  *)
(* behaviour of the check is one case.                                     *)
EXTENDS SignatureLanguage, SignatureCheck
VARIABLE part
MCAlphabet ==
    {Ident(n) : n \in {"request", "hook", "secret", "headers", "id", "join", "concat", "sort",
                       "separator", "order", "asc", "nope"}}
    \cup {Text("."), Text("zz"), Integer(0)} \cup {Sign(s) : s \in {"(", ")", "[", "]", ".", ",", ":"}}
MCCharacters == {ByteOrder[i] : i \in DOMAIN ByteOrder}

Key(name) == [t |-> "key", v |-> name]
Req(names) == Path("request", names)
List == ListOf(<<TextValue(<<"b">>), TextValue(<<"a">>), Value("number", <<"a">>)>>)
Object == ObjectOf(<<<<<<"a">>, List>>, <<<<"b">>, TextValue(<<"a">>)>>, <<<<"c">>, Null>>>>)
Request(body, json, form, port, query, headers) ==
    [body |-> body, json |-> json, form |-> form, port |-> port, query |-> query, headers |-> headers]
Sig(chars) == <<<<"sig">>, chars>>
Plain == Request(<<"a">>, None, None, None, <<>>, <<Sig(<<"S">>)>>)
Bodies == UNION {[1 .. n -> {"a", "A", " ", "+", "%", "=", "é", "ff"}] : n \in 0 .. 2}
Queries == {<<>>, <<"a", "=", "b">>, <<"a", "=", "b", "&", "a", "=", "a">>, <<"b", "&", "a", "=", "=">>,
            <<"a", "+", "=", "%", "b", "&", "&", "A", "=", "c">>, <<"b", "=", "a", "&", "a", "=", "c", "&", "a", "=", "+">>}
Requests ==
    {[Plain EXCEPT !.body = b] : b \in Bodies} \cup {[Plain EXCEPT !.query = q] : q \in Queries}
    \cup {[Plain EXCEPT !.json = {j}] : j \in {Object, List, Null, Value("boolean", <<"c">>)}}
    \cup {[Plain EXCEPT !.form = {q}, !.port = {<<"b">>}] : q \in Queries}

FewRequests == {r \in Requests : Len(r.body) < 2}
Blocks == {Req(<<Key(b)>>) : b \in {"raw_body", "raw_body_bytes", "body", "form", "port", "query", "query_string", "url", "headers"}}
    \cup {Req(<<Key("headers"), Key(h)>>) : h \in {"a", "sig"}}
    \cup {Req(<<Key("body"), Key(k)>>) : k \in {"a", "c"}}
    \cup {Path("secret", <<>>), Literal(",")}
Unary(f, e) == Call(f, <<e>>, None, None)
Once == {Unary(f, e) : f \in Functions \ Variadic, e \in Blocks}
Some == {Req(<<Key("raw_body")>>), Req(<<Key("body"), Key("a")>>), Req(<<Key("headers"), Key("a")>>),
         Req(<<Key("query")>>), Path("secret", <<>>)}
Twice == {Unary(f, Unary(g, e)) : f, g \in Functions \ Variadic, e \in Some}
Both == {Call("concat", <<a, b>>, None, None) : a, b \in Blocks}
    \cup {Call("join", <<a, b>>, {","}, None) : a, b \in Blocks}
Locator == Req(<<Key("headers"), Key("sig")>>)
Hmac(payload) == [algorithm |-> "hmac", payload |-> payload, signature |-> Locator, encoding |-> "base64"]
Holding == [secret |-> {<<"c">>}, public |-> None]

(* A provider that signs what the hook's expression gives, or the payload  *)
(* that is told.                                                           *)
SignedChars(result) ==
    IF result.ok /\ result.value.type \in Scalar \cup {"null"} THEN result.value.chars ELSE <<>>
Setup(request, config, key, k, told) ==
    [request |-> request, config |-> config, key |-> key, k |-> k, told |-> told]
CaseOf(s) ==
    [request |-> s.request, config |-> s.config, key |-> s.key,
     provider |-> [k |-> s.k, payload |-> IF s.told # None THEN CHOOSE p \in s.told : TRUE
                                          ELSE SignedChars(Evaluate(s.config.payload, s.request, s.key))]]
Deep == Both \cup Twice
DeepRequests == {[Plain EXCEPT !.json = {Object}], [Plain EXCEPT !.body = <<"ff">>],
                 [Plain EXCEPT !.query = <<"a", "=", "b", "&", "a", "=", "a">>]}

(* What is presented, by whom, and what the hook holds.                    *)
Presentable == UNION {[1 .. n -> {"S", "X", "l", "=", ",", " ", "!"}] : n \in 0 .. 4}
    \cup {<<"X", ",", "l", "=", "X", ",", "l", "=", "S">>, <<"l", "l", "l", "=", "S">>, <<"X", " ", "X", " ", "X", " ", "X">>}
Header(values) == [i \in DOMAIN values |-> Sig(values[i])]
Presented1 == {[Plain EXCEPT !.headers = Header(<<p>>)] : p \in Presentable}
Presented2 == {[Plain EXCEPT !.headers = Header(h)] :
                 h \in {<<>>, <<<<"X">>, <<"S">>>>, <<<<"l">>, <<"l", "=", "S">>>>, <<<<"X">>, <<"X">>, <<"S">>>>}}
Holdings == {[secret |-> s, public |-> p] : s \in {None, {<<"c">>}}, p \in {None, {<<"c">>}}}
Signers == {<<"c">>, <<"b">>, <<>>}
Raw == Req(<<Key("raw_body")>>)
Configs == {[algorithm |-> a, payload |-> Raw, signature |-> l, encoding |-> e] :
              a \in {"hmac", "digest", "ed25519"}, e \in {"hex", "base64", "raw"},
              l \in {Locator, Req(<<Key("headers")>>), Req(<<Key("headers"), Key("a")>>)}}
Honest(requests, payloads) ==
    {Setup(r, Hmac(e), Holding, <<"c">>, None) : r \in requests, e \in payloads}
Setups ==
    Honest(Requests, Blocks) \cup Honest(FewRequests, Once) \cup Honest(DeepRequests, Deep)
    \cup Honest(Presented1 \cup Presented2, {Raw})
    \cup {Setup(r, c, h, k, {p}) :
             r \in Presented2 \cup {Plain}, c \in Configs, h \in Holdings, k \in Signers, p \in {<<"a">>, <<"b">>}}

MCInit ==
    \E s \in Setups :
        /\ CheckInit(CaseOf(s))
        /\ \/ part = "check" /\ typed = <<Text(".")>>
           \/ part = "language" /\ LanguageInit /\ s = Setup(Plain, Hmac(Raw), Holding, <<"c">>, None)
MCNext ==
    /\ UNCHANGED part
    /\ \/ part = "language" /\ LanguageNext /\ UNCHANGED checkVars
       \/ part = "check" /\ CheckNext /\ UNCHANGED typed
MCSpec == MCInit /\ [][MCNext]_<<typed, checkVars, part>>
=============================================================================
