------------------------------- MODULE MCOpenApi -------------------------------
(* Documents for the model checker: every way to fill three components, two  *)
(* of which share a name while the third looks suffixed, under operations    *)
(* whose names, parameters and bodies collide.                               *)
EXTENDS OpenApi

CONSTANTS p1, p2, p3

a == <<"a">>
id == <<"id">>
key == <<"key">>
idPath == <<"id", "path">>
keyHeader == <<"key", "header">>
KEY == <<"KEY">>
MCName == {a, id, key, idPath, keyHeader, KEY, <<"body">>, CookieHeader,
           <<"op">>, <<"op", 2>>, <<"s">>, <<"s", 2>>}
MCLowerCase == [n \in MCName |-> IF n = KEY THEN key ELSE n]

Object(refs, props, required) ==
    [shape |-> "object", refs |-> refs, props |-> props, required |-> required]
Composition(shape, refs, props) ==
    [shape |-> shape, refs |-> refs, props |-> props, required |-> {}]

MCSchemas ==
    {Object({}, {a}, {a}), Object({p1, p3}, {id}, {}),
     Object({p2, Dangling}, {a, id, idPath}, {id})}
    \cup {Composition("ref", {t}, {}) : t \in {p2, p3}}
    \cup {Composition("allOf", s, {}) : s \in {{p1, p2}, {p3, Dangling}}}
    \cup {Composition("anyOf", {p2, p3}, s) : s \in {{}, {a}}}
    \cup {Composition(shape, {p1}, {}) : shape \in {"bare", "other"}}

In(name, place, open) ==
    [name |-> name, in |-> place, required |-> FALSE, open |-> open, refs |-> {p3}]

Op(method, path, base, shared, own, body, response) ==
    [method |-> method, path |-> path, base |-> base, deprecated |-> FALSE,
     template |-> {x.name : x \in {y \in shared \cup own : y.in = "path"}},
     shared |-> shared, own |-> own, body |-> body, response |-> response]

Sends(kind, schema) == [kind |-> kind, required |-> TRUE, schema |-> schema]

\* cookie: the name of a parameter beside two that are both called key.
Operations(sent, cookie) ==
    <<Op("put", 1, <<"op">>, {In(key, "query", FALSE)},
         {In(key, "header", FALSE), In(cookie, "cookie", FALSE)}, sent, None),
      Op("get", 1, <<"op">>, {In(id, "path", FALSE), In(a, "query", FALSE)},
         {In(a, "query", TRUE)}, Sends("json", Object({}, {a}, {})),
         Composition("ref", {p1}, {})),
      Op("post", 2, <<"op", 2>>, {In(id, "path", FALSE)}, {In(a, "header", FALSE)},
         Sends("json", Composition("ref", {p1}, {})), Object({p2}, {a}, {}))>>

Documents(schemas, sent, cookie) ==
    {[component |-> c, word |-> [x \in Pointer |-> IF x = p3 THEN <<"s", 2>> ELSE <<"s">>],
      operations |-> Operations(b, cookie), include |-> None, exclude |-> None, maxTools |-> None] :
        c \in [Pointer -> schemas], b \in sent}

\* Selections from a document of four operations and a deprecated one, over and
\* under the limits.
Selections ==
    {[component |-> [x \in Pointer |-> Object({}, {a}, {a})], word |-> [x \in Pointer |-> <<"s">>],
      operations |-> [Operations(Sends("text", None), id) EXCEPT ![2].deprecated = TRUE]
                         \o <<Op("delete", 1, <<"op">>, {In(id, "path", FALSE)}, {}, None, None),
                              Op("patch", 2, <<"s">>, {}, {}, None, None)>>,
      include |-> i, exclude |-> e, maxTools |-> m] :
        i \in {None, {<<"get", 1>>, <<"post", 2>>}}, e \in {None, {<<"post", 2>>}},
        m \in {None, 1}}

MCDocuments ==
    Selections \cup Documents(MCSchemas, {Sends("form", Composition("allOf", {p2, p3}, {}))},
                         keyHeader)
        \cup Documents({Object({p1, p3}, {id}, {}), Composition("ref", {p3}, {})},
                       {Sends("text", None), Sends("unsupported", None)}, keyHeader)

\* Compositions that declare properties beside their allOf.
MCComposed ==
    Documents({Object({}, {id}, {}), Composition("allOf", {p2}, {a})},
              {Sends("json", Composition("allOf", {p2, p3}, {}))}, id)

MCCredentials == {<<"query", key>>, <<"header", KEY>>, <<"header", CookieHeader>>}
================================================================================
