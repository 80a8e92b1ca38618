--------------------------------- MODULE OpenApi --------------------------------
(***************************************************************************)
(* openapi/: how fromOpenAPI turns a document into tools, and how a call   *)
(* of such a tool becomes an HTTP request.  Routes are selected and named, *)
(* then bound one after the other against one schema normalizer, whose     *)
(* recursion over the document's $refs is made explicit as a stack; the    *)
(* finished tools are then called, and the API answers.                    *)
(*                                                                         *)
(* A document is any member of the constant Document, with the options     *)
(* that select from it.  A schema keeps what binding looks at: its shape,  *)
(* the $refs inside it, and the properties it declares itself.  A name is  *)
(* a sequence: appending to it stands for the suffixes _2 and __query, so  *)
(* that a document may use a suffixed name of its own.                     *)
(***************************************************************************)
EXTENDS Naturals, Sequences, FiniteSets

CONSTANTS
    Document,       \* the documents considered, and the options given with each
    Pointer,        \* the places of a document that a $ref may name
    Name,           \* names of parameters, properties and operations
    Dangling,       \* a $ref that names nothing
    None,           \* absence of a value
    LowerCase,      \* the header name that Headers keeps for a name
    DefaultMaxTools, \* DEFAULT_MAX_TOOLS
    OutputSchema,   \* options.outputSchema
    MaxOutputDefs,  \* MAX_OUTPUT_SCHEMA_DEFINITIONS
    Credentials,    \* options.headers and query: pairs of a place and a name
    MaxDepth        \* bound on the normalizer's recursion

VARIABLES
    doc,         \* the document being converted
    phase,       \* how far fromOpenAPI is
    selected,    \* the routes that become tools
    names,       \* the tool names given so far
    named,       \* namesByPointer
    definitions, \* definitions
    stack,       \* calls of hoist() in progress, and the schemas of a route
    binding,     \* the binding under construction, before its output schema
    tools,       \* the tools added to the server
    request,     \* the HTTP request of the call in progress
    outcome      \* what the last call that was answered came to

R == INSTANCE ToolResult

normalizer == <<named, definitions>>
building == <<doc, phase, selected, names, normalizer, stack, binding, tools>>
vars == <<building, request, outcome>>

--------------------------------------------------------------------------------
(* Documents *)

Place == {"path", "query", "header", "cookie"}
Method == {"get", "post", "put", "patch", "delete"}

\* A schema that is nothing but a $ref, one composed with allOf or with anyOf
\* or oneOf (the branches are $refs), one with properties, a bare
\* `type: object`, any other.  Properties beside an anyOf hold no $refs.
Schema == [shape: {"ref", "allOf", "anyOf", "object", "bare", "other"},
           refs: SUBSET (Pointer \cup {Dangling}),
           props: SUBSET Name, required: SUBSET Name]

\* open: an exploded object, which writes query keys of its own.
Parameter == [name: Name, in: Place, required: BOOLEAN, open: BOOLEAN,
              refs: SUBSET (Pointer \cup {Dangling})]

\* kind: the media type describeBody picks, by the way it is encoded.
Body == [kind: {"json", "form", "text", "unsupported"}, required: BOOLEAN,
         schema: Schema \cup {None}]

\* base: what generateToolNames slugifies.  template: the names in the path.
Operation == [method: Method, path: Nat, base: Name, deprecated: BOOLEAN,
              template: SUBSET Name, shared: SUBSET Parameter,
              own: SUBSET Parameter, body: Body \cup {None},
              response: Schema \cup {None}]

\* mergeParameters: the operation's own parameters override those of the path.
Merged(op) ==
    LET overridden == {<<p.in, p.name>> : p \in op.own} IN
    {p \in op.shared : <<p.in, p.name>> \notin overridden} \cup op.own

\* What OpenAPI guarantees: the template and the path parameters agree, and a
\* place holds a name once.
WellFormed(op) ==
    /\ op.template = {p.name : p \in {q \in Merged(op) : q.in = "path"}}
    /\ \A p, q \in Merged(op) : p.in = q.in /\ p.name = q.name => p = q

OneRef(s) == /\ s.shape = "ref" => Cardinality(s.refs) = 1
             /\ s.shape \in {"allOf", "anyOf"} => s.refs # {}

ASSUME OpenApiAssumption ==
    /\ DefaultMaxTools \in Nat /\ MaxOutputDefs \in Nat /\ MaxDepth \in Nat
    /\ OutputSchema \in BOOLEAN
    /\ None \notin Pointer /\ Dangling \notin Pointer
    /\ Credentials \subseteq {"query", "header"} \X Name
    /\ LowerCase \in [Name -> Name]
    /\ \A d \in Document :
        /\ d.component \in [Pointer -> Schema]
        /\ \A p \in Pointer : OneRef(d.component[p])
        /\ d.word \in [Pointer -> Name]
        /\ d.operations \in Seq(Operation)
        /\ \A i \in 1 .. Len(d.operations) : WellFormed(d.operations[i])
        /\ {d.include, d.exclude} \subseteq (SUBSET (Method \X Nat)) \cup {None}
        /\ d.maxTools \in Nat \cup {None}

--------------------------------------------------------------------------------
(* Query and headers are sets of pairs: a name, and where its value came     *)
(* from.                                                                     *)

\* Headers.set, and URLSearchParams.delete followed by append.
Put(pairs, added, from) == {p \in pairs : p[1] \notin added} \cup (added \X {from})

\* Headers compares names without their case.
LowerCased(headers) == {LowerCase[n] : n \in headers}

Configured(place) == {c[2] : c \in {d \in Credentials : d[1] = place}}

--------------------------------------------------------------------------------
(* Plausible slips in the code, each the body of one definition below; the  *)
(* properties have to notice them.                                          *)

\* Only the base is looked up among the names that are taken.
OnlyBaseChecked(base, taken) == IF base \in taken THEN Append(base, 2) ELSE base
\* Only the definitions that a tool mentions itself are attached to it.
DirectlyReached(refs) == {n \in refs : n \in DOMAIN definitions}
\* A hoisted schema is not registered under its pointer.
NothingReserved(p, name) == named
\* A name is known only once its schema is finished.
KnownWhenFinished(p) == p \in DOMAIN named /\ definitions[named[p]].shape # "other"
\* A parameter that collides keeps its bare name.
BareKey(p, all, props) == p.name
\* A path parameter is required only if the document says so.
AsDeclared(p) == p.required
\* The configured headers are set before the cookies and the content type.
CredentialsFirst(sent, cookies, typed) ==
    Put(Put(Put(sent, LowerCased(Configured("header")), "configured"),
            cookies, "cookies"), typed, "encoding")
\* The parsed object is returned as it is.
Unwrapped(payload) == payload

--------------------------------------------------------------------------------
(* Names *)

Suffixed(base, k) == Append(base, k)

\* The first of base, base_2, base_3, ... that is not taken.
FreeName(base, taken) ==
    IF base \notin taken THEN base
    ELSE LET free == {k \in 2 .. Cardinality(taken) + 2 :
                         Suffixed(base, k) \notin taken}
         IN  Suffixed(base, CHOOSE k \in free : \A j \in free : k <= j)

--------------------------------------------------------------------------------
(* Selection *)

MethodOrder == [get |-> 0, post |-> 1, put |-> 2, patch |-> 3, delete |-> 4]

Before(a, b) ==
    \/ MethodOrder[a.method] < MethodOrder[b.method]
    \/ MethodOrder[a.method] = MethodOrder[b.method] /\ a.path < b.path

\* Deprecated operations are dropped unless include asks for them back.
Keeps(d, op) ==
    /\ IF d.include = None THEN ~op.deprecated ELSE <<op.method, op.path>> \in d.include
    /\ d.exclude # None => <<op.method, op.path>> \notin d.exclude

\* Without a selection of any kind there is a limit all the same.
OverLimit(d, n) ==
    IF d.maxTools # None THEN n > d.maxTools
    ELSE d.include = None /\ d.exclude = None /\ n > DefaultMaxTools

\* The operations that are kept, reads first and then by path.
Orderings(d) ==
    LET ops == d.operations
        kept == {i \in 1 .. Len(ops) : Keeps(d, ops[i])}
        place == 1 .. Cardinality(kept)
    IN  {[k \in place |-> ops[f[k]]] : f \in
            {g \in [place -> kept] :
                \A k, l \in place : k < l => g[k] # g[l] /\ ~Before(ops[g[l]], ops[g[k]])}}

--------------------------------------------------------------------------------
(* Normalized schemas.  Their refs are names of definitions; a dangling      *)
(* $ref leaves an empty schema behind, Dangling.                             *)

Normalized(s) ==
    [s EXCEPT !.refs = {IF r = Dangling THEN Dangling ELSE named[r] : r \in @}]

\* definitions[name] = {} until the hoisted schema is normalized.
Placeholder == [shape |-> "other", refs |-> {}, props |-> {}, required |-> {}]

\* The names that one comes to from some by way of others.
Closure(from, refs) ==
    LET known == DOMAIN refs
        closed == {S \in SUBSET known :
                      /\ from \cap known \subseteq S
                      /\ \A m \in S : refs[m] \cap known \subseteq S}
    IN  {n \in known : \A S \in closed : n \in S}

\* What flattenObject and resolvesToObject look through: a $ref, and the
\* branches of a composition.
Flattening == {"ref", "allOf"}
Resolving == {"ref", "allOf", "anyOf"}

Branches(s, through) == IF s.shape \in through THEN s.refs ELSE {}

\* A branch of a composition is a $ref itself.
Hops(s) == IF s.shape = "ref" THEN 1 ELSE 2

Parts(schema, through) ==
    {schema} \cup {definitions[n] : n \in
        Closure(Branches(schema, through),
                [n \in DOMAIN definitions |-> Branches(definitions[n], through)])}

\* No part is more than 8 hops away, which ends a cycle too.
Shallow(schema, through) ==
    LET near[d \in 0 .. 10, s \in Parts(schema, through)] ==
            d <= 8 /\ \A n \in Branches(s, through) : near[d + Hops(s), definitions[n]]
    IN  near[0, schema]

\* Every way to go on leads to a schema, in few steps.
Walkable(schema, through) ==
    /\ \A s \in Parts(schema, through) : Dangling \notin Branches(s, through)
    /\ Shallow(schema, through)

\* resolvesToObject: all parts are objects in the end.
ResolvesToObject(schema) ==
    /\ Walkable(schema, Resolving)
    /\ \A s \in Parts(schema, Resolving) : s.shape # "other"

\* flattenObject asks for properties, and gets them beside an anyOf too.
HasProperties(s) == s.shape = "object" \/ (s.shape = "anyOf" /\ s.props # {})

\* flattenObject: the properties of all parts, None where it gives up.
FlattenObject(schema) ==
    LET parts == Parts(schema, Flattening)
        objects == {s \in parts : HasProperties(s)}
    IN
    IF /\ Walkable(schema, Flattening)
       /\ \A s \in parts : s.shape \in Flattening \/ HasProperties(s)
    THEN [props    |-> UNION {s.props : s \in objects},
          required |-> UNION {s.required : s \in objects},
          refs     |-> UNION {s.refs : s \in {o \in objects : o.shape = "object"}}]
    ELSE None

\* collectDefinitions: the names reached from the given ones.
Reached(refs) == Closure(refs, [n \in DOMAIN definitions |-> definitions[n].refs])

CollectDefinitions(refs) == [n \in Reached(refs) |-> definitions[n]]

--------------------------------------------------------------------------------
(* Bindings *)

\* Suffixed with its place where another parameter or a body property has the
\* same name.
Key(p, all, props) ==
    IF p.name \in props \/ \E q \in all : q # p /\ q.name = p.name
    THEN Append(p.name, p.in) ELSE p.name

MustBeGiven(p) == p.in = "path" \/ p.required

BodyOf(op) == IF op.method = "get" THEN None ELSE op.body

NoBody == [props |-> {}, required |-> {}, refs |-> {}, whole |-> FALSE, sent |-> FALSE]

\* describeBody: the arguments the body contributes.
DescribeBody(op) ==
    LET b == BodyOf(op)
        flat == FlattenObject(Normalized(b.schema))
        whole == [NoBody EXCEPT !.props = {<<"body">>}, !.whole = TRUE, !.sent = TRUE,
                                !.required = IF b.required THEN {<<"body">>} ELSE {}]
    IN  IF b = None THEN NoBody
        ELSE IF b.kind = "unsupported" THEN NoBody
        ELSE IF b.schema = None
        THEN IF b.kind = "text" THEN whole ELSE [NoBody EXCEPT !.sent = TRUE]
        ELSE IF b.kind = "text" \/ flat = None
        THEN [whole EXCEPT !.refs = Normalized(b.schema).refs]
        ELSE [props |-> flat.props, required |-> flat.required \cap flat.props,
              refs |-> flat.refs, whole |-> FALSE, sent |-> TRUE]

\* Parameters may end up with one key, for a parameter or a property may have
\* a name that looks suffixed: the last one written keeps it.
Owners(op, body) ==
    LET keyOf(p) == Key(p, Merged(op), body.props)
    IN  {f \in [{keyOf(p) : p \in Merged(op)} -> Merged(op)] :
            \A k \in DOMAIN f : keyOf(f[k]) = k}

\* buildToolBinding, with what describeBody says of the body, whose properties
\* are written after the parameters.
InputBinding(op, body, owner) ==
    LET kept == {owner[k] : k \in DOMAIN owner \ body.props}
        refs == body.refs \cup UNION {Normalized(p).refs : p \in kept}
    IN  [args |-> [k \in DOMAIN owner \cup body.props |->
                      IF k \in body.props THEN [in |-> "body", name |-> k, open |-> FALSE]
                      ELSE [in |-> owner[k].in, name |-> owner[k].name, open |-> owner[k].open]],
         required |-> {Key(p, Merged(op), body.props) : p \in {q \in Merged(op) : MustBeGiven(q)}}
                          \cup body.required,
         refs |-> refs \ {Dangling}, defs |-> CollectDefinitions(refs),
         whole |-> body.whole, sent |-> body.sent]

\* buildOutputSchema: dropped when it is no object or pulls in too much.
OutputOf(op) ==
    LET s == Normalized(op.response)
        defs == CollectDefinitions(s.refs)
    IN  IF ResolvesToObject(s) /\ Cardinality(DOMAIN defs) <= MaxOutputDefs
        THEN [refs |-> s.refs \ {Dangling}, defs |-> defs] ELSE None

--------------------------------------------------------------------------------
(* Requests *)

\* The names of the arguments that go to a place.
InPlace(in, args, keys) == {args[k].name : k \in {j \in keys : args[j].in = in}}

\* buildPath replaces the placeholders it has values for.
BuildPath(args, keys) == InPlace("path", args, keys)

\* buildBody: no body without an encoding, and none without a value for it.
BuildBody(tool, keys) ==
    LET values == InPlace("body", tool.args, keys) IN
    IF tool.sent /\ values # {} THEN values ELSE None

\* The values of the arguments are appended, then those of options.query
\* replace what has their names.  chosen: a name that an exploded object
\* brought along.
Query(tool, keys, chosen) ==
    Put((InPlace("query", tool.args, keys) \cup ({chosen} \ {None})) \X {"argument"},
        Configured("query"), "configured")

\* The headers in the order they are set.  sent: those of the arguments.
\* cookies: the cookie header, if there is a cookie; typed: the content type,
\* if it has to be set; options.headers are applied last.
InOrder(sent, cookies, typed) ==
    Put(Put(Put(sent, cookies, "cookies"), typed, "encoding"),
        LowerCased(Configured("header")), "configured")

CookieHeader == <<"cookie">>
ContentType == <<"content-type">>

\* A content type that an argument gave is left alone.
Headers(tool, keys) ==
    LET given == LowerCased(InPlace("header", tool.args, keys))
        bare == InPlace("cookie", tool.args, keys) = {}
        untyped == BuildBody(tool, keys) # None /\ ContentType \notin given
    IN  InOrder(given \X {"argument"}, IF bare THEN {} ELSE {CookieHeader},
                IF untyped THEN {ContentType} ELSE {})

HttpRequest(tool, keys, chosen) ==
    [tool   |-> tool.name,
     path   |-> BuildPath(tool.args, keys),
     query  |-> Query(tool, keys, chosen),
     header |-> Headers(tool, keys),
     body   |-> BuildBody(tool, keys)]

--------------------------------------------------------------------------------
(* Responses *)

\* An answer of the API, or none (not ok).  fits: within the limit for what it
\* is, maxResponseCharacters or MAX_INLINE_MEDIA_BYTES.  body: the JSON object
\* in it, None for anything else.
Response == [ok: BOOLEAN, type: {"json", "media", "other"}, fits: BOOLEAN,
             body: R!Foreign \cup {None}]

\* A JSON object goes back as structured content.
Structured(payload) == R!Wrapper(payload)

Parsed(reply) ==
    IF reply.type = "json" /\ reply.fits THEN reply.body ELSE None

\* readResponse throws a UserError.
Unreadable(reply, declared) ==
    \/ ~reply.ok
    \/ reply.type = "media" /\ ~declared /\ ~reply.fits
    \/ declared /\ Parsed(reply) = None

ReadResponse(reply, declared) ==
    IF Parsed(reply) # None THEN Structured(Parsed(reply))
    ELSE IF reply.type = "media" THEN R!Block ELSE R!Text

--------------------------------------------------------------------------------
Frame(p) == [of |-> p, todo |-> doc.component[p].refs]
RootFrame(refs) == [of |-> None, todo |-> refs]

Top == stack[Len(stack)]
Popped == SubSeq(stack, 1, Len(stack) - 1)
Resolved(r) == [stack EXCEPT ![Len(stack)].todo = @ \ {r}]

Phase == {"select", "name", "bind", "input", "output", "serve", "refused"}

Route == selected[Len(tools) + 1]

TypeOK ==
    /\ phase \in Phase
    /\ \A i \in 1 .. Len(selected) : selected[i] \in Operation
    /\ Len(names) <= Len(selected) /\ Len(tools) <= Len(names)
    /\ DOMAIN named \subseteq Pointer
    /\ {named[p] : p \in DOMAIN named} = DOMAIN definitions
    /\ \A i \in 1 .. Len(stack) :
        /\ stack[i].of = None <=> i = 1
        /\ stack[i].of \in Pointer \cup {None}
        /\ stack[i].todo \subseteq Pointer \cup {Dangling}
    /\ outcome # None => outcome.result \in R!CallToolResult

Init ==
    /\ doc \in Document
    /\ phase = "select"
    /\ selected = <<>> /\ names = <<>> /\ tools = <<>> /\ stack = <<>>
    /\ named = [p \in {} |-> None]
    /\ definitions = [n \in {} |-> None]
    /\ binding = None /\ request = None /\ outcome = None

--------------------------------------------------------------------------------
\* selectRoutes.  Past the limit nothing is built.
Select ==
    /\ phase = "select"
    /\ selected' \in Orderings(doc)
    /\ phase' = IF OverLimit(doc, Len(selected')) THEN "refused" ELSE "name"
    /\ UNCHANGED <<doc, names, normalizer, stack, binding, tools, request, outcome>>

\* generateToolNames, one route.
NameRoute ==
    /\ phase = "name"
    /\ IF Len(names) < Len(selected)
       THEN /\ names' = Append(names, FreeName(selected[Len(names) + 1].base,
                                              {names[i] : i \in 1 .. Len(names)}))
            /\ UNCHANGED phase
       ELSE phase' = "bind" /\ UNCHANGED names
    /\ UNCHANGED <<doc, selected, normalizer, stack, binding, tools, request, outcome>>

\* The next route: its body and parameter schemas are normalized first.
InputRefs(op) ==
    (UNION {p.refs : p \in Merged(op)})
        \cup (IF BodyOf(op) = None THEN {}
              ELSE IF BodyOf(op).kind = "unsupported" \/ BodyOf(op).schema = None THEN {}
              ELSE BodyOf(op).schema.refs)

BeginRoute ==
    /\ phase = "bind"
    /\ IF Len(tools) < Len(selected)
       THEN phase' = "input" /\ stack' = <<RootFrame(InputRefs(Route))>>
       ELSE phase' = "serve" /\ UNCHANGED stack
    /\ UNCHANGED <<doc, selected, names, normalizer, binding, tools, request, outcome>>

--------------------------------------------------------------------------------
(* The normalizer: rewrite() meets the $refs of a schema one by one. *)

Normalizing == phase \in {"input", "output"} /\ stack # <<>>

Known(p) == p \in DOMAIN named

\* A dangling one, or one whose name is known: nothing to hoist.
SkipRef(r) ==
    /\ Normalizing /\ r \in Top.todo
    /\ r = Dangling \/ Known(r)
    /\ stack' = Resolved(r)
    /\ UNCHANGED <<doc, phase, selected, names, normalizer, binding, tools, request, outcome>>

\* The name is reserved before the target is normalized.
Reserved(p, name) ==
    [q \in DOMAIN named \cup {p} |-> IF q = p THEN name ELSE named[q]]

Hoist(p) ==
    LET name == FreeName(doc.word[p], DOMAIN definitions) IN
    /\ Normalizing /\ p \in Top.todo
    /\ ~Known(p)
    /\ Len(stack) < MaxDepth
    /\ named' = Reserved(p, name)
    /\ definitions' = [n \in DOMAIN definitions \cup {name} |->
                          IF n = name THEN Placeholder ELSE definitions[n]]
    /\ stack' = Append(stack, Frame(p))
    /\ UNCHANGED <<doc, phase, selected, names, binding, tools, request, outcome>>

\* definitions[name] = normalize(target), and back to the caller.
Hoisted ==
    LET p == Top.of IN
    /\ Normalizing /\ Top.todo = {} /\ p # None
    /\ definitions' = [definitions EXCEPT ![named[p]] = Normalized(doc.component[p])]
    /\ stack' = Popped
    /\ UNCHANGED <<doc, phase, selected, names, named, binding, tools, request, outcome>>

--------------------------------------------------------------------------------
AddTool(b, output) ==
    tools' = Append(tools, [name |-> names[Len(tools) + 1], args |-> b.args,
                            required |-> b.required, refs |-> b.refs,
                            defs |-> b.defs, whole |-> b.whole,
                            sent |-> b.sent, output |-> output])

\* buildToolBinding, once every schema of the input is normalized.
BindInput ==
    /\ phase = "input" /\ stack # <<>>
    /\ Top.of = None /\ Top.todo = {}
    /\ \E body \in {DescribeBody(Route)} : \E owner \in Owners(Route, body) :
           IF OutputSchema /\ Route.response # None
           THEN /\ binding' = InputBinding(Route, body, owner)
                /\ phase' = "output" /\ stack' = <<RootFrame(Route.response.refs)>>
                /\ UNCHANGED tools
           ELSE /\ AddTool(InputBinding(Route, body, owner), None)
                /\ phase' = "bind" /\ stack' = <<>>
                /\ UNCHANGED binding
    /\ UNCHANGED <<doc, selected, names, normalizer, request, outcome>>

BindOutput ==
    /\ phase = "output" /\ stack # <<>>
    /\ Top.of = None /\ Top.todo = {}
    /\ AddTool(binding, OutputOf(Route))
    /\ binding' = None
    /\ phase' = "bind" /\ stack' = <<>>
    /\ UNCHANGED <<doc, selected, names, normalizer, request, outcome>>

\* executeRequest, for arguments that the input schema accepts.
Call(tool, keys, chosen) ==
    /\ phase = "serve"
    /\ tool.required \subseteq keys
    /\ chosen # None => \E k \in keys : tool.args[k].in = "query" /\ tool.args[k].open
    /\ request' = HttpRequest(tool, keys, chosen)
    /\ outcome' = None
    /\ UNCHANGED building

\* options.headers or query rejects, or a header is invalid: execute() throws
\* before a request is sent.
CallFails(tool) ==
    /\ phase = "serve"
    /\ request' = None
    /\ outcome' = [declared |-> tool.output # None, sent |-> None, result |-> R!Failed]
    /\ UNCHANGED building

\* readResponse, and what the server makes of what it returns or throws.
Respond(tool, reply) ==
    LET declared == tool.output # None IN
    /\ request # None /\ request.tool = tool.name
    /\ outcome' = [declared |-> declared, sent |-> IF reply.ok THEN Parsed(reply) ELSE None,
                   result |-> IF Unreadable(reply, declared) THEN R!Failed
                              ELSE R!NormalizeToolResult(ReadResponse(reply, declared), declared)]
    /\ request' = None
    /\ UNCHANGED building

--------------------------------------------------------------------------------
Build ==
    \/ Select \/ NameRoute \/ BeginRoute
    \/ \E r \in Pointer \cup {Dangling} : SkipRef(r)
    \/ \E p \in Pointer : Hoist(p)
    \/ Hoisted \/ BindInput \/ BindOutput

Next ==
    \/ Build
    \/ \E i \in 1 .. Len(tools), chosen \in Name \cup {None} :
        \E keys \in SUBSET DOMAIN tools[i].args : Call(tools[i], keys, chosen)
    \/ \E i \in 1 .. Len(tools) : CallFails(tools[i])
    \/ \E i \in 1 .. Len(tools), reply \in Response : Respond(tools[i], reply)

Spec == Init /\ [][Next]_vars

\* The conversion is synchronous once the document is loaded.
FairSpec == Spec /\ WF_vars(Build)

--------------------------------------------------------------------------------
(* Properties *)

\* Every route becomes a tool that can be reached: no two names are equal, in a
\* document whose operationIds collide or look suffixed (generateToolNames).
ToolNamesUnique ==
    \A i, j \in 1 .. Len(tools) : tools[i].name = tools[j].name => i = j

\* A schema with these refs and $defs stands alone and means what the document
\* means: every $ref resolves in its own $defs, to the finished definition of
\* exactly one place of the document.
Standalone(refs, defs) ==
    /\ refs \subseteq DOMAIN defs
    /\ \A n \in DOMAIN defs :
        /\ defs[n].refs \subseteq DOMAIN defs \cup {Dangling}
        /\ \E p \in DOMAIN named :
            /\ \A q \in DOMAIN named : named[q] = n <=> q = p
            /\ defs[n] = Normalized(doc.component[p])

\* Each tool's input and output schema stands alone once it is detached from
\* the document, though hoisted schemas are shared by all routes and refer to
\* each other in cycles (createSchemaNormalizer, collectDefinitions).
SchemasStandAlone ==
    \A i \in 1 .. Len(tools) :
        /\ Standalone(tools[i].refs, tools[i].defs)
        /\ tools[i].output # None => Standalone(tools[i].output.refs, tools[i].output.defs)

\* The components that a schema consists of, by $ref and by allOf.
Composed(schema) ==
    {schema} \cup {doc.component[p] : p \in
        Closure(Branches(schema, Flattening),
                [q \in Pointer |-> Branches(doc.component[q], Flattening)])}

ParameterInputs(op) == {<<p.in, p.name>> : p \in Merged(op)}

\* The properties that the parts of these shapes give the body of an operation.
BodyInputs(op, shapes) ==
    LET b == BodyOf(op) IN
    IF b = None THEN {}
    ELSE IF b.kind = "unsupported" \/ b.schema = None THEN {}
    ELSE {<<"body", n>> : n \in
             UNION {s.props : s \in {t \in Composed(b.schema) : t.shape \in shapes}}}

Bound(tool) == {<<tool.args[k].in, tool.args[k].name>> : k \in DOMAIN tool.args}

\* Flattening loses nothing: every parameter, and every property of the body
\* unless the body is one argument, has an argument of its own
\* (buildToolBinding, docs/openapi.md).  Properties beside an allOf are lost.
EveryInputHasAnArgument ==
    \A i \in 1 .. Len(tools) :
        /\ ParameterInputs(selected[i]) \subseteq Bound(tools[i])
        /\ tools[i].whole \/ BodyInputs(selected[i], {"allOf", "anyOf", "object"})
                                 \subseteq Bound(tools[i])

\* The name of one input is the suffixed name of the other.
Clash(x, y) == x[2] = Append(y[2], y[1]) \/ y[2] = Append(x[2], x[1])

\* An input of the operation whose name clashes with that of a given one.
Clashes(op, input) ==
    \E other \in ParameterInputs(op) \cup BodyInputs(op, {"anyOf", "object"}) :
        Clash(input, other)

\* Names collide between the four places and the body, and may look suffixed:
\* a property of the body keeps its argument whatever the parameters are
\* called, and a parameter loses its own only to an input that has its suffixed
\* name, or whose suffixed name it has (buildToolBinding).
InputsLostOnlyByClash ==
    \A i \in 1 .. Len(tools) :
        /\ tools[i].whole \/ BodyInputs(selected[i], {"anyOf", "object"}) \subseteq Bound(tools[i])
        /\ \A input \in ParameterInputs(selected[i]) :
            input \in Bound(tools[i]) \/ Clashes(selected[i], input)

\* A call that the input schema accepts leaves no placeholder in the URL, but
\* that of a parameter whose argument goes elsewhere by a clash
\* (buildToolBinding, buildPath).
UrlComplete ==
    request # None =>
        \A i \in 1 .. Len(tools) :
            tools[i].name = request.tool =>
                \A n \in selected[i].template :
                    n \in request.path \/ Clashes(selected[i], <<"path", n>>)

\* The server sees a configured credential once and nothing else under its
\* name, whatever arguments a model supplies: exploded objects, names in
\* another case, cookies and the content type of the body included
\* (executeRequest).
CredentialsWin ==
    request # None =>
        /\ \A n \in Configured("query") :
            {p \in request.query : p[1] = n} = {<<n, "configured">>}
        /\ \A n \in LowerCased(Configured("header")) :
            {p \in request.header : p[1] = n} = {<<n, "configured">>}

\* What the API answers is what the caller reads: a JSON object arrives as the
\* structured content, whole, even when its keys look like one of the shapes
\* that a tool may return; and a tool that declared an output schema answers
\* with structured content or with an error, never with text (readResponse,
\* normalizeToolResult).
PayloadArrivesWhole ==
    outcome # None =>
        LET result == outcome.result IN
        /\ outcome.sent # None => ~result.error /\ result.structured = outcome.sent
        /\ outcome.declared => result.error \/ result.structured # None

\* The conversion ends on every document, cyclic ones included.
ConversionEnds == <>(phase \in {"serve", "refused"})
================================================================================
