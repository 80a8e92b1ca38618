# TLA+ specifications of vitemcp-server

Models of the parts of ViteMCP that keep state between two awaited calls, the TLC
configurations that check them on small instances, and TLAPS proofs of the
theorems that matter most. Every definition is written from the code under
`src/`; `PROJECT.json` lists, for each, the lines it stands for (`map`), the
hazards the properties are aimed at (`hazards`), and for each checked property a
slip in the code that the property notices (`mutants`). A slip is an operator of
the modelling module itself, in the section "Plausible slips".

To check a run: `tlc -workers 2 -config OAuthFlow.cfg MCOAuthFlow.tla`. To check
proofs: `tlapm OAuthFlowProofs.tla`.

## The system

ViteMCP is a framework for stateless MCP servers over HTTP or stdio. Its state is
in a few places:

| Component | Source (below `src/src/`) | State | Operations | Hard behaviour |
|---|---|---|---|---|
| OAuth proxy, code grant | `auth/OAuthProxy.ts`, `OAuthProxyStateStore.ts`, `router.ts`, `utils/pkce.ts` | transactions, codes, registrations in a shared `TokenStorage`; a client cache per process | registerClient, authorize, handleConsent, handleCallback, exchangeAuthorizationCode, cleanup | several processes share the storage; each handler is a chain of awaits; replays; expiry; crashes |
| OAuth proxy, token swap | `auth/OAuthProxy.ts`, `utils/jwtIssuer.ts`, `utils/tokenStore.ts` | mapping and upstream records with TTLs | issueSwappedTokens, handleSwapModeRefresh, restoreMapping, loadUpstreamTokens | concurrent refreshes, upstream failures half way, hand-back, different lifetimes |
| TokenStorage, DiskStore | `auth/types.ts`, `auth/utils/diskStore.ts` | one file per key, claim files | get, save, delete, take, cleanup | several processes and the sweep meet in one directory; crashes between system calls |
| Memory and encrypted storage | `auth/utils/tokenStore.ts` | a Map with expiry | the same | `take` is optional |
| Discovery cache | `DiscoveryDocumentCache.ts` | entries, fetches in flight, generations | get, clear, has | clear during a fetch; coalescing |
| Server | `ViteMCP.ts` | server state, router, SDK handler, socket, stdio handle, connected servers; a signal per tool call; the catalogue | start, connect, stop, the request listener, tool calls, add/remove | stop during requests, starts that fail half way, deadlines, disconnects, aborts by the SDK |
| Auth providers | `auth/providers/` | a proxy built on first use, `_destroyed` | authenticate, getOAuthConfig, getProxy, destroy | destroy while requests are in flight; two proxies with different signing keys |
| Client ID metadata resolver | `auth/clientIdMetadata.ts` | a cache with the lifetimes the origin dictates | resolve, clearCache | fetches that overlap, never end, or end in another order |
| OpenAPI conversion | `openapi/` | the normalizer's tables, the tools built | fromOpenAPI, executeRequest | cyclic `$ref`s, colliding names, credentials, answers of any shape |
| Consent HTML, claims, JWKS, schema adapter, edge, CLI | the rest | configuration | | not modelled, see below |

The HTTP server authenticates a request (through a provider, which asks the proxy's
`loadUpstreamTokens` or a JWKS), builds an `McpServer` for it and runs the tool.
The router of `auth/router.ts` hands OAuth requests to the proxy; the proxy keeps
everything that outlives a request in its `TokenStorage`, which is memory, an
encrypting wrapper, or `DiskStore`. `fromOpenAPI` adds tools whose `execute` makes
one HTTP request. A client id that is a URL is resolved by fetching the document
behind it. A provider builds its proxy when it is first asked for it, and the server
holds that proxy by reference in the OAuth routes of each `start()`.

## Modules

| Module | Models | Checked by | Proved in |
|---|---|---|---|
| `OAuthFlow` (`MCOAuthFlow`) | code grant | OAuthFlow, OAuthConsent, OAuthConsentTwice, OAuthCimd | `OAuthFlowProofs`, `OAuthGrantProofs` |
| `CodeGrant` | what an authorization server promises about codes (abstract) | OAuthFlow, as `ImplementsCodeGrant` | `OAuthGrantProofs` |
| `TokenSwap` (`MCTokenSwap`) | swapped tokens and rotation | TokenSwap | `TokenSwapProofs` |
| `TokenStorage` | what a storage with `take()` promises (abstract) | DiskStore, as `ImplementsTokenStorage` | `DiskStoreProofs` |
| `DiskStore` (`MCDiskStore`) | the storage over a directory | DiskStore, DiskStoreSweep | `DiskStoreProofs` |
| `DiscoveryCache` | the cache | DiscoveryCache | `DiscoveryCacheProofs` |
| `ClientMetadata` | the resolver of metadata documents | ClientMetadata | `ClientMetadataProofs` |
| `Server` | the server | Application | `ApplicationProofs` |
| `AuthProvider` | a provider and its proxy | Application | `ApplicationProofs` |
| `Application` | `Server` composed with `AuthProvider` | Application | `ApplicationProofs` |
| `ToolResult` | what a tool's value becomes (operators) | OpenApi | `OpenApiProofs` |
| `OpenApi` (`MCOpenApi`) | conversion, requests and their answers | OpenApi, OpenApiComposed | `OpenApiProofs` |

### OAuthFlow

One record of `req` per request in flight; its `step` names the awaited call the
handler is suspended at, and an action is the code from one await that changes
state to the next. `txnStore` and `codeStore` say what the storage holds for an id;
what never changes about an id is in `txnInfo` and `codeInfo`. The history variables
say what happened outside the storage: `asked` and `approved`, which users were shown
the consent page and which approved; `revived`, which approvals were saved over a
record that was gone; `delivered`, `redeemed` and `redeemer`, where codes and tokens
went; `rejected`, which callbacks were refused as unregistered.

What the proxy is deployed with is a variable that never changes, `env`, one of the
constant `Deployment`: whether the storage has `take()` (`env.atomicTake`), and bounds
on instances, ids and time. Without `take()`, `takeFromStorage` is a get followed by a
delete, and the two are separate steps (`Callback`/`FinishTakeTxn`,
`Exchange`/`FinishTakeCode`). A storage call may fail (`Throw`), a process may die
at any point (`Crash`; its cache and requests are lost), and a response may be lost
after the save took effect. Redirect-URI patterns are a relation (`Redirects`), a
PKCE verifier matches or does not.

A request may name any transaction that is stored: the id is in the consent page as
well as in the redirect upstream, `handleConsent` takes any, and `handleCallback` does
not read `consentGiven`. A client presents codes that were delivered to a redirect URI.
Both may do so as often as they like, to any instance, with any client id and verifier.

### CodeGrant

RFC 6749 4.1 and 7636 as one table: an authorization is asked for (`Ask`), made into a
code (`MakeCode`), and the code answered (`Answer`), for the client that asked and a
holder of the verifier. Where records can be taken (`single`) each happens once, with
the exception the code makes: an approval saved over a consumed record reopens its
authorization (`Reopen`), which may then yield further codes. The table knows no
storage, instance, clock or crash, and no consent either, on which the callback does
not depend. `OAuthFlow` maps to it from its history variables
(`G == INSTANCE CodeGrant WITH ...`): every storage call, sweep, retry and crash is a
stutter, and what a client can see is a step of the table.

### TokenSwap

JWT number *n* has jti *n*; `mapped` and `record` are the `mapping:` and `upstream:`
records; `current[g]` is the generation of the refresh token the upstream accepts for
grant *g*. `Refresh` takes the mapping of any valid JWT that was sent to a client:
`verify()` checks no token type, so an access token can be redeemed like a refresh
token, which starts a second chain of refresh tokens in its grant. `chain` is a history
value that tells the chains of a grant apart: 0 for the one of the code exchange, *j* for
the one that redeeming access token *j* started. `Load` reads the upstream record,
`CallUpstream` rotates at the provider, with any lifetimes, the `Save...` steps write the
answer, and `Fail` leads to `Restore`, which recomputes the remaining lifetime as
`restoreMapping` does.

The deployment `env` says: does the upstream rotate its refresh token (`rotates`), may
storage calls and processes fail (`~reliable`), do the saves of one response happen
within one tick of the clock, that is, faster than the shortest lifetime (`prompt`),
does the storage implement `take()` (`atomicTake`), and which lifetimes the upstream
gives (`lifetimes`). A property that needs one of these says so; `Steadfast` is
reliable, prompt and with `take()`.

Three things the code does not promise are outside the properties, and TLC refutes each
property without its restriction at the bounds of the run: one refresh token per *grant*
(redeem the access token and the refresh token), that an access token other than the
last one of its grant resolves (a rotation with shorter lifetimes replaces the upstream
record, and it expires first; the comment at `OAuthProxy.ts:1220` looks at the tokens of
one response only), and both `CurrentAccessTokenResolves` and `StaysLoggedIn` in a grant
with two chains (`~Unforked`), whose rotations overwrite the one record they share.

### TokenStorage and DiskStore

`TokenStorage` follows each saved value: new, stored, claimed by one `take`,
observed, or gone. A storage may lose values (they expire, are overwritten, a process
dies), it may not return one twice. `DiskStore` is the directory: a file per key
(`linked`), claim files (`claims`), contents that are `Garbled` between truncation
and write. Every action is one file system call with the code around it. A call
belongs to a process, and `Crash` loses the calls of one. The refinement mapping is
`Life`, which reads from the directory where a value is.

### DiscoveryCache

`epoch[u]` counts the clears that concern `u` (a history variable); the code's
`#generation` and `#urlGenerations` are kept beside it as the code keeps them, so
that the properties, stated with epochs, say whether the generations do their job.

### ClientMetadata

A client is the URL of a document that its owner replaces at will (`Publish`). A call
is answered from the cache, or fetches: the origin answers with the version of the
moment (`OriginAnswers`), and `BodyRead` validates, caches and returns it when the body
is complete, so that overlapping fetches may cache in either order. Time is relative:
`left` of a cache entry, `elapsed` of a fetch, and `age` of a replaced version, which
stops being counted at `Horizon`, beyond every bound a property states. The documents
are chosen in `Init`, all combinations of them. `Accepts` is the allow-list that
`resolveClientRedirectUris` applies to each answer, from the cache or not.

### Server

The n-th `start()` over HTTP creates handler *n* and, when it gets that far, HTTP server
*n*; `app[n]` is the handler that the routes behind server *n* call. `handler` and
`server` are the fields `#handler` and `#httpServer`, which a later `start()` overwrites:
`open` and `accepting` are the handlers not closed and the servers that listen, whether a
field still names them or not. `routed` is the handler of the first endpoint route of
`#honoApp`, the one that answers, and `sealed` says that the app has answered a request,
after which it takes no more routes. `control` is where start() or stop() is suspended,
`stdio` and `connected` the other transports. `Start`, `StartRefused` and `StartStdio` have
no guard but that the previous call returned: `start()` does not look whether an earlier
one failed, or still serves. `overlap` records that one was called over another, and the
properties that do not survive it say so.

`StartRefused` is a start that fails before it registers a route; `Resume` is the piece of
start() or stop() after the await that `control` names, among them the rejection of the
stdio handle's `close()`, with which stop() ends half way (`StdioCloseFails`).
`httpServer.close()` waits for connections (`Drained`): an `authenticate()` or `execute()`
whose client has gone does not hold it up, and may outlive stop() and destroy().

A request goes through authentication to a tool call, a subscription or some other
answer. `via` is the server it came through, `signal` the abort signal of the tool's scope
(`requestScope`), and `missed` says that the client of an open stream was not told of a
change. What changes before a stream is open is the client's to list, as the protocol has
it; the server keeps no record of it. The SDK's part (streams, the abort at teardown) is
external and modelled from how `ViteMCP.ts` uses it.

### AuthProvider and Application

The n-th proxy built is proxy n; `running` are the proxies whose timers run, with the
default storage that is destroyed with them. `Application` extends `Server` and
instantiates `AuthProvider` as `P`. An action that both take part in conjoins theirs:
a start asks the provider for its proxy and mounts it (`mounts`), an arriving request
with a token asks for it and awaits that proxy (`using`), and is refused when the
provider was destroyed. `Destroy` and `DestroyProxy` happen at any moment; `early` says
whether the documented order, stop and then destroy, was kept. `AllowAnonymous` is the
option that lets a request without a valid token pass.

### OpenApi and ToolResult

A document comes with the options that select from it: `include`, `exclude` and
`maxTools` (`Keeps`, `OverLimit`). The normalizer's recursion is an explicit stack: `Hoist`
reserves a name and descends, `Hoisted` stores the finished schema and returns. A schema is
its shape (a `$ref`, an `allOf`, an `anyOf` or `oneOf`, an object with properties, a bare
`type: object`, any other), its `$ref`s and its own property names; a name is a sequence, so
that a document can itself use a suffixed name. `flattenObject`, `resolvesToObject` and
`collectDefinitions` walk a graph of definitions; the model says which of them they reach
(`Closure`, the least closed set). The first goes through `$ref` and `allOf` (`Flattening`),
the second through `anyOf` and `oneOf` too (`Resolving`) and accepts a bare object, and
where they cut the walk off at a depth of 8 the model says whether a path is longer
(`Shallow`), which a cycle always is.

Where two parameters end up with one argument key, because a parameter has the suffixed
name of another, one of them keeps it (`Owners`), and a body property overwrites either.
After the last tool is added (`serve`), `Call` makes the request of any accepted set of
arguments. Its query and headers are sets of a name and where the value came from, and
`Query` and `InOrder` write them in the order of `executeRequest`: arguments, the cookie
header, the content type, the configured headers, with header names folded as `Headers`
folds them. `CallFails` is a request that gets no answer. `Respond` answers one: with a
status, a media type and, for JSON, a value whose keys may be those of a content block, of
a content list, of a structured result, or none. `ReadResponse` is what `execute()` makes
of it, and `ToolResult`, instantiated as `R`, what the server makes of that.

## Runs

| Run | Question | Bounds, and why they are enough |
|---|---|---|
| OAuthFlow | Are transactions and codes single-use, on every path, do tokens go to the right client, does every instance know the clients, and is the whole a code grant? The consent screen is on, and can be passed over | Three deployments, 2 requests at a time: one transaction and two codes on two instances, times 0 and 1; two transactions and two codes on one instance; and a storage without take(), one transaction and one code, times 0 and 1. Lifetimes of 0, so that each record can be live or expired. The races are pairwise |
| OAuthConsent | (violation) does a transaction whose user was asked yield a code only after the approval? | one transaction, one instance, with take() |
| OAuthConsentTwice | (violation) is a callback single-use when a consent form is submitted beside it? | as above |
| OAuthCimd | (violation) can a metadata-document client complete the flow? | one client of each kind |
| TokenSwap | Is a token answered once, and has a chain one refresh token, when anything may fail? Does the current access token resolve until it expires, and is nobody logged out by a transient failure, when only the upstream fails? | one grant, 2 instances, 2 requests, 2 upstream rotations. Everything fails and the upstream rotates: 6 JWTs (an exchange and two answers), lifetime 2, times 0 to 3. Only the upstream fails: 5 JWTs, each lifetime 1 or 3, times 0 to 2, so that a rotation can bring a shorter or a longer lifetime than the one before. That without take(): 4 JWTs |
| DiscoveryCache | Does clear() win over pending fetches? | 2 callers, 2 URLs, 2 fetches, 2 clears |
| DiskStore | Is a value taken once; does the directory implement `TokenStorage`; are leftovers reaped? | one key saved twice, 2 calls at a time, one crash, times 0 to 2. One process here; the theorems are for any number |
| DiskStoreSweep | (violation) does a sweep remove expired entries only? | two processes |
| ClientMetadata | How old may an answer be, and does every fetch end? | one client, 2 calls, every pair of documents; lifetimes 0, 1 and a default of 2, a timeout of 2 ticks. The second version is what staleness needs; the theorems are for any number |
| Application | Signals, handlers, notices, what stop() and destroy() leave, stop() returns | 2 starts over HTTP in any order with stdio, one connected server, stops and failures; 2 requests, 2 proxies (744,000 states). A start over one that failed or serves, and one after a stop, need two; longer sequences are covered by the theorems |
| OpenApi | Names, detached schemas, arguments, URLs, credentials, what becomes of an answer, termination | 1,355 documents: every way to fill 3 components with 11 schemas, under 3 operations that collide in every way modelled, with suffixed names among their parameters and properties and 4 kinds of body; selections from 5 operations; every answer of `Response`, with and without an output schema |
| OpenApiComposed | (violation) are properties beside an allOf flattened? | 8 documents |

Symmetry is used in the OAuthFlow runs and in TokenSwap, which check no liveness. The
sets permuted (slots, transactions, codes, instances, and in OAuthFlow the two clients
together with their URIs, as the MC modules define) occur in no constant that a
permutation changes, and no property distinguishes their members. `CHECK_DEADLOCK FALSE`
is set everywhere because every model may stop: clients stop asking, pools of ids and
clocks are bounded, and a converted document may have no tool to call. The type
invariants of `OAuthFlow`, `DiscoveryCache`, `DiskStore` and `ClientMetadata` are in no run,
since they are proved.

### Fairness

Safety properties are checked without any. `DiscoveryCache`: a fetch arrives or fails
(`AbortSignal.timeout` bounds it, body included) and a settled promise runs its
callers. `DiskStore`: the interval timer of each process goes on sweeping and file
system calls return. `ClientMetadata`: time passes and the timer of `AbortSignal.timeout` fires.
`Application` (the fairness of `Server`): file and socket calls return, timers fire, the
SDK finishes what it was given; nothing is assumed of `execute()` or of clients, which is
why `StopReturns` excepts tools without `timeoutMs` whose client waits for them, and the
streams of a handler that another start took the place of (`Held`). `OpenApi`: the
conversion is synchronous code. No strong fairness is used.

### What the violations show

1. **Consent** (`docs/oauth.md:458-459`, `OAuthProxy.ts:235`). The consent screen "is what
   stops a confused-deputy attack", but nothing reads `consentGiven`: `handleCallback` makes
   a code of a transaction whose page was shown and never answered.
2. **A callback is single-use** (`OAuthProxy.ts:457`). `handleConsent` writes back the
   transaction it read at the top, without looking whether it is still there. A callback
   that consumes the transaction between the read and the save is undone by the save, and
   a second callback succeeds. One submission of the form is enough.
3. **Two ways to be a known client** (`OAuthProxy.ts:190`). The callback and the code
   exchange look a client up among the dynamic registrations only, so a
   metadata-document client is accepted by `authorize` and refused afterwards.
4. **Clean up expired entries** (`diskStore.ts:69`). The sweep removes files it cannot
   parse, and a file being written cannot be parsed.
5. **allOf is flattened too** (`docs/openapi.md:169`). Properties declared beside an
   `allOf` get no argument.

Neighbours that no text of the repository promises otherwise are not counted as findings;
the passing properties except them by name, and TLC refutes each of these without the
exception. A code drawn after an approval was saved over its consumed transaction
(`revived` in `CallbackOnce`). A rotation with shorter lifetimes, and an access token
redeemed as a refresh token (the end of the section on TokenSwap). An upstream that
rotates its refresh token and whose answer is lost logs the user out (`env.rotates` in
`StaysLoggedIn`), as the comment at `OAuthProxy.ts:1165` accepts. A `start()` called over
another leaves a handler and a socket that no `stop()` closes, and streams that are told
nothing (`overlap`). An input whose name is the suffixed name of another, like a body
property `id__path` beside a path parameter `id`, takes the other's argument or loses its
own (`Clashes`).

## Theorems

All are for arbitrary constants that satisfy the module's `ASSUME`.

* `OAuthFlowProofs`. The types (`TypeInv`: `TypeOK` and that requests refer to drawn
  ids) are inductive. For `CodeRedeemedOnce` the property alone is not inductive; the
  invariant `CodeInv` says that a code is either live in the storage, or held by one
  request between its take and its answer, or redeemed at most once, never two of
  these. It holds where the storage has `take()`, which the property asks for.
  `SpentStaysSpent` needs less, `SaveInv`, and holds with and without.
* `OAuthGrantProofs`. `TxnInv` orders the life of a transaction that was never revived:
  about to be stored, stored, taken by one callback, turned into one code.
  `DeliveryInv` follows the redirect URI from the client's registration through
  transaction and code to the token response, with and without `take()`.
  `ImplementsCodeGrantHolds` puts the invariants of both modules together: every step is
  a step of `CodeGrant` or a stutter, in every deployment, with the consent screen or
  without. The one hypothesis is that of `AcceptedClientCompletesHolds`, `CimdClient = {}`,
  which is exactly what OAuthCimd violates.
* `TokenSwapProofs`. `SwapInv` is `Typed /\ (env.atomicTake => ChainInv)`. `ChainInv`:
  what can still be redeemed of a chain is in one place, as one mapped refresh token or
  as one request that took it and has neither answered nor handed it back (`OneChain`);
  a token in a request's hands was sent, is not mapped and not answered (`Held`); what was
  answered once is not mapped (`Spent`); and a chain starts with its access token (`Started`). Single
  use and one refresh token per chain follow, for any number of instances and failures.
  `CurrentAccessTokenResolves` and `StaysLoggedIn` need `LastingInv` under `Steadfast`: in a
  grant with one chain the record lives as long as the tokens of the last response
  (`RecordInv`), a token not answered is mapped or in a request's hands (`KeptInv`), an
  access token that was answered started a chain (`ForkInv`), and without rotation the
  record holds the generation the provider accepts (`SteadyInv`). No hypothesis on
  lifetimes: each rotation may bring any.
* `ClientMetadataProofs`. `FreshInv` bounds the age of a version wherever it is: by the
  time its fetch has been running, then by what its lifetime has used up in the cache
  plus `Timeout`. No assumption on the order in which fetches end.
* `ApplicationProofs`. No hypothesis beside the assumptions on the constants: starts come
  in any order. `SignalInv` relates a call's signal to what its caller was given. `LifeInv`
  says that fields, handlers and servers are numbered by the starts that made them
  (`Numbered`), that every server's routes lead to an open handler (`Routes`), which pieces of
  start() and stop() can be suspended in which state (`Phases`), and that without overlap
  there is one handler and one server (`Single`). `ProviderInv` is the provider's own.
  `AppInv` ties them: the proxy that is mounted behind a socket is the one the provider
  holds (`SameProxy`), and without overlap a destroy after stop finds no exchange with a
  client open (`Ended`). A step of `Application` is one of `Server` or a stutter
  (`ApplicationRefinesServer`), so that what is proved of `Server` holds composed.
* `DiscoveryCacheProofs`. `CacheInv` relates the generations the code keeps to the
  history of clears: a fetch is current for the code only if no clear overtook it.
* `DiskStoreProofs`. `DiskInv`: a file is under one name (`OneName`), taken by one call
  (`OneTaker`), written once (`OneFile`), and an observed value is in no file that can
  still be read (`Spent`). `TakenOnce` follows, and every step maps to a step or a
  stutter of `TokenStorage` under `Life` (`DiskStoreRefines`).

* `OpenApiProofs`. `Running` holds the types and how far the conversion is.
  `ToolNamesUnique` rests on `FreeNameIsFree`: among more suffixes than there are taken
  names one is free. `Hoisting` is the invariant of the normalizer: two components never
  share a name, a component is hoisted once and is on the stack at most once (hence
  `RecursionIsBounded`), the `$ref`s a frame has finished have names, and a name has its
  finished definition unless its component is on the stack. When the root of a route has
  nothing left to do, nothing is on the stack, so that whatever is detached then is
  complete (`Schemas`), and stays so while later routes add names. `Bindings` says what
  each tool's arguments cover: every body property, by the minimality of `Closure`, and
  every parameter that no name clashes with (two inputs that end up with one key clash,
  `KeysOfOneClash`). One hypothesis, where it is
  named: `NamesAreSequences`, so that suffixes tell names apart.

Every invariant of the passing runs but `CredentialsWin`, every action property and both
refinements are theorems, and so are the type invariants.

Only model-checked: all liveness (`EveryGetReturns`, `LeftoversReaped`, `StopReturns`,
`EveryFetchEnds`, `ConversionEnds`), which needs fairness and ENABLED and is out of the
prover's reach; `CredentialsWin`, the order in which a request is put together; and what
a recursive definition computes for every input, which here concerns `Shallow` alone: the
theorems hold whatever it yields.

## Not modelled, and why

* An `'error'` event of a socket that cannot listen: `#startHttp` registers no handler
  for it, so the process ends.
* `handlePassthroughRefresh`: forwards to the upstream provider and keeps no state.
  PKCE hashing, JWT contents, encryption, the patterns of redirect URIs: pure
  functions; the models take their verdicts (`Redirects`, "matching", `kind`).
* The URL and address checks before a metadata document is fetched: they depend on the
  URL and the configuration alone.
* The contents of the catalogue (that a duplicate tool breaks every request is among
  the hazards without a property), media helpers, resources, prompts, completions.
  That a request's session stays its own is by construction (one `McpServer` per
  request, `AsyncLocalStorage`).
* `loadSpec`, parameter styles, slugs, `resolveBaseUrl`: I/O and text.
* The edge handler has the routes and refusals of the HTTP endpoint and no start or
  stop. Consent HTML, claims, JWKS and the JSON Schema adapter keep no state of their
  own. The CLI, the test harness and the examples are not part of the server.

## Plan

Done, in the order of importance: OAuthFlow and its proofs, TokenSwap and its proofs,
DiscoveryCache, TokenStorage and DiskStore with the refinement, Server and its
composition with AuthProvider, with proofs, ClientMetadata with proofs, CodeGrant with
the refinement, OpenApi with its answers and its proofs. Next:

1. `ClientMetadata` composed with `OAuthFlow`, so that a metadata-document client can
   change its redirect URIs between authorize and callback.
2. `TokenStorage` composed with OAuthFlow's storage variables, so that what the proxy
   assumes of a storage is what the storages are shown to give.
3. Redirect-URI matching as an operator against a reference definition; the
   passthrough refresh.
