# A TLA+ model of the Trusted Gateway labs

This directory keeps the formal models of the code in this repository: TLA+
modules for the programs that have state worth checking, TLC configurations
that model-check them on small instances, and proofs, checked by TLAPS, that the
most important results hold for every size of instance. Paths below are
relative to the repository's root, so `src/a2a-did-auth/portal/server.py` is
the portal of the DID-Auth lab.

The repository is a set of labs around the Agent Gateway, a separate product
that is not part of it. A lab is a small distributed system: a page in the
browser, a portal that serves it, an agent or MCP server behind the gateway,
sometimes a second one. The labs share no code, but the same kinds of state
come back in each: a single slot or session per server process, a bounded log
that pages poll, a sign-in that leaves the site and returns, a chain of calls
between agents. Where labs hold copies of the same program, one module has what
they share and another what each does of its own.

Contents:

1. [Inventory](#1-inventory): every part of the repository, its state, its
   operations, what is hard about it
2. [Modules and the code they stand for](#2-modules-and-the-code-they-stand-for)
3. [Runs, bounds and fairness](#3-runs-bounds-and-fairness)
4. [Proofs](#4-proofs)
5. [Findings](#5-findings)
6. [What is not modelled, and the plan](#6-what-is-not-modelled-and-the-plan)

To check everything by hand: `tlc -config <run>.cfg <module>.tla` for each run
of section 3, `tlapm <module>.tla` for each `*Proofs` module. `PROJECT.json`
lists the runs, the faulty variants that each property is tested against, the
source lines behind every definition, and the hazards the properties are for.

## 1. Inventory

### Modelled parts

**Load-test web server** (`src/gateway-test-harness/ui/server.py`). A threaded
Flask server whose page starts load tests.
- *State*: `_current_proc`, one slot for a locust process, under `_proc_lock`;
  the global flag `_suite_stop_requested`; per request a temporary CONFIG file;
  the processes themselves.
- *Operations*: `POST /run/locust` starts a test and streams its output;
  `POST /run/scenario-suite` runs scenarios one after the other in one response;
  `POST /stop` reads the slot under the lock, then acts on what it read;
  `GET /status`; the client may leave a response at any `yield`.
- *Hard*: requests run in threads, so every lock release is an interleaving
  point; the `finally` of a response runs whenever its client lets it; the
  suite fills the slot without the check the single run makes; the flag of one
  suite is reset by the start of another.
- *Correct when*: no process outlives the response that streams it, suites are
  sequential, a stop ends what it stopped and lets at most one more scenario
  through, the CONFIG file lives exactly as long as its test, the slot names
  the process that a response is serving.

**Locust file, iterations mode** (`src/gateway-test-harness/locust/locustfile.py`).
- *State*: `_iter_claimed`, `_iter_done`, the users' greenlets, delayed quits.
- *Operations*: a task claims a slot of the budget, picks a variant (which may
  raise), posts; the request event counts completions and schedules
  `runner.quit` after the last; `test_start` resets the counters.
- *Hard*: claims and completions are separated by the request; the quit comes
  0.2 s after its decision; a restart between the two; an exception after the
  claim.
- *Correct when*: never more than N requests of a test, a quit only after N
  completions, one quit, none that kills a request in flight, an end in all
  cases.

**DID-Auth portal** (`src/a2a-did-auth/portal/server.py`, `identity.py`).
- *State*: the global `identity` and `session` (four fields), the key file.
- *Operations*: authenticate (a call to the gateway, then four assignments),
  send (which drops the session on a 401), logout, regenerate (unlink, load or
  create, assign, clear the session), restart, crash.
- *Hard*: handlers are threads without a lock; a call reads the identity, waits
  for the gateway, then stores; the key file is unlinked, created and written in
  steps, and the process may be killed between any two.
- *Correct when*: a session is whole and belongs to the identity in force, the
  identity in memory is the one on disk.

**Echo agent and its log drawer** (`src/a2a-credential-delegation/agent.py`,
`portal/static/index.html`).
- *State*: the deque `_EVENTS` with `_EVENT_SEQ`; on the page, `logs.cursor`.
- *Operations*: the middleware rejects or lets a call through and records the
  outcome when it is answered; `GET /debug/events?since=`; `DELETE`; the page
  polls on a timer and when the drawer opens, renders, clears; the agent
  restarts and numbers from 1 again.
- *Hard*: two fetches at once and answers out of order, a cursor from a former
  life of the agent, a clear between a fetch and its answer, a full log.
- *Correct when*: nothing that the log holds is skipped, nothing is rendered
  twice without cause, every answer is logged once.

**Personal agent and its MCP client**
(`src/use-cases/agent-delegated-mcp-access/agents/delegate_agent.py`,
`mcp_gateway_client.py`).
- *State*: per task an MCP session (version, session id) in an `async with`
  block, the task's state; at the gateway the user's delegated credential.
- *Operations*: plan a prompt into tool calls, open a session with version
  negotiation (a refused `initialize` is repeated once with a version the
  gateway names), call tools in order, delete the session, end the task as
  completed, failed, or asking for consent.
- *Hard*: every exchange may fail with or without effect at the server; consent
  is given and revoked between calls; `__aexit__` does not run if `__aenter__`
  raises.
- *Correct when*: tool calls are executed in order and at most once, requests
  carry the negotiated agreement, sessions do not leak, every prompt is
  answered.

**OAuth sign-in portals**
(`src/use-cases/agent-delegated-mcp-access/portal/server.py`,
`src/a2a-obo/portal/server.py`, `src/a2a-credential-delegation/portal/server.py`).
- *State*: `_SESSIONS` in memory; in the browser the state and session cookies.
- *Operations*: start a sign-in, the callback with its code exchange, requests
  that look a session up (and forget an expired one) or only relay, logout,
  expiry of each cookie and session, restart.
- *Hard*: tabs share the cookies; an answer sets cookies when it arrives, not
  when it was computed; a sign-in stays at Entra ID for minutes.
- *Correct when*: only disturbed sign-ins are refused, and none of those
  passes; no session is left behind at the portal except by an overlap that
  can be named; a logout is final.

**Secure agent communication, the two agents**
(`src/use-cases/secure-agent-communication/agent/agent.py`).
- *State*: `INCOMING_LOG`, `_peer_legacy_cache`, the mode of the process.
- *Operations*: a message is logged, then answered or forwarded to the peer;
  before the first forward the peer's card is read; `DELETE /incoming`; restart
  in either protocol mode.
- *Hard*: each agent is the other's peer, so a forwarded text may be forwarded
  back; a cached version of a peer that has since been restarted; a log
  that is trimmed by one entry and grown by two; requests that time out while
  the peer goes on.
- *Correct when*: forwarding comes to an end, no forward fails because of a
  stale version, every forward is in the log first.

**Chat surfaces with Google sign-in** (`src/auth0-mcp-surface/backend/main.py`,
`src/glean-mcp-surface/oauth_chat_app.py`).
- *State*: a dictionary of sign-in states with their expiry, in memory; the
  whole session (token, user, guest flag) in one signed cookie of the browser.
- *Operations*: login, which purges what has expired and puts a new state; the
  callback, which consumes the state, trades the code and puts the token into
  the session; guest sign-in (Glean only), logout, requests relayed to the gateway.
- *Hard*: threads walk over and change one dictionary; the clock is read before
  the purge and again at the callback; an answer carries the session that its
  request came with, and may arrive after a logout; a restart forgets the states
  and, without a configured secret, every session.
- *Correct when*: a state is accepted once and only in time, whatever others
  purge; a signed-out session comes back only by a cause that can be named.

**OBO chain** (`src/a2a-obo/agents`, `portal/server.py`, `portal/static/index.html`).
- *State*: in each of the two agents a deque of trace events and a counter; on
  the page, per send, the newest numbers of both before it.
- *Operations*: the page snapshots both buffers, asks, reads both again and
  draws what is new; the portal adds the user's token; the orchestrator trades it
  for a token of the advisory agent and asks that agent, which checks the scope.
- *Hard*: sends overlap; every hop may fail, time out while the next goes on,
  or restart and number from 1 again; the buffers are bounded; the session may go
  between two requests of one send.
- *Correct when*: advice is given at most once, for the user's token, and
  reported only if it was given; a page draws the steps of its own request.

**Sample MCP servers and clients, the REST API** (`src/mcp`, `src/mcp-latest`,
`src/auth0-mcp-surface/mcp-server`, `src/rest-api`).
- *State*: none between two requests.
- *Operations*: JSON-RPC requests to answers, in the protocol with an
  `initialize` handshake and in the stateless one with metadata and headers;
  the same calculator and forecast over REST.
- *Hard*: JSON values of an unexpected kind at each level, numbers that are
  infinite, no number or beyond a float, headers that do not repeat the body, a
  client of one protocol at a server of the other.
- *Correct when*: copies of one tool answer alike, or differ where it is said.

**Token validation of the protected agents** (`entra_auth.py`, three copies, and
the advisory agent's own).
- *State*: none beyond PyJWT's cache of keys.
- *Hard*: four validators, each with an audience, an issuer and a scope of its
  own. Only the echo agent's takes machines, which it tells from users by
  what their tokens lack; the advisory agent's looks at the scope alone and
  the orchestrator's at nothing.
- *Correct when*: a genuine token of each flow meets the check of its flow,
  however the agent is configured, and no other token is taken.

**Agents with identity** (`src/a2a-agent-identity`).
- *State*: none between two messages.
- *Operations*: the personal agent answers from a table of words, or asks the
  finance agent, which has its own.
- *Hard*: two lists of words in two files decide one thing; the call between
  the agents never raises.
- *Correct when*: what one list sends on, the other knows, except for named words.

### Parts that are not modelled

| part | state and operations | why not |
|---|---|---|
| portal of the secure agents | a signed cookie; stateless relays; a polling page without cursor | its requests are the inputs of `SecureAgents` |
| trace page of the personal agent | a second buffer like the OBO agents' | its page draws the last plan; planned |
| A2A samples, DID-Auth sample agent | none that survives a message | answers are a function of the message |
| test scripts of the MCP clients, REST client | none; scripts of consecutive calls | nothing can interleave |
| Vertex AI and Azure Foundry agents | none; prompts to hosted models, deployment | the behaviour is the cloud service's |
| portal pages | rendering, event handlers | the requests they may send are the environment of the servers' models |
| Agent Gateway | a separate product | external; its answers are the environment of its clients' models |
| gateway configurations, policies, guides | data | interpreted by the gateway |
| monitoring and start scripts | none | shell around docker and Python |

### How the parts interact

Pages call their portal by HTTP; a portal calls the gateway or an agent and
keeps its session in its own process; agents call each other and MCP servers
through the gateway. No two labs interact. Within a lab the models compose
where the interaction is the point: the page and the agent it polls
(`LogViewer` over `EchoAgent`), the agent and the MCP client in its tasks
(`DelegateAgent` over `McpGatewayClient`), the two agents and their forwards
(`SecureAgents`), the sign-in of several tabs with one portal (`OAuthPortal`,
in each of three portals by `EntraPortals`), the browser, its cookie and a surface
(`GoogleSignIn` over `SignInSurface`), the page, the portal and two agents
(`OboChain`), the server, its streams and its processes (`LoadTestServer`), one
request at several servers (`SampleServers` over `McpServers`, `EntraAuth` and
`IdentityAgents`).

## 2. Modules and the code they stand for

Each `MC*` module only names the members of the constants for TLC. Variables
marked *history* are not in the code: they record what a property speaks of,
and no guard reads them. Operators commented *Faulty variant* are plausible
bugs; no specification uses them, and each property is shown to fail when one
takes the place of the correct definition.

### LoadTestServer

| variable | code |
|---|---|
| `currentProc`, `suiteStop` | `_current_proc`, `_suite_stop_requested` |
| `procs` | state of each process: none, running, told to stop, exited |
| `pc`, `scen`, `tmpFile` | where the generator of each response is, scenarios started, its CONFIG file |
| `stopPc`, `stopProc` | each `/stop`: its step, and the process it read |
| `lateSpawns` | *history*: scenarios spawned with the flag up |
| `mislaid` | *history*: how the slot has lost the live test of a single run: to a response that ended late, or to a suite |

A run is a request. Actions follow the generator from one point where another
thread may run to the next: `Submit`, `StartOk`, `StartRefused`,
`StartRaises` (the check-and-fill of `_start` is one step, it holds the lock),
`StreamEof`, `StreamClosed` (GeneratorExit at a `yield`), `StreamDone`,
`ClearSlot`; for suites `SuiteNextScenario`, `StopSeen`, `SuiteSpawn` and
`SuiteFillSlot` (two steps, as the code spawns before it takes the lock),
`SuiteLineAfterStop`, `SuiteEof`, `SuiteWaited`, `SuiteClear`,
`SuiteClosedReading`, `SuiteClosedBetween`, `SuiteClosedClear`; `EmptySlot(p)` is
the `finally` of the response whose process is p, which empties the slot whatever
it holds; for a stop
`StopFlag`, `StopRead`, `StopReply`. Processes end by themselves or obey
SIGTERM. Output lines are not told apart. A read of `/status` is the operator
`SlotBusy`.

### LocustIterations and RequestBudget

`claimed`, `done` are the counters, `user` where each greenlet is (idle,
picking, sending, stopped), `quitTimers` the scheduled quits, `over` how the
run ended; `sent`, `lost` are *history*. Greenlets switch only at I/O, so a
task is atomic from one request to the next: `Claim`, `PickRaises`, `Post`,
`OnRequest`, `StopUser`, and `QuitFires`, `TestStart`, `RunTimeExpires`.
`RequestBudget` is the promise of the file's header: N requests, then stop; a
test restarted from locust's page begins again. `ImplementsBudget` is the
refinement with `completed <- done`.

### DidAuthPortal

`server`, `identity`, `keyFile`, `session`, `pc`, `callDid` (the DID a call has
read), `minted` (names for fresh keys) and `crashes`; `overlap` is *history*:
which authenticates were in flight when a regenerate changed the identity, which
calls began to assign session fields while another did, which regenerates ran at
once. Each handler is a sequence of steps split at every access that another
thread may see: `AuthPost`, `AuthGranted`, then `StoreSurface`, `StoreToken`,
`StoreExpiry`; `RegenBegin`, `RegenUnlink`, `RegenLoad`/`RegenGenerate`,
`RegenOpen` (the file is now empty), `RegenWrite`, `RegenAssign`;
`SendPost`/`SendAnswered`; `LogoutBegin`; `Crash` and `Restart`. A restart that
finds an empty file is *stuck*: `load_or_create` raises.

### EchoAgent and LogViewer

A call is rejected (`Reject`), or let through and answered (`Authorize`,
`Respond`), or its endpoint raises (`EndpointRaises`), which the middleware
does not log. `EchoAgent` has the calls and the log (`events`, `nextSeq`), and `life`, the
number of restarts, which identifies an event together with its number. It has
no `Next` of its own: `LogViewer` extends it with the page. `StartPoll` reads
the cursor, `ServePoll` answers from the log, `RenderPoll` renders and sets the
cursor to the answer's; `PollFails`; `ClearLogs` is the clear button, which
empties the agent's log while fetches may be under way. An answer is the set of
its events, each with its number, and the cursor that goes with it; that the
page renders them in order is layout. `shown`, `replayed`, `overlapped` and
`staleSeq` (the largest number a cursor had at a restart) are *history*.

### McpGatewayClient, DelegateAgent and DelegatedTask

`conn[t]` is the client of task t: the exchange it waits for, the version and
session its headers carry, how its block ended. The MCP server's side is
`sessions` and `executed`; the gateway's is `supported` and `consent`. An
exchange is one step at the point where its answer, or its failure, reaches
the client; a failure chooses whether the server had acted.
`NegotiateVersion` is the code's choice among the versions that a refusal
names. `DelegateAgent` adds the task: `Prompt`, `ReplyLocally`, `OpenSession`,
`EndTask`, and the user's `Approve` and `Revoke`. `DelegatedTask` is the
abstract task: calls in order, at most once, completed only after all of them,
and asking for consent only while the last call is still to come.

### OAuthPortal and EntraPortals

`jar` is the browser's two cookies, `flow` each sign-in with the cookie and the
query that its callback carried and its result, `sessions` the portal's table
(none, live, or expired and not yet looked up), `request` every other request
with the cookie it left the browser with. `disturbed` and `past` are *history*.
A request takes its cookies when it is sent, is served later, and changes the
jar when its answer arrives: `Start`, `AuthStart`, `Return`, `AuthCallback`,
`ExchangeSucceeds`/`ExchangeFails`, `Answered`; `Send`, `Serve`, `Relay` (a
request for which no session is looked up), `AgentAnswers`, `Logout`,
`RequestDone`; the expiries and `Restart`. `EntraPortals` says which of them each
portal has: the handlers are copies, but in the OBO portal `chat` goes on without
a session, and in the credential portal the page calls the agent itself and the
portal relays for anyone.

### SecureAgents

A chat is a chain of hops: hop n is handled by the agent `At(h)`, the two agents
in turn. `text[h]` is what a hop received, `version[h]` the protocol it
forwards in, `pc[h]` its handler. `said[c]` is what the user of chat c wrote, a
sequence of words, and a text the set of the positions in it that are left:
nothing in the code adds a word. A word is reduced to the agent it names, if any,
and how: by which pattern of `_extract_forward_text` the text is read. A directive
("tell") and `send a message to X:` ("send", of any X) are peeled with all before
them, `send "..." to X` ("quote") leaves what it quotes, the fallback strips
"ping" too, nothing strips "contact", and "name" has no verb. `ShouldForward` and
`ExtractForwardText` translate the two functions on such texts, the patterns in
their order. Not told apart: what is quoted is all that stands before the
"quote", a directive to the peer is stripped with or without its punctuation. `Answer` and `BeginForward` are `execute` up to
its first await, `LookupOk`/`LookupFails` the discovery of the peer's version,
`Deliver`/`Reject` the POST at the peer, `GetReply`/`ForwardFails` its end.
After a time-out the peer goes on with what it received. What the SDK makes of
an exception (a JSON-RPC error) is external: the caller may get it as a reply or
as a failure. `carded` (hops whose version came from a card) and `cut` (logs that
lost entries) are *history*. The instance's portals post in a protocol their own
agent accepts: both take `A2A_LEGACY_MODE` from the same environment file.

### SignInSurface and GoogleSignIn

`SignInSurface` is what the two surfaces share: `states` (the expiry of each
sign-in state, 0 for none), the clock `now`, the browser's `cookie` with the
start of the server that signed it (`life`), and the sign-ins (`flow`) and other
requests (`call`) with the session each `carried`. `setup` chooses the surface,
whether its session secret is configured, and whether its session middleware
sends a session back with every answer: the versions of Starlette that
`requirements.txt` allows do either. `GoogleSignIn` has the handlers. `Login` and
`LoginDone` are two steps, because the purge walks over the dictionary in
between; `LoginRaises` is the walk that another thread has disturbed. A request
may be brought back again (`Return` is open to a sign-in under way or done).
`gone` and `late` are *history*: the tokens that an answer took out of the
cookie, and those of them that a request under way still held.

### OboChain and DelegatedRequest

`page[c]` is a send of the page, `orch[c]` and `adv[c]` what the agents do with it,
`trace` and `next` the buffers; `drawn` is what the page shows of each agent.
The page's steps are its requests, in order; a failure of one of them, a
restart of an agent and a change of the session are counted together by
`faults`. Time-outs between portal and agents, refusals of Entra and the
gateway, and lost answers are not counted: they may always happen. A caller
that gives up cancels nothing. `Fresh` is the page's filter, `Drawn` its
rendering. Both
speak of the positions of events in the buffer. `Made` is what a send ought to
draw: the steps its request has recorded. `disturbed` is *history*.
`DelegatedRequest` is the promise for one
question: asked, granted, advised, in this order, each once, and nothing
more in the user's name after an answer other than an error.

### McpServers, EntraAuth, IdentityAgents and SampleServers

The first three are functions, one per server, validator or agent, over classes
of input: the JSON kind of each member, what each header says, the classes of
numbers that Python and its JSON encoder tell apart, which words a question
contains. A token has the claims Entra issues in its flow (`Grants`: a user's, a
machine's, an id token), its audience, issuer and scopes, and whether its key,
signature and time would hold. A validator is a function of the token and of the
settings of its agent (`Settings`), which are drawn with it: the echo agent's
audiences, issuers, scope and role may be any that can be configured, the
others have the scope and the audience of their own lab. `Computed` gives the classes that a
calculation may come to. `SampleServers` draws one input and hands it to every
server that takes it; a property compares the answers. Its constant `Questions`
is the set of questions to draw from, each the set of the agents' words it
contains.

## 3. Runs, bounds and fairness

All instances are finite because requests are; they end when every request has
been answered, so deadlock is not checked: a state without successors is a
server with nothing left to do. What must not block is stated as liveness.

| run | instance | distinct states | what it shows |
|---|---|---|---|
| `LoadTestServer_safety` | any three of three single runs (symmetric) and a suite of 2 scenarios, a stop | 1,710,498 | the slot, the processes and the CONFIG files in every interleaving of three responses and a stop; two tests of single runs at a time only where the slot has lost one |
| `LoadTestServer_suites` | a single run and two suites of 2, of which two requests are made, a stop | 389,008 | suites are sequential even when the second takes the flag back; without that a stop ends every suite; a stop that answered ok ends the single run it stopped |
| `LocustIterations_tests` | 3 users, N = 4, tasks that may raise, 2 restarts | 4,734 | no request killed, the refinement of `RequestBudget`, and an end unless a slot was lost |
| `DidAuthPortal_session` | an authenticate, a send, 2 regenerates, a logout, a crash | 2,338,286 | whole sessions, stale sessions only through an overlap, the key file |
| `LogViewer_log` | 3 calls, 2 fetches at a time, a log of 2, a restart | 253,702 | polling skips nothing and replays nothing without an overlap, the log, and the page's return after a restart |
| `DelegateAgent_tasks` | 2 tasks of at most 2 calls, 3 versions and any set of them supported | 86,663 | sessions, agreements, the refinement of `DelegatedTask`, an answer to every prompt |
| `OAuthPortal_tabs` | 2 sign-ins, 2 other requests, a restart, each of the three portals | 1,129,050 | refusals, orphaned sessions and logout across tabs |
| `SecureAgents_chats` | a chat of up to 3 hops (4 kinds of text) beside one that is answered or forwarded once, log cap 2, a restart or a clear, both modes for each agent | 1,192,887 | versions, the log and the end of forwarding |
| `GoogleSignIn_browser` | 2 sign-ins, 2 other requests, a clock of 3 moments with a time to live of 1, a restart, both surfaces | 1,411,717 | which states are accepted, which tokens come back, whose guest flag a token carries |
| `OboChain_chats` | 2 sends, buffers of 4 events, 1 fault | 2,128,023 | which steps a send draws; the refinement of `DelegatedRequest` |
| `SampleServers_inputs` | one input of all classes, questions of up to 2 words | 125,453 | where the copies of a sample differ, and which tokens each agent takes |
| `LocustIterations_lostslot` | violation | - | section 5 |

**Why the bounds are enough to be interesting.** The slot needs two runs to be
overwritten, and three single runs for two tests at a time: one whose response
ends late, one whose test that hides, and one that starts beside it. A suite needs two
scenarios for there to be one after the stop. A log of 2 is full after the
second of 3 calls, and two fetches are needed to reorder answers. The budget
needs more users than slots left. Two regenerates race each other, and with one
authenticate they race it as well. Two calls are needed for a consent that
is missing in the middle of a plan, three versions for a refusal that names a
known one, an unknown one, or both. Two tabs disturb each other's sign-in. Three
hops come back to the first agent with a cached version, and a cap of 2 is
passed by the second forward. A clock of three moments has one before, at and
after the expiry of a state, and the second sign-in purges the first's. Four
events are one more than a send records at the orchestrator and fewer than two
sends do, so the second pushes events of the first out of the buffer. A question needs two
words for the order of two rows to matter. Every next-state disjunct fires in
the passing runs, and every property fails in its run for at least one faulty
variant of the code. The named bounds (`MaxRestarts`, `MaxCrashes`, `MaxHops`,
`MaxResets`, `MaxTime`, `MaxFaults`, the sets of requests) exist for TLC; none of
the theorems fixes them.

**Fairness**, where a run has a liveness property:
- `LoadTestServer`: the threads of started requests are scheduled and read what
  their locust process prints, which it does all the time; a process that was
  sent SIGTERM exits. Nothing makes a test end by itself, a client
  leave, or a new request come.
- `LocustIterations`: greenlets are scheduled, requests are answered or time
  out, the quit's timer fires. The 24 h run-time cap need not expire, nor a task
  raise, nor anyone restart the test.
- `LogViewer`: the page's timer starts fetches and renders answers (weak); the
  agent serves a fetch that is tried again and again (strong, as a fetch may be
  lost each time).
- `DelegateAgent`: each task goes on; every exchange has a timeout. The user
  need not approve.
- The other models have safety properties and refinements only: users may leave a
  sign-in open for ever, and that a chat or a send is answered would say no more
  than that requests time out.

**Properties in brief.** They are stated, each with its comment, at the end of
the modules. Those that took thought:
- `AtMostOneLateScenario`: a stop between the test of the flag and the spawn
  lets one scenario start, never two.
- `CompletedRunsLeaveNoFile` and `RunningTestHasItsConfig` pull in opposite
  directions: the file is removed neither too late nor too early.
- `StaleSessionNeedsOverlap`, `SessionIsWhole`, `IdentityIsPersisted`,
  `OrphanNeedsOverlap`, `ReplayNeedsOverlap`: the code has races that cannot be
  denied; the properties say that these races are the *only* cause of the bad
  state, so that a new cause would be seen.
- `MismatchMeansDisturbed`: the state check is exact in both directions.
- `NothingSkipped`: a page that is in step has shown all that the log holds up
  to its cursor, except the numbers a cursor of a former life had passed. This
  exception is real: after a restart the page asks for events newer than its old
  cursor until an answer tells it the new `last_seq`.
- `LeakNeedsFault`: the context manager leaks a session only through a failed
  or refused exchange.
- `StaleVersionIsAccepted`: the peer's version is cached for good, and this is
  harmless because every card lists 1.0 and every mode accepts it.
- `ForwardedTextsShrink`: forwarding ends for texts whose names all come under
  directives. For others it does not: see section 5.
- `OnlyForwardsOutgrowTheLog`: the cap of 100 is kept by all but forwards.
- `StatesAreJudgedRight`: the purge and the check draw the same boundary from
  clocks read at different moments by different threads, and no purge takes a
  state that would still be accepted.
- `RevivalNeedsSlowAnswer`: the cookie holds the session, so a logout cannot end
  it at the server. What brings it back is a request that held it when it was
  ended, and only where the middleware sends every session back.
- `GuestFlagIsInherited`: nothing but a logout clears the flag, so a token stands
  beside it exactly when a guest's browser brought the sign-in back.
- `ShownIsTheChain`: a send draws its own steps and all of them, unless another
  request wrote to the buffer between its two looks, the agent restarted, or the
  first look failed; each of these does spoil it.
- `OneTestAtATime`: the refusal of `_start` promises one test at a time, and the
  check under the lock is not enough for it: two single runs have live tests
  only through a slot that had lost one before, to a late response or to a
  suite. Clients that leave, stops and refused requests are no cause.
- `FlowsAreTold`: the echo agent takes a machine's token for its role and a user's
  for its scope, whatever is configured; an id token meets the users' check, but
  the machines' when it has no name in it. The other agents take users alone.
- `ServersAgree`, `SendsAreJudged`, `RoutingAgrees`: each says of copies of one
  function exactly where they part, `ServersAgree` for calculations, forecasts
  and chat, in both protocols and over REST.

**What a conditional property shows.** Where the code has a race or a gap, the
property about it says that the bad state comes about in this way and in no
other: it lets the hazard itself happen and guards against a second cause.
It does not show the hazard absent. This holds of `SlotNamesAServedProcess` and
`OneTestAtATime` (a late response empties another's slot), `StopEndsSuites` (a
second suite takes the flag back), `ImplementsBudget` (the quit of the test
before a restart), `StaleSessionNeedsOverlap`, `SessionIsWhole` and
`IdentityIsPersisted` (overlapping calls of the DID portal), `ReplayNeedsOverlap`
(two fetches), `LeakNeedsFault` (a notification that fails), `OrphanNeedsOverlap`
(tabs that disturb each other), `OnlyForwardsOutgrowTheLog` (forwards),
`ForwardedTextsShrink` (names under no directive), `StatesAreJudgedRight` (a
purge that another thread disturbs raises), `GuestFlagIsInherited` (the flag
beside a token), `FlowsAreTold` (an id token without a name), `ShownIsTheChain`
(other sends) and `RoutingAgrees` (the words in one list alone).

## 4. Proofs

Each `*Proofs` module extends the component it is about and proves its results
for all values of the constants, from the named assumptions on them: sets of
requests that are disjoint or do not contain the null value, bounds that are
natural numbers, a nonempty finite set of users. The theorems listed in
`PROJECT.json` are those a reader should know of.

- **LoadTestProofs**, of `LoadTestServer`. `ScenInv` (a suite's counter and its
  step agree) strengthens the types. `ProcInv` says what each process is at each
  step of the response that spawned it, and gives `NoOrphanTest`,
  `SuiteIsSequential` and `SlotNamesAServedProcess`. `OneInv` says that a live test
  of a single run is in the slot as long as none has been mislaid, hence that there
  is one at a time (`TestsRunOneAtATime`). `LateInv` ties `lateSpawns`
  to the flag: once it is 1 the next test of the flag ends the suite. `FileInv`
  relates the CONFIG file to the step, both ways: it gives
  `RunningTestHasItsConfig` and `CompletedRunsLeaveNoFile`. The frame lemma
  `OthersUntouched` (a step of one run leaves the others' data alone) keeps the
  case analyses short.
- **LoadTestProofs**, of `LocustIterations`. `IterInv` is the accounts, claimed =
  sent + picking + lost and sent = done + sending, with claimed at most N:
  without the cardinalities the bound on requests is not inductive. `QuitInv`
  adds that a scheduled quit means N completions, hence (by the accounts) nobody
  sending. From both follows the refinement of `RequestBudget`.
- **DidAuthPortalProofs.** `HandInv` (what a call holds in its hands at each
  step), `DownInv` (nothing in flight when the server is down), `StaleInv`,
  `WholeInv` and `FileInv` for the three safety results. The history sets in
  `overlap` are what makes the invariants inductive: they keep the cause after
  the race is over.
- **OAuthPortalProofs.** `StateInv` (the state cookie is a sign-in's only while
  it is undisturbed) gives `MismatchMeansDisturbed`; `SessionInv` relates
  jar, table and answers in flight, and gives `OrphanNeedsOverlap` and
  `LogoutSticks`. `PortalsRefine` carries them over to each of the three portals.
- **GoogleSignInProofs.** `StoreInv` ties the store to the sign-ins: a valid state
  is in the store with its expiry, or its time is past. With it a purge by any
  thread changes no verdict, which is `StatesAreJudged`. For the cookie three
  lemmas (`FlowChanges`, `CallChanges`, `CookieChanges`) say once what any step
  may do; `SpentInv` (a token is brought once), `LateInv` (who holds a token that
  has left) and `GuestInv` (every copy of a session has its sign-in's flag)
  follow from these, and give `RevivalIsExplained` and `GuestIsInherited`.
- **LogViewerProofs.** That the log is the tail of the event sequence is
  inductive once the log's length is bounded by the number given last. That
  every answer has a number counts finite sets, so `NumbersCountAnswers`
  assumes that `Calls` is finite. For `NothingSkipped` the page alone is not
  inductive: `CoverInv` says of every cursor on its way, in the page or in an
  answer, that whoever takes it up has the events up to it. The largest stale
  number needs that only finitely many fetches are under way
  (`PollsAssumption`; a browser has two). For `ReplayNeedsOverlap`, `AnswerInv`
  says that an answer has the events between two cursors, and `OrderInv` that
  without an overlap these are the events the page has not shown.
- **McpProofs**, of `DelegateAgent`. `NegotiatedVersion` (the chosen version is one
  the gateway named) needs a least element of a set of naturals, proved from
  well-foundedness. `TaskInv` relates task, client and executed calls,
  `LeakInv` clients and the server's sessions; together they give the three
  safety results and the refinement of `DelegatedTask`.
- **McpProofs**, of `SampleServers`. The only invariant, `RepliedInv`, says that the
  answers are those of the operators; the work is in the lemmas about these. The
  servers and validators go case by case through the order of their checks
  (`MetadataPasses`, `CalculatorsAgree`, `OverriddenSends`, ...). For
  `FlowsAreWellTold`, `GenuinePasses` says which tokens reach the check of
  authorization and `JwtClaims` what each flow's tokens claim.
  `RoutingAgrees` is proved for questions of any number of words, where the run
  has two: the first row of a table that matches exists by the least element of a
  set of rows, and a question whose words are in none has no answer (`NoMatch`).
- **SecureAgentsProofs.** `CardInv` (no cache holds 0.3, every version from a
  card is 1.0) gives `StaleVersionIsAccepted`; `LogInv` with `ChainInv` (a chat
  has no hop before its first) gives `ForwardsAreLogged`; the types of the log
  give `OnlyForwardsOutgrowTheLog`. `TextInv` (a hop that is forwarded was to be,
  and the next has what was extracted of its text) gives
  `ForwardedTextsShrink`: `DirectivesAreStripped` shows that a text with a
  directive to the peer loses at least the word that names it, if every name comes
  under a directive, for texts of any length.
- **OboChainProofs.** `TailInv` (a buffer holds the last events of its agent since
  it started, consecutively numbered) goes with the types. `ChainInv` relates
  the three parts of a request: what the orchestrator waits for, the
  advisory agent has been asked; what the page was answered, the orchestrator
  says. It gives the refinement of `DelegatedRequest` (`ChainRefinement`).
  `OwnInv` says of a send that looks undisturbed that the numbers after its
  snapshot are its own steps, in order; with `TailInv` these are in the buffer and
  nothing else is new, hence `ShownIsTheChain`. That holds only if a buffer
  takes the three events of one request, `MaxTrace >= 3` (the code has 200),
  which is the theorem's hypothesis and not an assumption of the module.
  The proof attempt found a mistake of the model: the guards of `Made` overlapped,
  and a `CASE` with two true guards has no definite value.

Each module states one type invariant, `TypeOK` (`IterTypeOK` of
`LocustIterations`), and each that keeps state between steps is proved to keep it
(`TypeCorrect`, `IterTypeCorrect`). `QuitScheduledOnce` (of `LocustIterations`:
before a restart one request alone, the last, schedules the quit) is proved and
checked by no run.

**Only model-checked**: liveness, which is out of the prover's reach
(`StopEndsSingleRun`, `StopEndsSuites`, `StopsUnlessSlotLost`, `ViewerResyncs`,
`EveryPromptIsAnswered`). Every safety property that a passing run checks, and every
refinement, is proved.

## 5. Findings

One statement of the repository that its code does not keep is a run that TLC ends
with a counterexample:

- **N requests, then stop** (`LocustIterations_lostslot`,
  `src/gateway-test-harness/locust/locustfile.py:9`). The slot is claimed before
  `_pick_variant`, which raises when no endpoint matches; the slot is neither
  given back nor counted, the quit never comes, and the run waits for its 24 h
  cap. `StopsUnlessSlotLost` shows that this is the only cause.

Others hold only under a condition. A passing property names the condition:

- **A free slot does not mean that no test runs.** `/stop` answers `No running
  process` (`src/gateway-test-harness/ui/server.py:219`) and `/status` says
  `running: false`, while a test runs. The `finally` of `_stream` (line 98)
  empties the slot whatever it holds: a run whose process has exited, but whose
  client takes its last event late, empties the slot that another run has filled
  since. `SlotNamesAServedProcess` says what the slot does promise, and
  `OneTestAtATime` that two single tests run side by side only after this, or after
  a suite has put its test over that of a single run.
- **A new DID invalidates the session**
  (`src/a2a-did-auth/portal/server.py:173`), but an authenticate that is in flight
  during a regenerate stores its session afterwards. `StaleSessionNeedsOverlap`
  shows that this is the only cause.
- **"Show only events produced by this request"**
  (`src/a2a-obo/portal/static/index.html:205`): true of a send that no other
  overlaps. `ShownIsTheChain` has the conditions; the button stays enabled
  while a send is under way.
- **Legacy clients "fail here"** (`src/mcp-latest/mcp_server.py:270`), at the
  dispatch of methods, with 404. They never get there: the check of the metadata
  before it has refused them with 400 and a header mismatch (`SendsAreJudged`).

Met while modelling, and left to the passing properties:

- `src/use-cases/secure-agent-communication/README.md:189` says that a legacy org
  cannot forward to a native one, and the header of `agent.py` that a legacy
  agent forwards in v0.3. The code reads the peer's card first and forwards in
  1.0 to every peer whose card can be read; v0.3 is what it falls back to when
  no card answers.
- A text that names both agents under a verb that is not stripped ("contact
  Dexter and Thatcher") is forwarded unchanged by each to the other, without
  end; the first hops time out after 30 s while the last goes on. In the
  instance such a text fills all the hops. No statement in the repository rules
  this out.
- Both MCP servers answer a number of days that is no number with a 500:
  it is neither below 1 nor above 7, and `int` raises. Operands or results that
  are not finite fail in `mcp-latest` alone, which encodes them again. `null` for
  `params` or `arguments` is empty in `mcp-latest` and fails in `mcp`
  (`ServersAgree`).
- The two lists of finance words of the agents with identity differ: by ten words
  the finance agent knows an answer to a question it is never asked, by three it
  is asked and knows none (`Unasked`, `Unknowing` in `SampleServers`). The
  personal agent marks an answer as routed even when the call has failed.

- `src/a2a-obo/.env.example:14` says that the orchestrator validates the user's
  token. It is built with `PassthroughValidator`
  (`src/a2a-obo/agents/orchestrator_agent.py:195`), which takes anything.
- `src/use-cases/agent-delegated-mcp-access/README.md:215` configures the gateway
  to expect the issuer `https://login.microsoftonline.com/<tenant-id>/v2.0`; the
  personal agent, when it validates, takes tokens of
  `https://sts.windows.net/<tenant-id>/` only.
- The echo agent takes a token for a machine's when it has neither `scp` nor a
  user's name (`src/a2a-credential-delegation/entra_auth.py:205`). A user's id token
  without a name is judged as one: it needs the role, if any is required, and not
  the scope.
- "Every A2A call the agent sees lands here"
  (`src/a2a-credential-delegation/agent.py:81`): a call whose endpoint raises does
  not, the exception passes `record_event` by (`EndpointRaises`).
- The stateless client posts to `/mcp` and the server of the protocol with a
  handshake serves `/` only (`src/mcp/mcp_server.py:131`): what `SendsAreJudged`
  says of the two holds where the gateway maps the one path to the other.

## 6. What is not modelled, and the plan

Within modelled components: the editor of `data/endpoints.json`, locust's rate
mode and summary, the pages' layout, the bodies of requests and answers, the
DID challenge and its signature, the trace of the personal agent, the agents'
identities. An authenticate or a token is an outcome (granted or refused), or a
class by which checks it would fail, as cryptography is the libraries'.

Hazards of the code that no property covers:

- the DID portal's key file is empty if the process is killed while it is open
  (`src/a2a-did-auth/portal/identity.py:62`): modelled, `Restart` leaves the server
  stuck, but nothing in the repository promises otherwise;
- a 401 to a send that carried an old token drops the session established since
  (`src/a2a-did-auth/portal/server.py:281`): modelled, and nothing is promised;
- `PUT /api/config` truncates `data/endpoints.json` while a `GET` or a starting test
  may read it (`src/gateway-test-harness/ui/server.py:152`);
- after a stop a suite waits for its process without reading its pipe
  (`src/gateway-test-harness/ui/server.py:302`): output is not modelled, so a
  process that blocks on a full pipe is not either;
- `_SESSIONS` of the sign-in portals only loses a session that is looked up
  or signed out (`src/use-cases/agent-delegated-mcp-access/portal/server.py:85`):
  memory is not modelled.

Done so far, in this order: `LoadTestServer`, `LocustIterations` with
`RequestBudget`, `DidAuthPortal`, `EchoAgent` with `LogViewer`,
`McpGatewayClient` and `DelegateAgent` with `DelegatedTask`, `OAuthPortal`,
`SecureAgents`, each with its proofs; then `SignInSurface` and `GoogleSignIn` with
theirs, `OboChain` with `DelegatedRequest`, `EntraPortals`, and `McpServers`,
`EntraAuth` and `IdentityAgents` in `SampleServers`; then the proofs of `OboChain`
and `SampleServers`, and those of `NothingSkipped`, `ReplayNeedsOverlap`,
`ForwardedTextsShrink` and `CompletedRunsLeaveNoFile`.

Next, in order of what can go wrong:

1. The chat page of the agents with identity: its context and the agent it is
   on may change while a send is under way, whose answer then restores the old.
2. The trace page of the personal agent over its buffer, and `plan`, which turns a
   prompt into calls.
3. `EndpointFile`: `PUT /api/config` as a truncate and a write, between which a
   `GET` or a starting test may read.
4. More instances of what there is: two authenticates beside two regenerates,
   longer chains of forwards, three sends.
