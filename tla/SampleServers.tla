---------------------------- MODULE SampleServers ----------------------------
(***************************************************************************)
(* One request, handed to each of the servers or agents that take it.      *)
(***************************************************************************)
EXTENDS McpServers, EntraAuth, IdentityAgents

CONSTANT Questions  \* each the set of the words of the agents that it contains

Words == FinanceKeywords \cup WordsOf(PersonalTable) \cup WordsOf(FinanceTable)

ASSUME QuestionsAssumption == Questions \subseteq SUBSET Words

VARIABLES
  input,    \* a call of a tool, a message to an MCP server, a token, or a question
  answers   \* what each server says to it

sampleVars == <<input, answers>>

\* A call of a tool with any arguments, made through each server's client.
CallWith(name, args) == [NoRequest EXCEPT !.method = "tools/call", !.name = name, !.args = args]
Calculation(op, a, b) == [CallWith("calculator", "object") EXCEPT !.op = op, !.a = a, !.b = b]
Forecast(args, city, days) == [CallWith("weather_forecast", args) EXCEPT !.city = city, !.days = days]
Other(name, args, message) == [CallWith(name, args) EXCEPT !.message = message]

Calculations == {Calculation(op, a, b) : op \in Operations \cup {"other"}, a \in Operands, b \in Operands}
Forecasts == {Forecast(args, city, days) :
                args \in Kinds, city \in {"absent", "empty", "blank", "text"}, days \in DayClasses}
Unknown == {Other(name, args, message) : name \in {"chat", "other"}, args \in Kinds, message \in Messages}

\* Whatever else may be sent as a message.
Mess(body, rpc, method, params, client) ==
  [NoRequest EXCEPT !.body = body, !.rpc = rpc, !.method = method, !.params = params, !.client = client]

Messy == {Mess(body, rpc, method, params, client) :
            body \in {"broken", "list", "scalar", "object"}, rpc \in BOOLEAN,
            method \in {"initialize", "tools/list", "tools/call", "server/discover", "ping"},
            params \in Kinds, client \in Kinds}

\* _send_request of the stateless client, whose callers may override headers.
Overridden == {[LatestClientRequest(m, IF m = "tools/call" THEN "calculator" ELSE "absent", version)
                 EXCEPT !.hVersion = hVersion, !.hMethod = hMethod, !.hName = hName,
                        !.origin = origin] :
                 m \in {"server/discover", "tools/list", "tools/call"},
                 version \in {"2026-07-28", "1900-01-01"},
                 hVersion \in {"absent", "2026-07-28", "1900-01-01"},
                 hMethod \in {"absent", "server/discover", "tools/list", "tools/call"},
                 hName \in {"absent", "calculator", "weather_forecast"},
                 origin \in {"absent", "other"}}

\* _send_request of the older client, for its three methods.
Legacy == {McpClientRequest(m, name, "object") :
             m \in {"initialize", "tools/list", "tools/call"}, name \in {"calculator", "weather_forecast"}}

\* The metadata that the stateless client puts around a message.
WithMetadata(r) ==
  LET sent == LatestClientRequest(r.method, r.name, "2026-07-28")
  IN  [r EXCEPT !.meta = sent.meta, !.version = sent.version,
                !.hVersion = sent.hVersion, !.hMethod = sent.hMethod, !.hName = sent.hName]

Inputs ==
  [kind : {"message"}, r : Calculations \cup Forecasts \cup Unknown \cup Messy]
    \cup [kind : {"send"}, r : Overridden] \cup [kind : {"legacy"}, r : Legacy]
    \cup [kind : {"token"}, t : Tokens, s : Settings]
    \cup [kind : {"question"}, text : Questions]

SampleInit == input \in Inputs /\ answers = <<>>

AnswerMessage ==
  /\ input.kind = "message" /\ answers = <<>>
  /\ \E x \in Computed(input.r.op, input.r.a, input.r.b) :
       \E rest \in RestCalculator(input.r, x) :
         answers' = [computed |-> x, mcp |-> Mcp(input.r, x), latest |-> McpLatest(WithMetadata(input.r), x),
                     chat |-> McpChat(input.r),
                     rest |-> CASE input.r.name = "calculator" -> rest
                                [] input.r.name = "weather_forecast" -> RestWeather(input.r)
                                [] OTHER -> RestGreeting(input.r)]
  /\ UNCHANGED input

\* A request of either client, at its own server and at the other.  (The older
\* server takes POSTs to / alone, and the stateless client sends to /mcp: this
\* is a client behind a gateway that maps the one path to the other.)
AnswerSend ==
  /\ input.kind \in {"send", "legacy"} /\ answers = <<>>
  /\ answers' = [latest |-> McpLatest(input.r, "finite"), mcp |-> Mcp(input.r, "finite")]
  /\ UNCHANGED input

\* A token at the agent it is sent to.
AnswerToken ==
  /\ input.kind = "token" /\ answers = <<>>
  /\ answers' = [refusals |-> Judged(input.t, input.s)]
  /\ UNCHANGED input

\* To the personal agent, and to the finance agent itself.
AnswerQuestion ==
  /\ input.kind = "question" /\ answers = <<>>
  /\ \E reply \in PersonalReply(input.text) :
       answers' = [personal |-> reply, finance |-> Match(input.text)]
  /\ UNCHANGED input

SampleNext == AnswerMessage \/ AnswerSend \/ AnswerToken \/ AnswerQuestion

SampleSpec == SampleInit /\ [][SampleNext]_sampleVars

-----------------------------------------------------------------------------
\* Properties

Answered(kind) == input.kind = kind /\ answers # <<>>

\* Operands or a result that are not finite, or that raise.
OddNumbers(r) ==
  /\ r.name = "calculator" /\ r.op \in Operations /\ answers.computed # "none"
  /\ answers.computed = "raises" \/ {r.a, r.b, answers.computed} \cap NotFinite # {}

CalculationsAlike(r) ==
  /\ answers.mcp = answers.latest <=> ~OddNumbers(r)
  /\ answers.mcp.code = "ok" /\ ~OddNumbers(r) /\ "huge" \notin {r.a, r.b} => answers.rest.code = "ok"
  /\ answers.rest.code = "ok" /\ "digits" \notin {r.a, r.b} => answers.mcp.code = "ok"

ForecastsAlike(r) ==
  /\ r.args # "null" => answers.mcp = answers.latest
  /\ answers.rest.code = "ok" /\ r.args = "object" => answers.mcp.code = "ok"
  /\ answers.mcp.code = "ok" /\ answers.rest.code # "ok" => r.city = "blank" \/ r.days \in {"true", "fraction"}

ChatAlike(r) ==
  /\ r.method # "tools/call" =>
       \/ answers.chat = answers.mcp
       \/ r.method = "initialize" /\ answers.mcp = Crash /\ answers.chat.code = "ok"
  /\ r.name = "chat" /\ r.args = "object" /\ r.message # "number" => answers.chat.code = answers.rest.code

\* The same message to each server.  The two MCP servers judge every
\* calculation alike, except those whose operands or result are not finite or
\* that raise: there the older answers, or reports an error, and the newer,
\* which encodes the numbers again, fails.  The REST API takes the calculations
\* they take with numbers that fit a float, and those alone but for strings of
\* digits.  A forecast has one answer from both, arguments that are null apart;
\* the REST API gives those alone that they give, and all of them but for a
\* blank city and for days that are no integer.  The chat server says what the
\* older MCP server says to whatever is not a call, but for an initialize whose
\* client information fails there, and answers a call of its tool for the texts
\* that the REST API greets.  Whatever the message, the newer fails only where
\* the older does, for such numbers, for a list of params, which the older may
\* not look at, or for the client information in server/discover.
ServersAgree ==
  Answered("message") =>
    /\ input.r \in Calculations => CalculationsAlike(input.r)
    /\ input.r \in Forecasts => ForecastsAlike(input.r)
    /\ input.r \in Unknown \cup Messy => ChatAlike(input.r)
    /\ answers.latest = Crash =>
         \/ answers.mcp = Crash \/ OddNumbers(input.r)
         \/ input.r.method = "server/discover" \/ input.r.params = "list"

\* The stateless server answers a send of its own client, headers overridden or
\* not, with what the body asks for exactly when the headers repeat the body,
\* the name only for a call; a version that both name but it does not know is
\* told apart from a mismatch.  The older server answers them by the body
\* alone, and does not know server/discover.  Its own client, which sends no
\* such headers, is served there and refused by the stateless server, always.
SendsAreJudged ==
  /\ Answered("legacy") => answers.mcp.code = "ok" /\ answers.latest = Answer(400, "mismatch")
  /\ Answered("send") =>
    LET repeats == /\ input.r.hVersion = input.r.version /\ input.r.hMethod = input.r.method
                   /\ input.r.method = "tools/call" => input.r.hName = input.r.name
    IN  /\ answers.latest.code = "ok" <=> repeats /\ input.r.version = "2026-07-28"
        /\ answers.latest.code = "version" <=>
             input.r.version = "1900-01-01" /\ input.r.hVersion = input.r.version
        /\ answers.mcp.code = IF input.r.method = "server/discover" THEN "noMethod" ELSE "ok"

\* What "a JWT signed by our Entra tenant, issued for our audience, unexpired" is.
Genuine(t, s) ==
  /\ t.header = "jwt" /\ t.known /\ t.signed /\ ~t.expired
  /\ t.aud \in s.audiences /\ t.iss \in s.issuers

\* The flow a token comes from is not written in it, and decides what the echo
\* agent asks of it beyond being genuine: of a machine the role, never the
\* scope; of a user the scope, never the role, name or no name in the token.
\* An id token in place of the access token counts as its user's where it has a
\* name, and lacks the scope, but as a machine's where it has none.  The
\* personal and the advisory agent, which do not ask for the flow, take users
\* alone by asking for their scope, and the advisory agent takes any JWT with it.
FlowsAreTold ==
  Answered("token") =>
    LET t == input.t  s == input.s  taken == answers.refusals = {}
        from(flow) == t.header = "jwt" /\ t.grant.flow = flow
        granted == t.grant.scp
        asMachine == from("machine") \/ (from("idToken") /\ ~t.grant.names)
    IN  /\ s.agent = "echo" =>
             /\ asMachine => (taken <=> Genuine(t, s) /\ (s.role => t.role))
             /\ from("user") => (taken <=> Genuine(t, s) /\ s.scope \in granted \cup {"none"})
             /\ from("idToken") /\ ~asMachine => (taken <=> Genuine(t, s) /\ s.scope = "none")
        /\ s.agent = "personal" => (taken <=> from("user") /\ Genuine(t, s) /\ s.scope \in granted)
        /\ s.agent = "advisory" => (taken <=> from("user") /\ s.scope \in granted)
        /\ taken => t.header = "jwt" \/ s.agent \in {"personalOpen", "orchestrator"}

\* The two lists of finance words, in two files, differ in these alone: by the
\* first the finance agent knows an answer to a question that it is not asked,
\* by the second it is asked and knows none.  Every other question has the same
\* answer from it through the personal agent, when the way between them works.
Unasked == {"how much", "spent", "purchase", "recent", "category", "holding", "score", "fico", "liabilit", "save"}
Unknowing == {"finance", "payment", "bank"}

RoutingAgrees ==
  Answered("question") =>
    LET asked == answers.personal.by = "finance"
    IN  /\ answers.finance # "default" /\ ~asked => input.text \cap WordsOf(FinanceTable) \subseteq Unasked
        /\ asked /\ answers.finance = "default" => input.text \cap FinanceKeywords \subseteq Unknowing
        /\ input.text \subseteq Unasked => ~asked
        /\ asked => answers.personal.says \in {answers.finance, "noText", "dump", "apology"}
=============================================================================
