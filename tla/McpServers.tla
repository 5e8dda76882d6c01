----------------------------- MODULE McpServers -----------------------------
(***************************************************************************)
(* The sample servers as functions of a request: the MCP server with an    *)
(* initialize handshake (mcp), its stateless successor (mcp-latest), the   *)
(* chat server of auth0-mcp-surface, and the REST API with the same tools. *)
(* None of them keeps anything between two requests.  A request is told    *)
(* apart by the JSON kinds at each level, what its headers say, and the    *)
(* classes of numbers that Python's arithmetic and its JSON encoder treat  *)
(* differently.                                                            *)
(***************************************************************************)
EXTENDS Naturals

Answer(status, code) == [status |-> status, code |-> code]

\* An exception that no handler catches.
Crash == Answer(500, "crash")

Operations == {"add", "subtract", "multiply", "divide"}

\* int, true, zero: Python's int and bool; float: of a moderate size; big: a
\* float next to the largest; huge: an int beyond the floats; digits: a string
\* of them.
Numbers == {"int", "true", "zero", "huge", "float", "big", "inf", "nan"}
Operands == Numbers \cup {"absent", "digits", "text"}
NotFinite == {"inf", "nan"}

\* What a op b comes to: a class of numbers, "finite" for those that encode, or
\* an exception, also when the text of a huge int is refused.
Computed(op, a, b) ==
  LET both == {a, b}
  IN  CASE op = "divide" /\ b = "zero" -> {"none"}
        [] both \cap (Operands \ Numbers) # {} -> {"none"}
        [] OTHER ->
             IF "huge" \in both THEN
               IF both \cap {"float", "big", "inf", "nan"} # {} THEN {"raises"}
               ELSE IF op = "divide" THEN (IF b = "huge" /\ a # "huge" THEN {"finite"} ELSE {"finite", "raises"})
               ELSE IF op = "multiply" /\ "zero" \in both THEN {"finite"}
               ELSE {"huge", "raises"} \cup (IF a = b THEN {"finite"} ELSE {})
             ELSE IF "nan" \in both THEN {"nan"}
             ELSE IF "inf" \in both THEN
               IF op = "divide" THEN (IF a # "inf" THEN {"finite"} ELSE IF b = "inf" THEN {"nan"} ELSE {"inf"})
               ELSE IF op = "multiply" THEN (IF "zero" \in both THEN {"nan"} ELSE {"inf"})
               ELSE IF a = b THEN {"inf", "nan"} ELSE {"inf"}
             ELSE IF "big" \in both THEN {"finite", "inf"}
             ELSE {"finite"}

\* isinstance(days, (int, float)) and not (days < 1 or days > 7): a NaN is
\* neither, and goes on to int(days), which raises.
DayClasses == {"absent", "true", "within", "fraction", "below", "above", "nan", "text"}
DaysPass(days) == days \in {"absent", "true", "within", "fraction", "nan"}

\* The JSON kinds of a value that should be an object; a list has elements.
Kinds == {"absent", "null", "list", "object"}

\* A value fetched with .get(key, {}) can be asked for its members.
HasGet(kind) == kind \in {"absent", "object"}
\* A value fetched with .get(key, {}) or {} likewise.
HasGetOr(kind) == kind \in {"absent", "null", "object"}

-----------------------------------------------------------------------------
\* mcp

Calculator(r, x) ==
  IF r.op \notin Operations \/ {r.a, r.b} \cap (Operands \ Numbers) # {} THEN Answer(200, "invalid")
  ELSE IF r.op = "divide" /\ r.b = "zero" THEN Answer(200, "invalid")
  ELSE IF x = "raises" THEN Answer(200, "failed")
  ELSE Answer(200, "ok")

Weather(r) ==
  IF r.city \in {"absent", "empty"} \/ ~DaysPass(r.days) THEN Answer(200, "invalid")
  ELSE IF r.days = "nan" THEN Crash
  ELSE Answer(200, "ok")

\* Without arguments each tool refuses the call.
NoArguments(r) == [r EXCEPT !.op = "absent", !.city = "absent"]
Given(r) == IF r.args = "object" THEN r ELSE NoArguments(r)

ToolsCall(r, x) ==
  IF ~HasGet(r.params) THEN Crash
  ELSE IF r.params = "absent" \/ r.name \notin {"calculator", "weather_forecast"} THEN Answer(200, "invalid")
  ELSE IF ~HasGet(r.args) THEN Crash
  ELSE IF r.name = "calculator" THEN Calculator(Given(r), x) ELSE Weather(Given(r))

\* clientInfo.get in a line that only prints.
Initialize(r) ==
  IF ~HasGet(r.params) \/ (r.params = "object" /\ ~HasGet(r.client)) THEN Crash ELSE Answer(200, "ok")

\* Whatever the params are.
ToolsList == Answer(200, "ok")

Mcp(r, x) ==
  IF r.body = "broken" THEN Answer(200, "parse")
  ELSE IF r.body # "object" THEN Crash
  ELSE IF ~r.rpc THEN Answer(200, "badRequest")
  ELSE IF r.method = "initialize" THEN Initialize(r)
  ELSE IF r.method = "tools/list" THEN ToolsList
  ELSE IF r.method = "tools/call" THEN ToolsCall(r, x)
  ELSE Answer(200, "noMethod")

-----------------------------------------------------------------------------
\* mcp-latest

\* The header values must repeat the body's, the name for calls of a tool.
\* Faulty variant: the name is asked for in every request.
LatestMetadataOfAll(r) ==
  IF ~HasGetOr(r.params) \/ (r.params = "object" /\ ~HasGetOr(r.meta)) THEN Crash
  ELSE LET version == IF r.params = "object" /\ r.meta = "object" THEN r.version ELSE "absent"
           name == IF r.params = "object" THEN r.name ELSE "absent"
       IN  IF "absent" \in {r.hVersion, version} \/ r.hVersion # version THEN Answer(400, "mismatch")
           ELSE IF version # "2026-07-28" THEN Answer(400, "version")
           ELSE IF r.hMethod # r.method THEN Answer(400, "mismatch")
           ELSE IF r.hName = "absent" \/ r.hName # name THEN Answer(400, "mismatch")
           ELSE Answer(200, "ok")

LatestMetadata(r) ==
  IF ~HasGetOr(r.params) \/ (r.params = "object" /\ ~HasGetOr(r.meta)) THEN Crash
  ELSE LET version == IF r.params = "object" /\ r.meta = "object" THEN r.version ELSE "absent"
           name == IF r.params = "object" THEN r.name ELSE "absent"
       IN  IF "absent" \in {r.hVersion, version} \/ r.hVersion # version THEN Answer(400, "mismatch")
           ELSE IF version # "2026-07-28" THEN Answer(400, "version")
           ELSE IF r.hMethod # r.method THEN Answer(400, "mismatch")
           ELSE IF r.method = "tools/call" /\ (r.hName = "absent" \/ r.hName # name) THEN Answer(400, "mismatch")
           ELSE Answer(200, "ok")

\* Faulty variant: a division by zero is left to Python.
LatestCalculatorDivides(r, x) ==
  IF r.op \notin Operations \/ {r.a, r.b} \cap (Operands \ Numbers) # {} THEN Answer(200, "invalid")
  ELSE IF x = "raises" \/ {r.a, r.b, x} \cap NotFinite # {} \/ (r.op = "divide" /\ r.b = "zero") THEN Crash
  ELSE Answer(200, "ok")

\* The operands and the result are encoded again, as JSON without NaN and
\* infinity; an exception of the arithmetic is not caught.
LatestCalculator(r, x) ==
  IF r.op \notin Operations \/ {r.a, r.b} \cap (Operands \ Numbers) # {} THEN Answer(200, "invalid")
  ELSE IF r.op = "divide" /\ r.b = "zero" THEN Answer(200, "invalid")
  ELSE IF x = "raises" \/ {r.a, r.b, x} \cap NotFinite # {} THEN Crash
  ELSE Answer(200, "ok")

LatestWeather(r) ==
  IF r.city \in {"absent", "empty"} \/ ~DaysPass(r.days) THEN Answer(200, "invalid")
  ELSE IF r.days = "nan" THEN Crash
  ELSE Answer(200, "ok")

LatestToolsCall(r, x) ==
  IF r.name \notin {"calculator", "weather_forecast"} THEN Answer(200, "invalid")
  ELSE IF ~HasGetOr(r.args) THEN Crash
  ELSE IF r.name = "calculator" THEN LatestCalculator(Given(r), x) ELSE LatestWeather(Given(r))

AllowedOrigins == {"*"}

LatestOrigin(r) ==
  IF "*" \notin AllowedOrigins /\ r.origin \notin AllowedOrigins \cup {"absent"} THEN Answer(403, "origin")
  ELSE Answer(200, "ok")

LatestToolsList == Answer(200, "ok")

Discover(r) == IF HasGet(r.client) THEN Answer(200, "ok") ELSE Crash

McpLatest(r, x) ==
  IF LatestOrigin(r).code # "ok" THEN LatestOrigin(r)
  ELSE IF r.body = "broken" THEN Answer(400, "parse")
  ELSE IF r.body = "list" THEN Answer(400, "badRequest")
  ELSE IF r.body # "object" THEN Crash
  ELSE IF ~r.rpc THEN Answer(400, "badRequest")
  ELSE IF LatestMetadata(r).code # "ok" THEN LatestMetadata(r)
  ELSE IF r.method = "server/discover" THEN Discover(r)
  ELSE IF r.method = "tools/list" THEN LatestToolsList
  ELSE IF r.method = "tools/call" THEN LatestToolsCall(r, x)
  ELSE Answer(404, "noMethod")

-----------------------------------------------------------------------------
\* The chat server of auth0-mcp-surface, whose one tool answers from Bedrock,
\* with Bedrock's error, or without either

Messages == {"absent", "null", "blank", "text", "number"}

Chat(r) ==
  IF r.message \in {"absent", "null", "blank"} THEN Answer(200, "invalid")
  ELSE IF r.message = "number" THEN Crash
  ELSE Answer(200, "ok")

ChatToolsCall(r) ==
  IF ~HasGet(r.params) THEN Crash
  ELSE IF r.params = "absent" \/ r.name # "chat" THEN Answer(200, "invalid")
  ELSE IF ~HasGet(r.args) THEN Crash
  ELSE Chat(IF r.args = "object" THEN r ELSE [r EXCEPT !.message = "absent"])

McpChat(r) ==
  IF r.body = "broken" THEN Answer(200, "parse")
  ELSE IF r.body # "object" THEN Crash
  ELSE IF ~r.rpc THEN Answer(200, "badRequest")
  ELSE IF r.method \in {"initialize", "tools/list"} THEN Answer(200, "ok")
  ELSE IF r.method = "tools/call" THEN ChatToolsCall(r)
  ELSE Answer(200, "noMethod")

-----------------------------------------------------------------------------
\* The REST API

\* A float field takes numbers that fit, and strings of digits.
RestTakes(v) == v \in (Numbers \ {"huge"}) \cup {"digits"}

\* Which answer a result has that JSON cannot express is up to FastAPI.
RestCalculator(r, x) ==
  IF r.op \notin Operations \/ ~RestTakes(r.a) \/ ~RestTakes(r.b) THEN {Answer(422, "invalid")}
  ELSE IF r.op = "divide" /\ r.b = "zero" THEN {Answer(400, "invalid")}
  ELSE IF x \in NotFinite THEN {Crash, Answer(200, "ok")}
  ELSE {Answer(200, "ok")}

\* days is a string of the query here, taken for an int only if it is one.
RestWeather(r) ==
  IF r.city = "absent" \/ r.days \notin {"absent", "within"} THEN Answer(422, "invalid")
  ELSE IF r.city \in {"empty", "blank"} THEN Answer(400, "invalid")
  ELSE Answer(200, "ok")

\* greeting, of the name that a call of the chat tool carries.
RestGreeting(r) ==
  CASE r.message \in {"absent", "null"} -> Answer(422, "invalid")
    [] r.message = "blank" -> Answer(400, "invalid")
    [] OTHER -> Answer(200, "ok")

-----------------------------------------------------------------------------
\* The clients of the two MCP servers

NoRequest == [body |-> "object", rpc |-> TRUE, method |-> "tools/list", params |-> "object",
  name |-> "absent", args |-> "absent", client |-> "absent", op |-> "add", a |-> "int", b |-> "int",
  city |-> "text", days |-> "within", message |-> "text", meta |-> "absent", version |-> "absent",
  hVersion |-> "absent", hMethod |-> "absent", hName |-> "absent",
  origin |-> "absent"]

\* Empty params are left out; the metadata stands beside them, not in them.
McpClientRequest(method, name, identity) ==
  [NoRequest EXCEPT !.method = method,
     !.params = IF method = "tools/list" THEN "absent" ELSE "object",
     !.name = name, !.args = IF method = "tools/call" THEN "object" ELSE "absent",
     !.client = IF method = "initialize" THEN identity ELSE "absent"]

LatestClientRequest(method, name, version) ==
  [NoRequest EXCEPT !.method = method, !.name = name,
     !.args = IF method = "tools/call" THEN "object" ELSE "absent",
     !.client = "object", !.meta = "object", !.version = version,
     !.hVersion = version, !.hMethod = method, !.hName = name]
=============================================================================
