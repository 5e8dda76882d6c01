------------------------------ MODULE EntraAuth ------------------------------
(***************************************************************************)
(* The bearer-token checks in front of the agents, as functions of what a  *)
(* request presents and of how the agent is configured: the validator of   *)
(* the echo agent, that of the personal agent (a copy of which the OBO lab *)
(* holds and does not use), the advisory agent's look at the scope alone,  *)
(* and the one that lets everything pass.  Each agent has an audience, an  *)
(* issuer and a scope of its own, and no token goes to two of them.  Keys, *)
(* signatures and the clock are PyJWT's: of them a token only has whether  *)
(* they would hold.                                                        *)
(***************************************************************************)
EXTENDS Naturals

\* USER_TOKEN_SCOPE (and ENTRA_REQUIRED_SCOPE), and OBO_TOKEN_SCOPE.
Scopes == {"agent.access", "advisory.read"}

\* What Entra issues in each flow: scp to a user's delegated access token, and
\* neither scp nor a user's name to a machine's, which a v2 token marks with
\* idtyp; a user's id token has no scp, and a name only if the profile was asked.
Grants ==
  [flow : {"user"}, scp : (SUBSET Scopes) \ {{}}, idtypApp : {FALSE}, names : BOOLEAN]
    \cup [flow : {"machine"}, scp : {{}}, idtypApp : BOOLEAN, names : {FALSE}]
    \cup [flow : {"idToken"}, scp : {{}}, idtypApp : {FALSE}, names : BOOLEAN]

\* The Authorization header: none, another scheme, Bearer with nothing or with
\* what is no JWT behind it, or a JWT.  known: the key it names is in the JWKS.
Tokens ==
  [header : {"none", "otherScheme", "blank", "garbage"}]
    \cup [header : {"jwt"}, known : BOOLEAN, signed : BOOLEAN, expired : BOOLEAN,
          aud : {"uri", "client", "other"}, iss : {"v1", "v2", "other"}, grant : Grants, role : BOOLEAN]

SomeOf(S) == (SUBSET S) \ {{}}

\* load_settings of each agent; the scope and the role of the echo agent are
\* optional, its issuers default to both.  The personal agent with
\* AGENT_VALIDATE_TOKEN off, and the orchestrator, have nothing to configure.
Settings ==
  [agent : {"echo"}, audiences : SomeOf({"uri", "client"}), issuers : SomeOf({"v1", "v2"}),
   scope : {"none", "agent.access"}, role : BOOLEAN]
    \cup [agent : {"personal"}, audiences : {{"uri"}, {"client"}}, issuers : {{"v1"}}, scope : {"agent.access"}]
    \cup [agent : {"advisory"}, scope : {"advisory.read"}]
    \cup [agent : {"personalOpen", "orchestrator"}]

-----------------------------------------------------------------------------
\* Each check, as the reasons one of which it gives; none where it passes.

ExtractBearer(t) ==
  CASE t.header = "none" -> {"missing_token"}
    [] t.header \in {"otherScheme", "blank"} -> {"invalid_authorization_header"}
    [] OTHER -> {}

\* get_signing_key_from_jwt and jwt.decode: the signature before the claims, of
\* which PyJWT reports one.
Decode(t, s) ==
  IF t.header # "jwt" \/ ~t.known THEN {"unknown_signing_key"}
  ELSE IF ~t.signed THEN {"invalid_token"}
  ELSE (IF t.expired THEN {"token_expired"} ELSE {})
         \cup (IF t.iss \notin s.issuers THEN {"invalid_issuer"} ELSE {})
         \cup (IF t.aud \notin s.audiences THEN {"invalid_audience"} ELSE {})

IsAppOnly(t) == t.grant.idtypApp \/ (t.grant.scp = {} /\ ~t.grant.names)

HasScope(t, s) == IF s.scope \in t.grant.scp THEN {} ELSE {"insufficient_scope"}

\* Faulty variant: the scope is asked of every caller, machines too.
ScopeOfAll(t, s) == IF s.scope = "none" THEN {} ELSE HasScope(t, s)

CheckAuthorization(t, s) ==
  CASE IsAppOnly(t) -> IF s.role /\ ~t.role THEN {"insufficient_role"} ELSE {}
    [] ~IsAppOnly(t) /\ s.scope # "none" -> HasScope(t, s)
    [] OTHER -> {}

-----------------------------------------------------------------------------
\* The validators

Echo(t, s) ==
  IF ExtractBearer(t) # {} THEN ExtractBearer(t)
  ELSE IF Decode(t, s) # {} THEN Decode(t, s) ELSE CheckAuthorization(t, s)

\* (No caller of load_settings names a client that must have been issued the
\* token, so that check is left out.)
Personal(t, s) ==
  IF ExtractBearer(t) # {} THEN ExtractBearer(t)
  ELSE IF Decode(t, s) # {} THEN Decode(t, s) ELSE HasScope(t, s)

\* decode_unverified, then the scope: only what is no JWT fails to decode.
Advisory(t, s) ==
  IF ExtractBearer(t) # {} THEN ExtractBearer(t)
  ELSE IF t.header # "jwt" THEN {"invalid_token"} ELSE HasScope(t, s)

Passthrough(t) == {}

\* The reasons one of which the agent gives: the validator build_app takes.
Judged(t, s) ==
  CASE s.agent = "echo" -> Echo(t, s)
    [] s.agent = "personal" -> Personal(t, s)
    [] s.agent = "advisory" -> Advisory(t, s)
    [] OTHER -> Passthrough(t)
=============================================================================
