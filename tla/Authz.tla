-------------------------------- MODULE Authz ---------------------------------
(***************************************************************************)
(* Bearer tokens and scopes (src/internal/authz/authz.go).                 *)
(*                                                                         *)
(* A scope "verb:resource" is <<verb, resource>> and the scope "*" is      *)
(* <<"*">>; a sequence of another length is text that parseScope refuses.  *)
(* Strings are compared as the code compares them, white space and letter  *)
(* case being those of a few samples.                                      *)
(***************************************************************************)
EXTENDS Integers, Sequences

\* strings.TrimSpace.
Trimmed(s) == IF s = " " THEN "" ELSE s

ScopeAll == <<"*">>

\* The token of an authConfig.
Token(value, audiences, scopes) ==
  [value |-> value, audiences |-> audiences, scopes |-> scopes]

\* What a server's tokens may be before New has looked at them.
Tokens ==
  Seq([value : STRING, audiences : Seq(STRING), scopes : Seq(Seq(STRING))])

------------------------------------------------------------------------------
(* New *)

ValidScope(scope) ==
  \/ scope = ScopeAll
  \/ Len(scope) = 2 /\ scope[1] \in {"read", "write"} /\ scope[2] # ""

\* normalizeToken and normalizeAudiences: what they accept.
AcceptedToken(token) ==
  /\ Trimmed(token.value) # ""
  /\ \A i \in 1..Len(token.audiences) : token.audiences[i] \in {"http", "mcp"}
  /\ \A i \in 1..Len(token.scopes) : ValidScope(token.scopes[i])

Accepted(tokens) == \A i \in 1..Len(tokens) : AcceptedToken(tokens[i])

\* A token without audiences is for both.
HasAudience(token, audience) ==
  token.audiences = <<>> \/ \E i \in 1..Len(token.audiences) : token.audiences[i] = audience

------------------------------------------------------------------------------
(* AuthorizeRequest, AuthorizeScopes *)

\* Fault: a grant is compared with no regard to what may be done.
ScopeAllowsVerb(grant, required) ==
  \/ grant = ScopeAll
  \/ grant = required
  \/ Len(grant) = 2 /\ grant[2] = "*"

\* Only "verb:*" covers other scopes.
ScopeAllows(grant, required) ==
  \/ grant = ScopeAll
  \/ grant = required
  \/ Len(grant) = 2 /\ grant[2] = "*" /\ grant[1] = required[1]

ScopesAllow(scopes, required) ==
  \E i \in 1..Len(scopes) : ScopeAllows(scopes[i], required)

\* findToken: the tokens for the audience that have the value the bearer
\* shows; the first of them decides.
Matching(tokens, audience, bearer) ==
  {i \in 1..Len(tokens) :
     HasAudience(tokens[i], audience) /\ Trimmed(tokens[i].value) = bearer}

First(S) == CHOOSE i \in S : \A j \in S : i <= j

\* The status the request is answered with when it goes no further, or 200.
\* bearerToken takes two words, the first being "bearer"; any other header
\* is NoBearer.  An MCP request meets the same two steps, findToken in the
\* middleware and AuthorizeScopes in the tool.
NoBearer == ""

Authorize(tokens, bearer, audience, required) ==
  LET found == Matching(tokens, audience, bearer)
  IN CASE tokens = <<>> -> 200
       [] tokens # <<>> /\ (bearer = NoBearer \/ found = {}) -> 401
       [] OTHER ->
            IF ScopesAllow(tokens[First(found)].scopes, required) THEN 200 ELSE 403

==============================================================================
