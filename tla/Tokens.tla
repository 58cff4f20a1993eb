------------------------------- MODULE Tokens -------------------------------
(***************************************************************************)
(* The tokens of the system.  The auth service gives users external        *)
(* tokens; the gateway (internal/infrastructure/jwt, middleware/auth.go)   *)
(* turns one into an internal token for the service a request goes to;     *)
(* services (pkg/auth) check it and make one of their own for the next     *)
(* service they call.  Services sign service tokens (pkg/client) to        *)
(* register with the gateway.                                              *)
(*                                                                         *)
(* A token, once made, can be presented to anyone at any later time, and   *)
(* again, so the state is the set of tokens in circulation.  A handler     *)
(* checks a token when a request arrives and makes the next one up to Hold *)
(* later: what it checked may not be true any more.                        *)
(*                                                                         *)
(* Tokens from outside and tokens inside are signed with two key pairs, or *)
(* with one: a gateway that is given only a private key checks with its    *)
(* public half.  Without JWT keys the gateway has no jwtService: it makes  *)
(* no tokens, and whoever reaches it registers any name.                   *)
(*                                                                         *)
(* Time is in ticks, a fraction of a second; the claims are in seconds.    *)
(***************************************************************************)
EXTENDS Integers, Sequences, FiniteSets

CONSTANTS
    User,             \* subjects of external tokens
    Scope,            \* scopes
    Service,          \* names of services: their issuer and their audience
    Gateway,          \* JWT_ISSUER
    AuthService,      \* the issuer of external tokens
    GatewayAudience,  \* "api-gateway", the audience of service tokens
    NoName,           \* an empty or missing claim
    OuterKey,         \* signs external and service tokens
    InnerKey,         \* signs the gateway's and the services' internal tokens
    Route,            \* routes: service, Public, Scopes
    AllowedIssuers,   \* per service; {}: not configured
    Second,           \* ticks in a second
    InternalTTL,      \* JWT_INTERNAL_TTL
    ServiceTTL,       \* defaultTTL of a service's Generator
    RegisterTTL,      \* lifetime of a service token
    ExternalTTL,      \* lifetimes of external tokens; 0: they do not expire
    ExternalAudience, \* audiences of external tokens
    Target,           \* audiences a service makes tokens for
    Delay,            \* how far ahead their nbf is; 0: there is none
    Hold,             \* time from the check of a token to the making of the next
    MaxRoots,         \* bound on the external and service tokens
    MaxInternal,      \* bound on the internal tokens
    MaxClock          \* bound on the time

Name == Service \cup {Gateway, AuthService, GatewayAudience}

ASSUME NameAssumption ==
    /\ Gateway \notin Service
    /\ AuthService \notin Service \cup {Gateway, GatewayAudience}
    /\ GatewayAudience \notin Service
    /\ NoName \notin Name \cup User
    /\ OuterKey # InnerKey
ASSUME RouteAssumption ==
    Route \subseteq [service : Service, Public : BOOLEAN, Scopes : SUBSET Scope]
ASSUME AudienceAssumption ==
    ExternalAudience \subseteq Name \cup {NoName} /\ Target \subseteq Name \cup {NoName}
ASSUME IssuerAssumption == AllowedIssuers \in [Service -> SUBSET Name]
ASSUME TokenTimeAssumption ==
    /\ Second \in Nat \ {0}
    /\ InternalTTL \in Nat /\ ServiceTTL \in Nat /\ RegisterTTL \in Nat
    /\ ExternalTTL \subseteq Nat
    /\ Delay \subseteq Nat
    /\ Hold \in Nat
    /\ MaxRoots \in Nat
    /\ MaxInternal \in Nat
    /\ MaxClock \in Nat

VARIABLES
    clock,        \* time.Now()
    tokens,       \* every token made so far
    keys,         \* what is configured: "two" key pairs, "one" for all, "none"
    registered    \* the last accepted registration: the name, and when

tokenVars == <<clock, tokens, keys, registered>>

-----------------------------------------------------------------------------

(***************************************************************************)
(* A signed token.  key is what it was signed with (with one key pair for  *)
(* all no check can tell) and at the time it was made, which no check      *)
(* looks at (iat is the same in seconds).  exp and nbf are 0 if missing.   *)
(***************************************************************************)
Token == [key : {OuterKey, InnerKey},
          sub : User \cup Service \cup {NoName},
          scopes : SUBSET Scope,
          iss : Name,
          aud : Name \cup {NoName},
          original_iss : Name \cup {NoName},
          trace : Seq(Name),
          exp : Nat,
          nbf : Nat,
          at : Nat]

\* the tokens the gateway and the services made on behalf of a subject
Internal == {t \in tokens : t.trace # << >>}

(***************************************************************************)
(* Tokens have the claims the validators look for, none comes from the     *)
(* future, and every internal one names a subject and expires.             *)
(***************************************************************************)
TokenTypeOK ==
    /\ clock \in Nat /\ clock >= Second
    /\ tokens \subseteq Token
    /\ \A t \in tokens : t.at <= clock
    /\ \A t \in Internal : t.key = InnerKey /\ t.sub # NoName /\ t.exp # 0
    /\ keys \in {"two", "one", "none"}
    /\ registered \in [name : Service \cup User \cup {NoName}, at : Nat]

TokenInit ==
    /\ clock = Second
    /\ tokens = {}
    /\ keys \in {"two", "one", "none"}
    /\ registered = [name |-> NoName, at |-> 0]

jwtService == keys # "none"

-----------------------------------------------------------------------------
(***************************************************************************)
(* Validation, at time v.                                                  *)
(***************************************************************************)

\* time.Time.Unix, which cuts off the fraction of the second
Unix(t) == t \div Second

\* the signature
Verifies(t, key) == t.key = key \/ keys = "one"

\* variant that must fail: only Valid of the claims, "now > exp" in seconds
ParseSeconds(t, key, v) ==
    /\ Verifies(t, key)
    /\ t.exp # 0 => Unix(v) <= t.exp
    /\ t.nbf # 0 => Unix(v) >= t.nbf

(***************************************************************************)
(* jwt.Parse: the signature, and the times to the fraction of the second;  *)
(* Valid of the claims looks at exp again, but less strictly.              *)
(***************************************************************************)
Parse(t, key, v) ==
    /\ Verifies(t, key)
    /\ t.exp # 0 => v < t.exp * Second
    /\ t.nbf # 0 => v >= t.nbf * Second

\* variant that must fail: the subject is not looked at
ValidateUnnamed(t, v) == Parse(t, OuterKey, v)

ValidateExternalToken(t, v) == Parse(t, OuterKey, v) /\ t.sub # NoName

\* an empty list allows every issuer
ValidateIssuer(t, s) == AllowedIssuers[s] # {} => t.iss \in AllowedIssuers[s]

\* variant that must fail: the audience is not compared
ValidateAnyAudience(t, s, v) ==
    /\ Parse(t, InnerKey, v)
    /\ t.sub # NoName /\ t.iss # NoName /\ t.aud # NoName
    /\ ValidateIssuer(t, s)

\* Validator.ValidateInternalToken in service s
ValidateInternalToken(t, s, v) ==
    /\ Parse(t, InnerKey, v)
    /\ t.sub # NoName /\ t.iss # NoName /\ t.aud # NoName
    /\ t.aud = s
    /\ ValidateIssuer(t, s)

\* variant that must fail: the audience is not compared
ValidateServiceAnyAudience(t, v) == Parse(t, OuterKey, v) /\ t.sub # NoName

ValidateServiceToken(t, v) ==
    Parse(t, OuterKey, v) /\ t.aud = GatewayAudience /\ t.sub # NoName

hasAllScopes(provided, required) == required \subseteq provided

-----------------------------------------------------------------------------
(***************************************************************************)
(* Making tokens.                                                          *)
(***************************************************************************)

\* a token is signed and leaves its maker
Sign(t) ==
    /\ IF t.trace = << >> THEN Cardinality(tokens \ Internal) < MaxRoots
                         ELSE Cardinality(Internal) < MaxInternal
    /\ tokens' = tokens \cup {t}
    /\ UNCHANGED <<clock, keys, registered>>

\* variant that must fail: lifetimes are cut to seconds first, one is lost
ExpiryTwiceCut(ttl) == Unix(clock) + Unix(ttl) - 1

\* "exp": now.Add(ttl).Unix()
Expiry(ttl) == Unix(clock + ttl)

\* the auth service gives a user a token
IssueExternal(u, S, audience, ttl, wait) ==
    Sign([key |-> OuterKey, sub |-> u, scopes |-> S, iss |-> AuthService,
          aud |-> audience, original_iss |-> NoName, trace |-> << >>,
          exp |-> IF ttl = 0 THEN 0 ELSE Expiry(ttl),
          nbf |-> IF wait = 0 THEN 0 ELSE Unix(clock + wait),
          at |-> clock])

\* RegistryClient.serviceToken in service s
serviceToken(s) ==
    Sign([key |-> OuterKey, sub |-> s, scopes |-> {}, iss |-> s,
          aud |-> GatewayAudience, original_iss |-> NoName, trace |-> << >>,
          exp |-> Expiry(RegisterTTL), nbf |-> 0, at |-> clock])

GenerateInternalToken(t, audience) ==
    Sign([key |-> InnerKey, sub |-> t.sub, scopes |-> t.scopes, iss |-> Gateway,
          aud |-> audience, original_iss |-> t.iss, trace |-> <<Gateway>>,
          exp |-> Expiry(InternalTTL), nbf |-> 0, at |-> clock])

\* Generator.GenerateServiceToken in service s, from the claims it was given
GenerateServiceToken(t, s, audience) ==
    Sign([key |-> InnerKey, sub |-> t.sub, scopes |-> t.scopes, iss |-> s,
          aud |-> audience, original_iss |-> t.original_iss,
          trace |-> Append(t.trace, s),
          exp |-> Expiry(ServiceTTL), nbf |-> 0, at |-> clock])

-----------------------------------------------------------------------------

\* when a token that is used now was checked
CheckTimes(t) == {v \in t.at .. clock : v + Hold >= clock}

(***************************************************************************)
(* AuthMiddleware.AuthenticateRequest.  A public route lets a request pass *)
(* as it is, with whatever token it has; a token that is not valid (401)   *)
(* or lacks a scope (403) ends it.                                         *)
(***************************************************************************)
AuthenticateRequest(r, t, v) ==
    /\ jwtService
    /\ ~ r.Public
    /\ ValidateExternalToken(t, v)
    /\ hasAllScopes(t.scopes, r.Scopes)
    /\ GenerateInternalToken(t, r.service)

\* service s, called with t, calls another service, or whoever it likes
CallService(s, t, v, audience) ==
    /\ ValidateInternalToken(t, s, v)
    /\ GenerateServiceToken(t, s, audience)

\* the service auth middleware lets s pass, and the name is its own
MayRegister(name, t, v) == ValidateServiceToken(t, v) /\ t.sub = name

Registered(name) ==
    /\ registered' = [name |-> name, at |-> clock]
    /\ UNCHANGED <<clock, tokens, keys>>

\* variant that must fail: the name is not compared (403)
RegisterAnyName(name, t) ==
    /\ jwtService
    /\ ValidateServiceToken(t, clock)
    /\ Registered(name)

\* RegistryHandler.Register behind ServiceAuthMiddleware
Register(name, t) ==
    /\ jwtService
    /\ MayRegister(name, t, clock)
    /\ Registered(name)

\* without ServiceAuthMiddleware there is no name to compare with
RegisterOpen(name) == ~ jwtService /\ Registered(name)

Tick ==
    /\ clock < MaxClock
    /\ clock' = clock + 1
    /\ UNCHANGED <<tokens, keys, registered>>

TokenNext ==
    \/ \E u \in User \cup {NoName}, S \in SUBSET Scope, audience \in ExternalAudience,
          ttl \in ExternalTTL, wait \in Delay : IssueExternal(u, S, audience, ttl, wait)
    \/ \E s \in Service : serviceToken(s)
    \/ \E r \in Route, t \in tokens : \E v \in CheckTimes(t) : AuthenticateRequest(r, t, v)
    \/ \E s \in Service, audience \in Target, t \in tokens : \E v \in CheckTimes(t) :
          CallService(s, t, v, audience)
    \/ \E name \in Service \cup User, t \in tokens : Register(name, t)
    \/ \E name \in Service \cup User : RegisterOpen(name)
    \/ Tick

TokenSpec == TokenInit /\ [][TokenNext]_tokenVars

-----------------------------------------------------------------------------

\* no service can take an external token for an internal one
ExternalApart == keys = "one" => \A t \in tokens \ Internal : t.aud \notin Service

\* the gateway can take no internal token for a service's own
InternalApart == keys = "one" => \A t \in Internal : t.aud # GatewayAudience

SameSubject(t, p) == t.sub = p.sub /\ t.scopes = p.scopes

\* p could still be valid when the claims were checked from which t was made
MadeInTime(t, p) == p.at <= t.at /\ (p.exp # 0 => t.at < p.exp * Second + Hold)

\* the gateway made t from the external token p
FromGateway(t, p) ==
    /\ Verifies(p, OuterKey)
    /\ t.trace = <<Gateway>> /\ t.iss = Gateway
    /\ t.original_iss = p.iss
    /\ \E r \in Route : r.service = t.aud /\ ~ r.Public /\ r.Scopes \subseteq t.scopes

\* the service p was for made t from it
FromService(t, p) ==
    /\ p \in Internal
    /\ t.iss = p.aud
    /\ t.trace = Append(p.trace, p.aud)
    /\ t.original_iss = p.original_iss

(***************************************************************************)
(* The trace of an internal token is the path of the request: it begins at *)
(* the gateway, with an external token that had the scopes of a route of   *)
(* the first service, and each further entry is the service the token      *)
(* before was for.  Subject, scopes and original issuer never change, and  *)
(* nobody made a token from one that had expired more than Hold before.    *)
(* With one key pair for all it holds as long as the auth service does not *)
(* name services in aud.                                                   *)
(***************************************************************************)
TraceIsPath ==
    ExternalApart =>
        \A t \in Internal : \E p \in tokens :
            /\ SameSubject(t, p)
            /\ MadeInTime(t, p)
            /\ FromGateway(t, p) \/ FromService(t, p)

(***************************************************************************)
(* How long a user's authority outlives the external token: each hop adds  *)
(* at most the lifetime of an internal token and the time a service holds  *)
(* the claims.  GenerateServiceToken does not look at the exp of the       *)
(* claims it is given.  With one key pair for all it does not hold: the    *)
(* gateway takes internal tokens for external ones, and the trace begins   *)
(* anew.                                                                   *)
(***************************************************************************)
MaxTTL == IF InternalTTL > ServiceTTL THEN InternalTTL ELSE ServiceTTL

Outlives(t, e) ==
    t.at < e.exp * Second + Len(t.trace) * Hold + (Len(t.trace) - 1) * MaxTTL

LifetimeBounded ==
    keys # "one" =>
        \A t \in Internal : \E e \in tokens \ Internal :
            /\ SameSubject(t, e)
            /\ t.original_iss = e.iss
            /\ e.exp # 0 => Outlives(t, e)

(***************************************************************************)
(* No good token is refused: until a second before its lifetime is over    *)
(* (the claims are cut to seconds), the service an internal token is for   *)
(* accepts it, if it allows the issuer, and the gateway lets a service     *)
(* register with the token it made.                                        *)
(***************************************************************************)
Young(t, ttl) == clock + Second <= t.at + ttl

NotRefusedEarly ==
    \A t \in tokens :
        /\ (/\ t \in Internal /\ t.aud \in Service
            /\ Young(t, IF t.iss = Gateway THEN InternalTTL ELSE ServiceTTL)
            /\ ValidateIssuer(t, t.aud))
              => ValidateInternalToken(t, t.aud, clock)
        /\ (t.iss \in Service /\ t \notin Internal /\ Young(t, RegisterTTL))
              => MayRegister(t.iss, t, clock)

(***************************************************************************)
(* A gateway that authenticates registers a name only for its owner: with  *)
(* a token for the registry that had not expired and that the service      *)
(* signed itself or the auth service gave to that subject.  No token that  *)
(* was made on behalf of somebody else will do, even with one key pair for *)
(* all, as long as no service asks for one with the registry as audience.  *)
(***************************************************************************)
RegisteredByOwner ==
    jwtService /\ InternalApart /\ registered.name # NoName =>
        \E t \in tokens \ Internal :
            /\ t.sub = registered.name /\ t.iss \in {registered.name, AuthService}
            /\ t.aud = GatewayAudience
            /\ t.exp # 0 => registered.at < t.exp * Second

=============================================================================
