---------------------------- MODULE TokensProofs ----------------------------
(***************************************************************************)
(* Theorems about Tokens, for every set of users, services, routes and     *)
(* scopes, every lifetime and every number of tokens.                      *)
(***************************************************************************)
EXTENDS Tokens, TLAPS

(***************************************************************************)
(* Time.Unix cuts off less than a second.                                  *)
(***************************************************************************)
LEMMA UnixFloor ==
    ASSUME NEW x \in Nat
    PROVE  /\ Unix(x) \in Nat
           /\ Unix(x) * Second <= x
           /\ x < Unix(x) * Second + Second
BY TokenTimeAssumption, Z3 DEF Unix

(***************************************************************************)
(* A time of a second or more is not cut to 0, which stands for no expiry. *)
(***************************************************************************)
LEMMA UnixPositive ==
    ASSUME NEW x \in Nat, x >= Second
    PROVE  Unix(x) # 0
BY UnixFloor, TokenTimeAssumption

LEMMA MaxTTLNat == MaxTTL \in Nat /\ InternalTTL <= MaxTTL /\ ServiceTTL <= MaxTTL
BY TokenTimeAssumption DEF MaxTTL

-----------------------------------------------------------------------------

(***************************************************************************)
(* What GenerateInternalToken and GenerateServiceToken rely on: an         *)
(* internal token lives at most MaxTTL.                                    *)
(***************************************************************************)
ShortLived == \A t \in Internal : t.exp * Second <= t.at + MaxTTL

(***************************************************************************)
(* What the makers of tokens agree on: internal tokens are for services or *)
(* for whom a service calls, and a root is an external token or the one a  *)
(* service registers with.  CallService relies on it when all tokens have  *)
(* the same key, and Register for the owner of a name.                     *)
(***************************************************************************)
Lives(t, ttl) == t.nbf = 0 /\ t.exp = Unix(t.at + ttl)

InternalClaims(t) ==
    /\ t.aud \in Service \cup Target
    /\ Lives(t, IF t.iss = Gateway THEN InternalTTL ELSE ServiceTTL)

RootClaims(t) ==
    /\ t.key = OuterKey
    /\ \/ t.iss = AuthService /\ t.aud \in ExternalAudience
       \/ /\ t.iss \in Service /\ t.iss = t.sub
          /\ t.aud = GatewayAudience /\ Lives(t, RegisterTTL)

ClaimsOK == /\ \A t \in Internal : InternalClaims(t)
            /\ \A t \in tokens \ Internal : RootClaims(t)

(***************************************************************************)
(* The inductive invariant.  LifetimeBounded needs ShortLived for the time *)
(* a hop adds, and TokenTypeOK for the keys: the gateway cannot take an    *)
(* internal token for an external one.  TraceIsPath needs ClaimsOK, since  *)
(* a service must not take a root for an internal token, and               *)
(* RegisteredByOwner, since the gateway must not take an internal one for  *)
(* a root.                                                                 *)
(***************************************************************************)
TInv == /\ TokenTypeOK /\ TraceIsPath /\ ShortLived /\ LifetimeBounded
        /\ RegisteredByOwner /\ ClaimsOK

LEMMA InitInv == TokenInit => TInv
BY TokenTimeAssumption
   DEF TokenInit, TInv, TokenTypeOK, TraceIsPath, ShortLived, LifetimeBounded,
       RegisteredByOwner, ClaimsOK, Internal

(***************************************************************************)
(* A token that is no internal one disturbs nothing.                       *)
(***************************************************************************)
LEMMA SignRoot ==
    ASSUME TInv, NEW t \in Token, t.trace = << >>, t.at = clock, RootClaims(t), Sign(t)
    PROVE  TInv'
<1>1. /\ tokens' = tokens \cup {t} /\ clock' = clock
      /\ keys' = keys /\ registered' = registered
  BY DEF Sign
<1>2. Internal' = Internal
  BY <1>1 DEF Internal
<1>3. TokenTypeOK'
  BY <1>1, <1>2 DEF TInv, TokenTypeOK, Token
<1>4. TraceIsPath'
  <2>1. ExternalApart' => ExternalApart
    BY <1>1, <1>2 DEF ExternalApart
  <2>2. QED
    BY <1>1, <1>2, <2>1 DEF TInv, TraceIsPath, FromService, FromGateway, Verifies
<1>5. ShortLived'
  BY <1>2 DEF TInv, ShortLived
<1>6. LifetimeBounded'
  BY <1>1, <1>2 DEF TInv, LifetimeBounded
<1>7. RegisteredByOwner'
  BY <1>1, <1>2 DEF TInv, RegisteredByOwner, InternalApart, jwtService
<1>8. ClaimsOK'
  BY <1>1, <1>2 DEF TInv, ClaimsOK
<1>9. QED
  BY <1>3, <1>4, <1>5, <1>6, <1>7, <1>8 DEF TInv

(***************************************************************************)
(* An internal token as the invariant wants it: well formed, made of some  *)
(* token as TraceIsPath says, of bounded life and descended from a root.   *)
(***************************************************************************)
HasParent(t) ==
    ExternalApart =>
        \E p \in tokens : /\ SameSubject(t, p)
                          /\ MadeInTime(t, p)
                          /\ FromGateway(t, p) \/ FromService(t, p)

HasRoot(t) ==
    keys # "one" =>
        \E e \in tokens \ Internal : /\ SameSubject(t, e)
                                     /\ t.original_iss = e.iss
                                     /\ e.exp # 0 => Outlives(t, e)

WellMade(t) ==
    /\ t \in Token /\ t.trace # << >> /\ t.at = clock
    /\ t.key = InnerKey /\ t.sub # NoName /\ t.exp # 0
    /\ t.exp * Second <= t.at + MaxTTL /\ InternalClaims(t)
    /\ HasParent(t) /\ HasRoot(t)

LEMMA SignInternal ==
    ASSUME TInv, NEW t, WellMade(t), Sign(t)
    PROVE  TInv'
<1>1. /\ tokens' = tokens \cup {t} /\ clock' = clock
      /\ keys' = keys /\ registered' = registered
  BY DEF Sign
<1>2. Internal' = Internal \cup {t}
  BY <1>1 DEF WellMade, Internal
<1>3. tokens \ Internal \subseteq tokens' \ Internal'
  BY <1>1, <1>2 DEF WellMade, Internal
<1>4. TokenTypeOK'
  BY <1>1, <1>2 DEF WellMade, TInv, TokenTypeOK, Token
<1>5. TraceIsPath'
  <2>1. \A x, y : FromService(x, y) => FromService(x, y)'
    BY <1>2 DEF FromService
  <2>0. ExternalApart' => ExternalApart
    BY <1>1, <1>3 DEF ExternalApart
  <2>2. SUFFICES ASSUME ExternalApart, NEW x \in Internal'
                 PROVE  \E y \in tokens' : /\ SameSubject(x, y)
                                           /\ MadeInTime(x, y)
                                           /\ FromGateway(x, y) \/ FromService(x, y)'
    BY <1>1, <2>0 DEF TraceIsPath, FromGateway, SameSubject, MadeInTime, Verifies
  <2>3. CASE x = t
    BY <2>1, <2>2, <2>3, <1>1 DEF WellMade, HasParent
  <2>4. CASE x \in Internal
    BY <2>1, <2>2, <2>4, <1>1 DEF TInv, TraceIsPath
  <2>5. QED
    BY <2>3, <2>4, <1>2
<1>6. ShortLived'
  BY <1>2 DEF WellMade, TInv, ShortLived
<1>7. LifetimeBounded'
  BY <1>1, <1>2, <1>3 DEF WellMade, HasRoot, TInv, LifetimeBounded
<1>8. RegisteredByOwner'
  <2>1. InternalApart' => InternalApart
    BY <1>1, <1>2 DEF InternalApart
  <2>2. QED
    BY <1>1, <1>3, <2>1 DEF TInv, RegisteredByOwner, jwtService
<1>9. ClaimsOK'
  BY <1>1, <1>2 DEF WellMade, TInv, ClaimsOK
<1>10. QED
  BY <1>4, <1>5, <1>6, <1>7, <1>8, <1>9 DEF TInv

(***************************************************************************)
(* What the gateway makes of an external token.                            *)
(***************************************************************************)
LEMMA GatewayStep ==
    ASSUME TInv, NEW r \in Route, NEW p \in tokens, NEW v \in CheckTimes(p),
           AuthenticateRequest(r, p, v)
    PROVE  TInv'
<1>0. PICK t : t = [key |-> InnerKey, sub |-> p.sub, scopes |-> p.scopes, iss |-> Gateway,
                    aud |-> r.service, original_iss |-> p.iss, trace |-> <<Gateway>>,
                    exp |-> Expiry(InternalTTL), nbf |-> 0, at |-> clock]
  OBVIOUS
<1>1. p \in Token /\ p.at <= clock /\ clock \in Nat /\ clock >= Second /\ v \in Nat
  BY DEF TInv, TokenTypeOK, CheckTimes, Token
<1>2. v + Hold >= clock
  BY DEF CheckTimes
<1>3. Sign(t) /\ Verifies(p, OuterKey) /\ p.sub # NoName /\ ~ r.Public /\ r.Scopes \subseteq p.scopes
  BY <1>0 DEF AuthenticateRequest, GenerateInternalToken, ValidateExternalToken, Parse, hasAllScopes
<1>4. p.exp # 0 => v < p.exp * Second
  BY DEF AuthenticateRequest, ValidateExternalToken, Parse
<1>5. /\ Expiry(InternalTTL) \in Nat
      /\ Expiry(InternalTTL) * Second <= clock + InternalTTL
      /\ Expiry(InternalTTL) # 0
  <2>1. clock + InternalTTL \in Nat /\ clock + InternalTTL >= Second
    BY <1>1, TokenTimeAssumption
  <2>2. QED
    BY <2>1, UnixFloor, UnixPositive DEF Expiry
<1>6. t \in Token
  <2>1. r.service \in Name /\ Gateway \in Name
    BY RouteAssumption DEF Name
  <2>2. <<Gateway>> \in Seq(Name)
    BY <2>1
  <2>3. QED
    BY <1>0, <1>1, <1>5, <2>1, <2>2 DEF Token
<1>7. t.exp * Second <= t.at + MaxTTL
  BY <1>0, <1>1, <1>5, MaxTTLNat, TokenTimeAssumption
<1>8. SameSubject(t, p)
  BY <1>0 DEF SameSubject
<1>9. t.at < p.exp * Second + Hold \/ p.exp = 0
  BY <1>0, <1>1, <1>2, <1>4, TokenTimeAssumption DEF Token
<1>10. MadeInTime(t, p)
  BY <1>0, <1>1, <1>9 DEF MadeInTime
<1>11. FromGateway(t, p)
  BY <1>0, <1>3 DEF FromGateway
<1>12. HasRoot(t)
  <2>1. SUFFICES ASSUME keys # "one"
                 PROVE  /\ p \notin Internal
                        /\ p.exp # 0 => Outlives(t, p)
    BY <1>0, <1>8 DEF HasRoot
  <2>2. p \notin Internal
    BY <2>1, <1>3, NameAssumption DEF TInv, TokenTypeOK, Verifies
  <2>3. Len(t.trace) = 1
    BY <1>0
  <2>4. p.exp # 0 => Outlives(t, p)
    BY <1>0, <1>1, <1>9, <2>3, MaxTTLNat, TokenTimeAssumption DEF Outlives, Token
  <2>5. QED
    BY <2>2, <2>4
<1>13. t.trace # << >> /\ t.at = clock /\ t.key = InnerKey /\ t.sub # NoName /\ t.exp # 0
  BY <1>0, <1>3, <1>5
<1>14. InternalClaims(t)
  BY <1>0, RouteAssumption DEF InternalClaims, Lives, Expiry
<1>15. WellMade(t)
  BY <1>6, <1>7, <1>8, <1>10, <1>11, <1>12, <1>13, <1>14 DEF WellMade, HasParent
<1>16. QED
  BY <1>3, <1>15, SignInternal

(***************************************************************************)
(* What a service makes of the internal token it was called with.          *)
(***************************************************************************)
LEMMA ServiceStep ==
    ASSUME TInv, NEW s \in Service, NEW audience \in Target,
           NEW p \in tokens, NEW v \in CheckTimes(p), CallService(s, p, v, audience)
    PROVE  TInv'
<1>0. PICK t : t = [key |-> InnerKey, sub |-> p.sub, scopes |-> p.scopes, iss |-> s,
                    aud |-> audience, original_iss |-> p.original_iss,
                    trace |-> Append(p.trace, s),
                    exp |-> Expiry(ServiceTTL), nbf |-> 0, at |-> clock]
  OBVIOUS
<1>1. p \in Token /\ p.at <= clock /\ clock \in Nat /\ clock >= Second /\ v \in Nat
  BY DEF TInv, TokenTypeOK, CheckTimes, Token
<1>2. v + Hold >= clock
  BY DEF CheckTimes
<1>3. Sign(t) /\ Verifies(p, InnerKey) /\ p.sub # NoName /\ p.aud = s
  BY <1>0 DEF CallService, GenerateServiceToken, ValidateInternalToken, Parse
<1>4. p.exp # 0 => v < p.exp * Second
  BY DEF CallService, ValidateInternalToken, Parse
<1>5. /\ Expiry(ServiceTTL) \in Nat
      /\ Expiry(ServiceTTL) * Second <= clock + ServiceTTL
      /\ Expiry(ServiceTTL) # 0
  <2>1. clock + ServiceTTL \in Nat /\ clock + ServiceTTL >= Second
    BY <1>1, TokenTimeAssumption
  <2>2. QED
    BY <2>1, UnixFloor, UnixPositive DEF Expiry
<1>6. ExternalApart => p \in Internal /\ p.exp # 0
  <2>1. p \notin Internal => p.key = OuterKey
    BY DEF TInv, ClaimsOK, RootClaims
  <2>2. ExternalApart => p \in Internal
    BY <1>3, <2>1, NameAssumption DEF ExternalApart, Verifies
  <2>3. QED
    BY <2>2 DEF TInv, TokenTypeOK
<1>7. t \in Token
  <2>1. s \in Name /\ audience \in Name \cup {NoName}
    BY AudienceAssumption DEF Name
  <2>2. Append(p.trace, s) \in Seq(Name)
    BY <1>1, <2>1 DEF Token
  <2>3. QED
    BY <1>0, <1>1, <1>5, <2>1, <2>2 DEF Token
<1>8. t.exp * Second <= t.at + MaxTTL
  BY <1>0, <1>1, <1>5, MaxTTLNat, TokenTimeAssumption
<1>9. SameSubject(t, p)
  BY <1>0 DEF SameSubject
<1>10. ExternalApart => clock < p.exp * Second + Hold
  BY <1>1, <1>2, <1>4, <1>6, TokenTimeAssumption DEF Token
<1>11. ExternalApart => MadeInTime(t, p)
  BY <1>0, <1>1, <1>10 DEF MadeInTime
<1>12. ExternalApart => FromService(t, p)
  BY <1>0, <1>3, <1>6 DEF FromService
<1>13. HasRoot(t)
  <2>0. SUFFICES ASSUME keys # "one"  PROVE HasRoot(t)
    BY DEF HasRoot
  <2>1. PICK e \in tokens \ Internal : /\ SameSubject(p, e)
                                       /\ p.original_iss = e.iss
                                       /\ e.exp # 0 => Outlives(p, e)
    BY <1>6, <2>0 DEF TInv, LifetimeBounded, ExternalApart
  <2>2. SameSubject(t, e) /\ t.original_iss = e.iss
    BY <1>0, <2>1 DEF SameSubject
  <2>3. ASSUME e.exp # 0  PROVE Outlives(t, e)
    <3> DEFINE n == Len(p.trace)
    <3> DEFINE x == e.exp * Second
    <3>1. n \in Nat /\ Len(t.trace) = n + 1 /\ x \in Nat
      BY <1>0, <1>1, TokenTimeAssumption DEF TInv, TokenTypeOK, Token
    <3>2. p.at < x + n * Hold + (n - 1) * MaxTTL
      BY <2>1, <2>3 DEF Outlives
    <3>3. p.exp * Second <= p.at + MaxTTL
      BY <1>6, <2>0 DEF TInv, ShortLived, ExternalApart
    <3>4. clock < p.at + MaxTTL + Hold
      BY <1>1, <1>10, <2>0, <3>3, MaxTTLNat, TokenTimeAssumption DEF Token, ExternalApart
    <3>5. /\ (n + 1) * Hold = n * Hold + Hold
          /\ (n - 1) * MaxTTL + MaxTTL = n * MaxTTL
          /\ n * Hold \in Nat /\ n * MaxTTL \in Nat /\ (n - 1) * MaxTTL \in Int
      BY <3>1, MaxTTLNat, TokenTimeAssumption
    <3>6. clock < x + (n + 1) * Hold + ((n + 1) - 1) * MaxTTL
      <4>1. p.at \in Nat
        BY <1>1 DEF Token
      <4>2. (n + 1) - 1 = n
        BY <3>1
      <4> HIDE DEF n, x
      <4>3. p.at + MaxTTL + Hold < x + n * Hold + (n - 1) * MaxTTL + MaxTTL + Hold
        BY <3>1, <3>2, <3>5, <4>1, MaxTTLNat, TokenTimeAssumption
      <4>4. QED
        BY <1>1, <3>1, <3>4, <3>5, <4>1, <4>2, <4>3, MaxTTLNat, TokenTimeAssumption
    <3>7. QED
      BY <1>0, <3>1, <3>6 DEF Outlives
  <2>4. QED
    BY <2>2, <2>3 DEF HasRoot
<1>14. t.trace # << >> /\ t.at = clock /\ t.key = InnerKey /\ t.sub # NoName /\ t.exp # 0
  BY <1>0, <1>1, <1>3, <1>5 DEF Token
<1>15. InternalClaims(t)
  BY <1>0, NameAssumption DEF InternalClaims, Lives, Expiry
<1>16. WellMade(t)
  BY <1>7, <1>8, <1>9, <1>11, <1>12, <1>13, <1>14, <1>15 DEF WellMade, HasParent
<1>17. QED
  BY <1>3, <1>16, SignInternal

(***************************************************************************)
(* The tokens of the auth service.                                         *)
(***************************************************************************)
LEMMA ExternalStep ==
    ASSUME TInv, NEW u \in User \cup {NoName}, NEW S \in SUBSET Scope,
           NEW audience \in ExternalAudience, NEW ttl \in ExternalTTL, NEW wait \in Delay,
           IssueExternal(u, S, audience, ttl, wait)
    PROVE  TInv'
<1>0. PICK t : t = [key |-> OuterKey, sub |-> u, scopes |-> S, iss |-> AuthService,
                    aud |-> audience, original_iss |-> NoName, trace |-> << >>,
                    exp |-> IF ttl = 0 THEN 0 ELSE Expiry(ttl),
                    nbf |-> IF wait = 0 THEN 0 ELSE Unix(clock + wait),
                    at |-> clock]
  OBVIOUS
<1>1. clock \in Nat /\ Sign(t)
  BY <1>0 DEF TInv, TokenTypeOK, IssueExternal
<1>2. Expiry(ttl) \in Nat /\ Unix(clock + wait) \in Nat
  <2>1. clock + ttl \in Nat /\ clock + wait \in Nat
    BY <1>1, TokenTimeAssumption
  <2>2. QED
    BY <2>1, UnixFloor DEF Expiry
<1>3. t \in Token
  <2>1. /\ AuthService \in Name /\ audience \in Name \cup {NoName}
        /\ << >> \in Seq(Name)
    BY AudienceAssumption DEF Name
  <2>2. t.exp \in Nat /\ t.nbf \in Nat
    BY <1>0, <1>2
  <2>3. QED
    BY <1>0, <1>1, <1>2, <2>1, <2>2 DEF Token
<1>4. RootClaims(t)
  BY <1>0 DEF RootClaims
<1>5. t.trace = << >> /\ t.at = clock
  BY <1>0
<1>6. QED
  BY <1>1, <1>3, <1>4, <1>5, SignRoot

(***************************************************************************)
(* The token a service registers with.                                     *)
(***************************************************************************)
LEMMA ServiceTokenStep ==
    ASSUME TInv, NEW s \in Service, serviceToken(s)
    PROVE  TInv'
<1>0. PICK t : t = [key |-> OuterKey, sub |-> s, scopes |-> {}, iss |-> s,
                    aud |-> GatewayAudience, original_iss |-> NoName, trace |-> << >>,
                    exp |-> Expiry(RegisterTTL), nbf |-> 0, at |-> clock]
  OBVIOUS
<1>1. clock \in Nat /\ Sign(t)
  BY <1>0 DEF TInv, TokenTypeOK, serviceToken
<1>2. Expiry(RegisterTTL) \in Nat
  <2>1. clock + RegisterTTL \in Nat
    BY <1>1, TokenTimeAssumption
  <2>2. QED
    BY <2>1, UnixFloor DEF Expiry
<1>3. t \in Token
  <2>1. /\ s \in Name /\ GatewayAudience \in Name
        /\ << >> \in Seq(Name)
    BY DEF Name
  <2>2. QED
    BY <1>0, <1>1, <1>2, <2>1 DEF Token
<1>4. RootClaims(t)
  BY <1>0, NameAssumption DEF RootClaims, Lives, Expiry
<1>5. t.trace = << >> /\ t.at = clock
  BY <1>0
<1>6. QED
  BY <1>1, <1>3, <1>4, <1>5, SignRoot

(***************************************************************************)
(* A registration: the token is the service's own or one the auth service  *)
(* gave it, by ClaimsOK.  An open registration owes nothing.               *)
(***************************************************************************)
LEMMA RegisterStep ==
    ASSUME TInv, NEW name \in Service \cup User, Registered(name),
           jwtService => \E t \in tokens : Register(name, t)
    PROVE  TInv'
<1>1. /\ tokens' = tokens /\ clock' = clock /\ Internal' = Internal
      /\ keys' = keys /\ registered' = [name |-> name, at |-> clock]
  BY DEF Registered, Internal
<1>2. TokenTypeOK'
  BY <1>1 DEF TInv, TokenTypeOK
<1>3. TraceIsPath' /\ ShortLived' /\ LifetimeBounded' /\ ClaimsOK'
  BY <1>1 DEF TInv, TraceIsPath, ExternalApart, Verifies, FromService, FromGateway, ShortLived,
              LifetimeBounded, ClaimsOK
<1>4. ASSUME jwtService, InternalApart  PROVE RegisteredByOwner'
  <2>1. PICK t \in tokens : Register(name, t)
    BY <1>4
  <2>2. /\ Verifies(t, OuterKey) /\ t.aud = GatewayAudience /\ t.sub = name
        /\ t.exp # 0 => clock < t.exp * Second
    BY <2>1 DEF Register, MayRegister, ValidateServiceToken, Parse
  <2>3. t \notin Internal
    BY <1>4, <2>2, NameAssumption DEF TInv, TokenTypeOK, InternalApart, Verifies
  <2>4. t.iss \in {name, AuthService}
    BY <2>2, <2>3 DEF TInv, ClaimsOK, RootClaims
  <2>5. QED
    BY <1>1, <2>2, <2>3, <2>4 DEF RegisteredByOwner
<1>5. RegisteredByOwner'
  BY <1>1, <1>4 DEF RegisteredByOwner, InternalApart, jwtService
<1>6. QED
  BY <1>2, <1>3, <1>5 DEF TInv

LEMMA TickStep == TInv /\ Tick => TInv'
<1> SUFFICES ASSUME TInv, Tick  PROVE TInv'
  OBVIOUS
<1>1. /\ tokens' = tokens /\ registered' = registered /\ Internal' = Internal
      /\ keys' = keys /\ clock' = clock + 1
  BY DEF Tick, Internal
<1>2. tokens \subseteq Token /\ \A t \in tokens : t.at \in Nat
  BY DEF TInv, TokenTypeOK, Token
<1>3. TokenTypeOK'
  BY <1>1, <1>2, TokenTimeAssumption DEF TInv, TokenTypeOK
<1>4. TraceIsPath' /\ ShortLived' /\ LifetimeBounded' /\ ClaimsOK' /\ RegisteredByOwner'
  BY <1>1 DEF TInv, TraceIsPath, ExternalApart, Verifies, FromService, FromGateway, ShortLived,
              LifetimeBounded, ClaimsOK, RegisteredByOwner, InternalApart, jwtService
<1>5. QED
  BY <1>3, <1>4 DEF TInv

-----------------------------------------------------------------------------

LEMMA NextInv == TInv /\ [TokenNext]_tokenVars => TInv'
<1> SUFFICES ASSUME TInv, [TokenNext]_tokenVars  PROVE TInv'
  OBVIOUS
<1>1. CASE \E u \in User \cup {NoName}, S \in SUBSET Scope, audience \in ExternalAudience,
               ttl \in ExternalTTL, wait \in Delay : IssueExternal(u, S, audience, ttl, wait)
  BY <1>1, ExternalStep
<1>2. CASE \E s \in Service : serviceToken(s)
  BY <1>2, ServiceTokenStep
<1>3. CASE \E r \in Route, t \in tokens : \E v \in CheckTimes(t) : AuthenticateRequest(r, t, v)
  BY <1>3, GatewayStep
<1>4. CASE \E s \in Service, audience \in Target, t \in tokens : \E v \in CheckTimes(t) :
               CallService(s, t, v, audience)
  BY <1>4, ServiceStep
<1>5. CASE \E name \in Service \cup User, t \in tokens : Register(name, t)
  BY <1>5, RegisterStep DEF Register
<1>6. CASE \E name \in Service \cup User : RegisterOpen(name)
  BY <1>6, RegisterStep DEF RegisterOpen
<1>7. CASE Tick
  BY <1>7, TickStep
<1>8. CASE UNCHANGED tokenVars
  BY <1>8 DEF tokenVars, TInv, TokenTypeOK, TraceIsPath, ExternalApart, Verifies, FromService, FromGateway,
              Internal, ShortLived, LifetimeBounded, ClaimsOK, RegisteredByOwner, InternalApart, jwtService
<1>9. QED
  BY <1>1, <1>2, <1>3, <1>4, <1>5, <1>6, <1>7, <1>8 DEF TokenNext

LEMMA SpecInv == TokenSpec => []TInv
BY InitInv, NextInv, PTL DEF TokenSpec

(***************************************************************************)
(* Tokens have the claims the validators look for; none comes from the     *)
(* future.                                                                 *)
(***************************************************************************)
THEOREM TokensTyped == TokenSpec => []TokenTypeOK
<1>1. TInv => TokenTypeOK
  BY DEF TInv
<1>2. QED
  BY <1>1, SpecInv, PTL

(***************************************************************************)
(* The trace of an internal token is the path of the request that          *)
(* AuthenticateRequest and GenerateServiceToken took, whoever presents     *)
(* which token to whom: with two key pairs whatever the audiences, and     *)
(* with one until an external token names a service as its audience.       *)
(***************************************************************************)
THEOREM TracesArePaths == TokenSpec => []TraceIsPath
<1>1. TInv => TraceIsPath
  BY DEF TInv
<1>2. QED
  BY <1>1, SpecInv, PTL

(***************************************************************************)
(* GenerateServiceToken ignores the expiry of the claims it is given, yet  *)
(* each hop adds at most one lifetime and one Hold to what the external    *)
(* token allowed.                                                          *)
(***************************************************************************)
THEOREM LifetimesBounded == TokenSpec => []LifetimeBounded
<1>1. TInv => LifetimeBounded
  BY DEF TInv
<1>2. QED
  BY <1>1, SpecInv, PTL

(***************************************************************************)
(* Names are registered by their owners: RegistryHandler.Register behind   *)
(* ServiceAuthMiddleware, with one key pair or two.  Says nothing of a     *)
(* gateway without JWT keys, where RegisterOpen lets everybody in.         *)
(***************************************************************************)
THEOREM RegistrationsOwned == TokenSpec => []RegisteredByOwner
<1>1. TInv => RegisteredByOwner
  BY DEF TInv
<1>2. QED
  BY <1>1, SpecInv, PTL

(***************************************************************************)
(* A token that has more than the rest of a second to live is accepted     *)
(* where it is meant to be: makers and validators agree on the claims.     *)
(***************************************************************************)
THEOREM GoodTokensAccepted == TokenSpec => []NotRefusedEarly
<1>1. ASSUME TInv, NEW t \in tokens, NEW ttl \in Nat, Lives(t, ttl), Young(t, ttl)
      PROVE  t.nbf = 0 /\ clock < t.exp * Second
  <2>1. t.at \in Nat /\ clock \in Nat
    BY <1>1 DEF TInv, TokenTypeOK, Token
  <2>2. t.at + ttl \in Nat
    BY <2>1
  <2>3. t.at + ttl < Unix(t.at + ttl) * Second + Second /\ Unix(t.at + ttl) \in Nat
    BY <2>2, UnixFloor
  <2>4. QED
    BY <1>1, <2>1, <2>2, <2>3, TokenTimeAssumption DEF Lives, Young
<1>2. ASSUME TInv, NEW t \in Internal, t.aud \in Service, ValidateIssuer(t, t.aud),
             Young(t, IF t.iss = Gateway THEN InternalTTL ELSE ServiceTTL)
      PROVE  ValidateInternalToken(t, t.aud, clock)
  <2>1. t \in tokens /\ t.iss \in Name /\ t.key = InnerKey /\ t.sub # NoName
    BY <1>2 DEF TInv, TokenTypeOK, Token, Internal
  <2>2. InternalClaims(t)
    BY <1>2 DEF TInv, ClaimsOK
  <2>3. t.nbf = 0 /\ clock < t.exp * Second
    BY <1>1, <1>2, <2>1, <2>2, TokenTimeAssumption DEF InternalClaims
  <2>4. t.aud # NoName /\ t.iss # NoName
    BY <1>2, <2>1, NameAssumption DEF Name
  <2>5. QED
    BY <1>2, <2>1, <2>3, <2>4 DEF ValidateInternalToken, Parse, Verifies
<1>3. ASSUME TInv, NEW t \in tokens, t \notin Internal, t.iss \in Service, Young(t, RegisterTTL)
      PROVE  MayRegister(t.iss, t, clock)
  <2>1. RootClaims(t) /\ t.iss # AuthService
    BY <1>3, NameAssumption DEF TInv, ClaimsOK
  <2>2. t.nbf = 0 /\ clock < t.exp * Second
    BY <1>1, <1>3, <2>1, TokenTimeAssumption DEF RootClaims
  <2>3. t.sub # NoName
    BY <1>3, <2>1, NameAssumption DEF RootClaims, Name
  <2>4. QED
    BY <1>3, <2>1, <2>2, <2>3 DEF RootClaims, MayRegister, ValidateServiceToken, Parse, Verifies
<1>4. TInv => NotRefusedEarly
  BY <1>2, <1>3 DEF NotRefusedEarly
<1>5. QED
  BY <1>4, SpecInv, PTL

=============================================================================
