------------------------------- MODULE Logins -------------------------------
(***************************************************************************)
(* What the claims of an id_token decide, in VerifyIDToken of              *)
(* go/identity/idtoken.go and in verifyIdToken of js/src/identity.js, once *)
(* the signature has verified.  A provider issues a token; services of any *)
(* client ID, in logins of any nonce, are handed it at any time.  Their    *)
(* clock and the provider's differ.                                        *)
(*                                                                         *)
(* Clocks count ticks, a token counts seconds.  A claim may be of another  *)
(* JSON type than Go's struct gives it, which the two clients take very    *)
(* differently; two such values stand for all of them where a string is    *)
(* due, one that JavaScript takes for true and one that it takes for false.*)
(***************************************************************************)
EXTENDS Integers, Sequences, FiniteSets

CONSTANTS
  Ids,      \* client IDs
  Nonces,   \* nonces of logins
  None,     \* the empty string; as a claim, also null and, but for "aud", absent
  NoAud,    \* the claim "aud" is absent
  Truthy,   \* a JSON value that is no string, such as 7 or an object
  Falsy,    \* 0 or false
  Audiences,\* what "aud" may be: sequences of Ids, None and Truthy, or NoAud
  Skew,     \* clockSkew and CLOCK_SKEW_SECONDS, in seconds
  Lifetime, \* seconds from iat to exp
  Second,   \* ticks in a second
  MaxDrift, \* how far the provider's clock may be from ours, in ticks
  MaxClock, \* bound: the clock stops here
  MaxIllTyped \* bound: how many claims of a token are not of the type Go reads

NoString == {Truthy, Falsy}

ASSUME LoginsAssumption ==
  /\ (NoString \cup {None}) \cap (Ids \cup Nonces) = {} /\ None \notin NoString
  /\ NoAud \notin Seq(Ids \cup {None, Truthy})
  /\ Audiences \subseteq Seq(Ids \cup {None, Truthy}) \cup {NoAud}
  /\ Skew \in Nat /\ Lifetime \in Nat
  /\ Second \in Nat \ {0} /\ MaxDrift \in Nat /\ MaxClock \in Nat
  /\ MaxIllTyped \in Nat

VARIABLES
  clock,   \* the services' clock
  drift,   \* the provider's clock less theirs
  token,   \* the claims of the token, None before it is issued
  accepted \* who accepted it: the client library, the client ID and the nonce

vars == <<clock, drift, token, accepted>>

Seconds(t) == t \div Second
Whole(t) == Seconds(t) * Second
ProviderClock == clock + drift

\* A time in a claim: an integer, a number with a fraction or an exponent, a
\* string of digits, or a value JavaScript makes no number of.  0 and null are
\* an absent time.
Absent == [as |-> "integer", at |-> 0]
Times(t) ==
  {Absent} \cup {[as |-> f, at |-> Whole(t)] : f \in {"integer", "digits", "other"}}
           \cup {[as |-> "decimal", at |-> t]}

\* Whether the members of an audience are strings.
OfStrings(aud) == aud = NoAud \/ \A i \in DOMAIN aud : aud[i] \notin NoString

\* The claims a token has of another type than Go's struct.  "rest" are those
\* that neither client decides on and Go decodes all the same: auth_time,
\* email, email_verified, name, locale and roles.
IllTyped(c) ==
  {f \in {"sub", "azp"} : c[f] \in NoString}
    \cup {f \in {"iat", "exp"} : c[f].as # "integer"}
    \cup {f \in {"aud"} : ~OfStrings(c.aud)}
    \cup {f \in {"rest"} : ~c.rest}

\* The provider puts in the claims what it likes, and stamps them itself.  An
\* iss or a nonce that is no string is refused by both like any other's.
Claims ==
  {c \in [iss : {"ours", "foreign"}, sub : {"user", None} \cup NoString,
          aud : Audiences, azp : Ids \cup {None} \cup NoString,
          iat : Times(ProviderClock), exp : Times(ProviderClock + Lifetime * Second),
          nonce : Nonces \cup {None}, rest : BOOLEAN] :
     Cardinality(IllTyped(c)) <= MaxIllTyped}

Init ==
  /\ drift \in -MaxDrift..MaxDrift
  /\ clock = MaxDrift + Second
  /\ token = None
  /\ accepted = {}

Issue ==
  /\ token = None
  /\ token' \in Claims
  /\ UNCHANGED <<clock, drift, accepted>>

Tick ==
  /\ clock < MaxClock
  /\ clock' = clock + 1
  /\ UNCHANGED <<drift, token, accepted>>

-----------------------------------------------------------------------------
(* The Go client.  id is Client.ClientID, nonce the caller's.               *)

\* json.Unmarshal into the struct claims, which leaves "aud" as it is.
GoDecodes ==
  /\ token.sub \notin NoString /\ token.azp \notin NoString
  /\ token.iat.as = "integer" /\ token.exp.as = "integer"
  /\ token.rest

Includes(aud, id) == \E i \in DOMAIN aud : aud[i] = id

\* (A mutant: a token for several audiences needs no azp.)
GoAudienceAnyParty(id) ==
  /\ token.aud # NoAud /\ OfStrings(token.aud)
  /\ id # None => Includes(token.aud, id)
  /\ token.azp # None /\ id # None => token.azp = id

\* (A mutant: an audience of anything that names the client will do.)
GoAudienceOfAnything(id) ==
  /\ token.aud # NoAud
  /\ id # None => Includes(token.aud, id)
  /\ Len(token.aud) > 1 => token.azp # None
  /\ token.azp # None /\ id # None => token.azp = id

\* parseAudience takes a string for an audience of one.
GoAudience(id) ==
  /\ token.aud # NoAud /\ OfStrings(token.aud)
  /\ id # None => Includes(token.aud, id)
  /\ Len(token.aud) > 1 => token.azp # None
  /\ token.azp # None /\ id # None => token.azp = id

\* (A mutant: the skew is allowed for on one side only.)
GoInTimeOneSided ==
  /\ token.exp # Absent /\ clock <= token.exp.at + Skew * Second
  /\ token.iat.at <= clock

\* (A mutant: the skew is allowed for twice.)
GoInTimeTwice ==
  /\ token.exp # Absent /\ clock - Skew * Second <= token.exp.at + Skew * Second
  /\ token.iat.at <= clock + Skew * Second

GoInTime ==
  /\ token.exp # Absent /\ clock <= token.exp.at + Skew * Second
  /\ token.iat.at <= clock + Skew * Second

GoAccepts(id, nonce) ==
  /\ token # None
  /\ GoDecodes
  /\ token.iss = "ours" /\ token.sub # None /\ token.iat # Absent
  /\ GoAudience(id)
  /\ GoInTime
  /\ token.nonce = nonce

(* The JavaScript client.                                                   *)

\* A claim is tested for being true: Falsy counts as absent.
Given(v) == v \notin {None, Falsy}

\* What is no array is an audience of one, undefined too.
JSAudience(id) ==
  LET audience == IF token.aud = NoAud THEN <<None>> ELSE token.aud IN
  /\ id # None => Includes(audience, id)
  /\ Len(audience) > 1 => Given(token.azp)
  /\ Given(token.azp) /\ id # None => token.azp = id

\* What exp is added to, "+" appends to a string: the three digits of 120.
JSDeadline ==
  (IF token.exp.as = "digits" THEN 1000 ELSE 1) * token.exp.at + Skew * Second

\* (A mutant: the last second is refused.)
JSInTimeEarly ==
  /\ token.exp # Absent
  /\ token.exp.as # "other" => Whole(clock) < JSDeadline
  /\ token.iat.as # "other" => token.iat.at <= Whole(clock) + Skew * Second

\* A string compares as the number it writes; what is no number compares false,
\* and so is neither expired nor of the future.
JSInTime ==
  /\ token.exp # Absent
  /\ token.exp.as # "other" => Whole(clock) <= JSDeadline
  /\ token.iat.as # "other" => token.iat.at <= Whole(clock) + Skew * Second

\* (A mutant: the nonce is compared only when one was sent.)
JSAcceptsOtherLogins(id, nonce) ==
  /\ token # None
  /\ token.iss = "ours" /\ Given(token.sub) /\ token.iat # Absent
  /\ JSAudience(id)
  /\ JSInTime
  /\ nonce # None => token.nonce = nonce

JSAccepts(id, nonce) ==
  /\ token # None
  /\ token.iss = "ours" /\ Given(token.sub) /\ token.iat # Absent
  /\ JSAudience(id)
  /\ JSInTime
  /\ token.nonce = nonce

\* A service is handed the token.
Verify(by, id, nonce) ==
  /\ IF by = "go" THEN GoAccepts(id, nonce) ELSE JSAccepts(id, nonce)
  /\ accepted' = accepted \cup {[by |-> by, id |-> id, nonce |-> nonce]}
  /\ UNCHANGED <<clock, drift, token>>

\* Nothing is left to happen to a token that is refused.
Refused == token # None /\ UNCHANGED vars

Next ==
  \/ Issue \/ Tick \/ Refused
  \/ \E by \in {"go", "js"}, id \in Ids \cup {None}, nonce \in Nonces \cup {None} :
       Verify(by, id, nonce)

Spec == Init /\ [][Next]_vars

-----------------------------------------------------------------------------
(* Properties.                                                              *)

\* One token opens one login of one client: no two services of different
\* client IDs, and no two logins of different nonces, ever accept the same
\* token, whichever client library they use and whatever is in its claims.
OneLoginPerToken ==
  \A a, b \in accepted :
    /\ a.nonce = b.nonce
    /\ a.id # None /\ b.id # None => a.id = b.id

Near == drift \in -(Skew * Second)..(Skew * Second)

\* A token for this client and this login, with claims of the types they should
\* have, from a provider whose clock is within the skew of ours, is accepted as
\* long as it lives by that clock: "rejecting a token because two machines are a
\* second apart is a fault".
GenuineAccepted ==
  \A id \in Ids, nonce \in Nonces \cup {None} :
    /\ Near /\ token # None
    /\ IllTyped(token) = {}
    /\ token.iss = "ours" /\ token.sub # None
    /\ token.iat # Absent /\ token.exp # Absent
    /\ token.aud = <<id>> /\ token.azp \in {None, id} /\ token.nonce = nonce
    /\ ProviderClock <= token.exp.at
    => GoAccepts(id, nonce) /\ JSAccepts(id, nonce)

\* No token is accepted long after it has died by the provider's clock: what
\* the skew forgives and what the clocks may differ, and in JavaScript not
\* quite a second more, if its exp is a number.
DeadRefused ==
  \A id \in Ids \cup {None}, nonce \in Nonces \cup {None} : Near =>
    /\ GoAccepts(id, nonce) => ProviderClock <= token.exp.at + 2 * Skew * Second
    /\ JSAccepts(id, nonce) /\ token.exp.as \in {"integer", "decimal"}
         => ProviderClock < token.exp.at + 2 * Skew * Second + Second

\* The two clients give the same verdict on the same claims at the same time,
\* but for three kinds of token, which only JavaScript accepts: one in the rest
\* of its last second; one without an audience, at a service without a client
\* ID; and one with a claim that is not of the type Go reads it as.
ClientsAgree ==
  \A id \in Ids \cup {None}, nonce \in Nonces \cup {None} :
    GoAccepts(id, nonce) <=>
      /\ JSAccepts(id, nonce)
      /\ clock <= token.exp.at + Skew * Second
      /\ id = None => token.aud # NoAud
      /\ IllTyped(token) = {}
=============================================================================
