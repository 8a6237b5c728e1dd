---------------------------- MODULE LoginsProofs ----------------------------
(***************************************************************************)
(* For every set of client IDs and nonces, every skew, lifetime, drift and *)
(* length of a second: what a token opens, and for how long.               *)
(***************************************************************************)
EXTENDS Logins, TLAPS

-----------------------------------------------------------------------------
(* One token, one login.                                                    *)

\* What both clients demand of the claims that name the login, whatever the
\* time: the audience holds the client, and a party that is named is it.
Meant(id, nonce) ==
  /\ token.nonce = nonce
  /\ id # None =>
       /\ token.aud # NoAud /\ Includes(token.aud, id)
       /\ Given(token.azp) => token.azp = id
  /\ token.aud # NoAud /\ Len(token.aud) > 1 => Given(token.azp)

\* What a token says of time it says in whole seconds, if it is an integer.
IsTime(t) ==
  /\ t.as \in {"integer", "decimal", "digits", "other"} /\ t.at \in Int
  /\ t.as = "integer" => \E n \in Int : t.at = n * Second

TokenOK ==
  token # None =>
    /\ token.aud \in Seq(Ids \cup {None, Truthy}) \cup {NoAud}
    /\ IsTime(token.iat) /\ IsTime(token.exp)

LoginsInv ==
  /\ TokenOK
  /\ token = None => accepted = {}
  /\ \A a \in accepted : Meant(a.id, a.nonce)

\* Neither client accepts a token that is not meant for it.
LEMMA AcceptedIsMeant ==
  ASSUME NEW id, NEW nonce, GoAccepts(id, nonce) \/ JSAccepts(id, nonce), TokenOK
  PROVE  token # None /\ Meant(id, nonce)
<1>1. CASE GoAccepts(id, nonce)
  BY <1>1 DEF GoAccepts, GoDecodes, GoAudience, Meant, Given, NoString
<1>2. CASE JSAccepts(id, nonce)
  <2>1. token # None /\ token.nonce = nonce /\ JSAudience(id)
    BY <1>2 DEF JSAccepts
  <2>2. CASE token.aud = NoAud
    <3>1. \A j \in DOMAIN <<None>> : <<None>>[j] = None
      OBVIOUS
    <3> QED
      BY <2>1, <2>2, <3>1 DEF JSAudience, Includes, Meant
  <2>3. CASE token.aud # NoAud
    BY <2>1, <2>3 DEF JSAudience, Meant
  <2> QED
    BY <2>2, <2>3
<1> QED
  BY <1>1, <1>2

-----------------------------------------------------------------------------
(* Whole seconds.                                                           *)

LEMMA RestOfASecond ==
  ASSUME NEW t \in Int
  PROVE  Whole(t) \in Int /\ Whole(t) <= t /\ t < Whole(t) + Second
<1>1. Seconds(t) \in Int /\ Seconds(t) * Second <= t /\ t < Seconds(t) * Second + Second
  BY LoginsAssumption DEF Seconds
<1> QED
  BY <1>1, LoginsAssumption, Z3 DEF Whole

LEMMA SkewInTicks == Skew * Second \in Nat /\ Second \in Nat /\ Lifetime * Second \in Nat
  BY LoginsAssumption, Z3

\* Comparing whole seconds with a whole second is comparing with the ticks.
LEMMA WholeIsEnough ==
  ASSUME NEW t \in Int, NEW m \in Int, NEW n \in Int, m = n * Second
  PROVE  m <= Whole(t) <=> m <= t
<1>1. CASE n <= Seconds(t)
  <2>1. n * Second <= Seconds(t) * Second
    BY <1>1, LoginsAssumption, Z3 DEF Seconds
  <2> QED
    BY <2>1, RestOfASecond, LoginsAssumption DEF Whole
<1>2. CASE Seconds(t) + 1 <= n
  <2>1. (Seconds(t) + 1) * Second <= n * Second
    BY <1>2, LoginsAssumption, Z3 DEF Seconds
  <2>2. (Seconds(t) + 1) * Second = Whole(t) + Second
    BY LoginsAssumption, Z3 DEF Seconds, Whole
  <2>3. Whole(t) + Second <= m
    BY <2>1, <2>2
  <2>4. Second \in Nat \ {0}
    BY LoginsAssumption
  <2> QED
    BY <2>3, <2>4, RestOfASecond
<1> QED
  BY <1>1, <1>2, LoginsAssumption DEF Seconds

\* The provider stamps a token with times.
LEMMA StampedOK == ASSUME NEW t \in Int, NEW x \in Times(t)
                   PROVE  IsTime(x) /\ (x = Absent \/ x.at <= t)
<1>1. CASE x = Absent
  <2>1. x.at = 0 * Second
    BY <1>1, LoginsAssumption DEF Absent
  <2> QED
    BY <1>1, <2>1 DEF Absent, IsTime
<1>2. CASE x # Absent
  <2>1. Whole(t) = Seconds(t) * Second /\ Seconds(t) \in Int
    BY LoginsAssumption DEF Whole, Seconds
  <2>2. /\ x.as \in {"integer", "decimal", "digits", "other"}
        /\ x.at \in {t, Whole(t)} /\ (x.as = "integer" => x.at = Whole(t))
    BY <1>2 DEF Times
  <2> QED
    BY <2>1, <2>2, RestOfASecond DEF IsTime
<1> QED
  BY <1>1, <1>2

LEMMA IssuedOK == ASSUME NEW c \in Claims, clock \in Int, drift \in Int
                  PROVE  /\ c.aud \in Seq(Ids \cup {None, Truthy}) \cup {NoAud}
                         /\ IsTime(c.iat) /\ IsTime(c.exp)
                         /\ c.iat = Absent \/ c.iat.at <= ProviderClock
<1>1. ProviderClock \in Int /\ ProviderClock + Lifetime * Second \in Int
  BY SkewInTicks DEF ProviderClock
<1>2. /\ c.aud \in Audiences
      /\ c.iat \in Times(ProviderClock)
      /\ c.exp \in Times(ProviderClock + Lifetime * Second)
  BY DEF Claims
<1> QED
  BY <1>1, <1>2, StampedOK, LoginsAssumption

Clocks == clock \in Int /\ drift \in Int

LEMMA LoginsInvariant == Spec => [](Clocks /\ LoginsInv)
<1>1. Init => Clocks /\ LoginsInv
  BY LoginsAssumption DEF Init, Clocks, LoginsInv, TokenOK
<1>2. ASSUME Clocks, LoginsInv, [Next]_vars PROVE Clocks' /\ LoginsInv'
  <2>1. CASE Issue
    BY <1>2, <2>1, IssuedOK DEF Issue, Clocks, LoginsInv, TokenOK
  <2>2. CASE Tick
    BY <1>2, <2>2 DEF Tick, Clocks, LoginsInv, TokenOK, Meant
  <2>3. ASSUME NEW by \in {"go", "js"}, NEW id \in Ids \cup {None},
               NEW nonce \in Nonces \cup {None}, Verify(by, id, nonce)
        PROVE  Clocks' /\ LoginsInv'
    <3>1. token # None /\ Meant(id, nonce)
      BY <1>2, <2>3, AcceptedIsMeant DEF Verify, LoginsInv
    <3>2. UNCHANGED <<clock, drift, token>>
      BY <2>3 DEF Verify
    <3>3. \A a \in accepted' : Meant(a.id, a.nonce)
      BY <1>2, <2>3, <3>1 DEF Verify, LoginsInv
    <3> QED
      BY <1>2, <3>1, <3>2, <3>3 DEF Clocks, LoginsInv, TokenOK, Meant
  <2>4. CASE UNCHANGED vars
    BY <1>2, <2>4 DEF vars, Clocks, LoginsInv, TokenOK, Meant
  <2> QED
    BY <1>2, <2>1, <2>2, <2>3, <2>4 DEF Next, Refused
<1> QED
  BY <1>1, <1>2, PTL DEF Spec

\* Whatever a provider puts into a token, and whichever client library looks
\* at it: no two clients and no two logins accept the same one.
THEOREM TokenOpensOneLogin == Spec => []OneLoginPerToken
<1>1. ASSUME LoginsInv, NEW a \in accepted, NEW b \in accepted
      PROVE  a.nonce = b.nonce /\ (a.id # None /\ b.id # None => a.id = b.id)
  <2>1. token # None /\ Meant(a.id, a.nonce) /\ Meant(b.id, b.nonce)
        /\ token.aud \in Seq(Ids \cup {None, Truthy}) \cup {NoAud}
    BY <1>1 DEF LoginsInv, TokenOK
  <2>2. ASSUME a.id # None, b.id # None, ~Given(token.azp)
        PROVE  a.id = b.id
    <3>1. token.aud \in Seq(Ids \cup {None, Truthy}) /\ Len(token.aud) <= 1
      BY <2>1, <2>2 DEF Meant
    <3>2. \A j, k \in DOMAIN token.aud : j = k
      BY <3>1
    <3> QED
      BY <2>1, <2>2, <3>2 DEF Meant, Includes
  <2> QED
    BY <2>1, <2>2 DEF Meant
<1>2. LoginsInv => OneLoginPerToken
  BY <1>1 DEF OneLoginPerToken
<1> QED
  BY <1>2, LoginsInvariant, PTL

-----------------------------------------------------------------------------
(* The two clients side by side.                                            *)

LEMMA WellTyped ==
  ASSUME token # None
  PROVE  IllTyped(token) = {} <=> GoDecodes /\ OfStrings(token.aud)
<1>1. ASSUME IllTyped(token) = {} PROVE GoDecodes /\ OfStrings(token.aud)
  <2>1. /\ {f \in {"sub", "azp"} : token[f] \in NoString} = {}
        /\ {f \in {"iat", "exp"} : token[f].as # "integer"} = {}
        /\ {f \in {"aud"} : ~OfStrings(token.aud)} = {}
        /\ {f \in {"rest"} : ~token.rest} = {}
    BY <1>1, Zenon DEF IllTyped
  <2> QED
    BY <2>1, Zenon DEF GoDecodes
<1>2. ASSUME GoDecodes, OfStrings(token.aud) PROVE IllTyped(token) = {}
  BY <1>2, Zenon DEF GoDecodes, IllTyped
<1> QED
  BY <1>1, <1>2

\* The audiences they take for theirs differ in one case only, if the claims
\* are of the types they should have.
LEMMA SameAudience ==
  ASSUME TokenOK, token # None, IllTyped(token) = {}, NEW id \in Ids \cup {None}
  PROVE  GoAudience(id) <=> JSAudience(id) /\ (id = None => token.aud # NoAud)
<1>1. CASE token.aud = NoAud
  <2>1. \A j \in DOMAIN <<None>> : <<None>>[j] = None
    OBVIOUS
  <2>2. JSAudience(id) => id = None
    BY <1>1, <2>1 DEF JSAudience, Includes
  <2> QED
    BY <1>1, <2>2 DEF GoAudience
<1>2. CASE token.aud # NoAud
  <2>1. OfStrings(token.aud) /\ token.azp \notin NoString
    BY WellTyped DEF GoDecodes
  <2>2. Given(token.azp) <=> token.azp # None
    BY <2>1 DEF Given, NoString
  <2> QED
    BY <1>2, <2>1, <2>2 DEF GoAudience, JSAudience
<1> QED
  BY <1>1, <1>2

\* And so do the times, by the rest of the last second.
LEMMA SameTimes ==
  ASSUME TokenOK, Clocks, token # None, IllTyped(token) = {}
  PROVE  GoInTime <=> JSInTime /\ clock <= token.exp.at + Skew * Second
<1>1. token.iat.as = "integer" /\ token.exp.as = "integer"
  BY WellTyped DEF GoDecodes
<1>2. clock \in Int /\ token.iat.at \in Int /\ token.exp.at \in Int
  BY DEF TokenOK, Clocks, IsTime
<1>3. JSDeadline = token.exp.at + Skew * Second
  BY <1>1, <1>2, SkewInTicks DEF JSDeadline
<1>4. clock <= JSDeadline => Whole(clock) <= JSDeadline
  BY <1>2, <1>3, RestOfASecond, SkewInTicks
<1>5. token.iat.at - Skew * Second <= Whole(clock)
        <=> token.iat.at - Skew * Second <= clock
  <2>1. PICK n \in Int : token.iat.at = n * Second
    BY <1>1 DEF TokenOK, IsTime
  <2>2. token.iat.at - Skew * Second = (n - Skew) * Second /\ n - Skew \in Int
    BY <2>1, LoginsAssumption, Z3
  <2>3. token.iat.at - Skew * Second \in Int
    BY <1>2, SkewInTicks
  <2> QED
    BY <1>2, <2>2, <2>3, WholeIsEnough
<1>6. Whole(clock) \in Int
  BY <1>2, RestOfASecond
<1>7. token.iat.at <= Whole(clock) + Skew * Second
        <=> token.iat.at <= clock + Skew * Second
  BY <1>2, <1>5, <1>6, SkewInTicks
<1> QED
  BY <1>1, <1>3, <1>4, <1>7 DEF GoInTime, JSInTime

\* On the same claims and at the same time the Go client and the JavaScript
\* client decide alike, but for the three kinds of token ClientsAgree names.
THEOREM SameVerdict == Spec => []ClientsAgree
<1>1. ASSUME Clocks, TokenOK, NEW id \in Ids \cup {None}, NEW nonce \in Nonces \cup {None}
      PROVE  GoAccepts(id, nonce) <=>
               /\ JSAccepts(id, nonce)
               /\ clock <= token.exp.at + Skew * Second
               /\ id = None => token.aud # NoAud
               /\ IllTyped(token) = {}
  <2>1. CASE token = None
    BY <2>1 DEF GoAccepts, JSAccepts
  <2>2. CASE token # None /\ IllTyped(token) = {}
    <3>1. GoDecodes /\ (Given(token.sub) <=> token.sub # None)
      BY <2>2, WellTyped DEF GoDecodes, Given, NoString
    <3> QED
      BY <1>1, <2>2, <3>1, SameAudience, SameTimes DEF GoAccepts, JSAccepts
  <2>3. CASE token # None /\ IllTyped(token) # {}
    BY <2>3, WellTyped DEF GoAccepts, GoAudience
  <2> QED
    BY <2>1, <2>2, <2>3
<1>2. Clocks /\ LoginsInv => ClientsAgree
  BY <1>1 DEF LoginsInv, ClientsAgree
<1> QED
  BY <1>2, LoginsInvariant, PTL

-----------------------------------------------------------------------------
(* Skew.                                                                    *)

\* A token that has died by the provider's clock dies here within twice the
\* skew, and in JavaScript, if its exp is a number, before another second is
\* over.
THEOREM DeadStayDead == Spec => []DeadRefused
<1>1. ASSUME Clocks, TokenOK, Near, token # None
      PROVE  /\ GoInTime => ProviderClock <= token.exp.at + 2 * Skew * Second
             /\ JSInTime /\ token.exp.as \in {"integer", "decimal"}
                  => ProviderClock < token.exp.at + 2 * Skew * Second + Second
  <2>1. token.exp.at \in Int /\ clock \in Int /\ drift \in Int
    BY <1>1 DEF TokenOK, Clocks, IsTime
  <2>2. drift <= Skew * Second
    BY <1>1, <2>1, SkewInTicks DEF Near
  <2>3. 2 * Skew * Second = Skew * Second + Skew * Second
    BY LoginsAssumption, Z3
  <2>4. Whole(clock) \in Int /\ clock < Whole(clock) + Second
    BY <2>1, RestOfASecond
  <2>5. JSInTime /\ token.exp.as \in {"integer", "decimal"}
          => Whole(clock) <= token.exp.at + Skew * Second
    BY <2>1, SkewInTicks DEF JSInTime, JSDeadline
  <2> QED
    BY <2>1, <2>2, <2>3, <2>4, <2>5, SkewInTicks DEF ProviderClock, GoInTime
<1>2. Clocks /\ LoginsInv => DeadRefused
  BY <1>1 DEF LoginsInv, DeadRefused, GoAccepts, JSAccepts
<1> QED
  BY <1>2, LoginsInvariant, PTL

\* No token is stamped with a time the provider's clock has yet to reach.
Stamped == token # None /\ token.iat # Absent => token.iat.at <= ProviderClock

LEMMA StampedInPast == Spec => []Stamped
<1>1. Init => Stamped
  BY DEF Init, Stamped
<1>2. ASSUME Clocks, TokenOK, Stamped, [Next]_vars PROVE Stamped'
  <2>1. CASE Issue
    <3>1. token' \in Claims /\ UNCHANGED <<clock, drift>> /\ UNCHANGED ProviderClock
      BY <2>1 DEF Issue, ProviderClock
    <3>2. token'.iat = Absent \/ token'.iat.at <= ProviderClock
      BY <1>2, <3>1, IssuedOK DEF Clocks
    <3> QED
      BY <3>1, <3>2 DEF Stamped
  <2>2. CASE Tick
    <3>1. token' = token /\ ProviderClock' = ProviderClock + 1 /\ ProviderClock \in Int
      BY <1>2, <2>2 DEF Tick, Clocks, ProviderClock
    <3>2. token # None => token.iat.at \in Int
      BY <1>2 DEF TokenOK, IsTime
    <3> QED
      BY <1>2, <3>1, <3>2 DEF Stamped
  <2>3. CASE UNCHANGED <<clock, drift, token>>
    BY <1>2, <2>3 DEF Stamped, ProviderClock
  <2> QED
    BY <1>2, <2>1, <2>2, <2>3 DEF Next, Verify, Refused, vars
<1>3. LoginsInv => TokenOK
  BY DEF LoginsInv
<1> QED
  BY <1>1, <1>2, <1>3, LoginsInvariant, PTL DEF Spec

\* The skew is enough: no service refuses its own token, as long as it lives by
\* the provider's clock and the clocks are no further apart than the skew.
THEOREM GenuineGetIn == Spec => []GenuineAccepted
<1>1. ASSUME Clocks, TokenOK, Stamped, Near, NEW id \in Ids, NEW nonce \in Nonces \cup {None},
             token # None, IllTyped(token) = {}, token.iss = "ours", token.sub # None,
             token.iat # Absent, token.exp # Absent, token.aud = <<id>>,
             token.azp \in {None, id}, token.nonce = nonce, ProviderClock <= token.exp.at
      PROVE  GoAccepts(id, nonce) /\ JSAccepts(id, nonce)
  <2>1. token.exp.at \in Int /\ token.iat.at \in Int /\ clock \in Int /\ drift \in Int
    BY <1>1 DEF TokenOK, Clocks, IsTime
  <2>2. -(Skew * Second) <= drift /\ drift <= Skew * Second
    BY <1>1, <2>1, SkewInTicks DEF Near
  <2>3. GoInTime
    BY <1>1, <2>1, <2>2, SkewInTicks DEF ProviderClock, Stamped, GoInTime
  <2>4. GoDecodes /\ OfStrings(token.aud)
    BY <1>1, WellTyped
  <2>5. GoAudience(id)
    <3>1. Len(<<id>>) = 1 /\ 1 \in DOMAIN <<id>> /\ <<id>>[1] = id
      OBVIOUS
    <3>2. <<id>> # NoAud
      <4>1. <<id>> \in Seq(Ids \cup {None, Truthy})
        OBVIOUS
      <4> QED
        BY <4>1, LoginsAssumption
    <3> QED
      BY <1>1, <2>4, <3>1, <3>2 DEF GoAudience, Includes
  <2>6. Given(token.sub)
    BY <1>1, <2>4 DEF GoDecodes, Given, NoString
  <2>7. JSAudience(id) /\ JSInTime
    BY <1>1, <2>1, <2>3, <2>5, SameAudience, SameTimes
  <2> QED
    BY <1>1, <2>3, <2>4, <2>5, <2>6, <2>7 DEF GoAccepts, JSAccepts
<1>2. Clocks /\ TokenOK /\ Stamped => GenuineAccepted
  BY <1>1 DEF GenuineAccepted
<1>3. LoginsInv => TokenOK
  BY DEF LoginsInv
<1> QED
  BY <1>2, <1>3, StampedInPast, LoginsInvariant, PTL
=============================================================================
