# hoshi-sdk in TLA+

A model of the parts of hoshi-sdk that keep state and meet concurrency, failure
or time: the OpenID Connect client in Go (`go/identity`) and in JavaScript
(`js/src`), what both decide about the claims of a token, and of the service kit
(`go/kit`) the way of a log record to its sinks, the volume of the log, and how
a service comes down when a signal asks it to. TLC checks the models on small
instances; TLAPS proves the main results for every value of the constants.

    tlc -config ClientKeys.cfg MCIdentityClient.tla     # any run of PROJECT.json
    tlapm IdentityClientProofs.tla                      # any *Proofs module

## 1. Inventory

| part | source | state | operations | hard behaviour | here |
|---|---|---|---|---|---|
| Go client | `go/identity/identity.go`, `idtoken.go` | discovery document and its age, key set and its age, last fetch attempt; one mutex, released around every request | `Discover`, `VerifyIDToken` (`signingKey`, `fetchJWKS`), `Exchange`, `Refresh`, `UserInfo(Raw)`, `Introspect`, `Revoke`, `AuthorizeURL`, `EndSessionURL` | goroutines decide on copies that others make stale; answers overtake each other; keys are withdrawn and endpoints move while cached; requests time out | `IdentityClient` |
| JavaScript client | `js/src/identity.js` | the same caches, no attempt time, no mutex | `discover`, `verifyIdToken`, the same calls | calls interleave at every `await`; a failing provider; a body that never ends | `JSClient` |
| the provider | not in the repository | published keys, the document served | answers requests; is redeployed, rotates keys | moves at any moment | `OIDCProvider` (external) |
| claims | `idtoken.go`, `identity.js` | none of their own; two clocks that differ | the checks of `VerifyIDToken` and `verifyIdToken` after the signature | edges of the clock skew; audiences and nonces; claims of a JSON type nobody expects; two clients that should agree | `Logins` |
| log rotator | `go/kit/logging/file.go` | live file, archives, `file`, `size`, `day` | `Write`, `roll`, `prune`, `open`, `Close`, `newRotator` | a system call fails, or the process dies, between any two steps; the clock moves on, or back; several rolls in one second | `Rotator` |
| tee | `go/kit/logging/logging.go` | a once | `Write` of `teeSink`, and the sinks `New` chooses | one of two sinks fails, or both | `LogSinks` |
| levels, installed logger | `logging.go`, `process.go` | level, configured level; the process logger and slog's default | `SetDebug`, `SetLevel`, `Level`, `Setup`, `current` | operators race with each other and with `Setup`, which installs in several steps | `LogLevels` |
| signal context | `go/kit/lifecycle/signal.go` | the context, the signal, a channel of one place | `NotifySignals`, its goroutine, stop, `Signal`, `SignalName` | signal, parent and stop race | `SignalContext` |
| shutdown record | `go/kit/lifecycle/shutdown.go` | counters under a mutex | `BeginShutdown`, `BeginFailure`, `Step`, `Done` | steps on several goroutines, late steps, lines written outside the mutex | `Shutdown` |
| coming down | `go/README.md`, `signal.go`, `shutdown.go` | the two above | main: wait, begin, step, done, stop | the reason is read after the race is over | `Teardown` |
| pure decisions | `identity.go`, `identity.js`, `logging.go` | none | `checkOrigin`, `ParseLevel`, `Validate`, `redact` | string comparisons | left out (7) |
| operation, build, uptime, request identity, PKCE | `operation.go`, `build.go`, `lifecycle.go`, `logging.go`, `pkce.go` | none worth the name | formatting, randomness, hashing | none | left out (7) |

How they meet: a service calls `Setup` (which opens the rotator through `New`),
`NotifySignals`, and then uses one `Client` from many goroutines; every log
record reaches the rotator through slog's handler and the tee; when the context
is done, `BeginShutdown` and `Step` log through the same logger, whose `Close`
comes last. The clients share nothing with the kit. The Go and the JavaScript
client do not talk to each other; they do the same job against one provider,
which is why they share `OIDCProvider`.

What makes each part correct:

- **clients**: no token is accepted under a key that is not (or not recently)
  the provider's; no secret goes to an endpoint of an unchecked or long gone
  document; a failing provider is not hammered; every call comes back.
- **claims**: one token opens one login of one client; a genuine token is not
  refused for the clocks' difference, and a dead one does not live on by it; both
  clients say the same, or it is known where not.
- **rotator and tee**: no line is lost, doubled or put out of order; the size, the
  day, the retention window and the cap mean what their options say; trouble with
  the disk is told once and does not end the logging.
- **levels**: the volume is what was last asked for, whoever else was asking and
  whenever `Setup` came; no call hangs.
- **coming down**: the cause is known to whoever the signal woke and stands in the
  record; the summary misses no step; what went wrong can be heard at warn;
  nothing leaks.

PROJECT.json lists the hazards line by line, with the properties that watch
each of them, or the reason why none does.

## 2. Modules

    OIDCProvider        the provider and the clock (external)
      IdentityClient      the Go client
        IdentityClientRefinement     refinement mapping to KeyTrust
          MCIdentityClient           instances for TLC
        IdentityClientProofs, IdentityClientRefinementProofs
      JSClient            the JavaScript client;  MCJSClient, JSClientProofs
    KeyTrust            what verifying a token promises (abstract)
    Logins              the claims of a token, for both clients;  MCLogins, LoginsProofs
    Rotator             the log rotator;  MCRotator
      LogSinks            the tee before it, refining ServiceLog;  MCLogSinks, LogSinksProofs
    ServiceLog          what a log promises (abstract)
    LogLevels           levels and Setup;  MCLogLevels, LogLevelsProofs
    SignalContext       the signal context;  MCSignalContext, SignalContextProofs
    Shutdown            the shutdown record
      Teardown            both in one service, refining StepTally;  MCTeardown, TeardownProofs
    StepTally           what the record counts (abstract)

**OIDCProvider.** `published` and `served` are what the provider would answer
now; `withdrawnAt` and `retiredAt` remember when a key or a document last left,
so that "published at or after t" (`PublishedSince`) can be said. A document is
a model value in `Docs`; `TrustedDocs` are those that name the configured issuer
and pass `checkOrigin`. A foreign document's `jwks_uri` answers `OtherKids`.

**IdentityClient.** One process per goroutine. `discovery`, `discoveredAt`,
`keys` and `keyAttemptAt` are the fields of `Client`. An action is one critical
section, or what lies between two:

| action | code |
|---|---|
| `StartVerify` | `VerifyIDToken` up to the copies made under `mu` in `signingKey` |
| `Decide` | the clock reading after `mu` is released, and the three ways out |
| `RecordAttempt` | the first critical section of `fetchJWKS` |
| `StartCall` | any other operation past its parameter checks |
| `DiscoverHit`, `DiscoverMiss`, `ReceiveDoc` | `Discover`: the look at the cache; the request; checks and store |
| `Use` | what the caller of `Discover` does with the document |
| `ServeDoc`, `ServeJwks` | the provider makes its answer: from then on it may be out of date |
| `ReceiveJwks`, `StoreKeys` | the stamp and the parsing; the store under `mu` and the look-up of the kid |
| `Fail`, `FinishApi`, `Return` | every error of `do`, the answer to an API call, the return |

Between "served" and "received" an answer is on the wire, so a later answer may
overtake it, and between `ReceiveJwks` and `StoreKeys` another goroutine may
store. A signature is taken to verify exactly under the key its kid names;
claim checks come after the key is found and can only refuse.

**KeyTrust** has no caches, locks or requests: a verification is asked for and
judged once, and the key of an accepted one was published less than `Window`
before. `IdentityClientRefinement` places the judgement at the step that reads
the clock the verdict rests on (`Decide` for a cached key, `ReceiveJwks` for a
fetched one), not at the later step that returns it.

**JSClient.** One event loop: an action runs from one `await` that waits for
somebody to the next. The awaits for `importKey` are one point ("import"). The
headers and the body of an answer are two steps, because the timer of `#send`
guards only the first. There is no refinement of `KeyTrust`: this client does
not promise a window (a known kid never ages), and one turn both asks and
judges.

**Logins.** A provider issues one token, stamped by its own clock, which differs
from ours by a fixed drift; services of any client ID and nonce are handed it at
any time, and the state remembers who accepted it. Clocks count parts of a
second, because Go compares `time.Time` and JavaScript whole seconds. `GoAccepts`
and `JSAccepts` are the two verdicts, in the order of their sources. A claim may
be of another JSON type than Go's struct gives it (`IllTyped`): a time with a
fraction, a string of digits, a value that is no number; a subject, a party or an
audience that is no string, true or false in JavaScript's eyes. Go refuses these
while decoding (`GoDecodes`, and `parseAudience` in `GoAudience`), JavaScript
compares and adds what it is given (`JSDeadline`, `Given`). The signature is taken
as verified; finding the key is the clients' models' part.

**Rotator.** The mutex admits one `Write` at a time, so its locals (`now`,
`len`) are single variables and `pc` is the system call it is at; Close runs
between writes. Two loops are a step each: `rolledName`'s search and `prune`'s
removals; a crash may cut the second anywhere (`pruneCut`). A file is the set of
the whole lines in it, its size, the number of its writes and its modification
time. The clock counts ticks, `Second` of which make the second that an archive is
named for (`Stamp`); prune compares the name with the clock in full. `rolls` sorts
by the second alone, so within one second the order is that of the directory
(`DirBefore`: "-10" before "-2"), and beyond twelve archives any (`MayPrecede`);
`Fronts` are the first k in an order `rolls` may give, and `Doomed` what prune goes
about to remove. Each call in `Faults` may fail, at most `MaxFaults` times in all;
one in `Broken` always fails; `"stat"` is the Stat in `open`, `"lookup"` the one in
`rolledName`, which takes a name for taken when it fails; `"clock"` among the
faults lets the clock be put back. A crash drops the process's variables and
keeps the files. `asked` and `pruned` are history.

**LogSinks** puts before the rotator what `New` builds from `File` and `Stderr`:
slog's handler, whose mutex lets one record through at a time, and `teeSink`,
which writes the console, then the file, and tells the console once when the
file fails. Every step of `Rotator` is taken inside it. It implements
**ServiceLog**, a log without files: lines are appended in the order of their
times, kept for the window at least, and never come back. The window it keeps is a
second shorter than `RetainDays`, less a tick, because a name drops that much. The mapping takes for
`kept` the union of all files, so that a crash, a failed roll or a prune that
half succeeds has to look like a `Forget` of old lines, or like nothing.

**LogLevels.** One process per goroutine that turns the volume. A call is cut
where another can come between: `current` (under `processMu`), `Enter` (the mutex
of the logger is taken, `configured` read or written), `Leave` (the atomic level
is stored, the mutex given up). `Setup` is `New`, `SetDefault`, `setProcess`.
`wanted` and `standing` are history: what the calls, in the order in which they
finished, have asked of the logger they were meant for. A call that begins after
`Setup` has returned is meant for the logger slog has; one made before is meant
for whichever it found.

**Shutdown.** Each `Step` call is a process: `Call`, `Enter` (mutex, read),
`Leave` (write, unlock), `Tell` (the line, outside the mutex). `Done` is `Copy`
and `Summarise`. `out` is the sequence of lines with their levels.

**Teardown** conjoins it with `SignalContext`: main is a reader that begins an
orderly shutdown with what `SignalName` told it, or a forced one with an error at
any time, and calls the stop function when `Done` has returned. It implements
**StepTally**, a record without counters, mutex or copies: a step ends in one
instant and the summary is taken in another. The mapping lets a step end when it
leaves the mutex and takes the summary from `Done`'s copy, so that a step counted
twice, an update lost or two numbers of different moments have no place in it.

**SignalContext.** The goroutine of `NotifySignals` step by step (receive,
remember, cancel), the runtime that drops a signal when the channel is full, the
parent, the two steps of the stop function, and readers that ask `Signal()` once
the context is done.

Definitions marked as mutants are used by no specification. Each is a plausible
mistake in the definition that follows it, and the property named with it in
PROJECT.json fails when it is put in that definition's place.

## 3. Runs

Times are for two workers. "fails" marks runs that are meant to: see section 6.

| run | instance | shows |
|---|---|---|
| `client_keys` | 2 goroutines, one key of ours and one of another provider, MaxAge 2, interval 2, timeout 1, clock to 3; 1.6M states, 95 s | `TypeOK`, `AcceptedKeysAreRecent`, `OwnAttemptsSpaced`, `ImplementsKeyTrust` |
| `client_documents` | 2 goroutines; our document, ours without a `jwks_uri`, a foreign one; TTL 1, timeout 0, clock to 1; 370k states, 100 s | `EndpointsAreCurrent`, `CallsReturn` |
| `client_attempts` | 1 goroutine, clock to 4 | fails: `AttemptsSpaced` |
| `js_client` | 2 calls, one key of ours and one of another provider, 3 documents, TTL, interval and timeout 1, clock to 1; 359k states, 45 s | `TypeOK`, `AcceptedKeysWereOurs`, `RequestsToCheckedDocs`, `OnlyBodiesHang` |
| `js_refetches` | 1 call, interval 2, clock to 4 | fails: `RefetchesSpaced` |
| `logins` | 2 client IDs, 2 nonces, audiences of up to two, at most one claim of another type, skew and lifetime 1 s, half seconds, clocks up to 1.5 s apart; 915k states, 50 s | `OneLoginPerToken`, `GenuineAccepted`, `DeadRefused`, `ClientsAgree` |
| `log_sinks` | 3 lines of length 1 or 3, limit 2, a second and a day of 2 ticks, clock to 4, a window of one day, one failing open, rename, write or remove, one crash; 1.3M states, 95 s | `TypeOK`, `HistoryInOrder`, `HistorySpansTheWindow`, `SizeBound`, `OneDayPerFile`, `ImplementsServiceLog`, `LoggingGoesOn` |
| `sinks_cap` | 4 lines of length 1 or 3, limit 2, MaxFiles 1, a day of 1 s, clock to 2, one failing Stat, close, lookup, rename or write or one step back of the clock, one crash; 780k states, 52 s | `NothingLost`, `CapHonoured`, `TroubleReportedOnce`, `WindowHonoured`, `NoHoles` |
| `rotator_rename_fails` | a rename that always fails | fails: `LoggingGoesOn` |
| `levels` | 2 operators, 2 levels to set, 2 to configure; 43k states, 11 s | `TypeOK`, `LevelIsAsAsked`, `CallsReturn` |
| `teardown` | 2 signals, 2 steps; 200k states, 50 s | `TeardownTypeOK`, `CauseIsRemembered`, `ReasonIsTheSignal`, `SummaryCounts`, `RecordInOrder`, `AudibleAtWarn`, `SignalCancels`, `NoLeak`, `FailuresAreTold`, `ImplementsStepTally` |
| `signal_cause` | 2 signals, 1 reader | fails: `SignalIsTheCause` |

**Why the bounds are enough.** Two goroutines suffice for every race in the
clients: each property compares one caller's verdict with what one other caller
may have put into the cache meanwhile, and the proofs of section 5 remove the
bound. In `client_keys` the clock reaches past one MaxAge plus one timeout, so
that expiry happens; intervals of 1 or 2 units keep the order of the code's own
constants except that RefetchInterval is not much smaller than MaxAge, which
makes "stale and rate limited" reachable. `client_documents` and `js_client` also
check liveness, without symmetry. In the first a request takes less than one unit
of the clock (`Timeout` 0), so that a document can outlive its TTL within two
instants; the second looks at states through `WithoutRetiredAt`, which leaves out a
history variable that `JSClient` never reads.
The theorems hold for every timeout.

In `logins` the clock of the services runs over the whole life of a token, from a
skew and a drift before its issue to more than two skews after its end, in half
seconds, so that every edge is met from both sides and inside the last second. One
claim of another type is enough for a disagreement; the theorems have any number.

In the rotator's runs a line is shorter or longer than the limit, which gives the
empty file, the file that fits, the one that would overflow and the single line
longer than the limit; three or four lines and a few days give rolls by size and
by day, two rolls in one second, expiry after one day and a restart on the next
day. In `log_sinks` a second has two ticks, so that an archive's name is earlier
than its roll. A day is as short as a second there, which brings expiry within
reach and takes nothing away: an archive's name is its second, and that of a day is
no different. `NameLimit` is 5, which four lines cannot exhaust. No cap is set in
`log_sinks`, because `HistoryInOrder` and `ServiceLog` do not hold with one
(section 6). `NoHoles` is an implication between two temporal formulas: its runs
are those in which every roll comes in a later second than the archives it finds,
as it is with any but a burst, and they include crashes between a roll and its prune,
or within it, and clocks put back.

Two operators give every race over one logger's mutex with a third party
(`Setup`); two steps every race over the counters. `MaxClock`, `MaxLines`,
`MaxFaults` and `MaxCrashes` bound only the exploration. Callers are symmetric;
symmetry is used in `client_keys`, where no liveness is checked.

## 4. Fairness

- `IdentityClient`: weak fairness of `Progress(g)` for each goroutine. The
  scheduler runs a goroutine that can run, and a blocked request ends at the
  latest when the default `http.Client` gives up (`identity.go:246-256`): `Fail`
  is enabled as long as a request is out. Nothing is assumed of the provider.
  The model has a transport with a timeout; a caller may supply one without.
- `JSClient`: weak fairness of `Turn(p)`: ready continuations run, and the timer
  set in `#send` fires while the headers are outstanding. Receiving a body is
  not fair: nothing in the code ends it, and `OnlyBodiesHang` says that this is
  the only wait without end.
- `Rotator`, `LogSinks`: weak fairness of the steps of the logger (`Step`,
  `Work`): the service is started again when it has died and goes on logging.
  Faults of `Faults` are bounded, those of `Broken` not.
- `LogLevels`: weak fairness of a call that was made, and strong fairness of
  taking the mutex: Go's `sync.Mutex` hands itself to a waiter that has waited for
  a millisecond, so that others who keep taking it do not starve him. Nobody has
  to call.
- `SignalContext`, `Teardown`: weak fairness of the goroutine, of a stop function
  already called, and of each `Step` that was called. Signals, the parent, the
  call of stop, the end of a step and `Done` owe nothing. The counters' mutex needs
  no strong fairness, since each step takes it once.

## 5. Proofs

| theorem | module | says |
|---|---|---|
| `TypeCorrect` | IdentityClientProofs | `Spec => []TypeOK` |
| `KeysAreRecent` | IdentityClientProofs | `Spec => []AcceptedKeysAreRecent` |
| `EndpointsCurrent` | IdentityClientProofs | `Spec => []EndpointsAreCurrent` |
| `AttemptSpacing` | IdentityClientProofs | `Spec => OwnAttemptsSpaced` |
| `ClientImplementsKeyTrust` | IdentityClientRefinementProofs | `Spec => ImplementsKeyTrust` |
| `TypeCorrect` | JSClientProofs | `Spec => []TypeOK` |
| `KeysWereOurs` | JSClientProofs | `Spec => []AcceptedKeysWereOurs` |
| `CheckedDocsOnly` | JSClientProofs | `Spec => []RequestsToCheckedDocs` |
| `TokenOpensOneLogin` | LoginsProofs | `Spec => []OneLoginPerToken` |
| `GenuineGetIn` | LoginsProofs | `Spec => []GenuineAccepted` |
| `DeadStayDead` | LoginsProofs | `Spec => []DeadRefused` |
| `SameVerdict` | LoginsProofs | `Spec => []ClientsAgree` |
| `TypeCorrect` | LogSinksProofs | `SinksSpec => []TypeOK` |
| `SizeIsBounded` | LogSinksProofs | if Stat works: `SinksSpec => []SizeBound` |
| `NothingIsLost` | LogSinksProofs | `SinksSpec /\ []NamesLast => []NothingLost` |
| `FilesKeepOneDay` | LogSinksProofs | if Stat works and the clock is not put back: `SinksSpec => []OneDayPerFile` |
| `HistoryReadsInOrder` | LogSinksProofs | if the clock is not put back, lookups work and no cap is set: `SinksSpec /\ []NamesLast => []HistoryInOrder` |
| `LogImplementsServiceLog` | LogSinksProofs | if the clock is not put back and no cap is set: `SinksSpec /\ []NamesLast => ImplementsServiceLog` |
| `LaterRollsKeepOrder` | LogSinksProofs | `SinksSpec /\ []RollsLater => [](HistoryInOrder /\ NothingLost)` |
| `CapIsHonoured` | LogSinksProofs | if open and remove work: `SinksSpec => []CapHonoured` |
| `FailuresBoundTheExcess` | LogSinksProofs | if open and remove work now and then: `SinksSpec => []CapSlips`, at most one archive above the cap for each failure |
| `CapSavesTheNames` | LogSinksProofs | if open and remove work now and then, lookups always, and a cap is set: `SinksSpec /\ [](MaxFiles + Slack < NameLimit) => []NothingLost` |
| `WindowIsHonoured` | LogSinksProofs | `SinksSpec => WindowHonoured` |
| `HistoryKeepsToTheWindow` | LogSinksProofs | if open and remove work now and then: `SinksSpec => []HistorySpansTheWindow` |
| `HistoryHasNoHoles` | LogSinksProofs | if remove works: `SinksSpec => NoHoles` |
| `TroubleIsReportedOnce` | LogSinksProofs | with a console beside the file: `SinksSpec => []TroubleReportedOnce` |
| `TypeCorrect` | LogLevelsProofs | `Spec => []TypeOK` |
| `VolumeIsAsAsked` | LogLevelsProofs | `Spec => []LevelIsAsAsked` |
| `ReadersAgreeAlways` | SignalContextProofs | `Spec => []ReadersAgree` |
| `ServiceRemembersTheCause` | TeardownProofs | `TeardownSpec => []CauseIsRemembered` |
| `ReasonIsTheFirstSignal` | TeardownProofs | `TeardownSpec => []ReasonIsTheSignal` |
| `SummaryIsRight` | TeardownProofs | `TeardownSpec => []SummaryCounts` |
| `RecordIsInOrder` | TeardownProofs | `TeardownSpec => []RecordInOrder` |
| `TroubleIsAudible` | TeardownProofs | `TeardownSpec => []AudibleAtWarn` |
| `TeardownTyped` | TeardownProofs | `TeardownSpec => []TeardownTypeOK` |
| `RecordImplementsStepTally` | TeardownProofs | `TeardownSpec => ImplementsStepTally` |

They hold for any number of goroutines, calls, keys, documents, claims, lines,
failures, crashes, operators, signals, readers and steps and any interval, from the
named assumptions of the modules (`ProviderAssumption`, `ClientAssumption`,
`JSAssumption`, `LoginsAssumption`, `RotatorAssumption`, `FileAssumption`,
`LevelsAssumption`, `SignalAssumption`, `ShutdownAssumption`,
`TeardownAssumption`), which type the constants and keep the null values apart
from the others. What else a theorem about the log files needs is a hypothesis of
its statement, and each is one the code has: a Stat that fails makes a file count
as empty (`StatWorks`, `file.go:89`), the thousandth roll of one second overwrites an
archive (`NamesLast`, `file.go:157`), a lookup that fails passes over free names, which
the next roll takes (`LookupWorks`, `file.go:158`), and a clock put back gives lines out of order
(`ClockSteady`). `ServiceLog` is a log without a cap, and order is lost with one, which
may free a name within the second of the next roll (`MaxFiles = 0`); `RollsLater`, that
a roll comes in a later second than the archives it finds, does in its place, and then
the clock need not be steady either. A roll whose open fails skips its prune
(`OpenWorks`, `file.go:144`), and prune ignores what it cannot remove (`RemoveWorks`,
`file.go:172`); where they fail only now and then, `Slack` counts what that may cost.
Without the console nobody reports (`Stderr`, `logging.go:248`). `HistoryInOrder` takes
the archives of one second in the order of their numbers, which is the directory's up
to nine; what prune takes is chosen in the directory's order, and the theorems about
prune hold whatever that is within a second.

*The client.* That an accepted key is recent does not follow step by step: a
verdict may rest on a set another goroutine fetched, stored late and out of
order. The invariant therefore says what every copy of a set or document vouches
for, wherever it is. `Vouched`: a set, in the cache or copied from it, holds keys
each published at some time since `Timeout` before its stamp. `AnswersVouched`:
an answer on the wire was true at some time since its request was sent, and
`InTime` says that this was at most `Timeout` ago; so when the answer is stamped
it vouches as `Vouched` wants. It matters that the stamp is taken before the
store and travels with the set: then it does not matter in which order sets are
stored. `Decide` compares the stamp with the clock, which turns "Timeout before
its stamp" into "less than MaxAge + Timeout before the decision". Documents go
the same way (`CacheInv`, `DocumentCurrent`). `AttemptsRecorded` carries the rate
limit: what a caller last tried is never later than the attempt time it has
read. The lemma that the provider's steps and the clock preserve
`PublishedSince` and `ServedSince` is stated once and used by every action.

*The refinement* uses that invariant: `Decide` and `ReceiveJwks` are `Judge`
steps whose side condition is `AcceptedRecently`'s, `StartVerify` is `Ask`,
`Return` is `Forget`, and every other step of the client is a step of the
environment or a stutter.

*The JavaScript client.* A call's verdict may rest on an answer that it received
before another call stored its own. The invariant says of the cache that every
key in it was ours at some time, of a call that what it has fetched was ours
since the call began, and of every stage past `ReceiveDoc` that its document is a
checked one. What a call does leaves the others' part alone (`Apart`), because
the cache is replaced and never changed in place.

*Claims.* `OneLoginPerToken` needs memory: the invariant is that everyone in
`accepted` was meant by the token (`Meant`), and that the token does not change.
The other three are about reachable claims: `Seconds` rounds down, and
the lemma `InSeconds` says for either comparison what that rounding is worth.
`SameVerdict` goes through the types first: a token Go decodes has numbers for
times and strings for the rest, and on such a one the two clients compare the same
things. `GenuineAccepted` further needs that no token is stamped in the future of
its issuer (`Stamped`).

*The log files.* `TInv` says what the handle and the live file are at every system
call (`Control`), that lines are numbered without a gap and that every file holds
lines that were written. On it rest five invariants. `SizeInv`: while the handle is
open, `r.size` is the size of the live file, and control reaches "append" only with
room for the line or an empty file. `Apart` says that no line is in two files; a
step can then only add one line, give up lines of expired or excess archives, or
leave what is kept as it is (`KeptStep`), for which `rolledName` must be shown to
give a free name when there is one (`NameFound`, by the least free number).
`TimesInv`: no line is younger than the clock or the line at hand, nor than the second its archive is named
for; so an archive outside the window holds only lines outside a window that is a
second shorter, and a prune is a `Forget`. `DayInv`: `r.day` is never later than the day of the live
file's modification time. It may be earlier, since a failed write dates an empty
file (section 6), so equality is not invariant; but control reaches "append" with a
file that has content only when `r.day` is today, which puts the file's day between
the two. `NamesInv`, for the order of the history: no archive is named for a later second
than the next roll can be, and in that very second the names are taken without a gap,
so `rolledName` gives the last of all. Earlier seconds may have gaps, which a prune
that half fails leaves, and they stay empty because a name is never taken in a second
that is over. Under `RollsLater` none of this is needed: the name of the roll is newer
than all the others at once.

*What prune leaves.* A prune, and a crash within one, is a `Removal`: some of the
first archives in an order `rolls` may give, no more of them than there are expired
and excess ones. Two facts follow whatever that order is within a second. What comes
before an expired archive is expired (`ExpiredFirst`), so the expired ones are among
those to go, and by counting (`DoomedCount`) no more than `MaxFiles` stay. And if one
goes that is not expired, all that are have their place before it, so it goes for the
number's sake and `MaxFiles` stay (`RemovalSpares`), which is `WindowIsHonoured`. Between
a roll, or a start, and its prune there is one archive more; `CapInv` says at which
stages, and adds `Slack` for the prunes that were skipped or failed. It follows that a
set of archives under the cap cannot hold every name of a second (`RoomForOneMore`, the
pigeonhole principle), so with a cap the hypothesis `NamesLast` goes away. `SpanInv`
does for the window what `CapInv` does for the cap: while nothing has failed, no
archive is named for a time to come, and outside those stages none is a window older
than another. For the holes it needs `RollsLater`: then no two archives share a second
(`OneASecond`), the order in which prune takes them is that of the history (`OlderGo`),
and `PrunedFirst` is inductive: every pruned line came before every kept one, so what is
left is the end of the history.

*The report.* `ReportInv`: once the file has failed in this life, it has been reported or
the report is the next step, and `once` is used only then.

*Levels.* The mutex makes the read of `configured` and the store of the level
one step (`Exclusive`, `Volume`): while a call holds it, what it is about to store
is what the calls before it imply. `Addressed` says that a call that began after
`Setup` returned has got the installed logger, which is why no later request is
lost to the fallback.

*Coming down.* `FirstSignalKept` follows the first signal from the channel to the
goroutine's local and to `sig`; `CancelledLast` says that the context is cancelled
by a signal only after it was remembered, when the goroutine has no step left
that could change it. A step of `Teardown` is a step of the context or leaves it
alone (`ContextSteps`), so the service inherits this invariant, and `reason` is
what main was told. For the summary, `Counting` says that the counters are the
numbers of the steps that have left the mutex (and of the failed among them) and
that whoever is inside has read exactly these; a step that has returned has left
it, so `Done`'s copy cannot miss it. For the lines, `StepsTold` says that a step that
has returned has its line, which puts it before any summary still to come, and
`Quiet` that a line at warn or above has a cause: what forced the shutdown, or a step
that failed, to which the copied counters lead back through `Counting`. `Counting`
also bounds the counters by the number of steps, which is all that their types lack,
and gives the refinement of `StepTally`: `Leave` is `End`, because the step that leaves
had read what the counters still held, and `Copy` is `SumUp`.

Only model-checked: liveness (`CallsReturn`, `OnlyBodiesHang`, `SignalCancels`,
`NoLeak`, `FailuresAreTold`, `LoggingGoesOn`), which is beyond the prover. Every
invariant, action property and refinement that a passing run checks is proved.

## 6. Where the code and its comments part

Four runs check what a comment says and find it violated:

1. `client_attempts`: before a first key set is held, `signingKey` looks at no
   limit (`idtoken.go:286`); a failing provider is asked once per token, which
   `idtoken.go:22` and `312-315` rule out. `OwnAttemptsSpaced` is what holds, once
   a set is held. It is a bound per goroutine and not for the client, because the
   last attempt is read in one critical section and written in another
   (`idtoken.go:283`, `317`): n goroutines that decide in between all fetch.
2. `js_refetches`: the interval counts from the last success (`identity.js:449`);
   `identity.js:43` calls it the shortest interval between refetches.
3. `rotator_rename_fails`: with a rename that keeps failing, `Write` returns the
   error without writing (`file.go:118-120`); `file.go:139-140` says that writing
   continues, oversized.
4. `signal_cause`: a signal that loses the race against the parent's cancellation
   is still reported by `Signal()`, which `signal.go:54` says is nil then.

Smaller ones, visible in the models but without a run of their own:

- A set is stamped on arrival (`idtoken.go:329`), so a withdrawn key lives for
  `jwksMaxAge` plus the transit time, where `idtoken.go:41-47` calls `jwksMaxAge` an
  upper bound. `Window` in `AcceptedKeysAreRecent` is the bound that holds.
- The two clients differ on three kinds of token, as `ClientsAgree` says, and each is
  one that JavaScript accepts and Go refuses. One in the rest of its last second:
  JavaScript counts whole seconds (`identity.js:429`). One without `aud`
  (`idtoken.go:240`), of which JavaScript makes an audience of one, which only a
  service without a client ID accepts. And one with a claim that is not of the type
  Go reads: a time that is no integer, a `sub` or `azp` that is no string, an `aud`
  with a member that is none, or any of the claims nobody decides on
  (`idtoken.go:160`, `250`). Among these is an `exp` that is a string of digits, to
  which JavaScript appends the skew (`identity.js:429`), and one that is no number,
  which never expires there; `DeadRefused` therefore asks for an `exp` that is a number.
- A name freed by prune is taken again within the same second (`file.go:154`), so
  the excess at the front (`file.go:192`) may be the newest archive, and the history
  then has a hole: with MaxFiles 1, four lines longer than the limit in one second.
  `HistoryInOrder` is therefore checked without a cap, and `NoHoles` for rolls in later
  seconds.
- An archive is named for the second of its roll (`file.go:155`) and compared with a
  time in full (`file.go:180-183`): its lines may go up to a second before `RetainDays`
  are over. `ServiceLog` is implemented with a window that much shorter.
- A roll whose open fails skips its prune (`file.go:144`), and the next `Write` opens
  the file without one (`file.go:107`): one archive above `MaxFiles`
  (`logging.go:85`) stays until the next roll or start. `CapHonoured` fails in
  `SinksCap.cfg` with `Faults = {"open"}`; `sinks_cap` leaves a failing open out.
- A failed write dates an empty file (`file.go:124`), which `file.go:37-38` says
  stays undated.
- With a file and without the console the rotator is the only sink
  (`logging.go:248`), and slog drops the error of its `Write`: the report that
  `logging.go:20-24` promises comes only when the console is kept beside the file.
  `TroubleReportedOnce` fails in `SinksCap.cfg` with `Stderr = FALSE`; `sinks_cap`
  checks it with the console.
- A step that is late is counted by nobody: `Done` may have copied the counters
  (`shutdown.go:105-107`). `SummaryCounts` speaks of the steps that had returned.
- `go/README.md:32` says that `logging.New` installs the default slog logger;
  `Setup` does.

## 7. Not modelled, and why

Signatures, URLs and headers are data the properties do not tell apart, and so is
JSON but for the types of claims: that Go takes the keys of an object without regard
to case and the last of two equal ones, that it refuses integers beyond 64 bits, and
what JavaScript makes of `true` or of an array of one where a number is due, is left
out. Redirects are refused by both clients' requests (`httpClient`,
`redirect: "manual"`), so an answer always comes from the endpoint asked. The
clock of the clients never steps back. In `IdentityClient` a look at the cache and the
request that follows from it are one instant (`DiscoverHit`, `DiscoverMiss`), and so are
the receipt of a document, the wait for the mutex, its stamp and the next request
(`ReceiveDoc`); a document that ages in a caller's hands between these is not seen.
That callers are refused genuine tokens while another one refetches an expired set is
deliberate (`idtoken.go:276-279`) and no property speaks of it. A transport without a
timeout, the thousandth roll in one second, the tenth archive of one second and
directories with more than twelve archives are outside the runs' bounds; the last two
are in the model, and so in the theorems. Handles are not counted: a `Write` after
`Close` opens one that nothing closes (`file.go:107`). `LoggingGoesOn` speaks of one
failing open, rename, write or removal; it leaves out `close`, after which the rotator
keeps a closed file and never writes again (`file.go:134`). `SizeBound` and
`OneDayPerFile` leave out a failing `Stat`, after which a file counts as empty
(`file.go:89`), and `HistoryInOrder` a failing lookup. These are listed among the
hazards.

Of the parts in section 1 these have no module:

- `checkOrigin`, `ParseLevel`, `Validate`, `redact`: functions of strings without
  state. Their substance is how a URL or a word is spelt; an abstraction that is
  short enough to be a model has decided the result already. The clients' models
  use the outcome of `checkOrigin` as `TrustedDocs`.
- `ContextHandler` and request identity: a value is put into a context and read
  from it, both of them immutable.
- `operation.go`, `build.go`, `lifecycle.go`: formatting of what the runtime knows.
- `pkce.go` and its counterpart in `identity.js`: random bytes and a hash.
- tests, package entry points, continuous integration.

## 8. Plan

What is left, in this order:

1. A clock that steps back for the clients' ages.
2. The interval between a client's look at its cache and the request, so that a
   document may age in a caller's hands.
3. An order of the history within one second that survives a cap, were the names of
   a second not taken again.
