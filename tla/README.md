# Verification of the church audio streaming backend

This directory keeps TLA+ models of the Go server in the repository: a relay
(SFU) for live audio with the signaling sessions that drive it, a WebSocket
fallback, a login endpoint with a failure counter, login tokens, a registry of
tenants over PostgreSQL, and the HTTP API over all of it. TLC checks the models on small
instances; TLAPS proves the properties that matter most for every value of the
constants. File names below are relative to `src/`.

Contents: [inventory](#inventory) · [modules and how they map to the
code](#modules) · [runs](#runs) · [proofs](#proofs) · [where code and comments
disagree](#where-code-and-comments-disagree) · [what is not modelled](#what-is-not-modelled)
· [plan](#plan) · [how to run](#how-to-run)

## Inventory

| Component | State it keeps | Operations | Talks to |
|---|---|---|---|
| Relay hub, `internal/relay` | map of streams; for each stream its status, paused flag, broadcaster, listener list, `forwardDone` channel; one `forwardLoop` goroutine for each broadcaster that ever connected | `CreateStream`, `ConnectBroadcaster`, `ConnectListener`, `PauseStream`, `ResumeStream`, `StopStream`, `GetStream`; the loop's read, snapshot, fan-out, removal | pion (peer connections, `OnTrack` callback); called by router and signaling |
| Signaling, `internal/signaling` | one session for each WebSocket, no shared state | read a message, offer/answer, pause, resume, end | calls the relay hub |
| WebSocket fallback, `internal/relay/wsfallback` | set of listeners owned by one goroutine; channels `broadcast` (256), `register` (64), `unregister` (64), `done` | `Broadcast`, `ServeListener`, `Stop` | WebSocket library; no caller outside its package |
| Authentication, `internal/auth/auth.go` | none (a secret); the state is in the tokens | `Login`, `Refresh`, `VerifyToken` | database |
| Failure counter, `internal/auth/ratelimit.go` | for each key a count and the start of a window | `IsBlocked`, `RecordFailure`, `ResetOnSuccess`, the middleware | called by the router around `Login` |
| Tenant registry, `internal/tenant` | map of stream stoppers; the rows of `tenants` | `Create`, `GetBySlug`, `Suspend`, `UpdateConfig`, `(Un)RegisterStreamStopper` | database; stoppers supplied by the relay's owner |
| Router and handlers, `internal/router` | none | one handler for each route | everything above, metrics |
| Middleware, `internal/middleware` | none (request context) | tenant resolution, token check, CORS, logging | registry, authentication |
| Metrics, `internal/metrics` | gauges and counters; `bitrate_events` and `stream_records` rows | `StreamStarted`, `StreamEnded`, `RecordBitrateEvent`, ... | called by the router |
| Database, `internal/db`, `db/migrations` | the tables | one function for each query | PostgreSQL |
| Start-up, `main.go`, `cmd/server` | none | wiring, graceful shutdown | everything |

What makes each component hard, and what makes it correct:

* **Relay.** Every hub method holds the stream's lock from its first test to its
  return, but a forwarding loop does not: it tests `forwardDone`, blocks in a
  `Read`, copies the listeners under a read lock, writes to the copy with no lock,
  then takes the lock to remove those that failed. Connects, pauses, stops and
  the loops of earlier broadcasters run in between. Correct means: an ended stream
  keeps no connection and stays ended; no listener is lost or comes back through a
  stale copy; no audio is picked up during a pause; every open connection can
  still be closed by someone; loops of an ended stream return.
* **WebSocket fallback.** Three channels meet in one `select`, so a connection can be
  unregistered before it is registered; channels fill up; writes fail in the
  middle of a fan-out; after `Stop` nobody receives. Correct means: listeners
  see the accepted frames in order with no gap, working connections are
  served, dead ones are closed and let go, handlers return.
* **Login.** The check, the database login and the recording are three separate
  steps; requests interleave, windows end in between, and the two ends compute
  the client's key with different functions. Correct means: the counter is
  exact, the excess a race allows is bounded, refusals are justified and end.
* **Tenants.** `Suspend` is an update, a take from a map and a call, with
  failures between them and other suspensions and registrations at the same
  time. Correct means: a stopper runs once, and a nil result means that the
  tenant is suspended and its stopper gone.
* **Signaling.** A session that vanishes leaves its stream live; a stop can land
  between a connect and its answer; errors of a stop are logged and the end is
  announced all the same. Correct means: what a session writes after a hub call
  is still true when it is written, and sessions reach the streams only through
  the hub.
* **Router and metrics.** A handler calls the hub and then, in steps of their own,
  moves the gauge and reads the status for its reply, the latter with no lock;
  other requests, sessions and suspensions run in between, and the tenant row was
  read before all of it. Correct means: it is known exactly what the gauge counts,
  and what a reply says of a stream is true.
* **Tokens.** The server remembers none, so a token outlives calls and restarts. A
  refresh reads the clock three times, and several may refresh one token; expiry,
  window and truncation to seconds meet at their boundaries. Correct means: a
  refreshed token lasts longer than its parent, and a line of refreshed tokens
  never has three valid at once.

`PROJECT.json` lists the hazards one by one, at the line where each bites, with
the properties that cover it.

## Modules

`map` in `PROJECT.json` gives the lines of every definition. The principles are
the same everywhere: a section that runs under one lock is one action; code that
runs with no lock, blocks, or awaits the network is cut into several; a call
that returns an error before changing anything is no step; what a library or
a peer decides is a nondeterministic choice. Each module ends with its properties.
A section "mistakes this code could have been written with" holds alternative
definitions that no action uses: put in the place of the definition they
resemble, each must break a property, which shows that the property can fail.

**`StreamService`** is the abstract specification of the relay. A stream is
opened, goes live, is paused and resumed, and ends for good. Its audience is a
set of seats; a seat is taken once, may be given up at any time, and all are
given up in the step that ends the stream. No goroutines, locks, or connections.
Two consequences are stated with it: a seat is in one audience at most (`SeatedOnce`),
and ends and departures are final (`NoWayBack`).

**`Relay`** models `relay.go` and `models.go`. A hub entry is created once and
never removed, so looking an id up under `h.mu` and then locking the stream is one
step; every method is one action. `forwardLoop` has the program counter
`loop[p]`, `p` being the broadcaster's connection:

    await --(track)--> check --> read --> snap --> write --> check
      |                  |         |                 |
      +--(forwardDone)---+--> exited <--(error)      +--(failed writes)--> prune --> check

`snap` is the read-locked copy, `write` the unlocked fan-out (one action: nothing
else reads or writes the loop's local copy, and which writes fail is an
arbitrary subset), `prune` the locked removal. A connection is `free`, `open` or
`closed` by the code; `dropped` is a history variable with the connections a stream
let go of without closing. `listenerPeers` is a set since every entry is a fresh
pointer and nothing depends on the order. `ImplementsService` is the refinement:
status is the phase, the listener list the audience, unallocated connections the
fresh seats.

**`WsFallback`** models `wsfallback/hub.go`: a program counter for each
`ServeListener` call, one for `run`, the three channels as bounded sequences. The
fan-out is one action for each write, as connections change during it. `h.mu` is
left out: only `run` touches the map. A `Write` may succeed, fail, or never return.

**`FrameFeed`** is the abstract specification of the fallback hub. Frames are published
to a feed and go out one at a time, in order; whoever is a member when one goes out
is handed it, or leaves, before the next goes out; a member joins once. No
goroutines, channels or connections. `ImplementsFeed` is the refinement: the feed is
what the channel accepted, a frame goes out when `run` takes it, the members are
the listeners of the map without those whose write has failed, and a connection is
fresh until `run` takes its registration.

**`Login`** models `ratelimit.go`, `loginHandler`, `ClientIP` and, as an outcome,
`Service.Login`. An access to the counter is one action (the limiter's mutex). A
request goes `new -> login -> 200 | 400 | 401`, or is answered `429`. A key is
modelled by what the two key functions do to a client's address: `clientIP`
strips an IPv6 address of its brackets and skips a blank header, `ClientIP` does
neither. `uncleared` is a history of the failures that no success has cleared since:
like `ResetOnSuccess` it forgets the others, so properties over it speak of
uncleared failures only.

**`Tenants`** models the registry's methods that change state, over the rows they
write. `Suspend` is three actions: the row's update, taking the stopper under
`r.mu`, the stopper's return; `runs` counts how often each stopper is called.

**`Signaling`** extends `Relay` with the sessions of `signaling/handler.go` and the
stream handlers of `router.go` that call the same hub. A session reads a message,
calls the hub, writes a reply: each is a step, and a hub call is the relay's own
action conjoined with what the session does with the result (`Negotiated`). An
error of an offer closes the session, an error of a pause, resume or end is
logged. The role is taken from each message, so one session may offer as a
broadcaster and as a listener. A session may be opened for an id that no stream
has (`Unknown`). Nothing of the relay is released when a session closes, as in
the code. `answered` and `told` are histories of what was written.

**`Tokens`** models `auth.go`: what a token is worth is its expiry, so the state is the
tokens issued, each with the time of its issue, its expiry and the token it was
issued for; `line` is a history, that token, the one it was issued for, and so on. `Refresh` is three actions, one for each reading of the clock: `Parse`
(signature and expiry), `TestWindow`, `Reissue`. The clock counts fractions of a
second and `Trunc` is what the library does to a time it writes into a token.
`Restart` loses the calls under way and no token. The clock is assumed not to go
back. `Refresh` has no caller in the router: it is modelled for any caller.

**`Api`** models the handlers of `router.go` behind `TenantResolution` and `AuthRequired`,
and the stream gauge of `metrics.go`. It composes abstractions of the components it
calls: the relay is `StreamService` without its audience (which `Relay` implements,
and which is proved), and suspensions are the actions of `Tenants` without stoppers,
as nothing registers one. A request goes `new -> routed -> ok | error`, with a stop at
`moveGauge` between the hub call and the gauge, and at `read` between the two words of
the status: a Go string is a pointer and a length, so an unlocked read of one that
changes may see neither value, and such a reply is `torn`. The outcome of the token
check is a choice. A client addresses ids it was told (`Known`) or ones that no
stream has: `newID` draws 16 random bytes. A tenant's row is looked up by its slug only,
so a request may be let through for a suspended tenant, and may address the
stream of another tenant, as in the code. `ender`, `active` are histories.

**`MC...`** modules add symmetry sets and small values for TLC (`WsFallback` needs
neither and is run as it is); the `...Proofs` modules
hold the proofs, one for each of the modules above but `FrameFeed`, which has none of
its own.

## Runs

| Run | What it asks | Instance | Distinct states |
|---|---|---|---|
| `relay` | type, what a stop leaves, who enters and leaves the list, pauses, loops after an end, refinement of `StreamService` | 1 stream, 4 connections, symmetric | 480,000 |
| `relay_drain` | loops of ended streams return | 1 stream, 3 connections, fair | 218,000 |
| `fallback` | type, order of frames, who is served, who is closed, handlers return, refinement of `FrameFeed` | 2 listeners, 2 frames buffered of 4, channels of 1, fair | 125,000 |
| `login` | type, exact counter, bounded excess, bounded uncleared failures across a window's end, justified refusals, no prolonged block | 2 requests, an IPv6 client, limit 2, window 2, clock to 3, 6 attempts | 837,000 |
| `signaling` | type, answers and end messages are true when written | 1 stream and an unknown id, 3 connections, 2 sessions, symmetric | 1,580,000 |
| `tenants` | type, a stopper runs once, meaning of nil | 2 tenants, 3 stoppers, 3 suspensions, symmetric | 80,000 |
| `api` | type, what the gauge counts, truth of replies | 2 streams, 2 tenants, 3 requests, 1 suspension, symmetric | 134,000 |
| `tokens` | type, two generations, a refresh extends | 4 tokens, 2 refreshes at a time, seconds of 2 ticks, validity 6, window 2, clock to 12, symmetric | 1,880,000 |
| `relay_stop_closes_all`, `relay_live_not_suspended`, `login_per_ip`, `api_suspend` | statements of comments that the code does not keep (below) | the same or smaller | stops at the counterexample |

Why the bounds are enough.
* *Relay.* Streams share nothing but the map, whose entries never change, so one
  stream shows every interleaving. Four connections allow a broadcaster, the
  broadcaster that replaces it while the first one's loop goes on, a listener in the
  copy of a loop, and one that connects during the fan-out: two loops and two
  listeners in any order. There is no counter: connections are the only bound, and
  each is used once.
* *Fallback.* With channels of one place two listeners fill `register` and
  `unregister` and make a third send wait, four frames overflow a buffer of two and
  leave frames to send after the loss.
* *Login.* `MaxTime` and `MaxAttempts` bound the clock and the attempts. A window of two
  ticks and a clock to three let a window end with requests under way and a second
  one begin. Two requests at a time exceed the limit of two by one, the most they
  can; six attempts do so in one window and again in the next, so that the bound of
  `UnclearedBound`, five, is reached. One client is enough as clients share nothing
  but keys, and an IPv6 client gives all kinds of key: through a proxy the one an
  IPv4 client has, seen directly one the check and the recording spell differently,
  and behind a blank header the empty one.
* *Signaling.* Two sessions and the handlers race for one stream; three connections
  allow a broadcaster, its replacement and a listener, so an answer can be under
  way while the stream is stopped or the broadcaster replaced by the other.
* *Tenants.* Three suspensions of the same tenant race, with a stopper registered
  before, one that replaces it, and one for another tenant.

* *Api.* Three requests allow a create, the delete and a repeated delete, or a get
  that reads while another request or a session changes the status; two tenants
  allow a delete in another tenant's name, two streams a count above one. One
  suspension is enough as suspensions share nothing here but the row.
* *Tokens.* Four tokens are a line of three refreshes, or a line of two with a fork; the
  validity is the least that the assumption allows (twice the window and a second),
  where the boundaries are tightest, and the clock runs past the expiry of the
  second generation, to the issue of the fourth token of a line. `MaxTime` is the only bound.

Deadlock is not an error in any of the runs: the bounds use connections, frames,
time or calls up, and the real program stops too when nobody calls it.

Fairness. `Relay!FairSpec` schedules each loop's steps that do not wait for the
network (weak fairness of `Runnable`: goroutines are scheduled, the lock is
released by every holder, and a `Read` of a closed connection returns); nothing is
assumed of the callers, of `OnTrack`, nor of a `Read` on a connection that is open.
`WsFallback!FairSpec` schedules `run` and the handlers, and assumes strong fairness of
the register and unregister cases: Go's `select` picks at random among ready
cases, so a case ready again and again is not passed over for ever. Nothing is assumed
of a `Write`: the code gives it no deadline (it passes `context.Background()`). So
`HandlersReturn` says what is left: a handler whose connection has closed returns,
unless the hub was stopped and the channel it must send to is full, or `run` stays in
a fan-out for ever. Frames and connections are finite in the model, so no property
relies on an endless supply.

What the passing runs show is stated at each property. In short: in spite of the
unlocked fan-out the listener list is never corrupted (`NoListenerReturns`,
`NoListenerLost`), and a stop is final (`EndedIsQuiet`); the only connections the
relay can lose are those of replaced broadcasters and of failed listeners
(`OpenIsAccountedFor`), and only a loop reading from a replaced broadcaster can
outlive its stream (`LoopsDrain`). The fallback never reorders or skips an
accepted frame, and a listener registered after its handler returned is already
closed; seen from outside the hub is a feed that hands each frame to all its members
before the next (`ImplementsFeed`). The login race lets at most one extra failure through for each concurrent
request, and a fixed window, between two successes, fewer than twice as many failures as one
count in an interval of its length (`UnclearedBound`); each success starts afresh, so
across successes there is no bound. Concurrent suspensions never call a stopper twice. The gauge is off by two
quantities only, which add up independently: ends it was not told of, and deletes
that ended nothing (`GaugeAccount`). A reply that names a
state tells the truth, in spite of the unlocked read; a torn one names none.

## Proofs

For all values of the constants, under the named assumptions of the modules (nil
values are not connections, stoppers and so on; limits and windows are positive; the set of
concurrent requests is finite):

| Module | Theorem | What it says |
|---|---|---|
| `StreamServiceProofs` | `SeatsAreSeatedOnce`, `NobodyComesBack` | what the abstract specification comes to: a seat is in one audience at most, ends and departures are final |
| `RelayProofs` | `TypeCorrect`, `EndedStaysQuiet`, `OpenAccounted` | the invariants of the `relay` run |
| | `ListenersNeverReturn`, `ListenersNeverLost`, `PauseIsSilent`, `EndedLoopsReturn` | its action properties |
| | `RelayImplementsService` | `Spec => Service!Spec` |
| | `RelayKeepsItsPromise` | so a connection is in one stream's list at most, and not again once it left |
| `SignalingProofs` | `SessionsUseTheRelay` | `SignalSpec => Spec`: what is proved of the relay holds with sessions and handlers too |
| | `StreamsStayInOrder`, `SessionsImplementService`, `SessionsKeepThePromise` | that is: the invariants, the refinement and what follows from it |
| | `AnswersAreAlive`, `EndsAreTrue` | the invariants of the `signaling` run |
| | `SessionsTypeCorrect` | the type invariant of the composition |
| `LoginProofs` | `TypeCorrect`, `CounterIsExact` | the counter is the number of failures recorded since its window began and not cleared |
| | `OvershootIsBounded` | the counter of a key that is also the one checked exceeds its limit by less than the number of concurrent requests |
| | `UnclearedIsBounded` | for such a key the last window holds fewer failures since the last success than twice what one count can hold |
| | `RefusalsAreJustified`, `BlocksAreNotProlonged` | the action properties of the `login` run |
| `TenantsProofs` | `TypeCorrect`, `StoppersRunOnce`, `SuspensionIsComplete` | a stopper is called at most once; the meaning of nil |
| `WsFallbackProofs` | `TypeCorrect`, `FramesInOrder`, `OpenConnectionsAreServed`, `ReturnedAreClosed` | the invariants of the `fallback` run |
| | `HubImplementsFeed` | `Spec => Feed!Spec` |
| `ApiProofs` | `TypeCorrect`, `GaugeIsAccountedFor`, `RepliesStayTrue` | the invariants of the `api` run |
| | `ApiUsesTheService` | `Spec => Hub!Spec`: to the handlers the relay is the service it implements |
| `TokensProofs` | `TypeCorrect`, `LinesHaveExpired`, `RefreshedTokensLastLonger` | the invariants of the `tokens` run |

*Relay.* The inductive invariant `IInv` joins `TypeOK`, `EndedIsQuiet` and
`OpenIsAccountedFor` with facts about what refers to what: a loop that runs has a stream
(`LoopOwned`), a stream's listeners and broadcaster have been allocated (`HeldIsUsed`: a
connect takes a fresh connection, which must not be one the stream already refers
to) and allocated for that stream (`HeldIsOwned`), a connection made for a stream is
never made again (`OwnedIsMade`), and a paused stream has its flag set (`PausedFlag`,
which `PauseIsSilent` needs). The action properties and the refinement follow step by
step from it: the snapshot and the fan-out map to stutters, the removal to `Leave`, a
stop to `End`, whatever the loops hold at that moment. `EndedLoopsReturn` is what can be
proved of `LoopsDrain`: after the end each step of a loop decreases `StepsLeft`, as the
only way round the loop is past the closed channel, and what it copies is empty; that
a loop does take its steps is fairness, and stays with TLC. `SeatedOnce` and `NoWayBack`
are proved once, of `StreamService`, and hold of the relay, and of the relay with its
sessions, through the refinement.

*Signaling.* Every step is a relay step or leaves the relay alone (`StepOfRelay`), so
`IInv` carries over, and so does every theorem about the relay. For `AnswerIsAlive`, the only
step that closes an open connection is a stop of its own stream (`AliveStays`, from
`HeldIsOwned` and `OwnedIsMade`). `EndIsTrue` needs that the stream of a session existed
when it was opened (`StreamIsThere`), since a stop of a stream created later would
otherwise be announced and undone.

*Login.* `OvershootBound` adds, for a key, the failures counted and the requests past
the check. A request joins the latter only when the former is below the limit, and
moves from the one to the other when it fails, so the sum stays below the limit
plus the number of requests. `AttemptsPay` (failures in the history and requests
in progress are no more than the attempts made) keeps the history's labels in
their type. `FailCountExact` needs `InWindow`: a recorded failure lies before the end
of its key's window, or a failure that opens a new window could be joined by an
old one. Both bounds are stated for keys that are checked and recorded under the
same name, which is not all of them (`CountedPerIP`). A refusal is justified because
the failures a blocking counter counts all lie in its window, which has not passed. For
`UnclearedBound`, `CountsInv` bounds the present count and, apart from it, the uncleared
failures of earlier counts within a window of its beginning (`Before`): these are one fewer than a
count can hold, because the failure an earlier count began with is a whole window
older than the next count. The bound is exact: TLC reaches it. It says nothing of failures
before the last success: a client that logs in now and then may fail any number of
times in a window, which is what `ResetOnSuccess` is for.

*Tenants.* A call count of one means that the stopper is in no map entry and is not
unused, and stoppers in the map are distinct; taking and deleting in one critical
section is what preserves it. A suspension past its update has a suspended tenant,
and the stopper that was there at the update is either still in the map or gone for
good, since each is registered once.

*Fallback.* `OpenIsServed` and `ReturnedIsClosed` are inductive with the types. For
the order of frames, `Queue` says that the channel holds the end of what was accepted
and that `run` fans out the frame it took last; `UpToDate` that what a listener in the
map received ends with that frame, or with the one before while it is still to
be written to. A listener joins with nothing received because a connection is
registered once (`RegisteredOnce`), and the empty run ends anywhere; one whose write
failed is never written to again, since it leaves the map before the next frame. The
refinement of `FrameFeed` uses the same facts: by `Queue` the frame of a `Write` is the
one the feed sends out, by `RegisteredOnce` a taken registration is of a fresh
identity, and by `UpToDate` a failed `Write` takes a member away that was one.

*Api.* The gauge equation is preserved step by step: each step that moves a stream or
a request from one of its sets to another moves the sum by the same amount. It needs
that an end has one author, and one that is a request is a delete of that very
stream (`Endings`); that an id is known to its creator alone until the create has
been answered (`Private`), which is also why a create can only report `pending`; and
that a request replies last (`ReplyIsLast`). A reply stays true because an end is
final and nothing goes back to pending, facts of `StreamService` that `Relay`
implements.

*Tokens.* A token's expiry is the truncated sum of its issue and the validity (`Dated`), and
a call past its window test has a token that was in its window then, so is in it,
or expired, now (`PastTest`). A child is therefore issued at most a window before the
parent expires, and a grandchild at most a window before the child does: with a
validity of two windows and a second the grandparent has expired by then. The
second is the price of the truncation. The rest of the line is older: a token's line is
its parent's with the parent (`Lines`), so all of it but the parent had expired when
the parent was issued, or is the parent's parent (`Grandparent`).

*Api.* A step of a handler or a session that moves a stream is by definition one of the
service, guarded as the service guards it (`HubStep`); a deletion of a stream that
has ended is a stutter.

Only model-checked: liveness under fairness (`LoopsDrain`, `HandlersReturn`), which is out
of the prover's reach. Every other property of a passing run is a theorem.

## Where code and comments disagree

Checked by a run (the finding in `PROJECT.json` quotes the text):

* A stop leaves open the connection of a replaced broadcaster and those of
  listeners removed after a failed write (`relay_stop_closes_all`).
* A broadcaster that reconnects to a paused stream makes it live with forwarding
  suspended, and `ResumeStream` refuses as it is not paused
  (`relay_live_not_suspended`).
* Failures of IPv6 clients are recorded under a key nobody checks
  (`login_per_ip`).
* A suspension that returns nil leaves the tenant's streams running, as no code
  registers a stopper (`api_suspend`).

Noticed while modelling, with no run of their own:

* `ServeListener` "blocks until the connection closes"
  (`internal/relay/wsfallback/hub.go:60`), and for ever when the hub was stopped and
  the channel is full: one of the two exceptions in `HandlersReturn`.
* A stopper is taken from the map before it is called: when it fails, `Suspend` returns
  its error, and a retry finds no stopper and returns nil with the streams running
  (`internal/tenant/tenant.go:106`). `Tenants` has this behaviour; `NilMeansTaken` says
  what is left for nil to mean.
* The error of a stop is logged and the end announced all the same
  (`internal/signaling/handler.go:108`): a session of an unknown id is told of the end
  of a stream that never was, the exception in `EndIsTrue`.
* A stopper registered after the suspension stays in the map, where
  `tenant_suspend_test.go:15` expects that it does "not persist".
* Each configuration update sets the listener limit to zero, since `UpdateConfig` leaves
  `MaxListeners` out of a struct whose every field is written
  (`internal/tenant/tenant.go:123`).
* The gauge is the "number of currently live streams" (`internal/metrics/metrics.go:37`);
  what it is instead is `GaugeAccount`. It counts streams that are pending, misses
  ends in sessions, and falls below zero with repeated deletes.
* Nothing makes a `stream_records` row, which `bitrate_events` refers to, so the insert
  of a bitrate event fails, with a log line, while its counter moves and the handler
  answers 204.
* The logger wraps the `ResponseWriter` in a type with neither `Hijack` nor `Unwrap`
  (`internal/middleware/logger.go:12`), so behind it `websocket.Accept` fails and no
  signaling session opens through the router as wired. `Signaling` and `Api` allow
  the upgrade to succeed.
* CORS and the logger run before the tenant is resolved, and resolution passes it on
  in a new request: neither ever sees a tenant, though both look for one.
* `ErrTenantSuspended` is never returned (`internal/tenant/errors.go:14`): nothing looks at
  a tenant's status, so its requests are served after a suspension as before, in `Api` too.

The failure window is called
sliding (`internal/auth/ratelimit.go:28`) and is fixed, so failures on both sides of
its end are never counted together: `UnclearedBound` says how many there can be with no
success among them. The end message is meant to "notify
listeners that the stream has ended" (`internal/signaling/handler.go:110`) and is
written only to the session that ended it. `RecordFailure` "reports whether
the IP is now blocked" but returns false for the tenth failure, after which
`IsBlocked` is true (`internal/auth/ratelimit.go:43`, `:70`, `:99`); the first
loop of the property test (`internal/auth/ratelimit_property_test.go:46`) expects no
refusal yet after the tenth failure, its second loop one at the next request.
The relay's silence payload is eight
bytes, shorter than the RTP header the library's `Write` parses, so writes during
a pause may all fail and remove every listener: in the model this is one of the
allowed outcomes of `WriteToListeners`.

## What is not modelled

* SDP, codecs, RTP contents, JSON, HTML status texts, logging: layout and wording.
* The bitrate fields of the configuration and their validation, and lookups that
  only read.
* The bitrate event handler: its counter and rows meet no other state.
* CORS, the logger, health and configuration routes: no state, and no effect on it.
* `FinaliseStream`, `ListenerJoined`, `ListenerLeft`, `AddBytesRelayed`, the stream
  record queries and the `auth_rate_limit` queries: nothing calls them.
* Start-up and shutdown: straight-line wiring; a shutdown calls the library's
  `Shutdown`, which waits for handlers, and stops neither streams nor sessions. At this commit neither `main.go` nor
  `cmd/server/main.go` agrees with the signature of `db.Connect`.
* The fallback hub and the stopper registration have no caller outside tests: they
  are modelled from their own code, for any caller.
* Process crashes: the relay, the counter and the fallback keep everything in
  memory, so a restart is `Init`; the durable state is the tenants' rows, and
  an update whose reply is lost is in `Tenants`, and the tokens held by clients,
  with `Restart` in `Tokens`.

## Plan

Done: the relay with its abstract specification, signaling over the relay, the
fallback with its own, the login path, the registry, tokens, and the API over the relay's
abstraction and the registry; for each, proofs of its invariants and action
properties.

What could follow: the bitrate events, once stream records are made; the stoppers in
`Api`, once something registers them; a variant of `Signaling` in which listeners are
told of the end, with the liveness that makes it worth having.

Runs are kept to distinct questions: a disagreement whose counterexample is
one sequential call is described above and has no run.

## How to run

    tlc -config MCRelay.cfg MCRelay        # and so on for each row of "runs"
    tlapm RelayProofs.tla
