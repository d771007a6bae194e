# Flowspace API: specifications, model checking and proofs

These TLA+ modules model the two services of the repository: **Identity**
(accounts, passwords, codes, sessions, tokens, mail) and **Workspace** (creation
and reading of workspaces), from their SQL statements up to the start and the
stop of their processes. `PROJECT.json` lists the runs, the mutants that every
property is tested with, the lines of code behind every definition, the hazards
and the theorems. Paths below are relative to the repository; `identity/` stands
for `src/services/identity/`, `workspace/` for `src/services/workspace/`.

## The system

| Component | State | Operations |
| --- | --- | --- |
| Accounts, sessions and codes (`identity/internal/app/*_service.go`, `adapter/out/postgres/account_repository.go`, `session_repository.go`) | `identity_accounts`, `identity_sessions`, `identity_challenges`, `identity_provider_links` | signup, password login, session check, verification, claim and reset codes and their submission, logout of one session and of all |
| Refresh rotation (`session_refresh_repository.go`, `queries/sessions.sql`) | current token hash, rotated hashes, expiries and revocation of a session | refresh, replay detection, revocation |
| Provider login and reauthentication (`provider_login_service.go`, `provider_reauthentication_service.go`, `provider_attempt_repository.go`, the Google and GitHub clients) | `identity_provider_login_attempts`, links | start, callback, handoff, signup through a provider, window of a session |
| Reauthentication (`password_` and `code_reauthentication_service.go`, `reauthentication_window.go`, `reauthentication_guard.go`, migrations 00010 and 00011) | the window of a session, stamped at commit; codes; pool connections and hash slots | by password, by code, issue of a code, guard of a change |
| Rate limits (`limit_repository.go`) and the source of a request (`adapter/in/http/source_address.go`) | counters of a source, an email or an account | record and refuse |
| Access tokens and keys (`internal/authn`, `adapter/out/token`, `adapter/in/*`, `bootstrap/server.go`, the key scripts) | the deployed keys, the keys each pod runs with, tokens that were handed out | sign, publish, verify, rotate |
| Outbox relay, email worker, notices (`outbox_relay.go`, `email_worker.go`, `delivery_repository.go`, `bootstrap/worker.go`) | outbox rows with leases, encrypted codes, one broker partition, notices | claim, publish, mark, send, commit, rewind, purge |
| Workspace creation and reading (`workspace/internal`) | `workspaces`, memberships, creation records | create once per idempotency key, read as a member |
| Processes (`*/internal/bootstrap`, `cmd/*`, `internal/config`, `internal/postgres`) | configuration, servers, pool, clients, telemetry | load, start, serve, stop |

They interact in five ways. The Identity operations meet in the rows of an
account: each transaction takes the account row `FOR UPDATE` first. A code leaves
its transaction as an outbox row, goes through the relay and the broker to the
email worker, and is sent under the lock of the same account row. Logout, reset
and claim revoke sessions that a refresh, a reauthentication or a token is using at that
moment. Workspace takes the keys of a token from Identity, asks it about the session of
every call, and acts on the answer after it has come. Requests share what a process
has: the connections of its pool, two hash slots, and the time it has to stop.

What is hard here: password login verifies a hash with no transaction open;
claims and verifications race for one account; a refresh finds its session before
it locks it; answers get lost after their commit; a relay or worker stops between
two writes to different stores; leases lapse under a paused process; the only
partition is retried at the record that failed; expiry is compared with the time
of a statement and takes effect at a commit; duplicates of a create overlap; a login counts
for two limits under two locks; requests that hold one database connection and a row
wait for a second connection (`password_reauthentication_service.go:44`) or for a hash slot
(`:83`); a key is rotated while pods with the old configuration still sign; a process is
told to stop in the middle of anything. The list with its lines and the
properties that watch each item is `hazards` in `PROJECT.json`.

## The modules

| Module | What it is |
| --- | --- |
| `Accounts` | accounts, sessions, codes, provider links and logins in flight; one action per operation |
| `AccountsProofs` | its inductive invariant and safety theorems |
| `SessionRefresh` | the refresh of tokens, one SQL statement at a time, with row locks |
| `TokenChain` | what a refresh promises: a chain of single-use tokens |
| `SessionRefreshProofs` | the invariant, safety and the refinement of `TokenChain` |
| `EmailDelivery` | outbox, relay, partition, email worker and notices, with crashes and rebalances |
| `Courier` | what the delivery of codes and notices promises: kept until mailed, mailed by who holds it, withdrawn by nobody meanwhile |
| `EmailDeliveryProofs` | its inductive invariant (nothing is lost, nothing is delivered twice), the refinement of `Courier`, and what follows from the promise of a courier |
| `WorkspaceCreation` | `CreateWorkspace`, one SQL statement at a time, with its advisory lock, and `GetWorkspace` |
| `CreateOnce` | what an idempotency key promises |
| `ProviderAttempts` | provider login and provider reauthentication: attempts, callbacks, what the providers answer, and exchanges, one SQL statement at a time |
| `Voucher` | what the handoff of a provider login promises: a voucher that is made once and spent once |
| `ProviderAttemptsProofs` | the inductive invariant, who gets in, what exhausts an attempt, and the refinement of `Voucher` |
| `RateLimit` | the counters, one SQL statement at a time, with their advisory locks |
| `SourceAddress` | the address that a request is counted for, behind trusted proxies |
| `ClientLimits` | `RateLimit` and `SourceAddress` together |
| `ClientLimitsProofs` | the limits hold, the source is where a request entered the trusted network, and no client hides |
| `Reauthentication` | the window of a session, opened by password or by code, and its guard; connections and hash slots |
| `ReauthenticationProofs` | its inductive invariant, who waits for whom, and what no step may do: windows, changes and codes |
| `AccessTokens` | tokens, the rotation of keys over the pods of Identity, and the verification by both services |
| `AccessTokensProofs` | its inductive invariant and safety theorems |
| `Configuration` | what each process asks of its environment, as predicates |
| `ServerLifecycle` | how a process starts, serves and stops; extends `Configuration` |
| `WorkspaceAndServerProofs` | the invariants of workspace creation and of the three processes, what clients and operators may rely on, and the refinement of `CreateOnce` |
| `MC...` | small instances for TLC, one `.cfg` per run |

### Accounts

One action is one transaction. That is what the code gives: before it decides
anything a transaction has the account row `FOR UPDATE` (`identity.sql`,
`GetActiveAccount...ForUpdate`), and where it has not, a unique index decides
(`identity_accounts_active_email`, in `EmailFree`). `PasswordLoginService` is the
exception. `FindPasswordAccount` reads the hash, then Argon2 runs with no
transaction open, then `IssueLoginSession` reads the account again and goes on
only if the hash is the same (`SameCredential`). Every action may come between.

A hash is a number drawn anew by each signup or reset, because every hash has a
random salt. A code is identified with its challenge: submitting the code of
challenge `c` is the parameter `c`, any other code is `WrongGuess`. The
field `issuedUnder` of a session is not a column. It remembers which hash the login
proved, so that `SessionMatchesCredential` can be stated. Expiry of a session is the
step `SessionLapses`: the durations of sessions are in `SessionRefresh`. Codes have
real issue times, because their budget (`IssueBudget`) and expiry count.

`AccountsInv` is the inductive invariant. It contains one owner of an email, one current code
of an account and purpose, that nothing is left of a claimed subject or a spent reset, and the
budget of codes, with what the budget rests on: no row was issued in the future (`CodesArePast`).
`VerifiedByMailbox`, `PasswordChangeIsComplete` and `NoRevival` are
action properties: what a step may never do. `NoRevival` is about the
operations of this module; a refresh can move the expiry of a session that has just
lapsed (see "Divergences").

### SessionRefresh and TokenChain

`Rotate` runs as separate actions: find the session by the hash, lock the account
row, lock the session row and decide again, rotate, commit; or revoke and commit
when the token is a replay. `accountLock` and `sessionLock` are the row locks of
`FOR UPDATE`; a transaction that ends, in whatever way, gives them back. Logout,
reset and claim lock the account first and are one action each, enabled when no
request has it. A token is named by the request that drew it. The answer may be
lost after the commit (`lost`), and the client then has only the old token.

`TokenChain` knows nothing of statements, locks and clocks: a token is exchanged at
most once, and one that comes back ends its session. `ImplementsChain` is the
refinement: `offered` and `answer` are read off the progress of a request, `spent` is
the table of rotated hashes and `ended` the revoked sessions. A rotation takes effect
at its commit.

### EmailDelivery and Courier

Each worker process has two loops, as `bootstrap/worker.go` starts them: the ticker
loop (`TickerStep`) that relays one outbox event and then sends one notice, and the email loop
(`EmailStep`) that polls the partition. The actions are the database and network steps of those
loops: claim with lease, publish, mark; poll, open the delivery transaction and lock account
and challenge, hand over to the mail server, delete the code and commit, commit the
offset. `Rewind` is `SetOffsets` after a failed record. Every failing branch is an action
of its own. The environment crashes a process, moves the partition, lets a lease
lapse, and cuts a database connection (`LoseConnection`) so that the locks are gone
while the process goes on. `Refused` are the codes that no attempt can send: the mail server
refuses their recipient, or their material is protected with another key.

`Courier` knows of no outbox, record, offset, lock or lease. An item is accepted and kept; a carrier takes it, mails it and
settles it, or fails and lets go; an item that somebody holds is not withdrawn, though its time can run out. `ImplementsCourier` makes
each loop of a worker a carrier of its own: the email loop carries a code from the moment that it has the locks
to the end of the delivery, the ticker loop a notice. The courier keeps what has material or a notice row, and holds by an
open transaction. The outbox, the relay and the partition are behind the word "kept": the courier does not see
an event that is lost or a record that is skipped, because the code stays kept and is only never taken;
`NothingIsLost` is about those. Where connections break (`ConnectionsFail`), a carrier loses its hold and may still mail
what it has in hand, but not settle it.

One partition is what `deploy/overlays/local/identity/broker-bootstrap.yaml:29` creates.
Left out: records that do not parse (the publisher writes none) and the clock of a
lease, which lapses at any time because a paused process does not notice its deadline.

### WorkspaceCreation and CreateOnce

A call has its arguments checked (`TextOf` and `KeyOf` say how long a name and a key are and
whether they have forbidden characters), has its session checked by Identity, opens a transaction,
tries the advisory lock and is refused when an overlapping call has it, deletes an expired
record, looks the key up, and replays, refuses or inserts three rows and commits.
Each statement is an action; under READ COMMITTED each of them sees what is committed
when it runs. A retry is another call with the same scope. The three inserts show at the
commit (`CommitRows`). `Fail` ends a call anywhere before its commit and releases its
lock, as a rollback, a lost connection and a stopped process all do; `LoseAnswer` is a
commit that the caller does not hear of. The lock id is a hash of the scope, so the
instance gives two scopes the same one: a call can then be refused for nothing, and
nothing else may go wrong. `since` is `completed_at`; `committed` is no column, it
records when the commit came. `GetWorkspace` is one SELECT and changes nothing: it is an operator
that `ReadsFindWhatWasAnswered` asks for every subject and workspace in every state.

`Status` is the gRPC code of an answer. An unverified email counts with the sessions that
are not active, and `Internal`, `Unavailable` and a missed deadline are one status `Unknown`: after
each of them the client knows nothing.

`CreateOnce` says that the calls of a scope make one workspace in the lifetime of its
record and that those who ask for the same name are told of the same one.
`ImplementsCreateOnce` maps its `memory` to the committed records, so lock, lookup and
commit together must act as one step, at the commit.

### ProviderAttempts and Voucher

An attempt is stored; the browser comes back and one callback consumes its state; the
provider is asked; the result is stored under a new code, which the page shows; the client exchanges
attempt token and code. The statements of a callback (`ConsumeProviderState`,
`FailProviderAttempt`, `RecordProviderResult`) commit one by one, so a callback may die
between any two of them. What the provider says is a record of what the two clients tell apart
(`GitHubAnswer`, `GoogleAnswer`), and `GitHubProof` and `GoogleProof` turn it into an identity and
a usable email, as the clients do: GitHub needs a verified primary email, Google a valid
ID token with the nonce of the attempt. `StartsVerified` decides whether the account of a first login starts verified.

An exchange is a transaction: `ClaimProviderResult` updates and
so locks the row of the attempt; `LockLinkedAccount` and the two inserts of a first login, or
`HasProviderLink` and `OpenWindow`, follow; one of three commits ends it. What it inserted is
seen by others after the commit, and an insert of the same email or link waits until then
(`EmailSettled`, `CreateProviderLink`). A rejected claim rolls back and is counted
afterwards, in a statement of its own (`RecordProviderHandoffFailure`). A code is named by the
callback that drew it, an account and a session by the exchange that made them. Accounts of
other kinds are the set `taken` of their emails.

Left out: the cryptography of PKCE and of the ID token (their verdicts are in the answers), which
provider an attempt was started with (it shows in the identity that is proved), the length of
a reauthentication window (it may close at any time), the limits per source, and the
verification code of a new account, which is in `Accounts`, where a claimed handoff is one action.
Whether an email is hosted by Google (the `hd` claim) is a constant set of emails.

`Voucher` has codes that are made once for an attempt, and vouchers that are spent by one
exchange, with the code and for the purpose (a login, or one session) they were made for.
`ImplementsVoucher` maps `offered` to the results that are stored, unclaimed and not
exhausted, and `spent` to the exchanges that committed, the refused ones included: their
result is gone too.

### RateLimit, SourceAddress and ClientLimits

`Record` and `RecordLogin` take an advisory lock for each counter, in the order of
`KeysOf`; read the clock; for each counter read the usage and refuse or increment; and commit. A
counter's row with a count of n is n members of `counted`, each with the time that it was
counted at, so that `LimitsHold` can ask about every rolling window and not only about the ones
the code looked at. `ErrRateLimited` rolls back what was counted before.

`SourceAddress` is an operator on the address of the peer and the forwarding headers. `Arriving`
says what the edge makes of what a client wrote; it is not in this repository and is taken from
`docs/adr/0035-identity-signup-security-and-mail-delivery.md:25` (marked external in the map). `ClientLimits` gives
each request the counter of the address that is found for it.

### Reauthentication

A request takes a connection, locks the rows of its account and session and reads the clock,
takes a second connection for its limit, waits for a hash slot or checks the code, reads the
session again, and writes; the commit applies it. `Commit` is one step with the deferred
triggers of migrations 00010 and 00011: the deadline is checked, the session is stamped, the rows are
released. After it the stamp is read back, on a new connection. Not distinguished are
the lock and the read of the clock behind it. `ReauthenticationGuard` (the request kind `"change"`)
has no caller in the services yet; the change it guards is the one of its integration test
(`reauthentication_integration_test.go:78`).

`ReauthenticationInv` adds who has a slot, and that while the pool has a connection left some request
can go on (`StuckOnlyWithoutConnections`). `Waits` says what a request waits for: a connection, the rows or a slot. In the
instance nobody ever waits for a slot, because both requests want the rows of one account and only one
of them can be hashing; the theorem covers that case, for all accounts and slots.

Logout, refresh and recovery are one action each that waits for the row locks of the requests, and
take no connection of the pool. A limit that refuses and the hourly budget of codes are
choices here, and so is whether a password or code is right.

### AccessTokens

The keys are numbers in the order of the rotations. `config` is what is deployed; a pod
gets it when it starts and keeps it until it ends. `PublishKey`, `SwitchKey`, `RecordLastUse` and
`RetireKey` are the steps of `docs/identity-signing-keys.md` and of the script for the last one, with the checks
they make (`RolledOut`, and `Delay` since the recorded last use). A pod that is told to stop takes
no new request and may still sign the ones it has, for `DrainTime`. A token is its key,
its session and its time of issue; the expiry is `Lifetime` later. The Workspace API fetches the keys for
each request from some pod and then asks for the session; the Identity API verifies with its
own keys. Each error of a service is turned into a gRPC code by an operator named after the
function that does it. `lag` is how far the clock of the verifiers is from the one of the database.

Left out: ConfigMap and Secret are applied together; a token cut short by the end of its
session; malformed arguments; how a session ends (one action here, in detail in `Accounts`).

### Configuration and ServerLifecycle

`Configuration` is pure: a configuration is a record, a file or address in it is `""`,
`"good"` or `"bad"`, and each check of the loaders is a predicate. `ServerLifecycle` runs one of the
three processes: each step of the start opens something or fails and closes what was opened
before; then it serves, is signalled or loses a server at any moment, shuts its servers
down within one shared deadline, hears their reports on the channel `results`, closes the pool, exports its telemetry and
exits. The deferred calls of the worker come before the pool: it unregisters its measurements, which waits for the one that is being
taken (`Unregister`), and its consumer leaves the group (`leaving`). The pool waits for the connections in
use (`closing`) and then drops them all (`dropping`).

Beside the main goroutine run the requests, the email loop and the measurements of the worker. A handler has a deadline; but when the
callback of a provider fails, the record of that failure is written under `context.WithoutCancel`
(`provider_login_service.go:142`) and has none (`FailCallback`, `Recording`). A measurement is taken by the exporter
of the metrics under five seconds of its own, whatever happens to the worker's context (`worker.go:197-262`), over a connection of
the pool and the producer (`Measure`).

Time passes (`TimePasses`) only when nothing can be done at once. One tick is about 2.5 seconds in the instance of `lifecycle` and a second in that
of `worker_stop`. `TimeoutsAssumption` needs only the order that the code has: a readiness check gets no more time
than a handler (2 s and 5 s), a handler no more than the shutdown (both 5 s), and a read and a check (5 s and 2 s) together no more than a shutdown
and a measurement (5 s and 5 s). `BrokerTimeout` and `DropTimeout` are external: how long the Kafka client takes for
a call that no context ends, and pgxpool to drop connections whose server is silent.

`LifecycleInv` says, for every place of the main goroutine, which servers, clients and connections there are
(`ResourcesMatchProgress`, `ServersMatchProgress`), which reports wait or were heard (`ReportsAddUp`), where a failure is kept
(`FailuresAreKept`), when measurements are taken (`MeasuresWhileItRuns`), and how much of each deadline may be gone (`TimeIsBounded`, which is
`MainInTime` and `OthersInTime`, and `RequestsKeepTheirTime`).

`StopsInBoundedTime` is the sum of these: the shared deadline of the shutdown, the drop of the connections and the exports, with, before and
after the shutdown, the tick, the measurement and the departure from the group for the worker, and the last handler
for an API. The time in which the pool waits for the record of a failed callback is not counted, because the code sets no bound to
it; `Stops` has that it ends if the database answers the statement or drops it.

Not in the module: `Shutdown` polls every half second at most; the steps of the start take no time, since no property is about
how long a start takes. `StopWorker` takes any report that is ready, also where the main goroutine waits in the `select`
already and Go would wake it by the signal first: more behaviours than the code has, of which no property that holds depends.

## What the runs check

| Run | Question | Instance |
| --- | --- | --- |
| `accounts` | do the account operations keep their invariant and safety properties | 2 subjects, 1 email, 3 sessions, 3 codes, 1 provider identity, 1 login in flight, clock 0..3 |
| `refresh` | traceability, replay, no token after revocation, refinement; does a ring of waiting requests close; does every refresh end | 2 sessions, 3 requests, idle lifetime 1, absolute lifetime 2, clock 0..2, with fairness |
| `delivery` | is a code lost or delivered twice without a failure; are open sends current; refinement of `Courier` | 2 workers, 2 codes, no notice, 1 fault, cut connections |
| `delivery_ends` | does a refused recipient stop the codes behind it for ever; are notices sent although the relay fails for ever | 1 worker, 2 codes, 1 of them refused, 1 notice, with fairness |
| `workspace` | once per key, all or nothing, reads find what was answered, refusals leave nothing, refinement | 4 calls of one subject with one key (2 alike, 1 for another name, 1 for a name too long), 1 of another subject with the same lock, 1 fault, lifetime 1, clock 0..1 |
| `provider` | is a result spent once and by its owner, is an exhausted attempt over, are accounts and links consistent, refinement | 2 attempts, 2 callbacks, 2 exchanges, 1 identity of Google and 1 of GitHub, 2 emails, 1 failure exhausts, attempt lifetime 1, clock 0..2 |
| `provider_email` | **violated**: a login is refused for its email only when the email is another account's | 2 attempts, 2 callbacks, 2 exchanges, 1 identity, 1 email |
| `ratelimit` | does any rolling window, day or interval exceed its limit; do both counters of a login count or none; can a client hide; does a ring of waiting requests close; does every request end | 3 logins for 1 email from 2 clients, 1 of them with forged headers, 2 requests of one account; windows 1 and 2, day 2, clock 0..2, with fairness |
| `reauth` | do windows open in time and for who proved it, are codes spent once, are changes inside the window, does every request end | 2 sessions of one account, 2 requests of all kinds, 2 connections, 1 hash slot, clock 0..2, with fairness |
| `tokens` | does a rotation ever refuse a good token; does a token outlive its session; is a refusal explained | 2 pods, 3 keys, 1 session, 1 token that is replaced, 1 request, token lifetime 2, delay 3, drain 1, clock 0..4 off by at most 1 |
| `lifecycle` | does a process serve with all it opened or not at all, stop in time, cut off nothing, exit with the right code | each of the 3 processes, 2 requests, a sound configuration or one with one defect; the Identity API with providers and no session server, or the reverse; with fairness |
| `worker_stop` | **violated**: a worker that is told to stop ends without an error | 1 worker, 1 request |

Every property of a passing run has a mutant in `PROJECT.json`: a form of a definition
with a bug that a change to that code could bring in, defined beside it as `...Bug`, under which TLC
finds the property violated.

**Bounds.** Two subjects that race for one email are what signup, claim and provider
login can disagree about; three sessions and codes let one be ended, one be current and one be
created meanwhile. In `accounts` the limits are 2 codes in an hour and 2 guesses instead of
5, so that both are reached. Three refreshes are needed for a rotation, a replay and a
request between them. The clocks are long enough for every expiry to be reached and passed, and
for a key to be used again after it. `MaxFaults` bounds crashes, rebalances and lost
answers: one fault is a crash at any point; a second one repeats it from a state that the first
already leads to, and is too large to finish. Failures of single statements, calls and connections
are not counted by it.
Two attempts in `provider` give two first logins that race, or a login and the
reauthentication of its session, or a login and a wrong code for its attempt meanwhile; a reauthentication
that a third exchange exhausts is in the theorems, which have any number of exchanges. A
reauthentication with an identity that belongs to a second account would need a third attempt; with
two, the wrong identity is one that belongs to nobody. The notices are in `delivery_ends`, where
they race the failures of the relay; that two workers never send one notice (`NoticesExclude`), and their part of the refinement, hold by
the theorems, which have any codes and notices. In `ratelimit` the email of the logins admits
less than their sources, so that a source is counted for a login that is then refused; of the limits of an account the daily one is the lowest, so that
it always decides there, and that the hourly one and the interval hold for accounts is left to the theorem. In `reauth` two
requests with two connections can hold both and wait for a third. Three keys in `tokens` give a
second rotation after the first, and two pods a rollout that replaces one with the other.
Symmetry is used only in runs without liveness, over ids that nothing orders. A request or transaction that has ended
keeps its outcome, and nothing that neither a later step nor a property reads.

**Deadlock** is checked in `delivery`, `delivery_ends`, `tokens`, `lifecycle` and
`worker_stop`. In the others it is not: their requests and clocks are finite, so the instance comes to rest
when all are answered. That no request waits for ever is there
`EveryRefreshEnds`, `EveryRequestEnds` and `EveryReauthenticationEnds`. Each of the three also says that a request has a
step (`ENABLED`) unless it waits for others (`Waits`), and the first two that no ring of waiting requests closes (`NoRingOfWaits`), which
for the third is `StuckOnlyWithoutConnections`.

**Fairness.** `SessionRefresh` and `RateLimit`: while any open transaction has a statement to run,
the database goes on with one of them; weak fairness of all requests together, not of each. `Reauthentication`:
weak fairness of the statements of each request, and of giving up, where a request waits for a connection, from the five-second
deadline of its handler. `EmailDelivery`: the
loops go on (they are endless loops with a ticker), so weak fairness of each; strong
fairness of claim, lock, send and commit, since the database and the mail server come back
after each outage; some lease lapses by its clock while there is one that can. Claims and leases are fair
for all codes together, not for each. A code expires by its clock; this is needed only for
`Refused` ones. Nothing makes the broker accept a record: `EveryCodeEnds` has that
as its premise, and `EveryNoticeIsSent` holds without it. `ServerLifecycle`: goroutines run and time
passes, weak fairness, and so do the end of a message, of a measurement and of a request: each has its deadline, but for the record of a failed
callback, of which it is assumed that the database answers the statement or drops it; strong fairness for the worker to see that
it has to stop, because Go's `select` picks among the ready cases at random. API calls, crashes and faults have no
fairness. `Accounts`, `WorkspaceCreation`, `ProviderAttempts` and `AccessTokens` have safety properties only:
their operations answer in one step, or wait for nothing but row locks in one order.

## Findings

1. `provider_email`: two first logins of one identity at once. `claimSession`
   (`provider_login_service.go:224`) finds no link, the insert of the account waits for the
   other login, finds the email taken when that commits, and answers that it belongs to somebody else. By then
   the identity is linked to that account, which
   `docs/specs/identity-provider-login.md:119` says is signed in. The result is spent; a
   new attempt succeeds.
2. `worker_stop`: when a tick is handled while the signal arrives, the email loop ends by the cancelled
   context, and both cases of the `select` at `identity/internal/bootstrap/worker.go:131` are ready when the tick is
   done; so they are when the signal comes before the first `select`, which is the shorter trace that TLC finds. If it takes the report of the loop, `Run` returns "worker stopped unexpectedly" and the process
   exits with 1. The integration test (`server_integration_test.go:276`) expects no error of a worker
   that is told to stop.

### Divergences

Reading the code beside its documents for the modules showed these too. No run is kept for them. In the models the
code is what counts.

- `RotateCurrentRefreshToken` (`sessions.sql:82`) compares the expiry with the time of its
  statement; a commit after the expiry still extends a session that checks already reject.
  `docs/specs/identity-password-login-and-sessions.md:59`: "At or after either expiry, Identity rejects refresh and
  session checks".
- The locks of a delivery are those of its database connection (`delivery_repository.go:61`). When it
  is cut during the mail call, a replacement commits and the old code, which does not work any more, is still
  sent. `docs/adr/0035-identity-signup-security-and-mail-delivery.md:31`: "Keep the lock through the bounded mail
  call". `OpenSendsAreCurrent` therefore speaks of transactions that are open, and `Courier` has the step `BreakHold`.
- A creation record is stamped a statement before its commit (`create_workspace.sql:50`), so it lapses less
  than 24 hours after it; `docs/specs/workspace-creation-and-reading.md:106` counts from the commit.
- A reauthentication whose read after the commit fails (`account_repository.go:126`) answers with an error and has
  opened the window. `docs/specs/identity-re-authentication.md:140`: "A dependency failure, a timeout, or a cancellation does not open
  the window". `WindowsOpenInTime` holds of these windows as well.
- `docs/security/identity-threat-model.md:111` asks for one small clock tolerance for signed tokens; `internal/authn/authn.go:39` has
  none. `RefusedForAReason` names the refusals that come from it.
- The wait of `pool.Close`, the last measurement of the worker and the exports of spans and metrics at the end (`internal/tracing/tracing.go:23`,
  `internal/metrics/metrics.go:22`) come after the shared stop deadline, so all together may need far longer than the grace period of 10 seconds.
  `StopsInBoundedTime` has the sum of the deadlines that the code and its clients set; the record of a failed callback
  (`provider_login_service.go:142`) has none, and the time that the pool waits for it alone is outside that sum.

## What is proved

Every safety invariant, action property and refinement that a passing run checks is also a theorem.
The theorems hold for every value of the constants that satisfies the named
assumptions: limits and lifetimes are positive numbers; the reserved values are no
ids; a rolling window is no longer than a day, and two codes are no further apart than the hour they count in;
the delay before a key is retired covers the life of a token and the drain of
a pod; a probe gets no more time than a handler, a handler no more than the shutdown, and a read and a probe together no more than
a shutdown and a measurement; a request locks two counters at most, and in the order of `RecordLogin`; and, for `ClientLimits`, a request
comes from outside the trusted network and its other counters are not sources. Nothing else is assumed, and the sets need
not be finite. Two proof modules hold the proofs of two components each that have nothing to do with each other but their
size: `ClientLimitsProofs` and `WorkspaceAndServerProofs`. Two fields of one record are updated in a nested `EXCEPT`
(`[f EXCEPT ![i] = [@ EXCEPT !.a = x, !.b = y]]`) and never as `![i].a = x, ![i].b = y`: the SMT translation of tlapm 1.4.5
reads the second form as two equations about `f[i]` that contradict each other, and would prove anything from it.

**Accounts** (`AccountsProofs`). The safety invariants are not inductive by themselves: to know that
a reset leaves no session of the old password one must know that sessions belong to
subjects that exist and that live ones belong to active subjects. `AccountsInv` adds to the
type invariant the facts that foreign keys and
status checks stand for. There is a lemma for each helper that rewrites rows (what a
revocation or replacement leaves), a frame lemma for each part of the
invariant when a step leaves its rows alone, and one step of the induction per action. From
`Invariance` follow `CredentialSafety`, `RetiredSafety`, `EmailSafety` and `CodeSafety`; `VerificationWins` and
`ResetIsComplete` prove action properties under the same invariant, after
`AccountWriters` has reduced `Next` to the actions that write accounts. `MailboxIsProved` uses it too, and `TheEndIsFinal`
has a lemma for ended sessions (`SessionSteady`) and one for retired accounts (`RetiredSteady`).

`IssuesAreLimited` is about every rolling hour, while the code counts only the one that ends now. A code is the youngest
row of its account (`CodesArePast`), so the hours that contain it are counted when it is issued: `BudgetGrows` for a
step that issues one, whatever its purpose, and `BudgetPasses` for all others, the clock included. That a new account may issue without
counting is sound because no code can be of an account that was free.

**SessionRefresh** (`SessionRefreshProofs`). The invariant `RefreshInv` says that a request has exactly
the locks of the statements it is past (`LocksMatchProgress`), and what it found there
and the locks keep true (`Facts`): at the rotation the presented token is still the current one and
the session is not revoked; at a replay it is in the history. Single use and
traceability need each other and both need the locks. A request that waits for the account has no lock, and one that has the account never meets
a locked session: so no ring of waiting requests closes (`RefreshesWaitInNoRing`). `RevocationIsFinal` uses that no
action that revokes runs while a request has the account. `RotationImplementsChain` proves that
the initial states map to initial states and every statement to a step of the chain or a
stutter, case by case in `StepsOfTheChain`.

**EmailDelivery** (`EmailDeliveryProofs`). That nothing is lost needs an account of the offsets: the consumer has done with
every record below the committed offset, below the record that a worker is at, and up to the position of the
worker that has the partition (`OffsetsFollowDeliveries`). A worker that lost the partition may commit no offset, so the last part is
about the assigned one only. With `EventsReachTheLog` (an event that is marked has a record, and a code that is not
done with has its material) the first part gives `NothingIsLost`. `OpenDeliveriesExclude` says that two open deliveries are of different codes
and that the material of a delivered code is gone: hence `OneDelivery`; and no step ends a code whose delivery is open
(`OpenSendsAreCurrent`). Steps in which the consumer stands still are
reduced to one lemma (`ConsumerStands`), and so are those of one worker (`LoopStands`, `OffsetsStand`). `NoticesExclude` needs nothing of
this and is proved beside it; `DeliverySafety` is all of them together.

`DeliveryImplementsCourier` takes the steps by what they do to hands and holders: `NoHandMoves`, `OneHandMoves` and `LoopsLetGo` say when nothing
changes for the courier, when one carrier takes up an item, and when some let go, so that each action of the loops is one step of `Courier` or a stutter. What follows
from the refinement is proved of `Courier` alone, on its own variables: `CourierPromise`, an invariant that mentions no outbox and no offset, and from it
`EndedCodesAreNotMailed`: while no connection breaks, a code that was replaced, consumed or claimed is never mailed afterwards.

**WorkspaceCreation** (`WorkspaceAndServerProofs`). A call has the lock of its scope for the whole of its transaction
(`TransactionsAreLocked`), so what it has read of the record stays true until it commits (`ReadsStayTrue`), and a
commit never meets another record of its key. A workspace is the one of its record, or older than that by a lifetime
(`RecordsMatchWorkspaces`): from this follows that a key creates once. `AnswersStand` ties what clients were told to
these rows. `CreationImplementsOnce` maps the commit, answered or lost, to one step of `CreateOnce` and every other
statement to a stutter.

**ProviderAttempts** (`ProviderAttemptsProofs`). An exchange that has claimed a result holds the row of the attempt, so nobody
else claims, counts or purges it meanwhile (`Exclusion`, `ClaimFits`); what it inserts itself is settled before another insert
of the same email or link (`InsertFits`); and the account it found stays linked to the identity that was proved (`FoundFits`), because no
step takes a link away (`AccountsStayLinked`). That identity is the one of the callback that shows the code (`ResultsFit`). Hence
`OnlyOwnersEnter`: whoever got a session or a window was let in by the callback of that very attempt. `ExhaustedForGood` counts: an
attempt that can still be spent has at least as many failures as answers of rejection (`RejectionsCount`), and a failure can not be
taken back (`Kept`, in the lemma `Permanence`, which is also what the refinement needs of the past). `HandoffIsVoucher` maps storing a result
to the making of a voucher, a commit to its spending, the last failure or the purge to its withdrawal, and everything else to a
stutter.

**RateLimit** (`ClientLimitsProofs`). A request holds the locks of the counters it is past
(`LocksMatchProgress`), and what it read about a counter stays true while it holds the lock
(`UsageStaysTrue`); so at the commit each counter has room for one more. That a new row exceeds no rolling
window rests on the clock: it is the youngest, and a window with it and no younger row
is the one that was read. `RateLimitsHold` and `LoginCountsBothOrNone` follow from `RateLimitInv`. A login that has the lock of its source can wait only for that of its email;
whoever has that has either both of its locks, or needs no second one, and goes on: `NoRingOfLocks`. Its assumption (`OrderAssumption`)
is the order of `RecordLogin`, and that a source is never the second of two. A lock id is a 64-bit hash of the
counter's name (`limit_repository.go:29`); that two counters share one is left out, and the database would end the ring that it could close.

**SourceAddress and ClientLimits** (`ClientLimitsProofs`). `SourceIsEntry`: for every way through the trusted network and all headers
that a client writes, the source of a request is the address at which it entered, or the request is refused.
`NoClientHides` puts the two together: what was counted from an address is among the rows of that address's counter
(`CountedWhereItEntered`), which are finite and within its limit.

**Reauthentication** (`ReauthenticationProofs`). `WindowsFollowLocks` says that a request has the rows of its account from
its first read to its commit, and nobody else has them (`LocksMatchProgress`); what a request of each kind can have
prepared (`EffectFits`); and that what it has read is still so, with a deadline no later than the end of what it relies
on (`ReadsStayTrue`). Two requests with rows are therefore of different accounts (`Exclusion`), and a step of one
leaves what the other has read (`OthersStand`). `OnlyCommits` reduces the action properties to the one step that
writes, and there the deadline does the rest: `WindowsInTime`, `ChangesInTime`, `CodesSpentOnce`. `InvarianceOfAll` adds the slots, and
by `NoRing` that no ring of waiting requests closes without the pool: the rows are held by requests that wait for a slot or a
connection at most, and whoever has a slot waits for nothing. That `Waits` is exactly when a request has no step is an `ENABLED`, which TLC checks
within `EveryReauthenticationEnds`.

**ServerLifecycle** (`WorkspaceAndServerProofs`). `ProcessInvariance` takes the parts of `LifecycleInv` one after the other; each step of the main
goroutine is first put in its place (`StepsAre`), and the steps beside it are shown to leave most of it alone (`BesideKeeps`).
The reports that wait and those that were received are as many as the servers and loops that have ended; so when the
main goroutine has received all that it waits for, nothing can come any more (`DrainedIsAll`); the measurements are unregistered before the clients are
closed (`MeasuresWhileItRuns`); and so the pool is closed with no user of the worker left. A
failure is in the channel or in the result, which gives `FailuresAreTold`. For the time, each deadline that starts is no later than
`WorkBy`, `StopBy`, `MetricBy` or `AnswerBy`, and time passes only while it lasts, or while the pool waits for a failure record, which is not
counted: `StopIsBounded`. A request that a handler had when its server was told to stop
(`Promised`) has no more time left than the shutdown, and so is over when that ends, which is why the order of the two timeouts is assumed:
`RequestsAreFinished`. `NothingIsLeftOpen` follows from what is open at each step.

**AccessTokens** (`AccessTokensProofs`). Each phase of a rotation has its configuration (`ConfigFits`), a pod
runs with it or the one before (`PodsFit`), and what is unexpired or may still be signed belongs to the active key, or to
the one before within its time (`SignersFit`, `TokensFit`). `KeysAlwaysCover` follows
from these without the requests; `EndedSessionsAreRefused` and `RefusalsHaveAReason` need also what a request
saw when it began (`RequestsFit`).

**Only model-checked.** Liveness: `EveryRefreshEnds`, `EveryCodeEnds`, `EveryNoticeIsSent`, `EveryRequestEnds`,
`EveryReauthenticationEnds` and `Stops`, because fairness and `ENABLED` are out of the
prover's reach. Of three of them the part without `ENABLED` that is an invariant is proved: `RefreshesWaitInNoRing`, `NoRingOfLocks` and, in
`InvarianceOfAll`, `StuckOnlyWithoutConnections`. The two expected violations are counterexamples and need no proof. No module has a recursive operator, so nothing is
missing on that account.

## Not modelled

In `Accounts` and `ProviderAttempts` a limit never refuses, which allows more behaviours; in `Reauthentication` and
`AccessTokens` it may refuse at any time. The purposes of a code in `Accounts` leave out that of a reauthentication, which counts in the same
hourly budget by the same query; its codes are in `Reauthentication`. `Accounts` has one clock for Go and the
database, so that their two checks of one expiry cannot disagree. The parsing of HTTP and gRPC requests, cookies and the wording
of errors keep no state. Hashes, tokens, signatures and encryption are functions of bytes; a secret is identified with its
verifier. HIBP, Google, GitHub and the mail server are external: their answers are
choices among those that the clients tell apart. How the pool opens and checks connections is pgxpool's. Logging, metrics,
tracing and request identifiers have no effect on the stored state; what a stop waits for, the worker's measurements and the last exports, is in
`ServerLifecycle`. Generated code moves bytes, and the generated queries are modelled at
the operations that run them. Migration tooling and deployment give constants only.

## Plan

No safety property of a run waits for its proof, and no refinement either. What could be added:

1. An abstract specification of a process (started, serving, stopped, with what it has open) and of a limiter that decides in one
   step, with their refinements.
2. The promises of `TokenChain`, `Voucher` and `CreateOnce` proved of the abstract specifications alone, as `CourierPromise` is;
   what they would say of the code is already proved of the detailed ones.
