# A TLA+ model of komodo-customer-api

komodo-customer-api keeps the accounts of customers in one DynamoDB table: profile,
settings, addresses, payment methods, passkeys, preferences and the consent log, all under
the partition `CUSTOMER#<id>`. Its handlers are short and its containers share nothing but
that table, so what can go wrong in it is mostly what happens *between* two calls to the
table: another container writes, a read lags, a call fails, a container dies. The modules
here model those calls one by one.

- [Components](#components)
- [Modelling conventions](#modelling-conventions)
- [Modules](#modules)
- [Runs](#runs)
- [Theorems](#theorems)
- [Where code and documents disagree](#where-code-and-documents-disagree)
- [Not modelled](#not-modelled)
- [Plan](#plan)

## Components

| Component | State | Operations | What makes it hard | What makes it correct |
|---|---|---|---|---|
| Account settings (`SETTINGS` item) | status, status_changed_at, tags, version | `UpdateSettings`, `UpdateSettingsTags`, `SoftDeleteCustomer`, `RestoreCustomer`, sign-up | three steps in a tag update (read, default put, conditional write); four writers of the status, two of them without the version; restore decides on a read | no service loses another's tags; at most 20 tags; a restore only within its window; a deletion is not cancelled by accident |
| Default flag (`ADDR#`, `PAY#` items) | the items, their `is_default` | `AddAddress`, `UpdateAddress`, `UpsertPayment`, deletes, `SetAddressDefault`, `SetPaymentDefault` | write, query, flip: three calls; items disappear in between | at most one default; never a window without one; nothing deleted comes back |
| Passkeys (`PASSKEY#` items) | sign count per credential | add, update, delete | conditional write, then a read that explains its refusal | the sign count of a living credential never goes down; the answer to a refused update is wrong only for a reason |
| Consent log (`CONSENT#` items) | append-only records | mint, verify-and-record | replay check and append are two calls; links are clicked twice; the key is a formatted time | nothing is lost or changed; a confirmed opt-out is recorded; a replay adds a row only for a reason; the latest record is a newest one, to the second |
| Profile and credentials (`PROFILE` item, e-mail index) | profile fields, password hash, auth methods | create, get, update, credentials by e-mail | update reads the whole item and puts it back; the index lags; two caches per container | an update takes no password back; staleness is bounded; an invalidation reaches what it names |
| Hard erase and export | all items, S3 objects | `DeleteUser` in chunks of 100, `deleteS3Exports`, `ExportProfile` | partial failure and retry; items created after the listing | an erase leaves only what came too late for it, and completes although its calls may fail |
| TTL cache | entries with expiry, per container | `Get`, `Set`, `Delete`, evictor | concurrent map without a lock around count, evict, store | a hit is the latest entry and not expired; the cap is passed only by overlapping stores |
| Preferences | one item | update, delete | single unconditional writes, which an erase may overtake | last write wins, as documented; erased with the account |
| Rate limiter, handlers, start-up | one bucket per client key | - | the buckets are never dropped | - |

The components meet in the table and nowhere else. The erase touches the items of all of
them; sign-up writes `PROFILE` and `SETTINGS` in one transaction; soft delete and restore
belong to the profile's API and act on `SETTINGS`; the caches hold copies of profile and
credentials. There are no callbacks, queues or background workers in the service except the
cache's evictor. Everything that happens concurrently is HTTP requests, in any number of
containers.

## Modelling conventions

*One action per call.* A call to DynamoDB is atomic: an item write with its condition, a
transaction, a read. A handler that makes a single write is one action. A handler that reads
and then writes keeps what it remembers in `calls[r]`, for a request slot `r`, and takes one
action per call. `Abandon(r)` is a call that fails or a container that dies: what was
written stays, the request is gone.

*Reads.* The code asks for no consistent read (the fourth argument of `GetItemAs` is always
false), so each module lets a read lag, in the least that its properties tell apart. In
AccountSettings and ConsentLog a read may return an earlier state of the items, kept in
`lagged`; no run and no theorem takes reads to be consistent.
In Passkeys and Erasure an item that came or went is `unsettled` until `Settle`, and a read
may see it or miss it. In Profile a read returns any version that was current at most `Lag`
ago.

*History variables.* What a property says about the past of a request is kept with the
request (`note`, `late`, `since`, `refusal`, `read`, `counted`) and no guard reads it.

*Time.* `clock` is `time.Now()`. All containers share it: their clocks are taken to agree.

*What is left out.* Fields that no branch reads, wording, logging, decoding. One customer is
modelled: no statement of the code touches the items of two, but the lookup by e-mail, which
takes the first customer if two have signed up with one address. Requests that are answered
with an error and change nothing are no steps.

*Broken variants.* A definition named `X_Y` is a variant of `X` that makes the mistake `Y`,
a dropped condition, a missing clock, a list-then-loop. Each property is known to fail under
at least one of them, listed in `PROJECT.json`. No specification uses them.

## Modules

**AccountSettings** - the `SETTINGS` item. `settings` is the item or `NoRow`, with `status`,
`changedAt` (`status_changed_at`), `tags` (each a record of its namespace's owner and a
name) and `version`; `profile` is whether the `PROFILE` item exists. Actions:

| Action | Code |
|---|---|
| `CreateUser` | the sign-up transaction, `Repo.CreateUser` |
| `UpdateSettings` | the handler's rule who may set a status, and the conditional write of `UpdateSettingsPartial` |
| `SoftDeleteCustomer` | the write of `Repo.SoftDeleteCustomer`: no version, clock started over |
| `BeginTags`, `InitTags`, `MutateTags` | `UpdateSettingsTags`: read and count; put the defaults if none were found; `MutateSettingsTags` |
| `BeginRestore`, `CommitRestore` | `RestoreCustomer`: status and window checked on a read; write if still pending |
| `BeginErase`, `EraseItems` | `DeleteUser`: list; delete in chunks (a chunk may end between `PROFILE` and `SETTINGS`) |
| `BeginUpdateUser`, `PutProfile` | `UpdateUser`: read the profile, put it back unconditionally |
| `Abandon`, `Replicate`, `Tick` | failures, replication, time |

A client can name any version it was shown, `0..issued`. Additions and removals in one tag
request name the same attribute in two clauses of one update expression, which DynamoDB
refuses; `TagWriteAccepted` says so. Two specifications: `Spec` starts with no account and
has sign-up and erase; `OpenSpec` is the life of one account, from just after sign-up and
without erase. Cross-service writes, the ways past the tag limit and the protection of a
running deletion are
properties of `OpenSpec`: with sign-up or erase in between they fail (see below), and what
is left of them then is `OnlyDefaultsLoseWrites`. Reads lag in both. `counted` is history:
whether a tag update counted the tags of the very version that it names.

**DefaultFlag** - one kind of item of one customer, addresses or payment methods by `kind`.
`items[i]` is absent, plain or default, in the order of the sort keys. First writes
(`AddAddress`, `UpsertPayment`, `UpdateAddress`) put the flag on or off; `QueryDefault`,
then `Flip` (the transaction) or `Promote` (the single update) are `SetAddressDefault` and
`SetPaymentDefault`. `Found` applies the limit of the query before its filter, as DynamoDB
does. The filter also names the sort key, which DynamoDB does not allow in a filter: as the
query stands it is refused and the request ends with an error after its first write, which is
`RefuseQuery`. A query that is answered is modelled too, because the steps that follow it in
the code are worth having right; the properties hold of both.

**Passkeys** - `stored[c]`, the sign count or `Absent`. `UpdatePasskey` is the conditional
write; when refused, the request goes to `Diagnose`, the read that decides between "not
found" and "regression", which may lag and may fail. `refusal` is the true reason and `since`
what happened after it (both history).

**ConsentLog** - one customer and channel. `Mint`, `Verify` (token valid, latest record
read), `AppendConsentLog` (stamp, then the write on the condition that the key is free).
The stamp lies anywhere between the check and the write. `SortKey` writes a time as
RFC3339Nano does: whole seconds, then the digits of the fraction without trailing zeros,
then `Z`, which is greater than the point and every digit.

**TTLCache** - the cache of one container. `m` is the `sync.Map`; `calls[c]` is the `Get` or
`Set` of a goroutine, `swept` the key the evictor is about to delete. One load, store or
delete of a key is one step. A `Range` visits each key once, at any time and in any order,
so it may see or miss a key that is stored or deleted meanwhile (`Measure` counts, `Sample`
looks for a victim). `Load`, `Check`, `Purge` are `Get`; `BeginSet` to `Store` are `Set` with
`evictOne`; `SweepVisit`, `SweepDelete` the evictor. The expiry is computed before the store
and the two may be apart. `latest` and `overlaps` are history variables.

**Profile** - the `PROFILE` item with the password in it, and its copies. `versions` is the
history of the item: whether it was there, the password (named by the version that set it; it
stands for every field an update does not name) and the instant. `cache[c]` is the cache of a container, with the profile under `"profile"`
and the credentials under each spelling of the address; a lookup may always miss, which is
what `LossyMap` promises, so that eviction needs no action. `promised[c][k]` is a history
variable: the version a container has answered for when it purged key `k` - the one an update
or an erase wrote, and for a soft delete, which leaves the profile alone, the one that was
current at the purge.

| Action | Code |
|---|---|
| `Hit`, `Miss`, `Read`, `Fill` | `GetProfile`, `GetCredentials`: cache; table, or index and table; cache |
| `BeginUpdate`, `PutProfile`, `Purge` | `UpdateProfile`: read the item, put it back whole, drop the cached profile |
| `UpdateCredentials`, `CreateUser` | one write each, no cache |
| `SoftDelete`, `Forget` | the invalidations of `SoftDeleteProfile`, the second after a read |
| `Hit` or `Read`, `Fill`; `EraseItem`, `Purge`, `Forget` | `DeleteProfile` up to the exports, with or without an address |
| `Fail`, `Restart`, `Tick` | failures, a container that is replaced, time |

`PutProfile` and `EraseItem` may be done and reported failed; then no cache is purged, which
is also what another container's request looks like from here.

**Erasure** - `DeleteProfile` from the listing to the exports, next to the requests that
write. One item stands for the items of a kind (address, consent record, passkey, payment
method, preferences, profile, settings); `objects` are the stored exports and the avatar.
`ListItems`, `DeleteChunk`, `ListExports`, `RemoveExports`, `Confirm` are an erase; `Fail` and
`FailAfterDelete` a call that failed without or with effect. A page of exports is limited by
`PageSize`, and S3 may refuse single objects of a deletion, which the code does not look at.
The worker that starts erases and repeats them is not in this repository (`docs/HLD.md:74`
leaves it open); it appears as `FallDue` and `BeginErase`.
Customer requests that write in one call are one action; the profile update, the tag update
that puts default settings, the export and the avatar upload read or obtain a link first and
may write much later. Preferences are modelled here, as two of these writers. No step of an
erase touches the avatar.

**AccountLife** - what an existing account promises its callers: every change of its
settings is one step. There is a versioned write with or without a status, a write of one
owner's tags, a soft delete, a restore, and time. No request is between two calls and nothing
writes an older row back. The limit on tags is not promised, since the code does not keep it.
AccountSettings implements it with `row <-
settings` and `now <- clock`; the window of a restore is not in it, because it is judged at
the read, and is stated by `RestoreWithinWindow`.

**LossyMap** - what the cache promises: a lookup finds what was last stored under its key and
not deleted, answers with it if it has not expired by then, or misses. Counting, sampling,
evicting and sweeping do not exist in it.

**MCAccountSettings**, **MCDefaultFlag**, **MCProfile**, **MCTTLCache** - constants and symmetry
of the small instances; the other modules are instantiated by their `.cfg` alone.
**AccountSettingsProofs**, **AccountTagsProofs**, **ConsentLogProofs**, **DefaultFlagProofs**,
**ErasureProofs**, **PasskeysProofs**, **ProfileProofs**, **TTLCacheProofs** - theorems.

The modules share no variables: a component appears in another's module only by what the
other can see of it. The `PROFILE` item is a flag in AccountSettings (who may put it back
after an erase), a history in Profile and one of seven kinds in Erasure.

## Runs

| Run | Checks | Bounds and why they are enough |
|---|---|---|
| `account_life` | the properties of an existing account, and that it implements `AccountLife`, with lagging reads | two requests (every race here is between a request that holds a read and one that writes), one tag of a namespace with one writer and one of a namespace with two, limit 1 so that it is reached and passed, window 0 and two clock values so that a window runs out and a second one begins, three versions, so that a read may lag by two |
| `account_erasure` | pending accounts have a clock, restores stay in the window, only defaults lose writes, across erase, re-creation and lagging reads | window 0 with three clock values: every wait can run out; one tag, one version, so that a write can name an old one |
| `tags_lost` | violation of `CrossServiceWritesKept` under `Spec` | two requests, two tags |
| `tag_limit_passed` | violation of `TagLimit` under `OpenSpec` | limit 1, two tags, a read that lags by one version |
| `default_flag` | a flip keeps a default, enforcement creates nothing | three requests, three items: an old default, a new one and a third to be deleted or to compete |
| `passkeys` | sign counts never go down; a wrong answer has its reason | two updates in flight, two credentials, three counts |
| `consent_log` | the five properties of the log, with lagging reads | two clicks, two links, six instants of four per second, lifetime 0: stamps collide, keys of a second are out of order and a second passes, links expire |
| `ttl_cache` | the cache implements `LossyMap`; how far the cap may be passed | two goroutines, three keys, a cap of one and at most two overlaps: every store meets the cap and all three keys may end up in the map; a lifetime of zero and one tick, so that entries expire and are replaced by fresh ones |
| `profile` | bounded staleness, invalidations of update, erase and soft delete, how much an update may undo | two requests (each race here is between a copy on its way and one writer), one container (caches share nothing but the item, and a write without a purge stands for the others), one spelling, lifetime 1, lag 0 (a version may still be read in the instant it is replaced), versions and instants 4 together: an entry can outlive its version and expire |
| `update_undoes_change` | violation of `UpdateIsPartial` | as `profile` |
| `spelling_outlives_erase` | violation of `ErasedIsForgotten` | one request at a time, two spellings |
| `erasure` | nothing is left but latecomers, exports beyond the page and objects S3 refused; an erase that is due completes | one erase, one request that writes late, two items or pairs of items written, chunks of two and pages of one, so that both have to be passed; the number of failures and retries is not bounded |

Bounds on versions, on the clock and on the writes are in guards (`MaxVersion`, `MaxClock`,
`Horizon`, `MaxWrites`) and only stop behaviours that would go on. Deadlock is checked
everywhere. The largest run, `profile`, has 11 million states and takes three minutes.

*Fairness.* Only Erasure states any, for `EraseCompletes`. A worker with a due erase and none
under way begins one, and one that has ended reports it (weak fairness of `BeginErase` and
`Confirm`); a lagging read catches up (weak fairness of `Settle`, what eventual consistency
means); each call of an erase that is attempted again and again succeeds at some time
(*strong* fairness of the four calls: after each failure the erase starts over, so none of
them is enabled for ever). Nothing is assumed of the customer's requests, and failures are
free to come as often as they like. In the other modules no handler waits for another and
nothing retries, so there is no liveness to state.

What the properties say:

- `PendingHasClock` - pending deletion implies a clock, over all writers of the two fields.
- `LimitPassedOnlyByLag` - however updates race, tags grow beyond the limit only by an update
  that counted another version than it named. Two updates that both counted below the limit do
  not pass it together: the version refuses the second. `TagLimit` itself is false, which
  `tag_limit_passed` shows.
- `CrossServiceWritesKept` - a tag of an existing row changes only by a write of the owner of
  its namespace that named the version it replaced.
- `DeletionNotCancelled` - a wait ends by a restore or by a write that raised the version.
- `RestoreWithinWindow` - a restore takes effect only if the wait that is *now* running had
  not run out when the request looked, even if it looked at a lagging copy.
- `OnlyDefaultsLoseWrites` - with sign-ups and erasures too, the put of defaults is the *only*
  step that changes tags, or ends a wait, without leave: the finding `tags_lost` has no second
  cause.
- `AccountIsAtomic` - the refinement of `AccountLife`: no two-call update writes back what it
  read, and defaults never come over an existing account.
- `FlipKeepsADefault`, `EnforcementNeverCreates` - no window without a default through a
  flip; no stub of a deleted item.
- `SignCountMonotone` - over updates, registrations and revocations in any order.
- `AnswersAreExplained` - "not found" for a regressed count, or "regression" for a missing
  credential, comes only after a revocation, a registration, a failed or a lagging read.
- `AppendOnly`, `AnsweredIsRecorded` - no record is lost to a colliding key, and a customer who
  was told so has a record of that very link.
- `RepeatsHaveACause` - a link gets a second record only if the click read before the first was
  there, its read lagged, or a record of another link has the greater key.
- `LatestIsOfNewestSecond` - the disorder of the keys stays within a second.
- `StalenessBounded` - what a cache serves was current no longer ago than the lifetime of an
  entry, the time its fill took and the lag; the fill counts, since the lifetime starts at the
  store and not at the read. `docs/PRD.md:76` says "cross-container staleness bounded by TTL":
  that holds up to the fill and the lag.
- `InvalidationReaches` - once a container has purged a key, it serves nothing under it that is
  older than what the request answered for: the update, the erase, or the version that the soft
  delete found. Excepted are a copy whose read lagged and one whose fill was under way at the
  purge (`user.go:50` stores without looking again); these, and the credentials after a soft
  delete that cannot read the address (`user.go:115`), are served as long as
  `StalenessBounded` allows and no longer.
- `UpdateUndoesOnlyRecent` - a profile update puts back a password that the item had when the
  update read it, or at most the lag before. It excuses no update: one that waits for long, or
  is overtaken, still brings back nothing older than its read. What it does undo is shown by
  `update_undoes_change`.
- `LeftoversAreLate` - what is left when an erase reports success is blamed on that attempt
  alone: it came or became visible after the listing, lay beyond the page or was refused by
  S3. These are excused and stay behind in this code; no crash of an earlier attempt leaves
  anything else.
- `EraseCompletes` - an attempt is never stopped by what an earlier one has already deleted.
  This rests on one line: a listing without items is a success (`customer.go:375`), so that the
  exports are still reached. With "not found" there, a failure at S3 would repeat for ever.
- `ServesLatest` - the refinement of `LossyMap`. A delete of an expired entry may hit a fresh
  one: that costs a miss, never a wrong answer.
- `CapSlack` - the map exceeds its cap by at most one entry for each `Set` that began while
  another was in progress. The documents give the cap as 100k entries (`docs/HLD.md:90`); it
  is exact only for one `Set` at a time, and what is gained by overlapping stores stays until
  entries expire or are deleted, because every later `Set` evicts one and stores one.

## Theorems

All are proved for every value of the constants, under the named assumptions of the modules
(finite sets of requests and tags, tags owned by one of the four namespaces, natural bounds).

- `AccountSettingsProofs`. `TypeCorrect`; `PendingAlwaysHasClock` and `RestoresWithinWindow`
  from the invariant `RestoreInv`. `RestoreWithinWindow` speaks of the row at the write, while
  the check was on what a read returned; the invariant carries the connection: times on rows
  are in the past and a lagging copy never has a later time than the row (`TimesOrdered`), and
  while a restore is under way the wait that runs, if any, ended or ends after the read
  (`DeadlineRemembered`) - a deletion that began since then has a later clock. All three are
  proved of `Spec` and of `OpenSpec`, with and without lagging reads.
- `AccountTagsProofs`. `ExpectedCountExact`: what `expectedTagCount` computes is the size of
  the set after the write. `CrossServiceWritesAreKept` and `DeletionsAreNotCancelled` for
  `OpenSpec`, from `OpenInv`: on an existing account no request is about to put defaults, the
  version of the row is the highest ever issued, and the requests hold tags of their own
  namespace. `LimitPassedOnlyByLagging` makes no assumption on reads: `TagInv` says that a lagging
  copy has an older version, or the tags of this one, and that a request about to write whose
  tags were counted on the version it names holds a version that is gone, or fits the tags as
  they are. `AccountsAreAtomic`, the refinement, follows from `OpenInv` for reads that lag as
  well: an accepted tag write is a `WriteTags` of the row as it is at the write, a restore is a
  `Restore` or a stutter, and the first call of every request is a stutter. `OnlyDefaultsLose` is about both
  specifications, in which versions may start over; it needs no more than types and that a
  request with tags passed the namespace check (`CheckedInv`).
- `DefaultFlagProofs`. `FlipsKeepADefault` needs, besides types, that a request under way has
  a target (`HasTarget`); `EnforcementsNeverCreate` follows from types.
- `PasskeysProofs`. `SignCountsAreMonotone`; `AnswersExplained`, from an invariant that ties
  the reason of a refusal to what is stored now: as long as nothing has been noted since, a
  credential that was missing is missing, and one that was regressed is there.
- `ConsentLogProofs`. `RecordsStay`, `AnswersAreRecorded` (a lagging read is a subset of the
  log, so what it shows is recorded) and `LatestIsRecent` (keys begin with the second, so keys
  of different seconds sort by time, whatever the digits). `RepeatsAreExplained` needs that a
  log has *one* latest record. Keys are compared symbol by symbol, and no key is the beginning
  of another because `Z` ends each and occurs nowhere else; so the order is transitive and
  total (`BeforeIsTransitive`, `BeforeIsTotal`), a finite set of keys has a greatest one, and
  `OneLatest` follows. `RepeatInv` adds that the log is finite, that its records have
  different keys, and that a click which saw the record of its link and is about to append
  another is outranked by another link's record. `KeysNameInstants`: two instants of one key
  are equal, so a refused append is a true collision of stamps and never an accident of the
  formatting.
- `ProfileProofs`. `StalenessIsBounded`, `InvalidationsReach`, `UpdatesUndoOnlyRecent` from
  `ProfileInv`, which follows the copies of the item: a copy on its way into a cache was current
  when it was read (`FillsAreRecent`), so an entry was current when its lifetime began, less the
  time of the fill (`EntriesAreRecent`); a copy about to be put back was there when it was read,
  and stays so however long the put takes (`PutsAreRecent`); a promise is never ahead of the history
  (`PromisesAreOld`), so a copy that is read now keeps them all, and a purge marks the copies
  that it overtakes (`SoundFillsAreKept`, `SoundEntriesAreKept`). The many actions are first
  reduced to what they do to each kind of copy (`StepFacts`), and the invariants are shown for
  that. `ErasedIsForgottenInOneSpelling` assumes that every client types the address as it is
  stored, and concludes what the run `spelling_outlives_erase` refutes without it.
- `ErasureProofs`. `LeftoversEscaped` from `EraseInv`: after the listing, what is there is still
  to be deleted or late, and after the listing of the exports likewise (`Accounted`).
- `TTLCacheProofs`. `CacheInvariant` and `CacheRefinesLossyMap`. The invariant adds to the
  types that the map holds for a key nothing but the latest entry (`MapIsLatest`), so that a
  load finds what the promise would, and what each call carries (`CallsCarry`): an entry about
  to be purged has expired, an entry about to be stored does not outlive its stamp. Every step
  of a `Get` is then a `Find`, a `Reply`, a `Miss` or a stutter, the store of a `Set` is a
  `Put`, and everything else a stutter. `CapGivesWayToOverlaps` counts: each `Set` under way
  may add one entry. Either there is room for all of them within the cap and the overlaps
  (`Room`), or for all but one, and then each of them is bound to evict an entry that is
  there (`Tight`, `BoundToEvict`), so that the first to do so makes the room that is missing.
  Every step keeps one or the other (`SlackInv`).

One assumption is about arithmetic and not about the code: `PowersAssumption` says what `^`
is for the digits of a second, which the provers do not know and TLC evaluates.

Model-checked only: `EraseCompletes`, which is liveness under fairness. The violations are
behaviours that TLC shows. Of `TagLimit`, `ErasedIsForgotten`, `UpdateIsPartial` and, over the
whole life of a customer, `CrossServiceWritesKept`, it is proved what remains: the only way past
the limit, one spelling, how far an update reaches back, and the only step that loses writes.

## Where code and documents disagree

The first four are shown by runs that expect the violation; their quotations are in
`PROJECT.json`.

1. *Tags lost to defaults* (`tags_lost`). A tag request that finds no settings puts default
   settings without a condition (`user.go:412`), over whatever is there by then: another
   service's tags, a status, a version. The version then restarts at 0, so old versions become
   valid again, and the same put can cancel a pending deletion.
2. *The limit on tags* (`tag_limit_passed`). `docs/data-model.md:91` and `:230` allow 20 tags per
   customer. The count is taken on a read that may lag (`user.go:407`, `customer.go:1032`), while
   the write is held to the version the *client* named, not to that of the row that was counted;
   so a lagging read lets the account pass the limit. `LimitPassedOnlyByLag` shows that nothing
   else does.
3. *Updates are not partial* (`update_undoes_change`). `docs/HLD.md:58` and `docs/PRD.md:29` say
   that a profile update leaves absent fields unchanged, by a partial `UpdateItem`. `UpdateUser`
   reads the item and puts it back whole, without a condition (`customer.go:358`): credentials
   changed in between are undone, and a profile erased in between is back.
   `UpdateUndoesOnlyRecent` shows how far back this can reach.
4. *Credentials outlive the erase* (`spelling_outlives_erase`). They are cached under the
   address as it was typed and dropped under its lower-case form (`user.go:94`, `:116`, `:251`),
   so a container that has erased an account serves its credentials under another spelling
   until the entry expires.

Two more can be read off the code, and a run would show no more than the line does.

- *No enforcement of a default.* `docs/data-model.md:227` allows one default per customer. The
  query for the current one names the sort key in its filter (`customer.go:574`, `:748`), which
  DynamoDB refuses, so enforcement ends in an error after the first write has put the flag on
  and two defaults stay (`RefuseQuery`). With the key taken out of the filter, the limit of 1
  that is applied before it would miss a default that is not the first item, and two requests at
  a time could both promote.
- *The avatar outlives the erase.* `deleteS3Exports` lists `exports/<id>/` and nothing lists
  `avatars/<id>/`; `docs/HLD.md:72` names both. No action of Erasure removes the avatar.

The others are characterised by a property that holds, which says exactly how far the code
departs from the sentence.

5. *Unversioned writes.* `docs/data-model.md:232` says that every write to the settings checks
   and raises the version. Soft delete and restore do neither (`customer.go:1247`, `:1289`), so a
   versioned writer that read before a soft delete meets no conflict and may set the status it
   had in mind: `DeletionNotCancelled` is what remains.
6. *Hidden regression.* `docs/HLD.md:95` answers a regressed sign count with 409. Any failure of
   the read after the refusal is answered 404 (`customer.go:995`), and so is a revocation in
   between: `AnswersAreExplained`.
7. *Replays.* `docs/HLD.md:82` promises no duplicate rows. The check compares with the latest
   record of the channel only (`user.go:710`), so a link used again after another adds a row, as
   do two clicks at the same time: `RepeatsHaveACause`.
8. *Latest by key.* `docs/data-model.md:161` takes the latest record for the current state. The
   sort key drops trailing zeros of the fraction (`customer.go:1123`), so keys within one second
   need not be in the order of time: `LatestIsOfNewestSecond`.

## Not modelled

HTTP decoding, routing, authentication, error mapping and start-up (no state); signatures of
links (a link that does not verify is refused before anything is read); the infrastructure.
The rate limiter is a library's token bucket per client key; the service keeps the buckets in
a map it never shrinks, which is growth without a state worth checking. The lookup
`/users/exists` reads and keeps nothing. What an export contains is left out: it reads seven
kinds of item one after the other, no document promises a snapshot, and whether it is stored
is in Erasure. `email_verified`, which the cached credentials take from the settings, is not
followed. Two customers with one address are not modelled: nothing in the code keeps an
address unique. The clocks of containers are taken to agree; DynamoDB and S3 are external and
appear as their documented atomic calls.

## Plan

Done, in this order: AccountSettings with its runs and theorems, DefaultFlag, Passkeys,
ConsentLog, TTLCache with its refinement of LossyMap, Profile, Erasure, and the theorems of
ConsentLog, Passkeys, Profile and Erasure; then the counting argument of TTLCache, the order
of the keys of ConsentLog, and AccountLife with its refinement.

Left: a composition of Profile with two customers that share an address, once the code says
who keeps addresses unique; the worker of the hard erase and the events of the account
lifecycle, once they are part of this service; a default flag kept by a condition, if the
query of `SetAddressDefault` is changed.
