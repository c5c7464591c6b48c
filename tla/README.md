# gcx in TLA+

gcx (`grafana/grafanactl-experiments`) is a command-line client of Grafana. Most of its
2300 files turn arguments into an HTTP request and an answer into a table. This project
models the parts where that is not so: where several goroutines or several gcx processes
share state, where a step may fail or the machine may stop half way, and where an order
has to be kept. Paths below are relative to `src/`.

## Inventory

The command line is one process per command. What processes share is on disk (the
configuration file with its `flock`, and small state files), in the OS keychain, and on
the servers. Inside a process, goroutines share the OAuth transport, the adapters and
whatever a command collects.

| Component | Code | State it keeps | Operations | What is hard |
|---|---|---|---|---|
| OAuth token refresh | `internal/auth/transport.go`, `internal/config/rest.go` | tokens in memory, the pending generation, the flight, the `blocked` flag; tokens on disk | a request, `FreshToken`, refresh, adopt, persist | goroutines share one flight and processes one file; refresh tokens are good for one use; answers get lost, writes fail, logins interfere |
| Configuration write | `internal/config/loader.go`, `keychain.go` | the file, its directory entry, the accounts of the keychain | load, stage, preflight, rename, sync, commit, roll back, restore | every step can fail or be the last one; two stores have no common transaction |
| Resource push | `internal/resources/remote/{pusher,folder_hierarchy,natural_key_*,dryrun_guard,summary}.go` | the levels, the natural-key lists, the summary, the target | sort, batch, get, list, match, create or update | bounded concurrency, one failure cancels the rest, lists go stale, writes land late |
| Dev server live reload | `internal/server/livereload` | connections, their channels | register, unregister, broadcast, read, write | channels that are closed by one goroutine and used by others; slow browsers |
| Login flow | `internal/auth/{flow,gcom,callback,paste,manual}.go` | the exchange guard, two channels, the terminal | the browser's callback, a pasted URL, a cancellation | two routes race for a single-use code; a goroutine reads the terminal that others need next |
| HTTP retries | `internal/retry/transport.go` | none | a round trip | a POST that failed may have been applied |
| Dev server files | `internal/resources/local/reader.go`, `internal/resources/resources.go`, `internal/server`, `cmd/gcx/resources/serve.go` | the collection, without a lock; files | read, watch, GET, save, run the script | handlers and the watcher touch the same map and the same file; the process ends without waiting |
| Writer | `internal/resources/local/writer.go` | files | write | one file at a time |
| Pull, delete | `internal/resources/remote/{puller,deleter}.go` | the summary, partial results | list, get, delete | partial failure |
| Migration | `internal/config/{migrate,migrate_preflight}.go` | the backups, the files of all layers | preflight, lock, back up, convert, write | a process may end in between; two commands migrate one layer each; an older gcx writes without the lock |
| Login | `internal/login`, `internal/config/login_mutation.go` | snapshots of the configuration | plan, authenticate, verify, write | minutes of a user's time between read and write |
| Instrumentation | `internal/providers/instrumentation/rmw`, `cmd/gcx/instrumentation/clusters` | two snapshots | read-modify-write, poll until a deadline | no version on the server |
| Adapter router, discovery | `internal/resources/{adapter,discovery}` | adapters made on first use | get an adapter, look up a type | the first error is kept for ever |
| Assistant stream | `internal/assistant` | the result so far | one per event | the order of events |
| Telemetry, notifier, previous context | `internal/telemetry`, `internal/notifier`, `internal/config/previous.go` | one small file each | read, write | two processes, best effort |
| Datasource transports | `internal/datasources`, `internal/query/synth` | a cached credential | a call, with a fallback | the fallback repeats a call |
| Providers, linter, output | `internal/providers`, `internal/linter`, `internal/output`, `cmd/gcx` | none | pure functions and single requests | nothing a model would add |

How they meet: every API call of a command goes through the OAuth transport (when the
context uses OAuth) and, below it, the retries. The transport persists a refreshed token
by a configuration write, under the same `write` lock as a login and a migration. A push
reads files through the reader and reaches the API through the router, the dry-run guard
and an adapter. The dev server reads through the reader as well; the watcher adds to the
collection, whose callbacks broadcast through the live-reload hub. Every load of a command
may find a legacy file and migrate it. An instrumentation command reads and replaces one
list through the retries.

What makes each part correct: a stored refresh token is never spent twice, lost or
overwritten; the surviving configuration file never names a missing account, and no
command's change is lost; folders come before what is in them, and the summary says what
the target holds; no goroutine sends on a closed channel and no browser stops the watcher;
a login code is exchanged once and its token reaches the user; a change of instrumentation
undoes nothing that was there when it was compared; a migrated file has its exact backup
and the layers keep their meaning; a saved dashboard is in its file, and memory ends up as
what the files say.

## Modules

| Module | What it is |
|---|---|
| `TokenRefresh` | the OAuth transports of several processes, the file, the issuer |
| `TokenRefreshProofs` | its theorems |
| `ConfigWrite` | the configuration write with keychain credentials |
| `CredentialFile` | the abstract store that `ConfigWrite` implements |
| `ConfigWriteProofs` | its theorems, the refinement among them |
| `ResourcePush` | one push against a target |
| `ResourcePushProofs` | its theorems |
| `LiveReload` | the hubs, their connections, browsers, the watcher's callbacks |
| `LiveReloadProofs` | its theorems |
| `LoginFlow` | the browser login in its three modes |
| `LoginFlowProofs` | its theorems |
| `RetryTransport` | the decisions of the retrying transport, as operators |
| `InstrumentationUpdate` | the commands on a cluster's app instrumentation, over `RetryTransport` |
| `InstrumentationUpdateProofs` | its theorems |
| `ConfigMigration` | several processes, several layers, from the legacy schema to v1 |
| `ConfigMigrationProofs` | its theorems |
| `DevServer` | the dev server between files, collection and saves |
| `DevServerProofs` | its theorems |
| `MC...` | instances for TLC |

An operator that is only used to check that a property can fail follows the action or
helper it mutates, in the same module, with a comment that begins "A mutant".

### TokenRefresh

A generation number stands for an access token and the refresh token issued with it; 0 is
the empty string. Memory (`mem`, `bind`, `pend`, `blocked`, `inflight`) is one
`RefreshTransport` per process, `disk` the stack entry of the file, `lock` the flock that
`WireTokenPersistence` takes. Goroutines walk through the stages of `maybeRefresh` and
`refreshAndPersist`:

| Action | Code |
|---|---|
| `Check` | the first critical section: fail, use the token, join the flight, or lead one |
| `WaiterGivesUp` | a waiter whose context ends |
| `LockFails`, `AcquireLock` | the 30 s attempt at the flock; a leader whose context has ended gives up unless it owes a persistence |
| `ReloadFails`, `Reload` | `adoptFreshStoredTokens`: another process may have refreshed, logged in, or moved the entry to another server |
| `IssuerAnswers`, `CallFails`, `GhostArrives` | the call; one that timed out may still arrive |
| `LoseAnswer`, `Denied`, `BlockConsumed`, `Retain` | what comes back: nothing, a refusal, a response without a usable replacement, a generation |
| `Persist`, `PersistFails`, `PersistSuperseded`, `PersistUncertain` | the compare-and-swap on the stored refresh token and the write |
| `FlightDone` | waiters observe the outcome of their flight |
| `ReadToken` | the second critical section, which reads the token that is sent |

The environment cancels requests, ends and starts processes, logs in, lets access tokens
age and refresh tokens die. Time is only the two sets `aged` and `dead`, which is all that
`Usable` and `RefreshExpired` look at. `lost` is a history variable: the generations whose
answer was lost on the way, for which nothing gcx does can help.

### ConfigWrite and CredentialFile

The file is a function from credential fields to an entry: absent, plaintext, or a
sentinel that names a keychain account. `file` is what a reader sees; `durable` is what a
power loss may leave behind, so `Rename` adds to it and `SyncDir` makes it a singleton.
A process loads without the lock (`ReadFile`, then `Resolve`, which reads the keychain
later), changes fields, takes the lock, and fails if the file is not what it read
(`Stale`). It stages each new value under a fresh account (`StageSet`), or writes it as
plaintext when the keychain is unavailable (`StageFallback`); it reads the accounts it
will delete (`Preflight`), replaces the file (`Rename`), syncs the directory (`SyncDir`)
and only then deletes (`DeleteOld`). Failures lead through `Rollback`, or through
`Undelete`, `Undeleted`, `RestoreFile` and `Resync`. `Crash` and `PowerLoss` may come
between any two steps.

`CredentialFile` is what a user may expect of all this: every field always has a value
that some request gave it, a request changes its fields all at once on top of what is
there, and the store may fall back to what was there before only while a write has not
settled. `ImplementsStore` is the refinement: the store's value is what a reader resolves,
its fall-backs are what a power loss or `restoreConfigContents` could bring back.

### ResourcePush

`Sort` is `SortFoldersByDependency`; `level` is the set of folders being pushed, `Children`
the next one. `HaveLevels` says that no set of folders is closed under its parents, which
is when the code's levels exist. `NextBatch` ends a batch and starts the next one, with
the early return of `Push` in `Onward`. Each resource has a goroutine (`Push1`): `Start`
(admitted by `Running`, the `errgroup` limit), `Get`, `List` and `Match` for the natural
key, `Send` (where the dry-run guard and the adapter stop a dry run), then the API's
`Apply` or `Refuse`, and `Answer`. A write may take effect although its caller saw a
failure: an `Apply` without its answer, or a request that timed out or was answered 504 and
that the API applies after its goroutine has gone (`ghost`, `ApplyGhost`), at any time and
more than once, for the transport below the client sends a failed attempt again (`Retry`).
`late` are the resources, not yet counted as pushed, that are written after the cancellation.

A create that is sent again is modelled as one object of one name, written twice; what an API
that names objects itself makes of it is left out (see the plan).

Abstractions: one type with natural keys, so one list; such a type's adapter sends no
`resourceVersion`, which is true of all but the datasources; folders are named by UID;
whether a resource belongs to another tool is decided by the local file alone.

### LiveReload

`hub`, `reader` and `writer` are the goroutines; `queue` counts the messages in a
channel, because nothing depends on what they say. The hub's `select` meets the sender of
its unbuffered channels, so `Register`, `Unregister` and `Broadcast` are joint steps.
Ranging over the connections takes one step per connection (`Iterate`, then `Send`), in
any order, as Go does; a connection added meanwhile may be skipped. `due` are the
connections that a broadcast found and has not sent to.

Every start of `Initialize` is one of `Hubs`. The program has two configurations: where
files are watched, two hubs and two change callbacks (`serve.go:146-151`,
`server.go:194-200`); where they are not, one hub and no change, so no broadcast. The runs
are about the first. Its two hubs share an unguarded map of connections, whose operations
are atomic in the model, and when two hubs are at the map at
once and one of them writes, the runtime may end the program (`MapFault`). So may a send on
a closed channel. What the properties say of such a program, they say until it ends.

### LoginFlow

`mode` is one of three flows: a callback server alone, a callback server with a watcher of
the terminal (an SSH session), or pasted URLs alone. `main` is the goroutine of `Run`,
`handler` the one request that gets through the callback's `sync.Once`, `watcher` the paste
watcher, `server` the goroutine of `Serve`. A URL is what its checks make of it: of another
attempt, refused by the user, good; a line may also be no URL at all. The two channels have
one place each. `guard` is the `exchangeGuard`; `code`, `minted` and `exchanges` are the
authorization server, which redeems a code once. The end of `Run` is a sequence of stages:
close the watcher, wait for it, flush the terminal, shut the server down.

### InstrumentationUpdate over RetryTransport

`cfg` is the list of one cluster's namespaces at the server, which keeps no version of it.
A guarded command (`include`, `exclude`, `clear`, `configure`) goes through `Precheck`,
`Read`, `Reread` and `Write` (`rmw.Update`), an unguarded one (`remove`, `configure
--use-defaults`) through `Precheck` and `Write`. `Write` is one attempt of `RoundTrip`:
`ShouldRetry` of `RetryTransport` decides about the next one, and `Effects` what the server
may have done with an attempt that was answered so. `late` holds the writes that the server
applies after their caller has given them up. `moved` is a history variable: what others
changed since the read that a write was compared with.

### ConfigMigration

A layer is a file with a schema and a document; a document of the v1 schema remembers, as
history, the legacy document it was made from. A document says of each context what makes its
stack, its cloud credentials, and its default data sources, which the legacy schema has in a
map and in fields of their own (`Entry`). `Convert` is the conversion of one file.
`FieldMerge` is what the legacy schema makes of the layers: a layer overrides single fields,
of a stack and of the credentials too. `EntryMerge` is what v1 makes of them: whole stacks
(they are named for their contexts) and whole cloud entries (their names have the layer in
them, and the context refers to that of the last layer that gives it one), but data sources
one by one. `Proven` says that they agree, `Overlap` that a legacy and another layer have a
stack in common, `Interrupted` that what is there is a migration that was not finished, by
the backups. A mixed set is loaded when it has no overlap, with no proof. `apart` is history:
some file was migrated where it was the only layer, so that a mixed set came about without
the proof. A command looks at the layers one by one (`Look`), and at each again when it
loads it (`Check`). `Lock`, `Reread`, `Backup`, `WriteBackup`, `SyncBackup`, `SyncEntry`,
`Validate`, `Rename` and `Settle` are `migrateLegacyConfig` with `writeLegacyBackup`; a step
that fails leaves the migration in memory ("deferred"). `fdur` and `bdur` are what a power
loss may leave of a file and of its backup. `OldWrite` is an older gcx, which takes no lock.

### DevServer

`ReadFile`, `Collect` and `RunScript` are the reading at the start, `Receive`, `Reload` and
`Update` the watcher's callback, `Lookup`, `Open`, `Write` and `SetRaw` the PUT handler of
dashboards. Resources are kept by kind, version and name (`Ref`) and found by kind and name
(`Find`, which takes any). A request holds a pointer: `key` is where it found the object,
`there` whether the collection still has that very object. A file may be truncated (`Empty`)
or hold the bytes of two writes (`Mixed`); a request that has opened a file which an editor
then replaced writes to nobody (`linked`). `Edit` is the user's editor, `Stop` the end of the
process. `missed`, `said` and `hurt` are history. The body of a save names the dashboard of its
URL: the handler finds the object by the URL and writes the body, and compares nothing
(`Begin` assumes what the browser sends). What `Update` tells the browsers is
`LiveReload`, whose watcher changes any resource at any time.

## What the runs check

Twelve runs. Their names are those of `PROJECT.json`.

| Run | Instance | Shows |
|---|---|---|
| `refresh_procs` | 2 processes of 1 goroutine, 2 destinations, 3 generations; crashes, logins, late requests | `PresentsStored`, `NoLockout`, `DestinationBound`, `NeverOverwritesNewer`, `SuccessMeansPersisted` |
| `refresh_threads` | 1 process of 2 goroutines, 3 generations; cancellation, expiry, logins, crashes, omitted expiries | `SingleFlight`, `RequestCompletes` |
| `config_alone` | 1 process, 2 fields, 2 secrets, 4 accounts; keychain failing or off, power losses | `NeverDangling`, `SuccessSettles` |
| `config_faults` | 2 processes, 1 field, 3 accounts; every fault there is | `TypeOK`, `FailureLeavesNoTrace`, `ImplementsStore` |
| `push_folders` | every hierarchy of 2 folders and a resource, cycles too; failing calls, an interrupt, 2 at a time | `ParentFirst`, `ParentExistsOrStopped`, `CyclesPushNothing`, `Accounted`, `PushReturns` |
| `push_keys` | 3 resources and a stranger, 2 natural keys, every target, 2 at a time | `PushedStaysUnlessReused`, `LateWritesBounded`, `CreatesNoDuplicate`, `DryRunWritesNothing` |
| `reload_hub` | 2 hubs, 2 callbacks, 1 connection, 3 changes, 2 hellos | `NoChangeMissed`, `ChangesBroadcast`, `HandlersEnd` |
| `reload_twice` | 2 hubs, 1 connection, 2 changes | a bug, below |
| `login_flow` | 3 modes, 3 pasted lines, 2 manual tries; cancellation, failing listener and exchanges | `OneExchange`, `TokenReachesUser`, `SuccessPageNotInVain`, `TerminalReleased`, `FlowEnds` |
| `instrumentation` | 2 commands of every kind, 2 namespaces, 1 service, 2 attempts, 2 rounds, 1 late write; requests lost, refused or late | `UndoesOnlyTheUnseen`, `ReportIsTrue`, `CommandsEnd` |
| `migration` | 2 processes, 2 layers, 1 context of a stack and credentials of 2 fields each and 1 kind of data source, 4 documents; 1 rewrite, 1 failure, kill or power loss | `TypeOK`, `RollbackSafe`, `ViewKept`, `KeepsTrying` |
| `dev_save` | 2 files, a script or none, 2 saves, 2 names, 2 versions, 4 documents; 1 edit | `SavedIsOnDisk`, `TornExplained`, `SourceSaidIt`, `Settles` |

The types are proved for every module; the runs `config_faults`
and `migration` check `TypeOK` too. Every property has a mutant: a plausible
bug in a definition that models code, under which TLC finds the property violated in the
same instance.

### Bounds, and why they are enough

- Three generations: the stored one, its successor, and one more by another process, a
  late request or a login, which is the least that makes a compare-and-swap on a stale
  generation possible. The issuer stops at `MaxGen`; nothing else is cut off.
- Two processes or two goroutines: locks, flights and snapshot checks are pairwise. The
  theorems of `TokenRefresh` hold for any number.
- Accounts (`MaxAcct`): at the start there is one per field, used or not; the rest are
  for staging. Four with two fields let a write replace both and three with one field
  let two writes follow each other. Account names are random in the code, so a fresh
  number is the same as a fresh name.
- Two folders give roots, chains, self-parents and two-cycles; `CyclesPushNothing` and
  `ParentFirst` are proved for every hierarchy. Three keyed resources with two at a time
  are the least in which a late write, a stale list and a third resource come together, and
  in which more late writes than goroutines would show. Writes that are given up and applied
  later (`"ghost"`) are in `push_keys`; `push_folders` has the interrupt instead, and its
  properties are about the starts and about a target that such a write only adds to.
- A channel of capacity 1 can be empty and full, as one of 256 can. Three changes and two
  hellos are six broadcasts and two answers, which fill it while the writer waits for its
  browser and both hubs have one to send. Connections meet only in a hub, so one is enough
  for the two liveness properties; with two, `NoChangeMissed` holds too (1.3 million states,
  without the liveness properties), and the theorem is for any number.
- One failure per migration, anywhere, and every command again after it: that is the least
  that leaves half of anything behind. Two layers with one context: the rules about layers are
  pairwise and by entry, and two fields tell a merge by entry from one by field. The documents
  say everything, a part of the stack, or a part of the rest with a data source as a field (and
  that converted): sets of two that can be proven, that cannot, and that overlap or not.
- One edit and two saves: two writers of a file at a time, one of them the user, and a save
  that overlaps another one. Four documents are a dashboard with two texts, in another
  version, and another dashboard.
- Two attempts, two rounds and one late write (the code has 4 and 3 or 4) let a write be
  repeated inside a round and by the next one. The theorems hold for any number.
- Three pasted lines: one that fails, one that claims, one too late.
- Symmetry: processes with their goroutines and destinations in `refresh_procs`; procs,
  fields and secrets in `ConfigWrite`; resources and keys in `push_keys`; hubs in
  `reload_twice`. No run with a liveness property uses it.
- Deadlock is checked for `TokenRefresh`, `ConfigWrite` and `ConfigMigration`, which never
  stop. A push, a login and a command end, and a server without connections, saves and
  changes is idle, so their runs do not check it.

### Fairness

Weak fairness of each goroutine, and nothing of the environment: the Go scheduler runs
what can run. It includes the end of network calls and lock attempts, which the code bounds
(30 s in `transport.go:296` and `rest.go:158`; the HTTP client's timeout and the context in a
push). Browsers, users, files, crashes and clocks have no fairness. `PushReturns` relies on
`ForEachConcurrently` starting every goroutine even after a cancellation, which `Start`
models. In `LoginFlow` the exchange ends within its 30 s; in `InstrumentationUpdate` every
request is answered or given up; in `ConfigMigration` a process runs on, and users run
their commands again (`Again`), which is what "gcx will try again" in the code's warning is
about; in `DevServer` the start, the watcher and every save that has begun go on.

## What the code does otherwise than it says

One run ends in a counterexample.

- `reload_twice`: `gcx dev serve` starts two hubs when it watches files (`serve.go:146` and
  `server.go:194`). One of them closes a channel that the other is about to send on, and
  the server ends. `connection.go:33-34` says that this race is covered.

Further divergences that the models contain, but no run is spent on:

- `docs/architecture/auth-system.md:368` says that a refreshed token "is not exposed to
  protected requests until persistence succeeds". `RoundTrip` and `FreshToken` read the token
  in a critical section of their own after `maybeRefresh` (`ReadToken`), so a goroutine that
  passed the check just before the token aged sends the token of another goroutine's flight,
  which is not persisted yet and may never be.
- The same document (`:373-375`) says that persistence "never overwrites a newer login or
  refresh". The compare-and-swap compares refresh tokens alone (`GenerationChanged`). With an
  issuer that keeps the refresh token (`Rotates = FALSE`), a late retry replaces a newer
  access token by an older one.
- `CONSTITUTION.md:128` says that a push treats local files as authoritative. A resource that
  takes the former natural key of another resource of the same request is matched with that
  one's object, and the two overwrite each other; both are counted. `PushedStaysUnlessReused`
  excludes it.
- A pasted URL that fails in its exchange never gives its claim back (`exchangeGuard`): later
  pastes are answered by silence, the browser by a success page, and the login waits until
  the user cancels it. `flow.go:251` says there "The paste route won the race, and the login is
  complete". `FlowEnds` excludes it (`Abandoned`).
- The defers of `runWithCallbackServer` run in reverse order: `paste.Close` flushes the
  terminal (`paste.go:162`), and only then `server.Shutdown` waits up to five seconds for the
  callback's handler (`flow.go:173-177`). A redirect URL that is pasted in these seconds is
  read by nobody, and stays for the next prompt or the shell: the leak "that the whole paste
  route exists to avoid" (`paste.go:158-161`). `TerminalReleased` says what is true: only lines
  typed after the flush are left (`flushed`).
- `remove` and `configure --use-defaults` compare nothing before they write, and a late write
  undoes what it has not seen; `UndoesOnlyTheUnseen` says exactly what is at stake. A namespace
  that is removed after the precheck is reported as changed (`ReportIsTrue` excludes it).
- A migration that is killed while it writes its backup leaves a partial one, and every later
  migration of that file is deferred, although the warning says that gcx will try again
  (`Blocked`). A backup that such a process had written but not synced is taken as it is by
  the next migration, which does not sync its data either (`unsynced`).
- `migrate_preflight.go:29-32` wants an unproven overlap of a mixed set to fail closed, but
  `rejectMixedLayerEntryOverlap` (`:393-433`) compares the names of stacks and of cloud entries
  only. A legacy layer that gives a context of a v1 layer nothing but a part of the cloud
  credentials makes no stack, and its cloud entry has a name of its own (`layerEntrySuffix`):
  the set is loaded, and the credentials of the v1 layer are replaced as a whole where the
  legacy schema overrode single fields. Likewise a data source that one layer has in the map
  and the other as a field. It takes a file that was migrated where it was the only layer
  (`apart`); `ViewKept` promises only the stacks then. Without this
  exception TLC finds such a load after fifteen steps.
- The preflight proves the layers as it saw them; the migration rereads its own file under the
  lock and not the others. A migration of one file with `--config` proves nothing about the
  layers at all (`disturbed`). A v1 file that is edited beside one that may still be legacy is
  taken for what it says then: edited back after the other was migrated, the two need not mean
  what they once did together. `disturbed` leaves this out too, as `ViewKept` speaks of files
  that nobody edited; with one rewrite, as in the run, it cannot show, with two it does.
- `docs/architecture/data-flows.md` speaks of fresh dashboard data. An entry of the collection is never
  removed: after a change of a file's `apiVersion` or namespace the old entry stays beside the
  new one and `Find` returns either; after a change of its name the old entry still leads a
  save to the file, which then overwrites another dashboard (`SourceSaidIt` is what remains
  true). What changes between the first reading and the start of the watcher is not seen
  (`missed`); a removed file stays in memory; with `--script` a change of a file that was given
  as an argument runs the script and is not read.
- A save is answered with 200 although its file was replaced by an editor meanwhile, and is
  nowhere (`linked`). A save that is cut off by Ctrl-C leaves its file empty: `Start` returns
  when `Shutdown` begins, not when it ends (`server.go:212-222`).
- `FreshToken` may return the empty string without an error: the token it reads after the
  check may just have been cleared by a denied refresh (`transport.go:135`, the same second
  critical section; `auth-system.md:394-395` wants a blocked
  process never to "accidentally send an invalid access token").
- `rest.go:381` says that a zero expiry "triggers renewal on first request"; `Usable`
  (`transport.go:183`) takes a zero expiry as usable, so it does not.
- Without `--on-error abort` a failed folder is recorded and what is in it is pushed all the
  same (`pusher.go:274`), although `folder_hierarchy.go:109-110` speaks of a guarantee.
  `ParentExistsOrStopped` states the case in which it holds; `ParentExists` does not hold.
- A reader may answer a hello on a channel that the hub has closed
  (`connection.go:51`). `net/http` recovers the panic, but the `ws.Close` after the loop is
  skipped, so a writer stuck with a slow browser stays: `HandlersEnd` asks for a closed
  websocket for this reason. A reader may also wait for room in a channel whose writer has
  ended, until the next broadcast.
- Two resources of a request with one and the same natural key are both created, as the
  list they share is older than either. `CreatesNoDuplicate` assumes different keys.

## What is proved

All proofs are checked by TLAPS without assumptions beyond those named on the constants
(`TokenRefreshAssumption`, `ResourcePushAssumption` and so on), which say that
sets are disjoint or finite and numbers are natural, in `ConfigWrite` that there is an
account for every field, and in `ResourcePush` that the missing list (`None`) is no list.
`ViewStays` has one more hypothesis, `OneAlone`, which is a fact about how the commands are
called and which TLC evaluates for the instance of the run (`OneAloneHere`).

- `TypeCorrect`: the types of `TokenRefresh`.
- `OneFlightAtATime` (`SingleFlight`), `OnlyStoredPresented` (`PresentsStored`),
  `SuccessPersists` (`SuccessMeansPersisted`) and `OnlySuccessorsWritten`
  (`NeverOverwritesNewer`), for any number of processes, goroutines, destinations and
  generations. `PresentsStored` is not inductive: that the stored generation is the one in
  memory while the call is under way needs that only the holder of the lock writes, that a
  process that is down has no goroutine on the way, that an answer and a pending
  generation are held by the stage that produced them (`AnswerHeld`, `PendingHeld`,
  `PendingStages`). `IInv` is their conjunction; the lemmas keep one conjunct each.
- `TokensStayWithIssuer` (`DestinationBound`), where every generation in use has to be
  one that the issuer has handed out already and an answer under way counts too
  (`DestHeld`); and `NeverLockedOut` (`NoLockout`). For that one, with a rotating issuer
  the generations on disk only grow, so a pending generation whose predecessor is still on
  disk has been presented by nobody (`PendingAlive`); with another issuer none is ever
  spent. `HistFrame` and `HistWrite` reduce a step to what it does to the file, to what is
  pending and to what is answered.
- `NoMissingAccount` (`NeverDangling`), `RollbackIsClean` (`FailureLeavesNoTrace`),
  `CommitSettles` (`SuccessSettles`) and the types of `ConfigWrite`, for any processes, fields,
  values, accounts and faults. None is inductive. `IInv` adds that only the holder of the
  lock is past it (`LockOK`), that a transaction names nothing but the accounts it staged
  and what was there, and deletes nothing that its new contents name (`Sound`, `NotNamed`), and
  what each stage knows of the file, of `durable` and of the values it could put back
  (`AtStage`). Deletions only come where `durable` is the new contents alone.
- `WritesImplementStore` (`ImplementsStore`): `ConfigWrite` implements `CredentialFile`. It needs
  `ValuesHeld` besides `IInv`: what has been staged resolves to the values asked for, and
  what an undo would bring back to the values that were there. Then only `Rename` changes
  what a reader resolves, by one whole request; deletions and undoing leave it, and the
  fall-back, as they are; `RestoreFile` and `PowerLoss` go to a fall-back.
- `FoldersFirst` (`ParentFirst`), `CyclesRefused` (`CyclesPushNothing`), `NothingForgotten`
  (`Accounted`) and `DryRunIsDry` (`DryRunWritesNothing`), for every request, hierarchy,
  target and limit. The steps of a goroutine are first shown to come down to `Advance`: it
  starts, goes on or ends with an outcome. The heart of `PushInv` is `LevelByLevel`: a
  folder that waits and is not in the level being pushed is below one that is, or below
  one that waits like itself. `AllReached` concludes from it that when the last level has no
  children no folder is left: those left would be closed under their parents, which
  `HaveLevels` excludes. Without it the other resources could start before a folder.
  `TypesHold` gives the types.
- `FolderThereOrStopped` (`ParentExistsOrStopped`). Its conjuncts are in `AbortInv`: with
  `--on-error abort` no batch follows one with a failure (`NoFailureBehind`), so the folder of
  what has started did not fail, then or since (`FolderNotFailed`), although goroutines of its
  level are still under way when the first failure is seen.
- `PushedStays` (`PushedStaysUnlessReused`) and `NoDuplicateCreated` (`CreatesNoDuplicate`).
  `ObjectInv` says what a list tells at any later time, cached or fetched by one goroutine
  alone: a match in it is still there, and what was on the target before the push and is not in
  it has another key (`ListsTell`, `NoMatch`). `OwnInv` adds which objects can be a resource's
  own, itself and the strangers of its key: under the hypotheses on keys these sets are
  disjoint (`OwnApart`), so no resource writes over another.
- `LateWritesFew` (`LateWritesBounded`). `CountInv` bounds the goroutines by the limit. With
  `--on-error abort` every write that may still take effect when the context is cancelled is of
  one of them (`UnsettledRun`), the one that gave up its own write and failed among them, and
  from then on the set of such resources only shrinks (`Unsettled`), whatever the API applies.
  So the bound is the number of goroutines and not one less: with `--max-concurrent 1` the
  write that timed out can be the late one. It uses the cardinalities of finite sets
  (`FiniteSetTheorems`).
- `NoSilentMiss` (`NoChangeMissed`) and the types of `LiveReload`, for any number of hubs and
  connections, channels of any capacity and any inputs. The invariant `HubInv` follows a
  broadcast: a connection that is due and still registered has not been passed by the range,
  except the one the hub is about to send to (`PassedIsServed`). Another hub does not disturb
  it, because a connection registers once and is registered or closed, not both, from then on.
- `CodeExchangedOnce` (`OneExchange`), `TokenReturned` (`TokenReachesUser`),
  `SuccessPageHasExchange` (`SuccessPageNotInVain`), `TerminalGivenBack` (`TerminalReleased`)
  and the types of `LoginFlow`, for any number of lines and tries. The invariant `LoginInv`
  says who holds the claim: it is taken exactly when one of the two routes exchanges or has
  exchanged, and then the result is with that route, in its channel or with `Run`.
- `OnlyTheUnseenUndone` (`UndoesOnlyTheUnseen`) and the types of `InstrumentationUpdate`, for
  any number of commands, namespaces, services, attempts, rounds and late writes. What a
  command makes of a list is local to one namespace (`Mutated`), so a write that agrees with
  the list except where others have been stays so when anybody else writes (`FreshKept`).
- `ReportsAreTrue` (`ReportIsTrue`), an action property: a command reports only with its
  answer, and then the entry it has just written, or found as it is, is the changed one
  (`ReportedStep`, and `ChangedWanted` about the mutations).
- `BackupsExact` (`RollbackSafe`) and the types of `ConfigMigration` (`TypesHold`, `TypeOK`),
  for any number of processes, layers, contexts, fields and values. That a migrated file has
  the exact backup of what it was is not inductive: it needs how far the backup has come at
  each stage of the process that holds the file's lock, and that while a power loss may
  still take the backup's directory entry the file is not migrated (`BackupInv`).
- `ViewStays` (`ViewKept`), if one layer at most, the user's own, is also loaded alone
  (`OneAlone`: a file that another command's layers do not include is migrated without them).
  `ViewKept` is far from inductive: what a load sees has been read one file after another, and
  each migration was allowed by a preflight of other contents. As long as nothing has been
  disturbed, each layer has one original, whatever schema it is in and whatever a power loss
  may leave of it (`OriginInv`); a file stays what it was read as under its lock, and v1 once a
  living process saw it so (`HeldInv`); and a layer that is v1, or is being migrated by `set`,
  was *cleared* (`ClearedInv`, with `LooksAtOriginals` and `Clears` about the preflight). While no
  file was migrated apart from the others this is the proof of all originals, and everything
  keeps its meaning. From then on (`StaysCleared`) it is that the stacks of the originals mean
  the same in both schemas, or that this layer has no stack that another has; if that is so of
  all layers, the stacks mean the same too (`Apart`, `LoadsShown`). `EditInv` says that edited
  files are only where no legacy one can come back, so a preflight that lets a file be migrated
  looked at originals.
- `SavesReachDisk` (`SavedIsOnDisk`), `TearsExplained` (`TornExplained`), `SourceIsRight`
  (`SourceSaidIt`) and the types of `DevServer`, for any number of files, saves, names and
  versions. `TypeInv` and `SaidInv` say that every object, in the collection, in the
  watcher's hands or in a save's, has a source that once said its name; `DiskInv`
  says what a save that has come to its last stage has left in its file, and who tore a file
  that is torn.

Model-checked only, and why: no safety property of the runs is left without a theorem.
The liveness properties
(`RequestCompletes`, `PushReturns`, `ChangesBroadcast`, `HandlersEnd`, `FlowEnds`,
`CommandsEnd`, `KeepsTrying`, `Settles`) are beyond what TLAPS
proves under fairness.

## What is not modelled

Besides the components marked so in `PROJECT.json`, each with its reason:

- `TokenRefresh`: the HTTP of the refresh endpoint, and the requests themselves.
- `ConfigWrite`: the creation of a new file (`os.Link`), sentinels of the older keychain
  formats, sentinels of other contexts beyond "not resolved", validation, permissions and
  symbolic links.
- `ResourcePush`: the guard's `Delete`, two folders of one UID from two API versions (they
  share a node, and one of them is neither pushed nor counted), resource versions, processors
  beyond "not processed", more than one type with natural keys.
- `LoginFlow`: the HTTP of the endpoints, the browser's start, several sources of the terminal.
- `InstrumentationUpdate`: the time between attempts, the settings of a cluster itself and of
  its pipelines (the same loop), the waits, which change nothing.
- `ConfigMigration`: the contents of a configuration beyond what its contexts say
  (`current-context`, diagnostics); the names of cloud entries (a migration with `--config` has
  no suffix of a layer, and a hand-written v1 file may use any name: then the preflight refuses
  more than `Overlap`), the sharing of an entry by contexts with the same credentials, and the
  endpoints that are derived from a server's address; Tempo's default data source, whose field
  the legacy merge leaves alone (`migrate_preflight.go:526-530`); provider sections without a
  value; the values of credentials, which the comparison with a backup leaves out
  (`migrationDocumentShape`) and whose loss is `SecretsFail`; the self-checks of a conversion.
- `DevServer`: that two saves, or a save and an editor, mix in one file, or that the process
  ends in the middle of a save, is in the model and nothing in the code prevents it:
  `SavedIsOnDisk` and `TornExplained` leave these files out (`alone`, `hurt`) and say little of
  them. The object under another file's source may be a former document of that file, as
  entries are never removed (`Settles`). Left out: the GET handlers and the proxy,
  `--no-watch`, a reader with `StopOnError` (`dev serve` reads without), several resources per
  file (the code reads the first).
- `LiveReload`: the content of messages; a map that two hubs have corrupted without the
  runtime noticing; the start of the second hub and callback (before it no browser is
  connected, so a broadcast reaches nobody).

Hazards seen while reading, in parts that are not modelled, beyond those of `PROJECT.json`:
the response that `retry/transport.go:107` returns after it was drained; a `Retry-After` that
overflows (`:217`); an adapter that could not be made once and never can be in that process
(`adapter/router.go:68`); `local/writer.go:145` truncating before it encodes; a resource that the
API does not support and that `deleter.go:108` leaves out of every count; two commands that
write the same temporary file (`notifier/state.go:58`) or two device IDs
(`telemetry/deviceid.go:50`), where little depends on it.

## Plan

Done, in the order of what a failure costs: token refresh, configuration write, push, live
reload, login, instrumentation with the retries, migration, the dev server's files.

Left, in order:

1. `LiveReload` and `DevServer` composed: a browser ends up showing what the files say.
2. `ResourcePush` over `RetryTransport`: a create that is sent again after a reset connection.
3. `LoginMutation` on top of `ConfigWrite`: minutes between the snapshot and the write.
4. `Puller` and `Deleter` (accounting), the adapter router (a first error that is kept), the
   reader with `StopOnError`.

Proofs: every safety property of a run has a theorem; the next ones come with the properties
of the modules above.

Runs: the number is kept at a dozen that each answer a question, so that all of them can be
repeated at every change.
