# Verification of the Moltbox gateway

TLA+ specifications, TLC model checking and TLAPS proofs for the Go gateway in
`src/internal`, `src/pkg` and `src/cmd`, and for the two generations of Python
before it that the repository keeps in `src/archive/legacy-implementation`: a
gateway with an HTTP server, and a first command line. File and line references
are to that source; `PROJECT.json` maps every definition to its lines.

## 1. The system

The Go gateway is one long-running HTTP server in a container. An operator's CLI
is a thin HTTP client of it. Every request runs in a goroutine of its own, and
nothing serialises requests. The state that matters is in files, so the process
can be killed between any two of them; its own update does exactly that
(`docker rm -f gateway`).

| Component | State | Operations | Talks to |
|---|---|---|---|
| runtime operations (`orchestrator/runtime_state.go`) | replay log and checkpoint of each runtime, staged packages, the runtime's directory | skill deploy, skill remove and rollback, plugin install, plugin remove, checkpoint, reload, lists | deploy state store, `DeployService`, docker |
| service deployment (`orchestrator/manager.go`) | the runtime's directory, rendered compose files, containers | deploy, restart, status, secrets check, wait for containers | docker compose, store, `replayRuntimeDeployHistory` |
| deploy state store (`deploystate/store.go`) | `history.jsonl`, `replay-log.json`, `current.json`, lock files | append a record, load and save the log and the checkpoint, stage a package | file system |
| gateway update (`orchestrator/manager.go`) | checkout, binary, image, container | start the helper, report revision and checksum | docker, git |
| plugin allow list (`runtime_state.go:1857`) | `openclaw.json` | widen, restore, remove entries | plugin install |
| secrets (`secrets/store.go`) | one key file, one file per record | set, get, delete, list, resolve | file system |
| MCP tokens (`tokens/manager.go`) | cache of tokens under a mutex | create, rotate, delete, list, validate | secret store |
| MCP authentication limiter (`gateway/auth.go`) | failures and block of each address | block check, success, failure, compaction | `handleMCP` |
| HTTP server, client (`gateway/http.go`, `client/http.go`) | none | routes, timeouts | all handlers |
| CLI parser (`pkg/cli`), MCP stdio, docker client, runners, ssh wrapper, configuration, scripts | little or none | see `PROJECT.json` | |

The archived Python, as far as it keeps state. The gateway's HTTP server runs
each command in a thread, the first CLI is one process per command, the
bootstrap is a script on the operator's machine that works over ssh. None of
them share a lock but the repository cache's.

| Component (under `archive/legacy-implementation`) | State | Operations | Talks to |
|---|---|---|---|
| service pipeline (`services/.../pipeline.py`, `rendering.py`, `docker/.../engine.py`) | the render directory, active and previous render, records of the last two successes, containers | deploy, rollback, start, stop, restart, self-update | docker compose, repository cache |
| repository cache (`repos/.../adapters.py`) | a checkout, its upstream mirror, a lock file | check out and read, refresh, seed from a bundle | git |
| skill deploys (`runtime/.../skills.py`, `commands/.../skill.py`) | `openclaw.json` and its backup, skill directories in the container | deploy of a skill or plugin, the operations of its recipe | docker, OpenClaw, service pipeline |
| bootstrap (`scripts/bootstrap_remote_gateway.py`) | directories, four checkouts, the gateway container and wrapper on a host | one run of the script | ssh, git, docker |
| target deploys of the first CLI (`moltbox-cli/tools/.../deployment_service.py`, `host_tool_cli.py`, `v2_actions.py`) | runtime root, render directory, containers, snapshots, deployment record | deploy, rollback, restart, stop, configuration sync, skill deploy | docker compose, OpenClaw |
| target registry (`registry_bootstrap.py`, `registry_store.py`) | one record per target, records under older names | migrate, reconcile, load | file system |
| tools server (`service.py`, `http_app.py`, `health.py`) | pid file, state file | serve, stop, health | uvicorn |
| command lines, layouts, models, MCP adapter, tests, TypeScript plugins | none of their own | see `PROJECT.json` | |

Hard to get right, and hard to test, in this code:

- **Unlocked edits.** Each operation loads the replay log, edits it and saves
  it. The lock of the store covers one save only, so two requests that overlap
  can both work from the same log (`runtime_state.go:177`).
- **Partial failure.** A request changes up to four files and a directory and
  then rebuilds the runtime by docker commands that may fail at any point;
  each operation has its own rollback.
- **Kills.** The checkpoint is saved before the log is cleared
  (`runtime_state.go:1163-1172`), the lock is a file that survives its owner.
- **Order.** Replay runs plugin events before skill events while the effective
  state is decided by the last event of each item.
- **Long sequences.** The early answers (`:128`, `:333`) and the removal of one
  event of several (`:540`) depend on what earlier requests left.
- **Caches.** The token cache is written by calls that never loaded it and by
  loads that overlap deletes.
- **Torn files** (Python). Records, configuration and metadata are written in
  place and renders are replaced by remove and copy, so a kill leaves a part
  beside what was there before (`pipeline.py:83`, `registry_bootstrap.py:125`).
- **Undoing with calls that can fail** (Python). A failed deploy starts an older
  revision with the same docker calls that have just failed
  (`pipeline.py:277`, `deployment_service.py:221`).
- **Two writers** (Python). OpenClaw writes the configuration that deploys read,
  edit and write back (`skills.py:390`, `runtime_config.py:200`); two servers
  share one pid file (`service.py:38`).
- **Doing it again** (Python). A bootstrap that failed anywhere is repaired by
  running it again over what it left (`bootstrap_remote_gateway.py:744`).

What would make each component correct:

- *runtime operations*: the declared content changes only as requested, a failed
  request changes nothing, the runtime is rebuilt to exactly what is declared,
  every event in the log can be replayed, every request is answered;
- *store*: no record lost, no answer wrong, the lock always released;
- *secrets*: a stored record stays readable; a reader sees an old or a new value;
- *tokens*: a deleted or rotated token is refused, a created one accepted;
- *limiter*: no success within the block, a block ends;
- *gateway update*: the reported revision and checksum are those of the running
  binary;
- *routes*: every command of the CLI reaches the handler of its name;
- *service pipeline*: what is kept for a rollback was validated, a failed deploy
  ends on the last success, a success is what runs;
- *repository cache*: one command at a time in the checkout, and files no older
  than the source was at the start;
- *skill deploys*: a confirmed skill survives the deploys of others;
- *bootstrap*: ok means everything is in place, and running again gets there;
- *target deploys*: one failure leaves the target up, the record is true;
- *registry, tools server*: records survive migration, health is true.

## 2. Modules

| Module | What it is |
|---|---|
| `ReplayState` | the vocabulary: items, contents, events, effective state, replay order, copies of trees |
| `RuntimeContract` | abstract: the declared content of one runtime, edited by one request at a time |
| `RuntimeDeploy` | detailed: the six operations, their rollbacks, `DeployService`, kills |
| `RuntimeAudit` | `RuntimeDeploy` with the state a request found as a history variable |
| `AppendLog` | abstract: an append-only history with true answers |
| `DeployStore` | detailed: lock file, read, temporary file, rename |
| `SecretStore` | key file and record files without a lock |
| `TokenManager` | MCP tokens: the stored secrets and the cache over them |
| `MCTokenManager` | `TokenManager` for TLC, with its symmetry |
| `McpAuthLimiter` | failed authentications of an address, and the block they end in |
| `ServicePipeline` | archived gateway: deploy, rollback and self-update of one service |
| `RepoCache` | archived gateway: the cached checkout, its lock, refresh and seed |
| `SkillDeploy` | archived gateway: skills and plugins in one OpenClaw container |
| `Bootstrap` | archived gateway: bringing up a host by a script that is run again |
| `MCLegacyGateway` | the four for TLC, with the fairness of each |
| `LegacyTarget` | first CLI: deploys, rollbacks and configuration of one target |
| `TargetRegistry` | first CLI: the record of one target and its migration |
| `ToolsServer` | first CLI: server process, pid file, state file, health |
| `MCLegacyTools` | the three for TLC, with the fairness of each |
| `RuntimeDeployProofs` | lemmas on logs and contents; types and control of `RuntimeDeploy`; requests come to an end; a successful deploy is an exact rebuild |
| `RuntimeContractProofs` | `RuntimeDeploy` implements `RuntimeContract`; a failed request puts back what it found, recorded changes take effect, events keep their packages, the files agree between requests |
| `DeployStoreProofs` | types and safety of `DeployStore`, which implements `AppendLog` |
| `SecretStoreProofs` | types and safety of `SecretStore` |
| `TokenManagerProofs` | the cache agrees with the store, ended tokens stay ended |
| `McpAuthLimiterProofs` | a block is earned and holds until its time |
| `LegacyGatewayProofs` | types and safety of the archived gateway's four parts |
| `LegacyToolsProofs` | types and safety of the first CLI's three parts |

Operators whose comment starts with "Mutant:" are not part of a specification.
Each is a wrong version of the definition after it, with a bug the code could
plausibly have; they show that the properties notice such bugs.

### RuntimeDeploy

State and code: `checkpoint` is `current.json` with its snapshot directory
(`meta` is the list in the file, `snapshot` the tree), `log` is
`replay-log.json`, `packages` the staged package directories by event,
`component` the runtime's directory, `history` the deployment history (as a set
of request and kind of record), `pc` and `req` the goroutines with their local
variables. Contents map each skill and plugin to a digest or `None`.

A step is one access to a shared file or directory. Each request runs through
named steps; the actions are named for the code:

    skill deploy    ReadBaseline StagePackage LoadLog SaveLog  deploy  AppendRecord
    skill remove    LoadLog SaveLog  deploy  AppendRecord
    plugin install  Backup StagePackage PackPlugin InstallPlugin ReadBaseline
                    ReadEffective LoadLog SaveLog  deploy  AppendRecord
    plugin remove   ReadEffective LoadLog ReadBaseline SaveLog  deploy  AppendRecord
    checkpoint      Capture LoadPrevious LoadLog ReadSkills ReadPlugins
                    SaveCheckpoint ClearLog  deploy  AppendRecord
    reload          deploy
    deploy          LoadBaseline Reset CopySnapshot Up LoadReplay
                    (ReplayEvent Repack? Reinstall?)* RecordDeploy
    rollback        UndoCheckpoint UndoLog Unwind

The replay of a plugin install checks the staged directory and removes its tarball
(`ReplayPlugin`), runs npm pack (`Repack`), and installs what that left
(`Reinstall`), so a kill or the replay of another request can fall between.
Skill rollback runs the same function as skill remove. Restart of a runtime
calls `DeployService` as reload does.

Abstractions, and why they lose nothing the properties look at:

- an effective-state query loads the checkpoint and the log; it is one step. A
  single request cannot tell. With overlap a write between the two loads is left
  out; `lost_update` already shows that overlap is unsafe;
- the load, edit and save of a store call are atomic or not as in the code:
  load and save are two steps, a save is one (it takes the store's lock, whose
  implementation is `DeployStore`), so a lock that times out is the `store` fault;
- a failing docker command, file operation, npm pack, store write or append is a
  fault of that kind. It leaves any of the states it can be cut short in (for a
  copy any subset of the items, for a skill's replay the new version too).
  `DeployFailed` is the error return of `DeployService` as each caller handles it;
- checking a staged directory's digest and removing its tarball are one step;
- names are canonical; the code's mix of exact and case-insensitive comparisons
  is left out, and so are package versions apart from the digest, discovery of
  repositories, rendering, and the read-only lists;
- the allow list that a plugin install widens for its duration is not part of
  `component` (planned as a module of its own).

### DeployStore

`AppendDeployment` under `withFileLock` with `writeFileAtomically`: `TakeLock`
is the exclusive create, `GiveUp` the time-out or an error of that create,
`ReadFile`, `WriteTemp`, `Rename` the body, `Unlock` the deferred remove and the
return to the caller. `Crash` kills the gateway and leaves the lock file. The
removal of the lock file does not fail in the model (its error is dropped by
the code). On Windows the rename may be preceded by a remove; the model is of
the other platforms.

### SecretStore

`Begin` is a call of `Set`, `Get` or `Delete`. Each then runs `ensureLayout`:
`Stat` (is there a key file), `Scan` (`hasEncryptedRecords`), `CreateKey` and
`FillKey` (the two halves of `os.WriteFile`). A `Set` goes on with `ReadKey`,
`OpenRecord`, `WriteRecord`; a `Get` with `ReadRecord` and `ReadKey`, which
stands for opening the record too; a `Delete` with `RemoveRecord`.

- Calls overlap from the start: two first uses can both find no key file, and the
  later key then replaces the earlier (`store.go:221-237`). The history `settled`
  has the calls that began when there was a key and nobody was about to make
  another; `SecretsReadable` and `FoundRecordOpens` are about what they store.
- A record is the key it was encrypted with and a value; which key opens what is
  all that AES-GCM means here. A name stands for a scope and a name in it, so
  `Scan` over all names is the scan of the four scopes. Invalid names return
  before any file is touched and are left out.
- `os.WriteFile` truncates and then writes, so both files pass through `Torn`, and
  a kill (`Crash`) can leave them so. Two overlapping writes of a record can
  leave a file that does not decode. A writer whose file is removed under it
  writes to an unlinked file (`WriteUnlinked`).
- `LoseKey` and `RestoreKey` are outside the program: state copied without its key
  file, and the key (`saved`) put back. They happen between calls only.
- `List` reads file names, `Resolve` is a series of `Get`s. A file operation that
  fails for another reason (full disk, permissions) is not modelled.

### TokenManager

`stored` is the secret of each token name, `cache` and `loaded` are the fields of
`Manager`; a kill keeps the first and empties the others. A change is
`BeginChange`, then `OpenSecret`, `WriteSecret`, `PutCachedToken` (`Create` and
`Rotate`, which differ in their answer only) or `RemoveSecret`,
`DeleteCachedToken` (`Delete`). `BeginRead` is `ValidateBearerToken` and `List`:
`CheckCache` answers from a loaded cache, otherwise `ListSecrets`, `GetSecret` for
each name and `FillCache` load it. Each access to the cache under the mutex is one
step, each access to the store another.

- A token is the number of the call that generated it, so that tokens are
  different; digests compare as tokens do. A property speaks of all entries a call
  answers from, so it is about any header presented.
- Every store call can fail. A failed write leaves the secret torn, and a load that
  meets a torn secret ends in an error, as in the code.
- The order in which a load reads the names is left open.
- Anything overlaps: two changes of one name, a change and a load of the cache. A
  call notes the names of the changes it `met`, and the tokens that had `ended`
  when it began or that its own answer ends.
- Histories: `given` (tokens generated for a name), `revoked` (those
  whose deletion or rotation was answered), `known` (names this process has
  loaded or changed), `stale` (names last cached by a load beside a change of
  them), `crossed` (names last cached by a change beside another of them).
- Changes of token secrets through the `secrets` command, which the cache never
  learns of, are left out.

### McpAuthLimiter

`failures` is the limiter's map (an address without an entry has the blank one),
`clock` the time. A refused request of `handleMCP` is `ReadClock`, then
`RecordFailure`: the code reads the time before it takes the mutex, so other
requests and the clock may pass in between. `Compacted` is `compactLocked`,
`Counted` the rest of the body. `RecordSuccess` is an authorized request, which
is served also while its address is blocked. A validation error answers without
touching the limiter. `Restart` is a new process.

Which request is authorized is left open here; that is `TokenManager`. Two
history variables: `blocked`, until when an address was told it is blocked,
and `recent`, when its last `MaxFailures` failures were counted.

### ServicePipeline

`disk` is the output directory all commands share (`rendered`) and the service's
state directory: `active-render`, `previous-render`, `last-success.json`,
`previous-success.json`. A directory is a revision, absent, `Torn` (no usable
`compose.yml`) or `Part` (`compose.yml`, and not all files of a revision); a record
is a revision, absent or torn. `containers` is what they were made from and
whether they run.

    deploy    Prepare Render Fill  KeepSuccess WritePrior KeepRender CopyPrevious
              Pull Remove Up Poll*  then  Publish CopyActive Record WriteLast
              or  Restore RestoreUp
    rollback  Restore RestoreUp
    update    Prepare Render Fill UpdateNetworks LaunchHelper  (then HelperUp)

Directories are removed and filled file by file: `Prepare` wipes the output
directory, `Render` writes the first files, `Fill` the others, and the copies of a
render are two steps too. docker asks for `compose.yml` only (`engine.py:196`), so
`ComposeUp` starts a `Part`, which the commands of an overlap and a rollback after
a kill can meet. A `docker rm` that fails is ignored, as in the code
(`engine.py:168`), and the compose that follows fails over what it left.

`Lifecycle` is start, stop and restart, `Kill` a kill of the gateway between any
two of these steps. A pull or compose that fails only clears `ok`; the polls are
made all the same, as in the code. `Poll` has the two conditions of
`engine.py`: a container with a health check passes at once, one without after
two ready polls or at the deadline. The rendered text, the networks' names and
the read-only status and logs commands are left out.

### RepoCache

A checkout is the number of its newest commit. `TakeLock`, `ReadAge`,
`StealLock` and `Release` are the lock file's context manager: the age is read
in one step and the file removed in another, and `Release` removes the file
whoever made it. `Inside`, `Clone` and `Pull` are its body, `ReadHead` and
`ReadFiles` the caller after the lock is gone. `RefreshMirror`, `SeedMirror`,
`RefreshCache` and `RefreshPull` take no lock; what keeps two pulls apart is
git's own `index.lock` (`index`). Upstream only gains commits (`Push`), so every
pull is a fast-forward. `local` tells a source given as a path from a URL.

### SkillDeploy

`config` is `openclaw.json` by the plugins it allows and enables and those
OpenClaw has recorded as installed or keeps a load path of. A deploy of a plugin
is `ReadConfig Sanitize Wipe Copy Install Backup Write Restart Validate`, one of a
plain skill `Wipe Copy Restart Validate`; `RunPlan` is the rest of the recipe,
whose failed operations are results nobody reads unless they raise. `Write` writes
what was read at the start, so it drops what `Install` made OpenClaw record, and
merges the package's `example-config.json` into it. A list in that file replaces
the whole list (`skills.py:95-102`): for the plugins in `Listing` any set of
plugins may be what is left (`Overlaid`), and the history `displaced` has those
that it took out. Of the overlay only these lists are kept. `Without` takes a
plugin's load paths out by substring, so the id of a plugin in `Short` takes out
those of all. OpenClaw is external: it does not start without a configuration it
can parse, and loads the enabled plugins whose files are whole. Package manifests
are left out.

### Bootstrap

A step is a call over ssh that does its work or not and succeeds or not. The
gateway's checkout is fetched and put at a ref, and a branch's local head does
not follow its remote; the other checkouts are pulled. `Deploy` has the two ways
of the script: by a helper container when a gateway was found, whose mount makes
a directory of a missing runtime cache, or directly, which clones the cache.
The script is bounded by its runs, and `Push` is anyone's commit meanwhile.

### LegacyTarget

`root` is a runtime's `openclaw.json` (whole or not, with or without the entries
OpenClaw added), `staged` the file of the same name in the directory where
configuration syncs are staged, `snaps` the snapshot directories, `record` the
newest record. A command has a plan of operations; a skill deploy is a deploy, a
configuration sync and a restart. A deploy and a sync are

    (Wipe Render) Fill Inspect (CopySnapshot OpenMetadata WriteMetadata)
    Seed OpenRoot WriteRoot
    Remove Up Validate* (Restore RestoreUp Validate*) OpenRecord WriteRecord

    Unstage Stage Seed OpenStaged WriteStaged OpenRoot WriteRoot

where every primitive is a process whose failure is a result the plan goes on
with. A runtime is rendered into a new directory, another target into one that
is wiped first (`Wipe`: its files go, it stays) and filled file by file (`Render`,
`Fill`), with `Torn` and `Part` as in the pipeline; here too compose asks for
`compose.yml` only. All syncs of a component are staged in one directory
(`v2_actions.py:239-247`): one command can remove or copy over what another has
merged there, and then writes, or makes the other write, what OpenClaw's entries
are missing from (history `restaged`). A primitive that outlives its killed
command is a kill that came later. `OpenClawWrites` may add an entry whenever the
containers run. The text of the renders, the component table and the chat
command are left out.

### TargetRegistry and ToolsServer

`TargetRegistry`: every command does `Look OpenMigrated WriteMigrated Unlink
Reconcile WriteReconciled Load` on a record written in place; a record is
missing, torn or whole, and has a creation date. `ToolsServer`: `Check WritePid
WriteStarting Startup Bind`, then `Stop WriteStopped ClearPid`. uvicorn is
external: the lifespan says "ready" before the port is bound, and a port that is
taken ends the server through its shutdown hook. An application that cannot start
ends the process with `SystemExit`, which `service.py:54-71` does not catch: both
files stay as they are. Pids are used again.

## 3. What the runs check

Constants of the runtime runs: one skill, one plugin, two versions. One item of
each kind covers the order of replay between the kinds, two versions tell an old
install from a new one and a stale answer from a true one. Three requests are
enough for install, checkpoint or second install, and a third request that meets
what they left; four are used where no failure multiplies the states. One
handler is enough where requests do not overlap.

| Run | Question | Bounds |
|---|---|---|
| `sequential` | `QuiescentInSync`, `RecordedChangeIsEffective`, `RequestsAnswered`, `ImplementsContract`: without failures, do the files agree after each request, is a recorded install or remove effective, is every request answered, and is any point of a request safe to be killed at? | 4 requests, 1 kill |
| `faults` | `TypeOK`, `DeploySucceedsRebuilt`: after any two failures of any kind and a kill, is a deploy that reports success an exact rebuild? | 3 requests, 2 failures, 1 kill |
| `rollback` | `FailedDeployRestoresState`, `UnfinishedInstallRestoresRuntime`: do the rollbacks restore what the request found, also where an earlier one was killed? | 3 requests, 2 failures (not of store writes), 1 kill |
| `overlap` | `RecordedEventsStaged`: do recorded installs keep their packages through races, failed recordings and kills in the middle of a replay? | 2 requests in parallel of 3, 1 failure (npm pack or a record), 1 kill, 1 version |
| `store` | `RewritesCurrentContent`, `LockReleased`, `ImplementsAppendLog`: is no record lost and every answer true, with locks left by kills, and does every error path release the lock? | 3 writers, 4 appends, 1 failure, 2 kills |
| `secrets` | `SecretsReadable`, `FoundRecordOpens`: does one key open all stored records, and does a `Get` open the record it found, once the key is settled? | 2 callers, 2 records, 5 calls, 1 kill, 1 lost key |
| `tokens` | `CacheAgrees`, `RevokedRefused`: does the cache agree with the store between changes, and does an answered deletion or rotation end the token, whatever overlaps? | 3 callers, 2 names, 4 calls, 1 kill, any failing file operation; callers and names are symmetric |
| `limiter` | `BlockKept`, `BlockEarned`: does a block hold until its time, and does it take enough failures within a window? | 2 handlers, 2 addresses, 2 failures make a block, window = block = 2, time 1 to 5 |
| `legacy_gateway` | the archived gateway, below | 2 commands, 3 started (2 in the cache), 1 failure (2 in the bootstrap), 1 kill, 2 revisions, 2 plugins and a plain skill, 3 runs of the bootstrap |
| `legacy_tools` | the first CLI, below | 2 commands, 3 started, 1 failure, 1 kill, 2 revisions, 2 older names of the target, 3 servers with 2 pids |

`RuntimeContract` is the abstract specification of the runtime operations. What
counts as declared is the effective state, except while a failed checkpoint is
being undone: between the restore of its file and the restore of the log the
files say less than the rollback is about to bring back.

`overlap` has the operations that stage packages, and a reload, which replays; the
others stage nothing, and the theorem `EventsKeepPackages` covers them too. Two
requests race and a third replays what they left. A recorded install may lack its tarball,
and the property says when: while a replay packs again, or after a kill or a failed
npm pack in the middle of one (`runtime_state.go:1679-1711`). The digest of the
staged directory is checked before it is packed, so every later deploy that meets
the event then fails. Requests that end in an error remove their
package although another may have saved a log with their event (`keepArtifacts`);
that is why the property is about recorded ones.

`secrets`: calls overlap freely, first uses included. Those can lose a secret: two
of them find no key file, and the second key replaces the one a `Set` has already
encrypted with. `SecretsReadable` therefore speaks of the secrets whose `Set` began
with the key settled: no key ever replaces theirs, through overlap, kills, torn
files and a key that is missing for a while. Five calls are enough to create the
key, be killed, store two records, lose the key and try to store again; a write
whose key was read before the other calls ran needs two callers.

`tokens`: changes and loads overlap freely, since the store is read and written
outside the mutex. A load beside a change of a name can install what the change has
replaced, and two changes of a name can reach the store in one order and the cache
in the other (`tokens/manager.go:40-206`). The cache is then wrong of that name until its
next change, or the next start of the gateway; `CacheAgrees` says that this is the
only way, and `RevokedRefused` that of the two only the load brings a revoked token
back. Four calls are enough for a token, its deletion beside a load, and a validation
afterwards, or two changes beside each other and a validation. `CacheAgrees` says of
names this process has neither loaded nor changed only that the cache holds nothing
wrong: after a restart a `Create` marks the cache as loaded
(`tokens/manager.go:206`), and tokens stored before are then refused.

`limiter` has window and block of the same length, as the gateway has. Time 5
is enough for a window, its block and the moment at which both end, where the code
compares once with "before" and once with "after". Two failures are the least for
which a window matters; with three the result is the same (time 1 to 4, window 1).

`RecordedChangeIsEffective` has two exceptions in its statement because the code
has them. Of a plugin installed twice since the checkpoint a remove takes out
one event, and the older install comes back (`:540`); a plugin that the
checkpoint's snapshot holds and its metadata does not list is not removed. It is
about requests that are recorded: the early answer "already present" (`:128`)
looks at the checkpoint alone and records nothing, so deploy v1, checkpoint,
deploy v2, deploy v1 leaves v2 in effect, and no property here says otherwise.

Two things the runs leave out because the code does not have them.
A store write that fails while a rollback runs leaves the edit in place (its
error is dropped, `:422`), so `rollback` has no `store` faults. And a
gateway killed in the middle of a checkpoint's rollback keeps the old checkpoint
with an empty log (`:1187`, in the list of hazards); `sequential`, the run of the
contract with kills, has no failing call, so it does not start that rollback. The
theorem `OnlyCutUndoBreaksContract` says that this is the only such step. The types of
`DeployStore`, `SecretStore`, `TokenManager` and `McpAuthLimiter`, and the
contract under failures, have no run: they are proved.

`legacy_gateway` and `legacy_tools` each hold several models that share no
state. A behaviour follows one of them (`subject`) and the others stay at their
start, so the states add up and do not multiply. What they say:

| Property | Of | Left out, because the code does not have it |
|---|---|---|
| `KeptIsValidated`: the renders kept for a rollback were validated, or are copies a kill cut short, and without a kill no container is made from a part of a render | pipeline | overlap: deploys share one render directory |
| `RecordsMatchRenders`: between commands each record names the render beside it | pipeline | overlap, kills (record and render are two writes) |
| `FailedDeployRestoresLast`: containers a failed deploy starts again are the last success | pipeline | overlap, kills |
| `SuccessIsWhatRuns`: a recorded success runs and is the active render | pipeline | overlap |
| `LockExcludes`: one command in the block the lock guards | cache | after a lock was stolen: the next owners can meet |
| `FreshRead`: what a command reads is as new as its source was at its start | cache | |
| `RefreshBringsCacheUp`: a refresh brings the cache to the head it reports | cache | |
| `ConfirmedStays`: a confirmed skill stays enabled, in place and loaded | skills | overlap: the later write drops the earlier plugin; plugins that the list of another package took out (`displaced`) |
| `BackupCoversTornWrite`: the backup is whole, with all confirmed plugins, when the last write is cut short | skills | overlap; displaced plugins; the earlier, sanitising write has no backup |
| `OkMeansReady`: ok means up, installed and as new as asked for | bootstrap | a branch as ref over an existing checkout, which stays where it was (`:569`) |
| `RerunsRepair`: with more runs than failures one ends ok | bootstrap | a host with a gateway and no runtime cache |
| `EveryCommandEnds` | pipeline, cache | |
| `SnapshotsAreWhole`: a snapshot a rollback would choose is whole, wherever deploys were killed | targets | overlap outside runtimes |
| `OneFailureLeavesItUp`: one failing call leaves a running target running | targets | overlap, a second failure |
| `RecordsTellTruth`: an ok answer is the render that runs, a "pass" is a running target | targets | overlap, for "pass" a second failure |
| `OwnEntriesSurvive`: OpenClaw's own entries survive deploys and syncs, also when they overlap | targets | an entry added between a command's read and its write; a sync staged over another; a kill between truncating and writing the file |
| `CreationDateKept`: a migrated record keeps its date | registry | overlap, kills |
| `CorruptedOnlyByOverlap`: a command alone always finds a record it can load, whatever was killed | registry | |
| `HealthTellsTruth`: a listening server is reported ready, a ready one is alive | server | a second server beside the first, a pid used again |
| `TargetCommandsEnd` | targets | |
| `GatewayTypeOK`, `ToolsTypeOK`: types; polls validate only containers that are there, containers come from a directory with `compose.yml`, checkouts hold pushed commits, one server listens | all | |

The overlap, the kill or the stolen lock is in the model each time, as history;
only the property leaves it out, and says so. Three commands are what a deploy
over a failed deploy over a success takes (or a deploy, its rollback and a
failed deploy; the pipeline may also start with one success behind it, which
leaves three more), and two overlap: `MaxOverlap` lets the second command
overlap the first and the later ones run alone, which is enough to meet what an
overlap left. In `LegacyTarget` nothing more starts or fails after an overlap.
Two revisions tell the old from the new, and one has a health check and the other
none. One poll before the deadline gives "again", "passed" and "failed". A
lock that ages once is stale, and a sleep before the time-out lets it age or be
released. Two failures of the bootstrap and three runs are what repeating it is
about; one push makes a checkout old.

Fairness: `FairSpec` is weak fairness of each handler's steps. A goroutine that
was started runs on, every call it makes returns (commands have a context with a
time-out, `http.go:614-617`; the wait for containers has a deadline). Nothing is
assumed about requests being sent, and nothing about locks being free.
In the archived code it is weak fairness of each command's own steps (`Work`) in
the pipeline, the cache and the targets: threads and processes are scheduled,
and docker and git calls return. Kills, pushes, ageing of the lock and OpenClaw's
writes are never owed. The bootstrap is also started again as long as runs
remain: an operator's repetition, which is the premise of `RerunsRepair`.

Deadlock is not checked: all models stop when their bounded requests are used up.

### Disagreements between the code and what it says

| Run | What TLC finds |
|---|---|
| `lost_update` | two concurrent skill deploys report success, one event is missing from the log (`runtime_state.go:177`; a test expects the event of a successful deploy, `runtime_state_test.go:446`) |
| `checkpoint_drift` | after a failed reload a checkpoint lists a skill its snapshot does not hold and clears the event that would install it (`:1163`; test at `:638`) |

## 4. What is proved

For every value of the constants, with no assumption but those named in the
modules (bounds are numbers, `None` is not a version, skills and plugins differ):

- `StoreTypeCorrect`, `NoLostAppend`, `StoreImplementsAppendLog`
  (`DeployStoreProofs`). The invariant adds to the types: while a writer holds the
  lock the lock file exists, two writers never hold it together, the record of a
  working writer has its own number, which is in the file exactly when the writer
  has renamed, and a writer past its read has seen the file as it is. Mutual
  exclusion is what makes the last part inductive: nobody else can rename. After a
  kill no writer holds the lock and the lock file may stay, which only makes
  `TakeLock` impossible. The refinement maps the rename to `Commit`, the unlock to
  `Confirm` or `Refuse`, a time-out to `Refuse`, a kill to `Kill`; all other steps
  stutter.
- `RuntimeTypeCorrect` (`RuntimeDeployProofs`) for any number of handlers,
  overlaps, failures and kills. Types alone are not inductive. `Fits` says which
  operations reach which steps and that a remove about to save has found the
  install event it takes out (`Findable`) in the log it loaded, else
  `DropLatestInstall` would be applied to a log without one; `TodoInEvents` says
  that the replay loop runs over positions of the log it loaded, which the log
  itself may not have any more when requests overlap.
- `DeployRebuilds` (`RuntimeDeployProofs`), for requests that do not overlap
  (`~Overlap`), with any failures and kills: `DeploySucceedsRebuilt`. The invariant
  `Rebuilding` says what each step of `DeployService` has established; its core is
  the invariant of the replay loop, `Progress`: an item's events still to come are
  later in the log than those replayed, and the directory holds what the last
  replayed event of each item left, or the snapshot's version. The loop takes
  plugin events before skill events, while `Effective` takes the last event in the
  log. The two agree because all events of an item are of one kind
  (`EventFields`), so within an item the loop follows the log. When nothing is left
  to replay, `Progress` is the definition of `Effective` (with `LastExists`: an item
  with events has a last one, by well-foundedness of the positions).
- `OnlyCutUndoBreaksContract` (`RuntimeContractProofs`), with `~Overlap`, no `store`
  faults (section 3 says why) and any other failures and kills: every step is one of
  the contract, a stutter of it, or `CutUndo`, the kill between the two writes of a
  checkpoint's rollback. `RuntimeImplementsContract` is the refinement where that
  step cannot be taken: without kills, without failures, or without checkpoints. The
  invariant `Holds` relates the files to what the running request
  remembers: at its save an edit's log is the one it loaded (nobody else wrote),
  and from then to its undo it is `EditedLog`, whose effect differs from the loaded
  log's in the request's item only (`EditedChangesItem`); a checkpoint's collected
  list is the effective state it started from, and until its undo is over the
  saved metadata is the effect of the old checkpoint and log. `WorkDeclares` then
  shows that every step changes at most the request's item; `EffectiveTwice` makes
  the two writes of a checkpoint, its undo, and a kill between the writes stutters.
- `FailedDeploysRestoreState` and `UnfinishedInstallsRestoreRuntime`
  (`RuntimeContractProofs`), with `~Overlap` (the first also without `store` faults)
  and any failures and kills, of `AuditSpec`: a rollback puts back what the request
  found. What it writes is what the request holds (the loaded log, the previous
  checkpoint, the copy of the directory), read at different steps; `AuditInv` says
  of each of them at which steps it is the value `before` has, and that the files
  not yet written still are.
- `RecordedChangesAreEffective` (`RuntimeContractProofs`), with `~Overlap` and any
  failures and kills: `RecordedChangeIsEffective`. To the invariant of the rebuild
  and of the edited log, `Recording` adds what an operation about to be recorded has
  done, and `BaseRead` that a remove works on the baseline it read. No rollback can
  follow the record in the same request, so what is true there stays.
- `EventsKeepPackages` (`RuntimeContractProofs`): `RecordedEventsStaged`, for any
  overlap, kills and failures but one (`"repo"`: a skill's sources that change while
  they are copied are logged with the digest they had before). The invariant cannot
  speak of the log alone: a request saves what it loaded earlier, so `PackagesKept`
  is over all `Known` events, those in the log and those a request still holds. A
  package is staged, or `Loose` (without its tarball, for one of the reasons the
  property names), or gone, which it is for requests without a success record only.
  `Distinct` keeps the events of two requests apart, so that no request removes the
  package of another, and `OwnKept` has the package in place when the success is
  recorded.
- `RuntimeStaysInSync` (`RuntimeContractProofs`), with `~Overlap` and `Faults =
  {}`: `QuiescentInSync`. It rests on the invariants of the rebuild and of the
  packages: an event without a package would make a later deploy fail, although no
  step is given a failure. `Synced` says at which steps of which operation the
  directory still, or again, is the effective state.
- `SecretsStayReadable` and `FoundSecretsOpen` (`SecretStoreProofs`), for any number
  of callers, records, overlapping calls, kills and losses of the key, with no
  assumption on the first use. `SettledStays`: a settled key stays while any call
  runs, since nobody who looks finds it missing, and who looked before has ended.
  So a `Set` that began then stores its record under the key in place (`Own`). When
  the key file is lost between calls the store is `Away`, and `AwayStays`: a record
  that is stored keeps everybody from going past the scan. `KeptHas` puts the two
  together: a kept record is of the settled key, or of the one that can be put back.
- `CacheStaysTrue` and `RevokedTokensRefused` (`TokenManagerProofs`), for any number
  of callers, names, overlapping calls, failures and kills. `CacheAgrees` is not
  inductive: a name being changed is outside it, and a change that fails brings the
  name back without having touched it. `Agrees` therefore keeps it for a name until
  its change has reached the store, `Changed` says what the store holds from there
  to the cache update, and `Loaded` that a load holds what is stored of every name
  whose changes it has not met. `Meets` is why that covers all overlaps: of a change
  and a load, or of two changes of one name, each that may be misled knows the other.
  For the revoked tokens, `Givens` says that tokens belong to one name and that no
  stored or cached one is revoked, `Fresh` that no answer still to come ends the
  token of a change under way, and `ColdEmpty` that a process that has not loaded
  has nothing to answer from.
- `BlocksHold` (`McpAuthLimiterProofs`), for any handlers, addresses, window and
  block. `InForce`: a block that is in force is in the map with its time.
  `NotAhead`: no request works with a future time, so a late one finds the block
  in force (`BlockMet`), and no compaction drops it.
- `BlocksAreEarned` (`McpAuthLimiterProofs`). The history `recent` keeps when the
  last failures since the last success were counted, an entry only their number
  and the time of the first. `Counts` relates them: the failures an entry counts
  are the last ones remembered, and none was counted before its first. When the
  number reaches `MaxFailures` the whole history is counted, and `Counted` starts
  anew once the window is past, so all of it is within one. A request's own time
  may lie before the time it is counted at, never after (`NotAhead`).
- The archived gateway (`LegacyGatewayProofs`), for any commands, revisions, plugins,
  failures, kills and pushes, with two assumptions on the constants
  (`PipelineAssumption`, `GatewayAssumption`: marks are not revisions or commands,
  bounds are numbers).
  - *Pipeline* (`KeptRendersValidated`, `RecordsNameRenders`,
    `FailedDeploysRestoreLast`, `RecordedSuccessRuns`). `Alone`: without overlap one
    command is at work, so what it found stays. `MadeBy`: a deploy that polls on with
    its calls in order has its own revision up, from the publish on a validated one.
    `KeptBy` is the hard part: `active` and `last`, `previous` and `prior` name the
    same revision at rest (`Settled`), and a deploy moves the four files one by one;
    for each step it says which pairs still agree. It is what makes `last` the
    revision a failed deploy finds in `previous`. What a command alone has
    rendered or copied to its end is whole, so only a kill leaves a part that a
    rollback may start; `Helping` says that of the helper.
  - *Cache* (`LockExcludesOthers`, `ReadsAreFresh`, `RefreshesReachTheCache`).
    `Holding`: the lock file is that of the command in the block. `Reachable`: the
    source has what a command will be compared with, since no checkout loses
    commits (`Grown`); `UpToDate`: past its pull the cache has it too. Neither needs
    the lock: freshness survives a stolen one.
  - *Skills* (`ConfirmedSkillsStay`, `BackupIsWhole`). `Deploying` says what a deploy
    carries from step to step (the configuration it read has every confirmed
    plugin, so the one it writes has, but for those its package's list leaves out),
    `Held` what confirmed deploys have left, in the configuration or in its backup
    while a torn write is not repaired, but for the `displaced`.
  - *Bootstrap* (`OkIsReady`). `Arrived` collects what the steps passed have left,
    whatever earlier runs left before them: directories, each checkout in the
    script's order (`run.synced`), the runtime cache, the gateway, the wrapper.
  - *The composition* (`GatewayFollowsParts`): each behaviour of `GatewaySpec` is one
    of each part's specification, so `GatewayKeepsPromises` has all of the above of
    the specification that is run.
- The first CLI (`LegacyToolsProofs`), for any commands, revisions, older names,
  pids, failures and kills, of the composition `ToolsSpec`, with two assumptions
  (`TargetAssumption`, `ToolsAssumption`: marks are not revisions or pids, bounds are
  numbers, a command is allowed).
  - *Targets* (`SnapshotsStayWhole`, `OwnEntriesStay`, `DeploysLeaveItUp`,
    `RecordsStayTrue`). `CommandsKnow` says what a command has found and made by the
    step it is at. `CopyFirst`: a snapshot's metadata is written last, so a killed
    copy has none; `OwnRender` says that the render to be copied is the command's own.
    `OwnIsKept`: the entries are in the file or in what every command between its
    read and its write has read, so it holds beside other commands too; for a sync
    what it has read is in the shared directory for a while, and `StagedAlone` with
    `FindsStaged` says that it is still there unless another was staged over it.
    `Undoable` is
    the hard part: a deploy with a snapshot has the containers up at every step where
    nothing has gone wrong yet, is in its restore only because something has, and at
    its record they run unless two things went wrong; `RootIsWhole` is why
    the file a restarted runtime reads can be parsed, unless syncs were staged over
    each other. `Truthful` ties the answer and
    the verdict to the containers.
  - *Registry* (`CreationDateStays`, `OnlyOverlapCorrupts`). `Loadable`: a command
    alone that is about to load has a whole record, whatever kills before it
    left; `DateAt`: which of the record, an older one or the command's memory has the
    date at each step of a migration.
  - *Server* (`HealthStaysTrue`). `OneServer`: as long as none is started beside
    another one runs; `Written`: what it has put in the two files by each step.
- Lemmas in `RuntimeDeployProofs` on the data: removing a position of a sequence,
  the last event of an item decides, appending or removing an event changes no
  other item, and `EffectiveTwice`: replaying a log over its own effect changes
  nothing, which is why a kill between the two writes of a checkpoint is harmless.

- `RequestsMoveOn` (`RuntimeDeployProofs`), `CommandsMoveOn`, `RepoCommandsMoveOn`
  (`LegacyGatewayProofs`) and `TargetCommandsMoveOn` (`LegacyToolsProofs`): the
  safety under the liveness properties, for any overlap, failures and kills. A
  measure (`Distance`, then events left to replay, polls or sleeps left) falls
  with every step of a request or command, and no other step raises it while it
  runs. In the cache one step is excepted: a command that removed a stale lock
  tries again with the sleeps it had, so its deadline bounds its wait only while
  locks are not taken anew and left to age. `ReplayGoesOn`: the replay loop always
  finds an event that comes first, of a kind it knows, although the log may have
  changed since it was loaded.

Only model-checked: liveness (`RequestsAnswered`, `LockReleased`,
`EveryCommandEnds`, `RerunsRepair`, `TargetCommandsEnd`). The measures are proved;
that a step is enabled, and that fairness then takes it, is out of the
prover's reach. Every other property that a passing run checks is proved.

## 5. Plan

Done: `ReplayState`, `RuntimeDeploy` with its contract, `DeployStore`,
`SecretStore`, `TokenManager`, `McpAuthLimiter`, and the archived Python that
keeps state, with the proofs above. What could follow, in this order:

1. Proofs: the measure behind `RerunsRepair`.
2. `McpAccess`: `handleMCP` composed of `McpAuthLimiter` and `TokenManager`.
3. `GatewayUpdate`: the detached helper of the Go gateway against what it reports.
4. `PluginAllowList`: the widened list during an install, with failures and kills.
5. `RouteTable`: the CLI's commands, the client's paths and the server's routes.

Not modelled, with reasons:

- the ssh wrapper, the configuration, the command lines, layouts and data
  classes of both generations, the archived MCP adapter and its policy:
  functions of their input, with no state and no interaction;
- installation scripts other than the bootstrap (run once on a host);
- the text of rendered assets, messages and package manifests: output no other
  part reads back, or data no property tells apart;
- the TypeScript plugins: parts of another program, which loads them;
- `docker run` and MCP stdio of the Go gateway, not yet.
