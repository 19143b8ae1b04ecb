# A specification of ccgate

ccgate is a permission hook: Claude Code, Codex or Devin starts it once per permission
request, it asks a language model for a verdict and tells the host tool to allow, to deny, or
(by saying nothing) to ask the user. Each request is a process of its own that lives for some
seconds and shares nothing with the others but files: a credential cache, a metrics file, a
log file and the configuration. What is hard about the program is therefore what its
processes do to those files while others do the same, and what is left when one of them is
slow, killed or refused. That is what the modules in this directory describe. They are written
from the code under `src/`; the source line of every definition is in `PROJECT.json` ("map").

## 1. Inventory

| Component | State | Operations | Hard because | Correct when |
|---|---|---|---|---|
| Credential cache, `internal/keystore` (`auth.type=exec`) | cache file, sibling lock file, temporary files, helper processes, a deadline per fire | `resolveCommand`, `acquireLock`, `readCacheValid`, `execHelper`, `writeCache`, `Invalidate` | unlocked readers next to a locked writer; expiry while waiting; a deadline over lock and helper; SIGKILL, signals | helpers exclude each other, a usable entry is overwritten, dropped or renewed only for a reason that can be named, a key that was made is returned, rejected keys stay away, every fire ends |
| Credential file (`auth.type=file`) | a goroutine that reads it, a buffered channel | `resolveFile` | a read that hangs, an answer that comes with the deadline or after it | ends by its timeout, its failure asks the user |
| Hook pipeline, `internal/runner` | decision, metrics entry, answer, exit code | `Run`, `decide`, `resolveAPIKey`, provider call, `invalidateAuthCache`, `ApplyStrategy`, deferred metrics write | many early returns, each with its own entry, exit code and answer | an answer is backed by a verdict, credential trouble asks the user, the log agrees with the answer |
| Provider clients, `internal/llm/*` | none | `Decide` | errors that mean different things; responses that are cut or refused | the kind of error reaches the pipeline, a cut verdict does not count |
| Metrics file, `internal/metrics/writer.go` | `<path>`, `<path>.1` | `Record`, `RotateIfNeeded` | no lock; look, rename, open and write are separate; a write may be cut | entries survive rotation, none is written twice, a cut one spoils at most one other |
| Metrics report, `report.go` | none | `readEntries`, `aggregate`, printing | reads two files while they rotate | counts every entry at most once; columns say what happened |
| Configuration, `internal/config` | files, merged result | `Load`: embedded, global, main worktree, cwd; kill switch; `Validate` | layering rules; files and the index change during the load | last layer wins, tracked files never load, the kill switch is the user's |
| Git lookups, `internal/gitutil` | none | `IsTracked`, `BuildContext`, `MainWorktreeRoot` | failures and places without a repository | tells the loader where it is |
| Transcript tail, `cmd/claude/transcript.go` | a file another process appends to | `readTail`, window growth | the file grows or is cut meanwhile; the window cuts a line | the newest messages, in order and without a gap; the load ends |
| Targets, prompt, paths, CLI, schemas | none, or files written once by `init` | wiring and text | not | not modelled, see section 9 |

**How they interact.** `main` hands a target's options to `runner.Run`. `Run` reads the
request, loads the configuration, and calls `decide`, which may call `keystore.Resolve`, then
the provider client, then, after a 401 or 403, `keystore.Invalidate`. On the way out `Run`
writes the metrics entry and then the answer. `ccgate metrics` reads the metrics files at any
time. Fires meet each other in the cache file and its lock (a `flock` that only renewing fires
take), and in the metrics and log files (no lock at all).

**Hazards.** `PROJECT.json` lists them one by one, each at its line, with the properties that would
catch it. The groups are: unlocked removals (`readCacheValid`, `Invalidate`) against a locked rename;
freshness tested at one time and used at another; the deadline against a late helper, a late lock or a
late file; a good cache file whose read fails; responses that are cut; crashes and stops with the lock
held, or with a helper running; two rotations by two writers; a rotation under a reader; a metrics line
that is cut; a transcript read while it is written; the many exits of `Run`; and configuration files
that change between being checked and being read.

## 2. Modules and plan

| Module | What it is |
|---|---|
| `Keystore` | exec credentials, one action per system call that a peer could see |
| `KeystoreProps`, `MCKeystore` | its properties; its TLC instance |
| `CredentialService` | abstract specification: one slot, at most one renewal, time, and fires that cannot see the slot |
| `CredentialSlots` | what the pipeline relies on: a slot per scope, no time, no lock |
| `KeystoreRefinement` | the mappings under which `Keystore` implements both |
| `KeystoreProofs`, `KeystoreRefinementProofs` | TLAPS proofs |
| `MetricsLog`, `MCMetricsLog`, `MetricsProofs` | writers, rotation, cut lines and a report, at the level of names and inodes |
| `Hook`, `HookProps`, `MCHook` | the pipeline from request to answer, the credential file, and the report's counters |
| `HookProofs`, `HookReportProofs` | TLAPS proofs; those about the report's sums are in the second |
| `ConfigLoad`, `ConfigProps`, `MCConfigLoad`, `ConfigProofs` | loading the layers against concurrent edits |
| `Transcript`, `MCTranscript`, `TranscriptProofs` | `readTail` and the growing window over a file that its owner writes and cuts |
| `SequenceLemmas` | facts about loops over sequences, used by `ConfigProofs` and `TranscriptProofs` |

**Composition.** `Hook` and `Keystore` meet in `CredentialSlots`. Seen from the pipeline the
cache is one slot per scope, which a fire reads, fills or empties in one step; `ImplementsSlots`
says that all fires together, whatever their configurations, use the slots only as
`CredentialSlots` allows. From the other side `ProvidesSlots` says that the files, locks, helpers and
renewals of one scope look like one such slot; it is proved (`KeystoreProvidesSlots`) and no
run repeats it, since `ImplementsService` says more about one scope. So what is
proved of `Hook` does not depend on the cache being simpler than it is. The metrics file is to `Hook` a
set of entries, and what happens to the file is `MetricsLog`'s. `Transcript` feeds the prompt only:
in `Hook` it is part of `BuildPrompt`, and its failure changes nothing there.

The order in which this was written is that of importance: the cache is where processes wait for
each other and where money, secrets and availability meet; then the files without a lock; then the
sequential code with many exits; then the reader of a file that another program owns. Next would be
the report's breakdown by day and tool, whose columns are the same sums over fewer entries.

## 3. Keystore

A *fire* is one hook process, and `pc[f]` is where it is in `resolveCommand`:

| Code | Actions |
|---|---|
| context and cache path | `Start` |
| `readCacheValid`, called in three places: without the lock, after a failed lock, under the lock | `FastPath`, `Reread`, `Check`; its `os.Remove` of an unusable file is a step of its own (`...Unlink`), because a peer may rename between the two |
| `MkdirAll`, `Chmod` | `PrepareDir` |
| `acquireLock` | `TryLock` (taken, busy or error), `Backoff` (context done, or try again) |
| `execHelper` | `StartHelper`, `HelperPrints`, `HelperFails`, `KillHelper` |
| `checkFresh`, no-expiry case | `CheckFresh` |
| `writeCache` | `WriteTemp` (up to the rename), `RenameTemp` |
| deferred `releaseLock` and the return | `Release` |
| `decide`'s use of the key, `invalidateAuthCache` | `Accepted`, `Rejected`, `Invalidate` |
| the world | `Tick`, `Crash`, `OrphanExits`, `Cancel` |

The fires of the model share one credential scope; another scope is another cache file and another lock
and never meets this one. The cache holds a credential, nothing, or `Corrupt`, which stands for
everything `readCacheValid` always unlinks (malformed, a missing field, unreadable for good). A system
call that the code allows to fail may fail here, but for the unlock and the kill of the helper's group,
which are taken to do what they say. That includes the read of a good cache file (too many
open files, an I/O error), which `readCacheValid` answers like damage: it unlinks the file. `look[f]`
says how the last read of fire `f` went: `"sound"`, `"damaged"` or `"failed"`. What is not followed is
the temporary file of `writeCache`. Its name is unique and nothing reads it; where a step fails, the
`os.Remove` that follows may fail too, and after a kill there is none, so the file may stay on disk for
ever. The code promises nothing else, and the model states nothing about it.

Time is discrete, and a tick may fall between any two steps. A helper of fire `f` prints key `f`, which
makes keys tell where they came from, or one of `SessionKeys`, for helpers that print the same key for a
while. The provider may accept or reject any key at any time. A SIGKILL drops the lock and leaves the
helper behind. A signal (SIGINT, SIGTERM) cancels the fire's context. History: `look`; `published`, what
was renamed last; `lost`, whether an unlink by a reader has taken a usable entry since; `invalidated`,
the keys invalidated that no helper printed since; `overtaken`, the fires that hold a credential, or are
about to unlink, while a peer renamed after their last read. A fire is `Misled` if its read failed, or
if it saw a damaged file and was overtaken.

Runs:

- **keystore_peers**: three fires, a file that is missing, gets stale or is damaged, a read that fails.
  What may become of a usable entry: `UsableLostOnlyToMisled` (removed only by a fire that was refused,
  by one whose read failed, or by one that saw, without the lock, a damaged file which a peer has
  replaced), `NeverClobbersUsable` and `RenewsOnlyWithoutUsable` (overwritten or renewed only by a fire
  whose read failed), `HelperRunsOncePerEntry` (the helper runs beside a usable published entry only
  after such a loss or such a failure), `FailsOnlyWithoutUsable` (a fire gives up beside it only if it
  was misled). And what a rejection does: `RejectedNeverReturns`, and `InUseIsCached`, which bounds the
  cost of the unlocked `Invalidate`: it takes a newer credential away only in the hands of a fire that a
  peer overtook or that could not read the cache.
- **keystore_faults**: three fires with one SIGKILL, one signal and one failing read.
  `HelpersOverlapOnlyAfterKill`.
- **keystore_deadline**: two fires with the same faults, of which one may stop for ever, wherever it is,
  and helpers that may hang. `ImplementsService`, the refinement, and, under fairness,
  `EveryFireResolves`.
- **keystore_corrupt**, **keystore_session**: see section 8.

`CredentialService` says what the refinement promises without files or locks: a usable slot is handed
out; a renewal starts when nobody else renews and the slot is not usable, or the fire cannot see it
(`blind`: its read failed or found damage); a vetted credential is shared or kept, never dropped, unless
its fire dies; the slot is emptied only by a fire that was refused or by a blind one that waits.

Bounds. Three fires are the fewest with a holder, a waiter and an unlocked reader at once, or with a
fire that rejects a key, one that renews and one that is late with an old one. With `Margin = 1`, the
entry of an earlier session (expiry 2) gets stale at the first tick, while fires wait, read and use it,
and lifetime 2 makes an entry that gets stale one tick after it was made, so that in keystore_peers and
keystore_deadline (`MaxClock = 2`) a stale entry is renewed, and the renewed one gets stale in turn;
lifetime 1, in keystore_deadline, is stale when printed. `Timeout = 1` lets a deadline pass at every
step. `MaxClock` stops the clock, and `Start` wants room for its own deadline (`clock + Timeout <=
MaxClock`), so that a stopped clock never makes a fire wait for ever. keystore_faults has `MaxClock =
1`: its property is about kills and deadlines, not about expiry. `MaxCrashes`, `MaxCancels` and
`MaxMisreads` count faults. Fires are interchangeable and the safety runs use that symmetry;
keystore_deadline does not.

## 4. MetricsLog

Files are inodes: `cur` and `prev` are what `<path>` and `<path>.1` name, `fd[w]` is the inode a
writer has open, so that an entry appended after a rotation lands where the code would put it.
`StatSize`, `Rotate`, `Open` and `Append` are the four system calls of a writer. The report opens
`<path>.1`, reads it, opens `<path>` and reads it. `before`, `moved` (counted up to 2),
`atStart`, `disturbed` and `culprit` are history.

- **metrics_report**: three writers, a file that is full at two entries, an older rotated file or
  none. `CountsAtMostOnce` (nothing is counted twice although a file may be renamed between the two
  reads), `CompleteUnlessDisturbed` (a report during which nobody rotates has everything that was
  there when it began), `LostWriteNeedsTwoRotations`, `CutWriteCostsOne`. Three writers are the
  fewest of which one is overtaken by two rotations, both by peers that saw a full file.
- **metrics_rotation**: see section 8.

A `write` may be cut (a full disk). The piece stays at the end of the inode (`torn`), even through
a rotation, and the next line, by whichever process, is glued to it: neither parses, and the report
skips both. The newline of that line ends the damage; `culprit` remembers whose it was. The piece
counts for nothing in `SizeOf`, being less than an entry, and a piece that lacks only its newline, which
parses if nothing follows it, is left out. `RotateIfNeeded` also rotates the log file, for which the same
holds.

## 5. Hook

One action per part of `Run` that another process or the user can tell apart: the request and the
configuration, the guards on tools and modes, the credential, the call, the rejection, the
metrics entry, the answer. A configuration is what `decide` looks at: provider, auth type,
`cache_key` (`Salts`), strategy, whether metrics are on, whether the call is bounded by
`provider.timeout_ms`. Keys carry whose they are and where they come from.

| Code | Actions and operators |
|---|---|
| `Run` up to the configuration | `Start` |
| the guards on tools and modes | `Gate` |
| `resolveAPIKey` | `ResolveAPIKey`, of which `ResolveCommand` is `keystore.Resolve` for a helper; `DropDamaged` is the `os.Remove` in its reads |
| `resolveFile` | `ResolveFile` starts the goroutine, `ReaderEnds` is its answer in the channel, `AwaitFile` the `select` |
| `buildPrompt`, the client's preparations | `BuildPrompt`, `CallProvider` |
| `Client.Decide` and what `decide` makes of it | `Reply` with `Unusable` and `Judge`; `Reject`, `CallFails`, `CallTimesOut` |
| `invalidateAuthCache` | `InvalidateAuthCache` |
| `buildMetricsEntry`, `metrics.Record`, the answer | `BuildMetricsEntry`, `Record`, `Emit` |
| `aggregate` | `Counted`, `Aggregate`, `CredentialFailures` |

A response is why it ends (`stop`) and what it says (`text`), so that a response which was cut may well
say allow. `Judge` and `Unusable` keep the order of the tests. What is cut is Anthropic's `max_tokens` and OpenAI's
`length`, what is refused `refusal` and `content_filter`.

- **hook_pipeline**: two fires, seven configurations, three requests, one crash, under fairness.
  `AutomatesOnlyOnVerdict`, `CredentialTroubleAsks`, `KeyGoesToItsOwner`, `ImplementsSlots`,
  `AnswersAreLogged`, `ReportMatchesHistory`, `EveryHookEnds`. Two fires suffice because fires meet
  only in a scope's slot; the configurations include two that differ only in the provider (and its strategy), two that
  differ in the salt, one of each auth type and one provider that does not exist. The provider says
  allow, deny, fallthrough or something garbled, or allow in a response that is cut; an unexpected behavior
  is judged like fallthrough, and a blank or refused response like a cut one, so they are left out here
  (the theorems have them).
- **hook_errors**: see section 8.

A crash stands for the host tool killing a hook that takes too long. What the process knew goes with it,
except, as history, for a fire whose entry is already in the metrics.

## 6. ConfigLoad

`Load` is followed layer by layer: the embedded defaults, the global file, the moment at which the
kill switch `disable_load_main_worktree_local_config` is frozen, then for the main worktree's file
and for the working directory's the eligibility check and the read, then defaults and
validation. Between any two of these, others may edit a file, or add or remove it from git's index.
A layer has one scalar (`path`), the provider block, the kill switch, one list (`allow`) and what it
appends to it. `Places` says where the hook runs: in the main worktree, in a linked one, or in no
repository; the working directory is the root of its tree and a target has one local path. The
provider name `padded` is `" anthropic "`, which `Validate` trims. A check (`stat` and
`git ls-files`) is one step. Jsonnet evaluation and decoding yield a layer or an error (`Bad`).

- **config_load**: five contents besides a missing and a malformed file, two edits. `LastLayerWins`,
  `ListsCompose`, `LayersInOrder`, `KillSwitchIsTheUsers`, `TrackedNeverLoads`,
  `UntouchedFilesCount`. Two edits let a file be tracked and untracked again, or an edit fall on each
  side of one check.
- **config_outside**: see section 8.

## 7. Transcript

The file is a sequence of cells; a line of kind `k` has `Size[k]` cells and one for its newline. So a
window can begin within a line, at a line and at the file, and a line that the host is still
writing can be read in part. `StatTail` is the look at the size (with `Open` and `Seek`, which may
fail), `ReadTail` the read, `parseTranscript` and the loop's decision, `ReadFails` the ways out. Between
the two, and between two rounds, the host may append a line or its beginning, finish it, or cut the file
back to a line's end. A line is what `parseTranscript` makes of it: a user's message, a tool call
(one per assistant line), or nothing. `atRead` is history. `LatestUpTo` is `parseTranscript`'s loop, which
keeps the last few lines of a kind by `AppendLatest`; `LinesUpTo` is the same loop without a limit, in which
the properties are stated.

- **transcript_tail**: every file of up to three lines, windows of 3, 6 and 8 cells (growth by 2, a cap
  that is no multiple), one line added, one cut, two user messages and two tool calls wanted.
  `LatestWithoutGap`, `MissesOnlyTheFar`, `WindowGrows` (no window is looked at twice), and under
  fairness `LoadEnds`. Lines are two and four cells long, so that the first window holds less than a
  line or one and the last leaves lines out. The host is not followed once the load has ended.

## 8. What the checks show

All "pass" runs finish without error; the properties of sections 3 to 7 hold. Every one of them is
broken by at least one plausible mistake in the code: the definitions called `Slip...` are such
mistakes, put beside the definition they spoil, and `PROJECT.json` ("mutants") pairs them with
properties. Deadlock checking is off in every run, because fires, writers and loads are one-shot
and the clock is bounded: all of them may simply be over.

Five runs show the code doing other than what its documentation says:

| Run | The code | What it contradicts |
|---|---|---|
| keystore_corrupt | a reader's unlocked `os.Remove` of a damaged cache file may delete the entry a peer has just renamed into place, and the helper runs again | `docs/api-key-helper.md:168`, "the helper still runs only once" |
| keystore_session | with a helper that prints the same key again: one fire finds the entry stale and gets the key from its helper, a peer that used the old entry is refused and invalidates, then the first renames; a fire that starts after all that is served the refused key and runs no helper | comments at `runner.go:703` and `keystore_common.go:71`, "the next fire re-runs the helper" |
| metrics_rotation | of two writers that saw a full file, the second renames a nearly empty file over the one the first has just rotated | comment at `metrics/writer.go:54` |
| hook_errors | input that does not decode and a configuration that does not load end with exit code 1 and no entry; an answer that cannot be encoded exits with 1 after an entry that says allow or deny | `docs/configuration.md:110` and `:135` |
| config_outside | outside a repository the local file is never loaded: `git ls-files` fails there, and what cannot be checked is skipped | `docs/configuration.md:25` |

Met on the way, and not made into runs: a `Provider` key in another case is ignored
without a word (`config.go:765`); `Validate` trims `provider.name` while the runner only lowers its
case, so `" openai "` passes validation and is then unknown; a signal during the helper run is
recorded as `credential_unavailable`, the same signal during the call as a failure; the comment at
`keystore_common.go:218` lists stale entries among those unlinked, and they are not (the model
follows the code); the comment at `transcript.go:219` says that of a transcript which shrinks between the look and the
read "whatever was read" is kept, but if nothing is left within the window `io.ReadFull` returns
`io.EOF`, not `ErrUnexpectedEOF`, and the prompt goes without a transcript (`ReadFails`).

**Fairness.** Safety runs assume none. The liveness runs assume that time passes and that fires, hooks
and loads are scheduled (`WF` of `Tick`, of each one's own `Step`, and of the transcript's `Load`),
which is what an operating system does for a runnable process. In `Keystore` this is assumed only of the
fires in `Scheduled`, and the claim is about those; any other fire may stop for ever, with the lock in
hand. There is one strong assumption: a waiting fire whose context is over does not lose every one of
its `select`s to the back-off timer (`SF` of `GivesUp`); Go picks at random among the cases that are
ready. Nothing is assumed of the helper, the provider, the host tool or the user: `HelperPrints`,
`HelperFails`, `Accepted`, `Rejected` and their like in `Hook` carry no fairness, nor does `ReaderEnds`,
since a read of a stalled file system need not return, nor any step of the transcript's host. That a
fire still leaves `resolveCommand` is due to its own deadline; the mutant of `EveryFireResolves` is a
wait for the lock that does not look at it. `EveryHookEnds` is claimed only for `provider.timeout_ms`
other than 0; its mutant receives from the file's channel without a `select`. `LoadEnds` rests on the
loop's last condition, not on the bounds of the host: its mutant, without that condition, reads the
largest window of a long file with few messages over and over.

**What is proved.** TLAPS checks these for any number of fires, writers, files' contents, any
lifetimes, margins and bounds, under each module's named `ASSUME`:

- `KeystoreProofs`. An action can only be judged knowing where the others are, so the invariant has
  parts: `TypeInv` (types, and whoever vets, stores or uses a payload has one), `LockInv` (a fire is in
  the critical section iff it holds the lock; a helper's owner is in it, or was killed),
  `RenewsOnlyWithoutUsable`, `EmptyHands`, `UseInv` (what is usable is what every fire at the provider
  uses, but for those a peer has overtaken or whose read failed), `LossInv` (a fire about to unlink saw
  damage or could not read, what a fire saw damaged is not usable unless it was overtaken, and what was
  published is still cached unless it was lost), `FailInv` and `KeyInv`. From these: `TypeCorrect`,
  `HelpersExclude`, `RenewalJustified`, `NeverClobbers`, `InUseStaysCached`, `LossesExplained`,
  `OncePerEntry` and `FailuresJustified`, from any cache file and with any failing read; and
  `RejectedKeysGone` if no helper prints a key twice (`SessionKeys = {}`), which keystore_session shows
  to be needed. The central argument is that of the double check: under the lock the cache is seen to
  hold nothing usable, only the lock's holder renames, unlocked removals and time can only take usable
  entries away, so nothing usable is there until the rename. The other is about `overtaken`: what a
  reader saw damaged becomes usable only by a rename, which marks the reader.
- `KeystoreRefinementProofs`: `KeystoreImplementsService`, initial state and one step lemma per action
  of `Keystore`, from the same invariants; and `KeystoreProvidesSlots`, which is reduced to it: a step
  of `CredentialService` is one of `CredentialSlots` or changes nothing it can see.
- `MetricsProofs`: `CountedOnce` rests on inodes having disjoint contents and the two names never naming
  one inode, and on what the report has open while it reads; `LostWritesNeedTwo` on following a writer's
  inode from `<path>` to `<path>.1`; `CompleteReport` on where the entries of the start are while no
  rotation happens; `CutCostsOne` on a piece being at the end of one inode at most, and of none once a
  line was glued to it.
- `HookProofs`: `StageInv` says what a fire has in hand at each stage; `VerdictInv`, `OwnerInv`,
  `TroubleInv` and `LogInv` then give `AutomationIsBacked`, `KeysStayHome`, `TroubleAsks` and
  `AnswersLogged`, for any configurations, requests and responses. `HookImplementsSlots` has one case
  per action, each a step or a stutter of `CredentialSlots`.
- `HookReportProofs`: `ReportTellsHistory`. The invariant `TellInv` says what must have happened for
  each result and each entry that is there; every column is then the cardinality of a set of fires that
  is shown equal to the set it should count, and sums are unions of disjoint sets, for which the fires
  must be finitely many (`FiresAssumption`).
- `ConfigProofs`: one invariant, `ConfigInv`, relates the configuration so far to the layers laid so
  far; each action is first reduced to what it does to them (`StepMoves`), and the theorems about order,
  last layer, kill switch, tracked and untouched files follow for any contents and any number of edits.
  `ListsAreComposed` has an invariant of its own, `ListInv`: the list so far is what the layers so far
  compose to, stated without any order of work: the last layer that replaces the list, followed by what
  it and the later ones append. One more layer laid over that is the same of the longer sequence; the
  facts about the last replacing layer and about flattening come from `SequenceLemmas`.
- `TranscriptProofs`: the invariant is `TypeOK`, `Sound(file)` and the two properties themselves.
  `Sound` says that a line's first cell follows a newline or begins the file; every step of the host
  keeps it, and without it a window could take the middle of a line for a line. Then: `LatestOfLines`,
  by induction over the cells, the bounded list is the latest of all lines; `LinesShifted` and
  `WindowSplits`, the lines of the file are those that end before the first newline of the window and
  then exactly the ones that the reader finds after it (a window without a newline holds no whole line).
  The latest of the second are a suffix of the latest of both, which is `FoundWithoutGap`; those missing
  begin before the window, which at the loop's exit is the largest, which is `OnlyTheFarIsMissed`.
  `LoadAdvances` is arithmetic about `Grow` and the cap.
- `SequenceLemmas`: what a recursive function computes is shown by induction. The library's induction
  theorems take the formula as an operator, which the provers cannot instantiate; here the principle is
  stated for a set of naturals (`InductUpTo`, from the well-foundedness of `<` on `Nat`), and the set is
  that of the indices at which the claim holds. `LoopExists` gives the functions that the model's loops
  define.

**Only model-checked.** Liveness (`EveryFireResolves`, `EveryHookEnds`, `LoadEnds`), which is out of the prover's
reach, as is `ENABLED`. For `LoadEnds` the step that matters is proved: the window grows with every round
(`LoadAdvances`) and has a maximum (`TranscriptTypeCorrect`). Every invariant, action property and refinement
that a passing run checks is a theorem.

## 9. Not modelled

- Targets, `init`, the command line: sequential wiring.
- Prompt building, path extraction, redaction and log wording: pure text, for which tests are better.
- Schemas and their generator: build time.
- Windows: `Keystore` models the Unix build's process groups. A helper that calls `setsid` leaves its
  group and survives the kill, as the documentation says; in the model a killed helper is gone.
- Inside a provider call: request construction and the SDK's retries.
- The report's grouping by day, tool and input, its ranking and printing, and the second pair of files
  at the legacy path: the same sums over fewer entries, and text.
- The temporary files of `writeCache`, which may be left behind (section 3).
- Three hazards have no property. `report.go:216`: that no line exceeds the scanner's 64 KiB depends on
  lengths the models abstract from. `gitutil.go:18`: nothing bounds a git that hangs, so there is
  nothing to state. `keystore_common.go:299`: a temporary file whose removal fails stays, and nothing
  promises otherwise.

## 10. Running

`tlc -config keystore_peers.cfg MCKeystore` and likewise for each `.cfg` named in `PROJECT.json`
("runs"); `tlapm KeystoreProofs.tla` and likewise for `SequenceLemmas` and the other `...Proofs`
modules. The longest run takes a little over two minutes with two workers.
