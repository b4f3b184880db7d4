# Verification of the BandIt separation service

The service separates audio into speech, music and sfx: an API takes uploads, RQ hands
the jobs to one worker, the worker runs a neural network over the audio for minutes to
hours, a reaper cleans up, and a command-line client drives it all. Everything shared
lives in Redis (records, tombstones, liveness keys, RQ's lists) and on one volume (inbox,
outputs, weights). The network itself is left aside; what is modelled is everything
around it that has to stay right while processes crash, requests race, limits expire and
audio is cut into pieces.

Source paths below are relative to the repository.

## 1. Inventory

| Part | Source | State it keeps | Operations | What is hard |
|---|---|---|---|---|
| Job store and lifecycle | `bandit_api/jobs.py` | record with TTL, tombstone, RQ entry | save, settle, abandon, delete, reconcile, run | races of DELETE, polls, reaper, boot and run; crashes between two commands |
| HTTP API | `bandit_api/api.py` | none of its own | create (upload, URL), get with self-heal, delete, stems, probes | dies or loses Redis between two steps |
| Worker | `bandit_api/worker.py` | the loaded model | boot: register, reconcile, load, heartbeat; work loop | one process for boot and work; jobs run in-process |
| Reaper | `bandit_api/reaper.py` | none | sweep stale jobs, sweep artifacts | judges by copies and by age alone |
| Age limits | `config.py`, `jobs.py`, `reaper.py` | five TTLs and cutoffs | expiry, sweep, os.utime, staleness | one limit striking while something depends on what it takes |
| Separation driver | `bandit_api/separator.py` | position in the input, open files | segment loop with margins, progress, cancel | off-by-one at boundaries, seams, what is held in memory, progress told early |
| Chunked handler | `vendor/inference_handler.py` | lists of chunks per stem | pad, unfold, batch, fold, trim | chunk grid of a segment against that of the whole |
| Weights and boot | `scripts/fetch_weights.py`, `worker-entrypoint.sh`, `model.py` | `.part`, `.ckpt`, converted file | download, verify, convert, load | killed at any byte, must be idempotent |
| Liveness | `jobs.py`, `healthcheck.py`, `api.py` | one key with a TTL per worker | beat, probe, readyz | late or lost beats, restarts under the same name, Redis out of reach |
| Client | `bandit` | `.jobs.json`, `data/out`, temporary files | extract, upload, remember, poll, download | Ctrl-C anywhere, two runs at once, broken connections |
| Network, band tables | `vendor/*.py` | weights | tensor arithmetic | not state |
| Boot supervisor | `scripts/bandit-boot.sh` | where a shell script stands | wait for address and dockerd, compose up, look and repair | three daemons that come and go without telling each other |
| Deployment | `docker-compose.yaml` | Redis's snapshot on a volume | restart policies, snapshots | Redis forgets, the volume does not |
| Scripts | `scripts/benchmark.py` and the like | none | by hand | not part of the service |

How they interact: the API writes record and RQ entry, the worker pops the entry and
writes the record as it goes; a DELETE writes a tombstone that the run polls; polls, the
reaper and the booting worker settle running records that look abandoned; the reaper
removes files by age. The API and the probes learn of the worker only through its
liveness key. The client sees the API only.

`PROJECT.json` lists every hazard with its line.

## 2. Modules

| Module | Models | Properties and proofs |
|---|---|---|
| `JobContract` | what a client is promised about one id: forward only, settled once, webhooks tell that outcome | refined by JobLifecycle, relied on by Client |
| `JobLifecycle` | handlers, reaper, booting and working worker over Redis and the volume; one step is one Redis command or file call; untimed | `JobLifecycleProofs`, `JobRecordProofs`, `JobOutcomeProofs` |
| `RedisRestart` | JobLifecycle over a Redis that restarts from its last snapshot | `JobRecordProofs`, last part |
| `Retention` | the age limits on one clock, a handler in one step | `RetentionProofs` |
| `Segmentation` | one `separate_file` with the chunked handler; a sample is its position, an output sample the set of chunks it is added up from | `SegmentationProofs` |
| `WorkerBoot` | the container from the entrypoint to the serving worker with its heartbeat thread; crashes between any two file operations | `WorkerBootProofs` |
| `Client` | runs of `./bandit` in one checkout, against a server that keeps JobContract | `ClientProofs` |
| `BootSupervisor` | the boot script next to dockerd, tailscaled and reboots of the host | `BootSupervisorProofs` |

`MC<Module>` gives a module its small instance where the configuration alone cannot.
Definitions headed "Mutant" are the next definition with a plausible bug; they are no part
of a model, and each is named in `PROJECT.json` with the property that must catch it. `settle`
reduces by the symmetry of handlers; `live` and `restore`, where liveness rules that out, by a
view that leaves out history variables and the counts of webhooks. No guard reads these and no
property of the two runs does, so that states which differ in them alone have the same future.

**How they compose.** `JobLifecycle` implements `JobContract` (a run checks the refinement,
and `ContractKept` proves it), and `Client` moves its server by `JobContract`'s own actions,
so that what is checked of the client rests on what is checked of the service and on nothing
else. `RedisRestart` extends `JobLifecycle` with the store's fault and leaves its actions
alone. `Retention` takes up what `JobLifecycle` leaves to the environment: when a record, a
tombstone or a file may go.

**JobLifecycle.** `status`, `quiet`, `tomb`, `entry`, `inbox`, `out` are the record, its
having reached its age limit, the tombstone, RQ's entry and the two directories; `pc` and
`job` are what each process does next and to which job. `Booter` and `Worker` are one
process: a crash takes both. A process's actions follow the functions: a poll that finds a
stale record (`GetStale`) repudiates the RQ entry, looks at the tombstone, saves and
notifies in four steps (`abandon_job`, `settle`), exactly where other processes can come in
between. DELETE's rmtree and its unlinks in the inbox are two steps; the reaper's look at
the directories (`SweepFiles`) alone takes several files in one. The age limit that `quiet`
stands for is `stale_job_seconds` for a running record and, for a succeeded one, the age of
its output directory: from then on the reaper, which sees modification times only, may take
the stems, and the record may outlast them by the time between `os.utime` and the save.
`Retention` says how little that is (`ServableToTheEnd`). What the environment may do
(`Env`) is a constant: DELETE, crash, Redis outage, RQ's job timeout (also in the `finally`
block), a silent run, RQ handing out a dead worker's entry again, expiry behind a backlog.

History variables keep the exemptions of the properties narrow. `struck` holds a pair of
job and kind of fault only for the jobs that the struck process had in hand at that
moment, so a property that exempts `Struck(j)` still has to hold for every other job and
at every other moment; `raced` holds a deleted job only if some process was at that moment
past its last look at the tombstone.

**RedisRestart.** `rdb` is the snapshot the next restart will load, `Restart` puts records,
tombstones and RQ's entries back and leaves files and processes alone. A snapshot is at
most a minute old (`--save 60 1`) and no age limit is that short: a step that takes an age
limit to pass drops the pending snapshot.

**BootSupervisor.** `pc` follows the script; `addr`, `docker` and `api` are what it looks
at: the address on tailscale0, dockerd, and the api container, which is absent, stopped
because it could not bind its address, down with dockerd, running without its published
port, or published. A look and the repair it leads to are steps of their own.

**Retention.** `ttl`, `silent`, `tomb`, `upload`, `out`, `left`, `lag`, `swept` are clocks;
`Tick` moves all of them and waits for what live processes do at once. Redis drops a key in
the tick in which its TTL ends. A run may be silent for as long as it lasts: nothing makes
it report. RQ's timeout reaches the run as an exception, and `_load_audio` catches every
exception of `ta.load` (`separator.py:206-211`): such a run goes on with ffmpeg, and nothing
limits it any more (`TimeoutSwallowed`, `loose`). `scratch` is the wav ffmpeg decodes a
video into: it lies in the inbox under a name no job has, so after a crash only its age
gives it away.

**Segmentation.** `Open` .. `Return` follow `separate_file`; `PaddedSample`, `Content`,
`Folded` follow the handler. The network is unknown, so a chunk's output is represented
by the chunk's content and position; equal representation means equal output for every
network. `audio` is the decoded input, which `Open` loads and the call holds to its end.
`reported` is the fraction `separate_file` last gave its callback, `progress` what the record
says: `OnProgress` throttles and rounds as `jobs.py:439-443` does (`Digits`), and `Nearest` is
once more what `bandit` prints (`Percents`). A fraction halfway between two values may be rounded
either way. Lengths are in units of a second or any other unit chunk and hops are multiples
of.

**WorkerBoot.** `part`, `ckpt`, `bare` are the three files with their completeness; the
converted one may also be of a foreign model, which `is_usable` accepts and `load_bandit`
refuses. `reachable` says whether Redis answers: without it beats fail and probes report a
dead worker.
`pc` walks through `fetch_weights.main` and `worker.main`. `alive` is the key's TTL,
`beatIn` the heartbeat's sleep, at most `Late` overdue; `missed` and `gone` are history.

**Client.** `status` is the phase `JobContract` gives each job of the server. `run[c]` is
where a run is and what it holds; `log` is the job log or `Cut` between its opening and
writing; `tracks` are the temporary files of extracted audio. An error of the server after
it has accepted the job is an error to the client all the same: the upload returns or raises
and the job is noted nowhere (`Upload`). `raced`, `overlapped` and `unread` are history:
that two runs have been in `remember` at a time, and the jobs noted while another run was in
there or by a run that found a log it could not read. `out` says of which job each stem file
is and whether it is whole. Two files of one name share an output directory, as in the code.

## 3. Runs

Passing runs:

| Run | Asks | Instance | Distinct states |
|---|---|---|---|
| `settle` | does a deleted job come back, or a succeeded one lack its stems? is every outcome final, announced, announced once and without contradiction? is a queued record reachable and the source audio gone after the run? | 1 job by either route, 2 handlers, backlog, any 2 of crash, outage and timeout | 2 293 099 |
| `live` | does every running job get settled, and does one failed from outside stay failed? | 1 job, 1 handler, silent runs, redispatch, any 2 of crash and outage, fairness | 258 758 |
| `restore` | what can a Redis that goes back in time make of records and files? does everything still settle? | 1 job, 1 handler, 1 restart from a snapshot, 1 of crash, outage and timeout, fairness | 281 581 |
| `contract` | does JobLifecycle implement JobContract, and is everything submitted settled? | 2 jobs, nobody deletes, 1 crash, fairness | 275 520 |
| `limits` | does any limit strike too early, does a tombstone last as long as it is needed, and is everything forgotten in the end, ffmpeg's file included? | 2 jobs, 1 crash, limits in the order of the defaults | 294 599 |
| `segmentation` | is every sample written once, in order, from the right chunks? what is held beside the input? how early may progress be told, and where may it fall? | all three presets, 7 lengths, 3 segment lengths, 3 margins, 2 batch sizes | 92 546 |
| `boot` | does the worker come to serve from whole weights, fetched once, and do probes tell the truth? | 2 deaths, 2 faults or outages of Redis, heartbeats up to a tick late, any original checkpoint, and maybe a foreign converted file, to begin with | 21 652 |
| `client` | what do Ctrl-C, faults and a second run do to log, outputs and temporary files? | 2 runs, 3 files, 3 jobs, 1 fault, 1 Ctrl-C | 1 431 326 |
| `supervisor` | is the api published for good once the address stays, and not recreated over and over? | 2 losses of the address, 2 stops of dockerd or reboots, 2 compose failures | 4 880 |

What the properties of `settle` have to say about faults:

| Property | Holds of every job, except |
|---|---|
| ResurrectionNeedsRace, StemsOrRaced | one deleted while a process was between its last look at the tombstone and its write; for the stems also one whose record is due to expire |
| QueuedIsReachable, SettledIsAnnounced | one that a fault struck in a process's hand |
| PostedOnce | that, and a deleted job that came back by the race |
| NoContradictoryCallbacks | one whose run RQ's timeout interrupted |
| InputGoneAfterRun | one struck by a fault, and any job by URL that has failed (a fetch that stops half-way leaves its file) |
| TerminalIsFinal | its own run, timed out or cut off from Redis after the final write, taking a success back |

and those of the others:

| Property | Holds, except |
|---|---|
| DeletedStaysDeleted | of a run that has used up RQ's limit: in the tick in which it is timed out, or after it has swallowed the exception |
| RunKeepsOutput, QueuedSurvives | of or behind a run that has swallowed the exception; the latter also after a crash, or with a backlog that does not fit |
| HealthyLooksAlive | while Redis is out of reach, or before the first beat |
| BootsInTheEnd | with a foreign file for the converted weights |
| LogKeepsNoted | of a job noted while another run was in `remember` (`overlapped`), of a log that does not parse |
| AcceptedIsNoted | as many jobs as there were faults and interrupts, and those of runs that could not read the log (`unread`), which takes an interrupt or two runs at once |
| NeverAhead | up to the segment in progress and half a unit of either rounding |

In a struck job's case nothing is claimed: what a fault does to the job in hand (a callback
lost or sent twice, a final record taken for an old one, a URL's half-fetched file) is listed
among the hazards as not caught.

Runs that must find a violation, each a divergence between a document and the code:

* `stems_missing` — `jobs.py:185-187` says the tombstone prevents a record that is
  "succeeded" with its stems gone; a DELETE between settle's look at the tombstone and
  its write (275-276) brings one about.
* `backlog` — `jobs.py:99-101` says a job cannot expire while queued behind a backlog;
  three runs of the full job timeout ahead of it are enough.
* `stem_twice` — a request naming a stem twice passes validation and fails in `F.fold`.

**Why the bounds are enough.** The lifecycle's races are between one job's record and at
most three writers (a run, a settler, a DELETE), so one job with two handlers has them
all: one may delete while the other polls, next to reaper, boot and run. Two jobs are
needed where RQ or the boot scan goes from one to the next (`contract`). `MaxFaults` counts
crashes, timeouts and outages together: two in `settle` let a second boot meet the leavings
of the first, two in `live` let Redis fail while a boot settles what a crash left. `live`
and `restore` have one handler, because liveness is about who is left to act, not about two
requests at once. One restart of Redis in `restore` comes at every moment after every
snapshot; what it brings back is then handled by processes that have gone on.
`Batches` is 1: a progress report is then followed by the end of the run, and the run's
looks at the tombstone before and after it are both there.
In `limits` the order of the limits is that of the defaults (stale < timeout < result TTL;
the sweep interval below all), which is what the properties depend on; the proofs then
cover all values. In `segmentation` the ratios chunk/hop are the real ones (2, 4, 8), the
lengths lie below, at and beyond padding, segment and chunk, and the margins include one
below a chunk that has to be refused. `Digits` is 20 and `Percents` 4 where the code has 10000
and 100: the lengths are small, so that rounding to a twentieth already shows 100 % early, and
the proof is for all values. In `boot` a tick is 10 s of the default settings. In
`client`, `Keep` = 2 with three jobs makes the log overflow, and two clips of one name meet
in one directory. In `supervisor` two of everything lets a second loss or stop fall into
the repair of the first; the waits of 300 and 30 looks are 2 each, which the proof then
lifts to any number.

**Deadlock** is checked where the system never stops; `segmentation` (one call),
`client` (runs end), `boot` and `supervisor` (a missing checkout strands the script) say
`CHECK_DEADLOCK FALSE`.

**Fairness.** JobLifecycle and RedisRestart: a request that has begun goes on, the services
keep working and are restarted (`restart: unless-stopped`), a record nobody writes becomes
stale. Nobody has to poll, delete or submit, no fault has to strike, no snapshot has to be
loaded and no record has to expire. Retention: the clock runs, the reaper sweeps, the
worker, while up, works: its decoding ends, and so does its run (`WF` of `Decoding` and of
`Ending`); it need not be restarted. WorkerBoot: the container is started again, its thread
goes on, the clock runs, Redis comes back; faults are bounded, so that in the end a boot
goes through. BootSupervisor: the script runs and systemd starts dockerd; nobody has to
assign an address, and the property speaks of an address that is there to stay. No liveness
is stated of the client: it polls for as long as the server says queued.

## 4. Proofs

All for every value of the constants that the named assumptions allow.

**JobLifecycleProofs** (`TypeCorrect`, `DeletedReturnsOnlyByRace`, `SucceededHasItsStems`,
`OutcomesAreAnnounced`).
The type invariant is strengthened by what a run's counters are at each control point.
ResurrectionNeedsRace is not inductive: `IInv` adds that a job deleted without a race is
buried, that is, its tombstone stands as long as some process could still pass a check
with it in hand, and no process is past its check; that a submission in progress has an
id no client knows, so nobody can delete it; and that outputs are whole from the worker's
stamp on unless the job is deleted. Each actor's steps are a lemma, and frame lemmas say
which jobs a step cannot touch. `OutcomesAreAnnounced` is inductive next to `TypeOK`: a
step that stores an outcome leaves its process right before the webhook with the job in
hand, and only the webhook or a fault, which marks the job, takes it from there.

**JobRecordProofs** (`QueuedIsNeverLost`, `FinalIsFinal`, `RestartBringsBackStems`).
`QueuedIsNeverLost` takes two invariants next to `IInv`. `SoleInv`: an id whose record is
not saved yet is in nobody's hand but its submitter's, and a queued job is in no settler's
hand, so that no Repudiate drops its entry. `KeptInv`: RQ, the worker, the submitter before
its enqueue or a DELETE before its erase holds every queued job; a step that lets go hands
over, and a fault that lets go marks the job.

`FinalIsFinal` is under `Orderly`: `Env` without silent runs and without
redispatch. A job is lost when nobody runs it, nobody will, and it has not succeeded.
`OwnedInv` says that only a lost job is in the hand of a process that will fail it from
outside (`LostInv`), that a run finds its record as it has left it or gone (`RunInv`), and
that what RQ has yet to hand out has not been run (`QueueInv`). A lost job stays lost, so
what a settler has read may be old and its write is right all the same. Without `Orderly`
the property is false: see section 5.

`RestartBringsBackStems` is about `RedisRestart` and holds in every environment, for any
number of restarts. Neither `DeleteInv` nor `TombInv` survives a restart, which takes
tombstones away from under the processes that rely on them; what a restart cannot take away
is `doomed`, the jobs a DELETE has ever planted a tombstone for. `RestartInv`: whoever
removes a job's files, the DELETE or the run that met the tombstone, has a doomed job in
hand (`DoomInv`); a run about to report success has its stems or is doomed (`MadeInv`); and
what the snapshot says succeeded has its stems on the volume of now, or is doomed
(`SnapInv`). The last is where the age of the snapshot matters: stems go under a DELETE, or
by age, and then Redis has saved again (`OutputsStay`). A record that is due to expire is
exempted, and a restart does not make it any younger: the time it takes to come of age is
more than the snapshot's minute.

**JobOutcomeProofs** (`AbandonedStaysFailed`, `CallbacksAgree`, `InputGoesWithItsRun`,
`WebhookOnce`, `ContractKept`).
`AbandonedStaysFailed` holds in every environment. `EndedInv`: whoever fails a job from
outside has dropped its RQ entry before the failure is stored, so nothing can start it
again; only a Redis error that `_cancel_rq_job` swallows leaves the entry, and it leaves
the mark that the property exempts.
`CallbacksAgree` is under `Orderly`. `ToldInv`: once a failure has been announced the run is
done and no success has been; once a success has been, the run is done and no settler has
the job in hand. It rests on `OwnedInv`, which says that settlers hold lost jobs only.
`InputGoesWithItsRun` holds in every environment. `InputInv`: from the fetch on local_input
names the file the `finally` block unlinks, for an upload from the start (`NamesInput`); and
unless a fault has struck it, a job is run once, nobody fails it before its run, and an
input that nobody runs is an upload yet to be run or the leavings of a fetch that failed
(`RunOnce`). Silence does not matter to it: who fails a silent run from outside leaves it
to its own `finally`.
`WebhookOnce` is under `Orderly`. `SingleInv` is about the jobs the property speaks of: no
fault, no race. Such a job loses its run while its record says running in one way only, by
the tombstone of a DELETE that the run has met. Then the tombstone is what protects it
(`Spared`): it stands from there to the end of the DELETE (`Mourned`), everybody who wants
to fail the job looks at it first, and it does not expire while anybody has the job in
hand. All other settlers stand before a record somebody has lost to a fault.
`ContractKept` is under `Peaceful`: `Env` has crashes and backlogs at most. That is where
the contract is true of this code: a DELETE's race brings a record back (section 5), a
timeout or an outage may take a success back, silence and redispatch restart what was
failed. `PeaceInv`: a record somebody will write is there, and a failure about to be
announced is stored. The refinement maps a step to a step of the contract or to nothing:
every write of a record by who holds it (`RefineSave`), the webhook (`RefineNotify`), the
first save, an API crash with submissions in hand (all of them at once), the expiry; all
other steps change nothing a client can poll (`StutterSteps`).

**RetentionProofs** (`TypeCorrect`, `DeletedIsFinal`, `SweepSparesRun`, `StemsLastAsLong`,
`RunningIsSettled`, `QueueKeepsItsJobs`). `IInv` ties the clocks to each other: a running
record's TTL and silence add up until it is stale, after which the time since the last sweep
bounds what is left of it (`AgeInv`); a directory and ffmpeg's file are no older than the
run that made them (`OutputInv`); stems and record of a success age together (`ServeInv`).
One lemma per action. `DeletedIsFinal` is an action property, too: whoever stands before a
write of a deleted job's record finds its tombstone, which has at least as long to live as
the run has time left; that ends with the run's time, and `DeletedStaysDeleted` says so.
`RunningIsSettled` is an action property: the tick in which a running record would expire
contradicts `AgeInv`. The assumption used is `StaleAfter + Interval < ResultTTL +
JobTimeout` and `JobTimeout < ResultTTL`, which the defaults satisfy by a wide margin.
`QueueKeepsItsJobs` is about any finite `Jobs`. `LineInv`: of two waiting jobs one is ahead
of the other. `WaitInv`: for every waiting job the time it has waited, the time the run in
progress has left and `JobTimeout` for each job still ahead add up to at most `(|Jobs| - 1)
* JobTimeout`; a tick moves one unit from the second to the first, a start one `JobTimeout`
from the third to the second. The record's TTL and the upload's age are that first term, so
neither limit is reached.

**SegmentationProofs** (`TypesHold`, `WrittenInOrder`, `ContextIsFull`,
`SegmentsAreTransparent`, `MemoryIsBounded`, `ProgressIsNotAhead`,
`ProgressFallsOnlyThere`), for all chunk lengths, hops, segments, margins, input lengths,
batch sizes and requests.
The position is always a multiple of the segment length and on the grid of hops, and what is
written is the span from 0 to it (`IInv`); lemmas on spans say that the interior of a segment
joins what is there. `ContextIsFull` says every accepted configuration starts each segment on
the whole input's grid with a full chunk of context on both sides.

`SegmentsAreTransparent` builds on that. `BufferInv`: after batch i the handler holds, for a
stem asked for once, chunks 0 to `Seen` in order, and for one asked for k times k times as
many. A sample x that is kept is then added up from the chunks that cover it. Chunk c of a
segment that starts q hops into the input and chunk c + q of the whole input cover the same
samples (`Covers`), every chunk that covers x exists in both (`CoveringExists`: the padding
reaches two overlaps beyond either end), and both have the same content there (`SameSample`:
real audio from the margin, or the same reflection, or the same silence where the input is
too short to be reflected, at the input's own end). `SameFold` puts the two sets of chunks
in one-to-one correspondence. `MemoryIsBounded` follows from `BufferInv`, since a longer
segment never has fewer chunks (`UnfoldedGrows`) and a segment is at most step and two
margins long, and from `MemInv`: beside the chunks there is the decoded input, whole.

`ProgressIsNotAhead` and `ProgressFallsOnlyThere` are about fractions, compared by
cross-multiplication. `CountInv` ties the position to the number of segments done,
`ReportInv` the last report to both: within a segment it counts segments and batches, between
segments it is at most the segments done, and it is whole at the end only. `SegmentFraction`
says that a fraction which is at most k of l segments is at most the samples of k segments,
because only the last one may be short. `ToldInv` follows the fraction into the record: what a
poll reads was a report's nearest multiple of `1 / Digits` (`RoundedReport`), and what has been
written only grows after it.

`WantsAssumption` says that a request is a sequence and not empty, which `_validate` ensures.

**WorkerBootProofs** (`AliveWhileServing`, `DeadWithinTTL`, `TypeCorrect`,
`NeverFetchedAgain`). While a worker serves, the key's time left covers the beats still due,
one lost beat included (`PulseInv`); whenever it does not serve, time left and time since
add up to at most the TTL. Probes that do not reach Redis fail whatever the worker does;
`RedisKeeps` says that an outage changes neither sum. The assumption is that two late sleeps
fit into the TTL; the default (90 s, sleeps of 30 s) satisfies it. A TTL below 15 s does
not, because of the sleep's floor of 5 s. `NeverFetchedAgain` is an action property from
`KeptInv`: once a life has served, the converted file is whole and no life is anywhere
between the script's check and its boot.

**ClientProofs** (`ClientTypes`, `TheLogKeepsNoted`, `AcceptedJobsAreNoted`,
`SucceededFilesAreThere`, `LitterIsPaidFor`), for any number of runs, files and jobs. `CInv`
has a part for each concern. A job is in one run's hand (`HoldInv`) and is noted once, by
that run (`NotedInv`). Of the log as it is, and as any run in `remember` has read it,
`LogInv` says that every job noted while no other run was in there is in it or it is full.
The jobs in no log and no hand are no more than the faults and interrupts there have been,
those left out whose run could not read the log (`LostInv`). Each stem fetched so far is at
the destination, of this job unless another file shares the directory (`FetchInv`), and what
a run counts as done lies behind it in its list and stays there (`DoneInv`). A temporary
file on disk is in the hand of the run that made it, which has its path, or an interrupt has
been paid for it (`TrackInv`). The assumptions on the constants say that every run has a
list of files, that there are stems, and that the log holds at least one job.

**BootSupervisorProofs** (`RepairsAreBounded`, `WaitsAreBounded`). Every repair but the first
needs a stop of dockerd since the last one: once the repairs are one ahead of the stops, the
api is published and the loop back at its look, which only a stop can change. Failures,
losses of the address and the lengths of the waits do not enter, so the bound holds for
all of them.

**Model-checked only:** what is temporal under fairness (RunningSettles, SubmittedSettles,
AllIsForgotten, BootsInTheEnd, RepairedForGood), because the prover has no rule for fairness
here. Every invariant and action property of a passing run is stated by a theorem; those
under `Orderly` and `Peaceful` say so, and outside these environments they do not hold.

## 5. Where the code and its words part, beyond the three runs

* A DELETE between the worker's load and its first save (`jobs.py:411-417`), or between
  `on_progress`'s look and its save, brings the record back as running (`jobs.py:182`
  says "stays deleted"). `ResurrectionNeedsRace` states the exact window.
* Two settlers of one running record both post the webhook; `INTEGRATION.md:139-140`
  says once. PostedOnce says of which jobs that can be true at all: those that have lost
  their worker to a fault, and those that came back by the DELETE race.
* After a restart of Redis the succeeded record of a job whose files a DELETE has removed
  may be back. `StemsUnlessDeleted` says that no job's can with which no DELETE has ever come
  as far as its tombstone. That it is the tombstone and not the removal of the record that
  counts shows with a second restart: a run made again after the first meets the tombstone
  and removes its stems, the second brings the succeeded record back and takes the
  tombstone, and the DELETE, had it died in between, has removed no record.
* A live but silent run is failed by a poll and goes on to succeeded (`jobs.py:296-298`
  "nothing is running this job"). TerminalIsFinal is checked and proved without silent
  runs, with which it does not hold.
* A timeout that strikes after the final write, or a final write Redis carried out although
  its reply was lost, sends the run to its `except` and the job from succeeded to failed;
  TerminalIsFinal names this one exception (`TakenBack`).
* The heartbeat's docstring (`jobs.py:150-152`) says it covers model loading;
  `worker.py:77-79` starts it after. The model does what the code does.
* `bandit:473` says `--jobs` picks an interrupted job up again; not one interrupted
  between the server's answer and `remember`, and not when the log has been cut.
  AcceptedIsNoted says that each such loss costs a Ctrl-C or an error of its own.
* `separator.py:7-13` and `README.md:86` say peak memory stays constant however long the
  input is; `_load_audio` (`separator.py:239`) decodes all of it into memory, where it stays
  until the call ends. `PeakIsInputAndSegment` says what is true: what comes on top of the
  input is capped.
* Progress can read 100 % before all is written: `jobs.py:442` rounds to four digits and
  `bandit:382` to whole percents. `NeverAhead` bounds by how much.
* `_load_audio` catches every exception (`separator.py:206-211`), RQ's `JobTimeoutException`
  among them. A run that is timed out while libsndfile reads goes on with ffmpeg, and no
  limit holds for it any more: not that its directory is left alone, nor that the tombstone
  of a DELETE outlasts it.
* A tombstone lives exactly as long as a run may (`jobs.py:189`). After a DELETE in the
  tick its run begins both end in one tick, and whichever comes first decides whether the
  record comes back. `DeletedStaysDeleted` is stated up to that tick.
* The record of a succeeded job may outlast its stems by the time between `os.utime` and the
  save, up to `Lag`: `get_stem` then answers 404 for a job that has succeeded.
* `is_usable` (`fetch_weights.py`) accepts any file that loads and has enough tensors;
  `load_bandit` refuses one with missing or unexpected names. Such a file is never fetched
  again and the container restarts for good.
* A URL fetch that fails half-way leaves `<id>.download` for the reaper, though
  `jobs.py:475` removes "the source audio either way".

## 6. What is abstracted

* JobLifecycle's TombExpires assumes a tombstone that outlives everybody who has the job in
  hand. `DeletedStaysDeleted` is what Retention has to offer for it, and the two runs it leaves
  out are left out of JobLifecycle. The reaper's look at all directories at once is one step.
* JobLifecycle is untimed, RQ's order is dropped, a batch of the boot scan is one MGET,
  the webhook POST is one step, a Redis command whose reply is lost is modelled for record
  writes only.
* RedisRestart is a restart between two commands; a command that was under way when Redis
  went is JobLifecycle's outage. RQ's registries go back with the queue.
* Retention's handlers are atomic; a DELETE that stops half-way is JobLifecycle's.
* Segmentation has whole units instead of float seconds, a segment length of 0 is
  excluded (the code would divide by it), decoding and resampling are a source of samples.
* WorkerBoot's torch.load accepts exactly whole files; a file of another model is `foreign`
  whatever it is. A transient error of the usability check is left out.
* Client: one request is one step on the server's side; HTTP errors other than those of
  the answers named are a `Fault`. Errors of the operating system in mkstemp or in
  starting ffmpeg are left out.
* BootSupervisor: a `docker compose` call is one step, the sleep between two rounds is not
  timed, and the address is any address on tailscale0, as the script's grep has it.

## 7. Not modelled

* **Authentication** (`api.py`, `require_api_key`): one comparison of a header with a
  setting, no state.
* **Request validation and response formatting** of the HTTP API, and the client's
  `--status` and `--jobs`: they read, print and change nothing. This is what keeps HTTP API
  and client at "partly".
* **The network and its band tables** (`vendor/*.py` but for the chunked handler): tensor
  and floating-point arithmetic; TLC has no reals, and no property of these parts is about
  an order of steps. `Segmentation` holds for every network.
* **Model loading**: which tensors a file names is reduced to whether it is whole, half or of
  another model; the state-dict surgery renames keys, has no state and is left out.
* **RQ's own worker registrations** and its scheduling of several queues: external.
* **Measuring scripts** (`benchmark.py`, `experiment_quantize.py`, `smoke_e2e.py`): run by
  hand, no part of the service.
* **Deployment files**: configuration; restart policies are the fairness above, Redis's
  options are RedisRestart.

What could still be done: the two properties under `Orderly` with silent runs, in the weaker
form that is left of them there.
