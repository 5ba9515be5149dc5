# Verification of vllm-hust-vspec in TLA+

`vllm-hust-vspec` is a plugin that replaces parts of vLLM and vLLM-Ascend at
run time to make speculative decoding faster: it chooses the speculative width
(*gamma*, the number of draft tokens per step) adaptively, holds and batches
admissions, and swaps the proposers' device code for graph-friendly versions.
This directory holds TLA+ modules translated from its source, the TLC
configurations that check them on small instances, and TLAPS proofs of the
properties that matter most, for every value of the constants.

All paths below are relative to `src/vllm_hust_vspec/` unless they start with
`docs/`. Line numbers are those of the commit beside this directory.

## 1. Inventory

### 1.1 The serving path

vLLM's engine loop repeats `schedule()`, `execute_model()`, `sample_tokens()`,
`update_from_output()` and, in synchronous mode, `update_draft_token_ids()`.  In
asynchronous mode the next frame is scheduled while the previous one still runs,
so the scheduler works with *placeholders* in the place of draft tokens it has
not seen.  The plugin wraps each of these calls.

```
             arrivals, aborts
                   |
   +---------------v----------------+   choose / force    +-----------------------+
   | adaptive_schedule   (runtime)  |-------------------->| gamma controller      |
   |  latch, cold-start holds,      |<--------------------|  online / goodput     |
   |  refill limits, cohort lock,   |       gamma         +-----------^-----------+
   |  placeholder repair            |                                 |
   +---------------+----------------+                 complete_step,  |
                   | frame (gamma, requests)          discard_step    |
   +---------------v----------------+                                 |
   | runner hooks        (runtime)  |    +----------------------------+-----------+
   |  width switch, dummy runs,     |--->| adaptive_update_from_output (runtime)  |
   |  pending measurements          |    |  stable-frame test, reward, refill     |
   +---------------+----------------+    +----------------------------------------+
                   |
   +---------------v----------------+
   | proposer backends   (backends) |   draft model, EAGLE/EAGLE3, MTP: graph
   |                                |   replay, parameter updates, device counts
   +--------------------------------+
```

| component | source | state it keeps | operations | what is hard | what makes it correct |
|---|---|---|---|---|---|
| Scheduler hooks | `adaptive/runtime.py` 38–220, 269–299, 1100–1132, 2215–2690 | target-only latch, first-cohort timestamp, arrival gate, `num_spec_tokens`, scheduler-level placeholders, each request's `spec_token_ids` | `scheduler_init`, `adaptive_schedule`, `adaptive_update_from_output`, `adaptive_update_draft_token_ids` | two frames in flight; requests arrive, abort or are preempted between them; four holds that all lower the capacity; the running list and capacity are swapped around the host's call | a request that skipped the Draft forward never speculates again; a locked cohort has one width; placeholders match proposed drafts; capacity holds; nothing waits for ever |
| Online controller | `adaptive/online.py` | current width, active bucket, burn-in counter, per bucket and arm: rewards, launched, selected, travel targets, priors | `choose`, `force`, `complete_step`, `discard_step_feedback` | feedback one frame late; the batch changes bucket and feasible widths in the middle of a sweep; priors inherited between buckets | a width fits the batch it was decided for, though a held cohort may outgrow it; steps are bounded; no arm opens before its boundary is measured; sweeps and travels end |
| Refill controller | `adaptive/refill.py` | reward statistics of hold and refill per (running, gamma), starvation counters, pending measurement | `choose`, `observe`, a schedule hook outside `adaptive_schedule`, an update hook | a decision is measured over several frames that other events interrupt | a held queue is admitted within the guard's bound |
| Goodput controller | `adaptive/controller.py`, `adaptive/profile.py` | acceptance rates per position, latency corrections, pending feedback, control step, warmup-resume flag | `choose`, `force`, `observe`, `observe_step_latency` | decisions only every `control_interval` calls, resuming from width 0, empty feedback | chosen width feasible, bounded step |
| Runner hooks | `adaptive/runtime.py` 300–1090, 1135–2210, 2669–3868 | runner and proposer width fields, pinned width, last proposal's and last synchronised gamma, graph and parameter tables per width, deque of pending measurements | start-up and capture, `prepare_inputs`, `execute_model`, `sample_tokens`, `_propose` wrappers | save/replace/restore of many fields around calls that nest, raise, or are skipped by a fast path; frames still on the device when the width changes | native width restored; builders, graphs and tables fit the frame; a transition is fenced |
| Entropy stop | `adaptive/entropy.py` | none across steps | trims a suffix of drafts | numeric | – |
| Profiling, fitting | `adaptive/profiling.py`, `adaptive/fitting.py` | files | offline | – | – |
| MTP backend | `backends/mtp.py` | phase of the device-count machine, accepted counts on device and CPU, captured graphs | `prepare_inputs`, `event_synchronize`, `copy_to_gpu`, `preprocess_mamba` hooks; strict graph dispatch 902–962 | counts kept on the device across frames while the host re-orders rows; states that move blocks need them on the host | each frame starts from the count its own request's last frame accepted |
| Parallel graph updates | `backends/draft_parallel_update.py`, `backends/eagle_graph.py`, `backends/eagle_parallel_update.py` | worker pool and streams, pending futures, last-replay and dependency events | replay, plan, submit, join, defer, pipeline, fall back | update threads race the replay of the same graph; jobs outlive their call; one of them fails | a replay sees the parameters of its own step, a stream has one writer, failures are reported, replays end |
| Serial Draft backend | `backends/draft.py` | dispatcher attributes shared with the Target, graph keys, task tables keyed by token count, width dictionaries | dispatch, capture, propose, compact the first pass, pad, build metadata, update and replay, restore | several ways to steer one dispatcher; a batch that changes its token count twice on the way to a graph; lookups by token count alone | the dispatcher comes back clean; graphs cover their batch; padding leaves real rows alone; tasks are updated with their own widths |
| Exact repetition | `backends/draft_repetition.py` | per request: the tokens seen, slot, output length; per row: history and owner | `update`, `row_layout`, native, Top-K and fused reductions | histories kept by difference by paths that run in some frames only; slots and rows that change owners; a proof over part of the vocabulary | every path reads the request's true history and reduces to the token plain decoding gives |
| EAGLE verification | `backends/eagle_rejection.py`, `backends/eagle_target.py` | none of its own | `_forward_linear_eagle`: choice of the path, acceptance | the paths fall back into each other row by row | emitted tokens are those of greedy decoding, or within the margin |
| EAGLE3 metadata sharing | `backends/eagle3_gdn_metadata.py` | generation, leader's metadata | leader builds, followers reuse | stale generation | a follower never uses an older generation |
| Other Draft and EAGLE backends | other `backends/*.py`, `models/` | device tensors | kernels, packing, sampling | device numerics | outside TLC's reach |
| Launcher and configuration | `cli.py`, `config.py`, `compatibility.py`, `model_store.py`, `host_compat.py`, `patches.py`, `manifests/`, `manage.sh`, `scripts/` | none at run time | argument checks, environment, process start | – | – |
| Benchmarks and experiments | `online_benchmark.py`, `school028/`, `benchmarks/` | none | measurement drivers | – | – |

### 1.2 Behaviours that are hard to test

PROJECT.json lists them one by one with their lines ("hazards").  They fall into
six groups.

* *Two frames in flight.*  The width of frame *n+1* is decided before the
  reward, the aborts and the drafts of frame *n* are known.  The latch, the
  placeholder repair, the cohort lock and the controller's padding exist for it.
* *Holds that stack.*  The arrival gate, the initial-cohort hold, refill
  batching, isolated refills and the outer refill hook each lower
  `max_num_running_reqs` for one call; whether a request can wait for ever is a
  question about all of them together.
* *Decisions that outlive their premises.*  A travel target, a prior, a launched
  arm or the controller's width was chosen for another batch size; feasibility
  (`batch * (gamma + 1) <= budget`, the graph's row limit) is a function of both.
* *Progress that depends on feedback.*  The controller waits for rewards that
  only stable frames give; joins, transition frames and burn-in take them away.

## 2. Modules

| module | models | extends |
|---|---|---|
| `AdaptiveScheduler` | the scheduler hooks, against a nondeterministic host scheduler | – |
| `MCAdaptiveScheduler` | symmetry set for TLC | `AdaptiveScheduler` |
| `AdaptiveSchedulerProofs` | theorems about `AdaptiveScheduler` | `AdaptiveScheduler` |
| `OnlineGamma` | `OnlineGammaController` as a library of actions: no `Next` of its own | – |
| `OnlineServing` | the controller composed with the frames of the serving loop | `OnlineGamma` |
| `OnlineServingProofs` | theorems about `OnlineServing` | `OnlineServing` |
| `RunnerWidth` | the model-runner hooks of one worker, against a nondeterministic host runner | – |
| `MCRunnerWidth` | deployments for TLC | `RunnerWidth` |
| `RunnerWidthProofs` | theorems about `RunnerWidth` | `RunnerWidth` |
| `RefillAdmission` | the refill controller and its two hooks, against a host that admits, preempts and finishes | – |
| `MCRefillAdmission` | settings for TLC | `RefillAdmission` |
| `RefillAdmissionProofs` | theorems about `RefillAdmission` | `RefillAdmission` |
| `GraphUpdate` | graph replays and the parameter updates of pool threads, with the device's streams | – |
| `MCGraphUpdate` | deployments for TLC | `GraphUpdate` |
| `GraphUpdateProofs` | theorems about `GraphUpdate` | `GraphUpdate` |
| `MtpCounts` | the device-count phases of MTP, with the stream and the published counts | – |
| `MCMtpCounts` | symmetry set for TLC | `MtpCounts` |
| `MtpCountsProofs` | theorems about `MtpCounts` | `MtpCounts` |
| `DraftGraphs` | capture and replay of the serial Draft backend's graphs | – |
| `MCDraftGraphs` | settings for TLC | `DraftGraphs` |
| `DraftGraphsProofs` | theorems about `DraftGraphs` | `DraftGraphs` |
| `RepetitionHistory` | the packed and the sparse histories as operators | – |
| `RepetitionVerify` | the greedy verifier with its four reductions over those histories | `RepetitionHistory` |
| `GreedyDecode` | abstract specification: what greedy decoding with penalties emits | – |
| `MCRepetitionVerify` | target models, penalties, settings for TLC | `RepetitionVerify` |
| `RepetitionProofs` | theorems about `RepetitionVerify` | `RepetitionVerify` |

### 2.1 AdaptiveScheduler

State, and where it lives in the code:

| variable | code |
|---|---|
| `status`, `prompt` | the host's `waiting`/`running` lists and the prompt rows a request still has to compute (external) |
| `spec` | `len(request.spec_token_ids)` |
| `slots` | `len(scheduler._spec_token_placeholders)` |
| `finished` | `scheduler.finished_req_ids` is not empty |
| `inflight` | scheduler outputs handed to the runner and not yet updated |
| `gamma` | `controller.current_gamma` |
| `latch` | `_TargetOnlyLatch.request_ids` |
| `startAge`, `gate` | `_vspec_adaptive_initial_cohort_started_at` and `_vspec_adaptive_arrival_gate`, as ages in ticks |
| `drafted`, `zeroed` | history, read by properties only |

Actions: `Arrive`, `Abort` (front end), `Tick` (the clock), the five disjuncts
of `Schedule`, and `Complete`.  One `Schedule…` action is one *whole* call of
`adaptive_schedule`: the latch refresh, the cold-start holds, refill limit and
isolation, the host's `schedule()`, restoration of list and capacity, the
decision and the placeholder repair, in the code's order.  The disjuncts are
the code's branches: held (capacity 0 on an empty engine), latched, preselected
by the online policy, locked cohort, and the ordinary decision.  `Complete` is
`update_from_output` of the oldest frame together with
`update_draft_token_ids`, which the engine loop calls right after it.

The host scheduler is external and nondeterministic within its contract: it
keeps what it does not preempt, admits as many as limit and KV room allow, and
cuts prompts into chunks as it likes.  The gamma decision is an arbitrary
candidate, so what is shown holds for either controller.  The outer refill hook
appears as an arbitrary choice between the full capacity and the running count
(`Caps`).

### 2.2 OnlineGamma and OnlineServing

`OnlineGamma` has one operator for every way `choose` returns (`ForceWidth`,
`Resume`, `SafeBurnIn`, `Transfer`, `WarmupStep`, `Resides`, `MoveOrWait`,
`Warmup`, `ReturnToAnchor`, `HoldModel`, `FrontierReturn`, `WarmupReturn`,
`Ucb`), dispatched by `Choose`, `Continue` and `Decide` in the order of the
method's early returns, and `CompleteStep`, `DiscardStep` for the feedback.

A bucket's record has these fields: `obs` the rewards of each arm, `launched`
the arms with `scheduled_windows > 0`, `selected`, `heard` and `sched` the
selected arm, whether it has a reward since then and the frames it has been
scheduled for, `returned` for `warmup_return_done`, `wtarget` and `boot` the two
travel targets, `seeded` whether a prior was inherited, `deferred` and `reval`
the deferred frontier and the anchor's revalidation.

Rewards are abstracted: wherever the code compares rewards, any outcome is
possible.  *How many* rewards an arm has is exact, up to the largest number the
code compares it with (`ObsBound`, `SchedBound`), because every early return of
`choose` depends on these counts.  Everything integer is exact: feasibility, the graph row
limit, bucket keys, nearest candidate with ties to the larger, clipping,
Python's rounding of halves to even.

`OnlineServing` puts the controller in the loop. `adaptive_schedule` decides the
width of a frame in one of three ways, each an action:

* `SchedulePreselected`: the engine runs nothing, so `choose` decides for the
  requests that may enter before the host schedules; fewer of them enter, or
  none (a *stall*).
* `ScheduleHeld`: a running cohort keeps its width, by default with asynchronous
  EAGLE3 and MTP. The hook calls `force` with the present width
  (`adaptive/runtime.py:2489`), and `force` (`adaptive/online.py:486`) does not ask
  whether the batch fits it. With the native refill hook (2413) a cohort of the
  native width is scheduled without the controller.
* `ScheduleChosen`: nothing holds the width and `choose` decides for the batch
  the host scheduled.

The variable `hold` says which of these the settings allow (`Holds`). The
target-only latch does not appear: the launcher refuses the online policy with
width 0 unless speculation may resume (`cli.py:948`).

`Feedback` is the part of `adaptive_update_from_output` that rewards the oldest
frame if it was stable, that is if no request was new and all its rows verify as
many drafts as its own width. `Verified` says which counts the rows have: prompt
rows none, the others the drafts of the frame before, or, after an asynchronous
return to the native width, the placeholders of the width the host scheduled
under (`NextSlots`; `adaptive/runtime.py:1109`). The batch changes
nondeterministically in the ways `Changes` allows. The variable `asked` is
history, the batch `choose` last decided for.

### 2.3 RunnerWidth

State, and where it lives in the code:

| variable | code |
|---|---|
| `dep` | the settings, constant while a process runs |
| `runner.width`, `.spec` | `uniform_decode_query_len` of runner and dispatcher with the three thresholds that are always set with it; `num_spec_tokens` |
| `runner.builders`, `.pinned` | `num_spec`, thresholds and state-index view of the metadata builders, as a width; `_vspec_adaptive_pinned_query_width` |
| `outer`, `inner` | the locals of an open `_runner_query_width`: of `execute_model` or `sample_tokens`, and of `_propose` inside it |
| `drafter`, `kept` | `num_speculative_tokens`, active continuation width, `_runnable` and `_draft_graph_params` of the proposer, and the locals that will restore them |
| `previous`, `synced` | `_vspec_adaptive_previous_proposal_gamma`, `_vspec_eagle3_synchronized_gamma` |
| `graphs`, `table` | captured widths and the owner of the base target table; the table installed in `acl_graph._graph_params` |
| `eager` | `_vspec_adaptive_force_target_eager_step`, `_vspec_adaptive_target_only_step` |
| `device` | frames launched and not finished (external) |
| `frame`, `last`, `pending` | the scheduler output in work, the width of the latest one, the drafts each decoding request holds |

A frame goes through `ExecuteModel`, `PrepareInputs`, `Launch`, `EndExecute`,
`SampleTokens`, `Propose`, `EndSample`: the wrapper's part before the host's
method, the hook the host calls inside, the host's own work, and the wrapper's
part after it. The fast paths are branches of these actions. `Raise` is an
exception of the host at any point between: all `finally` clauses run. At
start-up `CaptureTarget` and `CaptureDraft` capture graphs in any order.

The host runner is external: it builds a frame's metadata with the builders it
finds, may put them back to the configured view while it launches (the comment
at `adaptive/runtime.py:3272`), and hands each decoding row the drafts of the
proposal before. Which frames arrive is otherwise free, except that a locked
cohort changes its width only when nothing decodes, which `AdaptiveScheduler`
shows as `LockedCohortWidth`. The draft's full graphs are on and the entropy
stop is off, as `_can_use_stable_configured_draft_path` requires for any graph.

### 2.4 RefillAdmission

| variable | code |
|---|---|
| `config` | `max_consecutive_holds` and `cohort_gated`, constant while the process runs |
| `running`, `fresh`, `preempted` | the host's running list and its waiting queue, split by where a request came from (external) |
| `pc`, `call`, `limit` | inside the `schedule` hook: the decision taken and the `max_num_running_reqs` in force |
| `measured` | the states whose hold action has a reward; `_rewards` is kept only as far as `choose` asks for its presence |
| `holds` | `_consecutive_holds` |
| `inflight` | the feedback records of frames not yet updated |
| `denied`, `entered` | history, read by properties only |

`Choose` is `OnlineRefillController.choose` with its early returns in order;
where it compares scores both outcomes are possible. `HostAdmits`, `HostRuns` and
`HostPreempts` are the host's `schedule()` under the limit, each including the
rest of the hook: the limit put back, the feedback record appended if the frame
has tokens. `Complete` is `observe_step`. Gamma may change before any call.

### 2.5 GraphUpdate

| variable | code |
|---|---|
| `dep` | worker counts, modes, prefix and event ordering; per captured size, how many tasks it has and whether the plan supports them |
| `host`, `count` | where the host thread is in `__call__` or in the update hooks; replays launched, whose numbers stand for steps |
| `jobs`, `pending` | calls of `update_one_stream` not yet joined; `_ParallelUpdateState.pending` |
| `last`, `dependency` | `_last_replay_done_event` of each wrapper, `_pending_update_dependency_event` |
| `queue` | the operations enqueued on each stream (external) |
| `param`, `flag` | parameters and event of each captured node (external) |
| `passed`, `finished` | gates reached, replays ended (external) |

A replay is a sequence of operations on the compute stream, a wait and a read for
every task. An update is planned as the code plans it (`Planned`: the rebinding
of normalised dense tasks; otherwise `FallBack`, the host's own update),
split in chunks, a prefix and tail chunks in the pipelined mode, and each chunk
is a job that waits for its gate and rebinds task after task on its own stream
(`WaitGate`, `Rebind`). `CallSucceeds` and `CallRaises` are the ends of a call
with and without a failed job; `Fail` is a binding that raises. The pools of
Target and Draft are one when their worker counts agree.

### 2.6 MtpCounts

The host prepares a frame (`PrepareOnDevice`, or `PrepareOnHost` until the
post-processing context exists), preprocesses recurrent states
(`PreprocessMapped`, `PreprocessTransition`, `PreprocessOnHost`) and launches.
Each step enqueues what the code enqueues: positions, a wait for the published
counts, the remap, copies, the model. The stream runs them in order, `Publish`
is the copy that makes a finished frame's counts visible to the CPU. The
variable `phase` is `_vspec_mtp_device_count_phase`; `accepted` is history. The
batches of successive frames are any injective sequences of requests.

### 2.7 RepetitionHistory, RepetitionVerify, GreedyDecode

`RepetitionHistory` translates the two histories as pure operators. `Updated` is
one `update` of the packed state (release the absent requests' slots, place
arrivals, rebuild or append), `SeenBy` what the kernel reads through
`active_slots`; `NativeUpdated` is the sparse state, including the
request cache with its limit and the early return in the middle of the rows.

`RepetitionVerify` is `_forward_linear_eagle` for greedy requests. One `Verify`
step verifies a draft for each request of a batch: the first path whose
conditions hold reduces the logits (`BareFrame`, `NativeFrame`, `TopKFrame`,
`FusedFrame`, `FullFrame`), unproven Top-K rows falling back, and only that path
updates its own history. Rows of logits are integer functions of the last token;
a penalty is a fraction and values are compared multiplied out. The
order in which the device breaks ties in Top-K is free (`Before`, `low`).
`Discard` is the host taking back tokens, which it does when KV blocks could not
be loaded. `misread` collects the requests whose row differs from their true
history.

`GreedyDecode` is the promise: a text grows only by tokens that are the argmax
of the penalised logits, lowest identifier first, or within the confidence
margin where that is configured. `RepetitionVerify` implements it with
`text <- Prompt \o output` (`Decode == INSTANCE GreedyDecode WITH ...`); the
property `ImplementsDecode` is `Decode!Spec`, checked by TLC on the instances and
proved in general (section 6).

### 2.8 DraftGraphs

| variable | code |
|---|---|
| `config` | the settings: query lengths, first-pass buckets, batch limit, environment switches |
| `tables` | the draft graph parameters: lists of recorded tasks by key |
| `widths`, `splits` | `_vspec_gamma2_unified_compact_num_tokens`, `_vspec_gamma2_compact_num_tokens` |
| `shared` | the attributes set on dispatcher, runner and proposer |
| `capture` | descriptors done and in progress, with what `warmup_and_capture` saved |
| `frame` | the proposal in progress: batch, row starts, graph, row counts of each forward and update |

First the graphs are captured (`BeginCapture`, `EndCapture`, one descriptor at a
time, of any order). Then proposals run: the host's frame (`UniformFrame`, `MixedFrame`)
sets the runtime width, `Propose` saves and sets the attributes, `FirstPass`
compacts the tokens, `Dispatch` selects a graph, `Pad` pads row starts,
`Metadata` builds the continuation metadata, `Replay` updates and replays a FULL
graph or `Forward` runs the steps, `Return` restores. `Raise` may happen
at every stage after the first and restores what the `finally` blocks restore.
`Leave` is the runner's hook that ends the runtime width.

## 3. Runs

| run | question | instance |
|---|---|---|
| `SchedSticky` | Does the target-only latch, with preemption, aborts, isolation and two frames in flight, keep gamma-0 requests out of speculative frames, and is the capacity respected? Are placeholders repaired to the decided width, and do stable frames verify drafts of their own? | 4 requests, capacity 3, refills of 2, gammas 0–3, of which 2 is native and 3 comes first |
| `SchedLocked` | Does a locked stateful cohort keep one width, and does every waiting request get admitted under all cold-start and refill holds? | 3 requests, capacity 2, gammas 1–3, cohort of 2, quiet 1, max wait 2 |
| `OnlineSafety` | EAGLE3 under a tight token budget, growing and restarting, its cohort held or not: does a width fit the batch it was decided for, does only a held cohort exceed it, are steps bounded? | widths 1–3, batches 2 and 4, budget 12: width 3 does not fit batch 4 |
| `OnlineTravel` | EAGLE3 with runtime switching, growing and draining: is there evidence before each farther arm, do travels end, do launched arms get rewards? | widths 1–3, batches 2 and 4; the row limit keeps width 1 out of batch 4 |
| `OnlineSweep` | EAGLE with width 0: does the sweep reach every arm in spite of joins and burn-in? | widths 0–4, batch 2 |
| `RunnerWidths` | Does the worker come back to its native width whatever frames arrive, and do builders, graphs and tables fit every decode frame? | eight deployments: every method, locked or not, anchor at or below the maximum, measured, with kernel, without isolated tables |
| `RefillHolds` | Is the number of consecutive denials of a state bounded by the guard, and is every queue served while frames, aborts and preemptions change the state? | capacity 2, widths 0 and 2, 3 requests, 2 frames in flight; guards 0–2, gated or not |
| `GraphUpdates` | Does each replay read the parameters of its own step, does each pool stream have one writer, is a failed binding reported, do replays end? | 4 deployments (join, defer, pipeline, shared and separate pools, without event ordering), 2 captured sizes, 3 replays, 1 failure |
| `MtpRemap` | Does every row of a frame find its own request's count, and do states move from the right place? | 3 requests, counts 1–2, 3 frames |
| `RepetitionExact` | Do all paths read true histories, do slots suffice, and do frames emit what greedy decoding allows? | 3 requests, 2 rows, 3 tokens, 5 settings, drafts of 0 or 2 tokens, 3 output tokens, 1 discard |
| `NativeStale` | Does the native path read the true history when a request does not fit its row? No (finding) | rows of 2 tokens, prompts of 1 and 3 |
| `DraftReplays` | Does the dispatcher come back clean, do graphs cover their batch, does padding spare real rows, are replays updated with their own widths? | 4 requests, 10 settings, query lengths 4, 5 and 6, 2 proposals |

### Bounds, and why they are enough

* *Requests* 3 or 4: the latch and the lock relate requests of an old frame, of
  the frame in flight and of the queue; three roles, and a fourth request to arrive.
  With `MaxRunning` 3 and `RefillBatch` 2 a refill can be held, isolated or
  neither.
* *MaxInflight* 2 is the code's own depth in asynchronous mode.
* *PromptChunks* 2 gives a first chunk that leaves tokens over and a last one.
* *Widths*: three or five candidates give an arm with two neighbours, a boundary
  arm and a gap that one step cannot cross. `MaxGamma` 4 is where the code's
  extended burn-in begins.
* *Window, WarmupSamples* 1, *ControlInterval* 2: the smallest values at which
  each comparison can go either way. Counts saturate at `ObsBound`,
  `SchedBound`, above which the code does not look at them.
* *Clock*: ages saturate at the bound they are compared with.
* *Batches* 2 and 4 are neighbouring buckets, so one seeds the other.

* *Deployments*: the hooks branch on the method, the lock, whether the anchor is
  the configured width, measuring, the kernel and table isolation; the eight
  deployments take each branch, with two to five candidates.
* *PromptTokens* 1 and 9: a prompt chunk as wide as a target-only row and one
  wider than every candidate.
* *MaxQueued* 2: a frame of the old width is still running when the next arrives.
* *RefillHolds*: with capacity 2 a refill choice exists in one running count only,
  and two widths give two keys, enough for a counter of one to be left behind and
  met again.
* *MaxReplays* 3: a deferred update is joined by the next replay of its role, with
  a replay of the other role in between. Two sizes: one with a task for every
  worker, one that the plan does not serve. Three tasks over two workers leave a
  chunk of two.
* *MtpRemap*: three frames are a first one without context, one mapped on the
  device and one that follows it while its counts are unpublished; three
  requests give permutations, a leaver and a joiner at once.
* *RepetitionExact*: two rows for three requests make slots and rows change owner;
  three tokens with two Top-K candidates leave one outside; one tile per token
  and two programs let the fused reduction cross tiles. `MCInstances` has ties,
  negative logits and penalties on both sides of 1. Three tokens of output are two
  frames of the same path with another in between.
* *DraftReplays*: four requests are powers of two and a batch below the next
  bucket; the settings turn each switch on in a combination the launcher
  accepts, except those of section 5. `SettingsAssumption` of `MCDraftGraphs` has
  TLC check that the settings meet the conditions of `GraphsCover` and
  `ReplaysUpdate`, which therefore do not exclude what the run explores.

Five runs say `CHECK_DEADLOCK FALSE`, because the behaviour really ends:
`RunnerWidths` (a worker whose host raised), `GraphUpdates` (after `MaxReplays`, and
a replay may wait for ever once a binding failed), `MtpRemap`, `DraftReplays`
(their last frame) and `RepetitionExact` with `NativeStale` (all requests finished).
No run has a state constraint; each explores its whole state space. The safety
runs with interchangeable requests (`SchedSticky`, `MtpRemap`) use symmetry; runs
with liveness properties do not.

### Fairness, and why the code justifies it

* `AdaptiveScheduler!Fairness`: the engine loop calls `schedule` while it has work
  (`WF(Schedule)`), completes every frame it started (`WF(Complete)`), and time
  passes (`WF(Tick)`). A decoding request has a maximum length, so among the
  completions that could finish it, one eventually does: strong fairness, since
  preemption and chunks disable that completion in between.
* `OnlineServing!Fairness`: frames enter and leave the pipe. It is stated on
  `pipe` (`Enters`, `Leaves`) because every frame that is scheduled is appended to
  it and every `Feedback` takes one, so `ENABLED` need not evaluate the controller. Nothing is
  assumed about which batch comes next; the liveness properties name the
  situation they need (*while this bucket is served*, *while nothing joins*).
* `RefillAdmission!Fairness`: the engine loop as above; a host that is offered a
  free slot again and again takes somebody in (`SF(HostAdmits)`), and where only
  the end of a request can make room (a full engine, cohort gating) requests do
  end. Nothing is assumed of scores or of gamma.
* `GraphUpdate!Fairness`: the host thread goes on when it can, some pool thread
  that can run runs, some stream that can proceed proceeds. Nothing makes the
  host launch another replay.

## 4. Finding

**A sparse history that is not rewritten** (`NativeStale`). The docstring of
`_SparseRepetitionState` (`backends/draft_repetition.py:1069`) says that it
materialises committed histories by request. `update` rewrites a row only when
the row's owner changed (line 1183) and gives up at once when a history is wider
than a row (line 1181): the rows after that one keep the owner they had, although
the frame is then served by another path. When the owner is back in that
row, only the tokens of its latest frame are appended, and those it
produced while it was elsewhere are missing. The trace: rows `[b, a]`, then
`[a, c]` with a long `c`, then `[b, a]`.

## 5. Known disagreements outside the runs

Each of these was observed with TLC, and each can be seen again by giving the
named property the named instance in a copy of the configuration. They are not
runs of the project; the passing runs leave these instances out.

* *A launched arm is never measured in synchronous mode.* `OnlineServing`,
  `LaunchedArmsMeasured`, with `OnlineTravel.cfg` and `Async = FALSE`, `Batches =
  {2}`, `Changes = {}`. An arm's warmup window is one frame,
  which still verifies drafts of the previous width; the asynchronous mode pads
  the window (`adaptive/runtime.py:2250`), the synchronous one does not.
* *Placeholders of the old width survive a switch back to the native width.*
  `AdaptiveScheduler`, `PlaceholdersMatchDrafts` without `drafted[r] #
  NativeGamma`, with *SchedSticky* (`SchedSticky.cfg`), whose first frame is
  scheduled under width 3 and may be decided to be of the native width 2.
  `_update_async_next_frame_gamma` returns early when the decided width is the
  native one (`adaptive/runtime.py:1109`), although the host has just scheduled
  under another; `docs/vspec_adaptive.md:254` says placeholders are repaired. Drafts of the
  native width are therefore what the property excepts in asynchronous mode.
* *A travel across an infeasible gap never moves.* `OnlineServing`,
  `TravelEnds`, with `Method = "eagle3"`, `MinGamma = 0`, `MaxGamma = 4`,
  `MaxNumSeqs = 3`, `Budget = 64`, `ControlInterval = 1`, `Batches = {1, 3}`,
  `Changes = {"grow"}`, `Holds = {"off"}`. The graph's row limit removes low positive widths at
  large batches but never width 0; a bounded step from 0 ends in the gap
  (`adaptive/online.py:1107`).
* *A held cohort outgrows its width.* `OnlineServing`, `FramesFit` without its
  exception (`hold # "off" /\ f.batch > f.decided`), with `OnlineSafety.cfg`, or
  with `OnlineTravel.cfg` and `Holds = {"cohort"}`, `Changes = {"grow",
  "restart"}`. `choose` takes only widths that fit (`adaptive/online.py:357`), but
  it is not asked for a cohort that runs: the hook forces the present width
  (`adaptive/runtime.py:2489`), and the cohort has grown from two requests to four,
  which exceeds the width's row limit or the token budget. `EveryFrameFits` shows
  that a held cohort that grows is the only way.
* *Batches that force the width for ever.* `OnlineServing`, `TravelEnds` without
  its first disjunct, with `OnlineTravel.cfg` and `Method = "draft_model"`,
  `MaxGamma = 4`, `Budget = 12`. The batch alternates between 2 and 4;
  each 4 forces a width that fits (`adaptive/online.py:601`), each 2 travels one
  step back towards the width it left, and no travel arrives.
* *An anchor frame with builders of the configured width.* `RunnerWidth`,
  `BuildersMatchFrame`, with `FrontierDeployment` of `MCRunnerWidth` (MTP with
  candidates 2, 4, 6 and anchor 4). The first
  stable anchor frame is pinned within `execute_model`'s context, which then puts
  the builders back while the pin marker stays; the next anchor frame trusts it.
  The comment at `adaptive/runtime.py:700` says what such builders do.
  `ConfiguredBuildersMatch` shows that this is the only way.
* *The dynamic state kernel runs at every stable width.* `RunnerWidth`:
  `frame.kernelOn => frame.verify = Midpoint` fails for `KernelDeployment`
  (dynamic EAGLE, widths 1–4). `adaptive/runtime.py:419` compares gamma with a
  field the enclosing context has set to the frame's own width; the docstring at
  413 says "only at its stable anchor width".
* *Graph tasks updated with another batch's width.* `DraftGraphs`,
  `ReplayUpdated`, in these settings: (a) compact first pass with unified or
  split gamma-2 continuation, `precompact` and `runtime` together, with a
  first-pass bucket that the query length divides (12 in the model, 52 and 56 by
  default; `backends/draft.py:1901`); (b) `merged` continuations with compact
  first passes, although the comment at 842 says that one update refreshes every
  serial step; (c) two descriptors with one token count (query lengths 3 and 6,
  or 13 requests of 4 tokens and bucket 52), which share task lists and widths
  (1522); (d) `precompact` or `unified` for gamma 2 without the serial compact
  path, whose capture then has a row for every token; (e) `split` with query
  length 5, where two lists stand for three steps, or with a first-pass bucket
  as large as the batch limit. The switches are environment variables read
  independently of one another (1009–1023). `SwitchesAgree` (section 6) excludes
  just these, and without any one of its conjuncts TLC finds a counterexample.
* *A forced piecewise forward beyond the captured sizes.* `DraftGraphs`,
  `GraphCoversBatch`, with forced piecewise continuations and `HostSizes =
  {1, 2, 4, 8}`. When no captured size holds the tokens,
  `_compact_piecewise_bucket` returns their number (`backends/draft.py:638`), and
  the forward asks for a piecewise descriptor of a size nobody captured (748–758).
  `GraphsCover` shows that this is the only way a forward can miss its graph.
* *A farther arm without a measured boundary.* `OnlineServing`, `EvidenceChain`,
  with `OnlineTravel.cfg` and `MinGamma = 3`, `MaxGamma = 7`, `MaxStep = 4`. A
  batch that does not fit the present width gets the widest that fits
  (`adaptive/online.py:601`), and `choose` returns before it notes the bucket.
  Back in the bucket before, nothing has changed for it, so it does not resume;
  once the window is over it launches the width it was given, 7, although 6 was
  never launched. The comment at 911 makes a farther arm eligible only through a
  measured adjacent boundary. In *OnlineTravel* the forced width is the anchor.
  The next item breaks the property too. Where no width is held or forced off the
  anchor and none is 0, the property holds (`EvidenceHolds`, section 6).
* *A safe burn-in that ends itself.* `OnlineServing`, `EvidenceChain`, with
  `Method = "draft_model"`, `MinGamma = 0`, `MaxGamma = 5`, `MaxStep = 1`,
  `MaxNumSeqs = 4`, `Budget = 64`, `Async = TRUE`, `ControlInterval = 1`, `Window
  = 1`, `WarmupSamples = 1`, `Batches = {2, 4}`, `Changes = {"grow"}`, `Holds =
  {"off"}`; under `FairSpec` the same instance refutes `LaunchedArmsMeasured`.
  `docs/vspec_adaptive.md:29` has a bucket finish the burn-in at the middle
  candidate before it explores. The burn-in branch of `choose` moves one step
  towards the anchor and adds the width it has reached to `launched_arms`
  (`adaptive/online.py:661`), the anchor or not; a launched arm other than the
  anchor ends the burn-in (line 652). The trace: batch 2 has explored up to width 5
  when the batch grows to 4; the resume goes to 4, the burn-in to 3, and the
  burn-in is over without one reward of the anchor 2. From there the bucket stays
  at the anchor and waits for rewards of width 3, which does not run again.
  `OnlineGammaController`, driven through the same steps, takes the same decisions
  (`bucket_resume` 4, `safe_burn_in` 3, `bucket_transfer` 2, then
  `probe_feedback_wait` as long as it was driven).
* *A step longer than the limit.* `OnlineServing`, `StepBounded`: MTP with
  widths 2 to 8 and `MaxStep = 3` moves by 4, since a step ends on the nearest
  candidate and ties go up; EAGLE3 with widths 0 to 3 leaves width 0 over the
  gap that the row limit cuts. `docs/vspec_adaptive.md:34` limits every change
  to `max_gamma_step`. `StepsShort` (section 6) shows that there is no other
  way.
* *A stable frame with a prompt row.* `AdaptiveScheduler`,
  `StableCreditsOwnDrafts` with `prompt[r] = 0` in the place of `prompt[r] > 0 =>
  NewFrame.gamma = 0`, with `SchedSticky.cfg`: a running request whose prompt was
  cut into chunks continues it with a row that has no drafts, which is the width
  of a target-only row, and the check of stability compares widths only
  (`adaptive/runtime.py:2572`); the docstring of `complete_step`
  (`adaptive/online.py:413`) speaks of one stable decode reward. `StableCreditsHold` shows that it takes a frame of width 0.
* *A frame credited to a width its rows were not drafted at.*
  `AdaptiveScheduler`, `StableCreditsOwnDrafts` without `Async /\ drafted[r] =
  NativeGamma`, with `SchedSticky.cfg`: the early return for the native width
  (`adaptive/runtime.py:1109`) leaves placeholders of another width on a request
  whose drafts have the native one, and a frame of that other width takes them
  for its own.
* *Margin and discarded tokens.* With a confidence margin a discarded token may be
  regrown as another one; the packed history recognises a rollback only
  by length and last token. `Discard` is therefore taken only without a margin.

Smaller ones are hazards with a note: repeated re-seeding while the fuller
bucket still sweeps, a burn-in that consumes the first arm's rewards, the
first-cohort timestamp that is stale after an idle period
(`adaptive/runtime.py:2372`).

## 6. Proofs

TLAPS checks every proof below for arbitrary values of the constants that
satisfy the modules' assumptions. `GraphUpdate`'s say that deployments and
captured sizes are finitely many and that there are some.

| theorem | states | extra assumption |
|---|---|---|
| `TypeCorrect` | `AdaptiveScheduler`: `Spec => []TypeOK` | none |
| `StickyHolds` | `Spec => StickyTargetOnly` | `~Online` |
| `LockedCohortHolds` | `Spec => []LockedCohortWidth` | `MaxInflight \in {1, 2}` |
| `CapacityHolds` | `Spec => []RunningWithinCapacity` | none |
| `PlaceholdersHold` | `Spec => []PlaceholdersMatchDrafts` | `PipeMatchesMode` |
| `StableCreditsHold` | `Spec => StableCreditsOwnDrafts` | `PipeMatchesMode` |
| `ControllerTyped` | `OnlineServing`: `Spec => []TypeOK` | none |
| `EveryFrameFits` | `Spec => []FramesFit` | none |
| `StepsShort` | `Spec => StepBounded` | `StepsAligned` |
| `EvidenceHolds` | `Spec => []EvidenceChain` | `EvidenceKept` |
| `RunnerTyped` | `RunnerWidth`: `Spec => []TypeOK` | none |
| `NativeHolds` | `Spec => []NativeBetweenCalls` | none |
| `FenceHolds` | `Spec => []FencedTransition` | none |
| `NoCompatHolds` | `Spec => []NoCompatibilityStep` | none |
| `BuildersHold` | `Spec => []ConfiguredBuildersMatch` | none |
| `DraftReplayHolds` | `Spec => []DraftReplay` | none |
| `TargetReplayHolds` | `Spec => []TargetReplay` | none |
| `TypesHold` | `GraphUpdate`: `Spec => []TypeOK` | none |
| `StreamsExclusive` | `Spec => []StreamExclusive` | none |
| `FailuresReported` | `Spec => FailureReported` | none |
| `ReplaysReadTheirUpdate` | `Spec => []ReplayReadsItsUpdate` | none |
| `CountsAreOwn` | `MtpCounts`: `Spec => []CountsOfOwnRequest` | none |
| `MovesAreOwn` | `Spec => []MovesFromOwnState` | none |
| `RefillTyped` | `RefillAdmission`: `Spec => []TypeOK` | none |
| `GuardBoundsDenials` | `Spec => []DenialsBounded` | none |
| `TargetNeverSteered` | `DraftGraphs`: `Spec => []TargetUnsteered` | none |
| `DraftTyped` | `Spec => []TypeOK` | none |
| `PaddingHolds` | `Spec => []PaddingKeepsRows` | none |
| `GraphsCover` | `Spec => []GraphCoversBatch` | `ForcedSizesCaptured` |
| `ReplaysUpdate` | `Spec => []ReplayUpdated` | `SwitchesAgree` |
| `VerifierTyped` | `RepetitionVerify`: `Spec => []TypeOK` | none |
| `SlotsHold` | `Spec => []SlotsOwned` | none |
| `HistoryHolds` | `Spec => []HistoryServed` | `NativeSafe` |
| `VerifierDecodes` | `Spec => ImplementsDecode` (a refinement) | `NativeSafe` |

* **StickyHolds.** The property speaks of a step and needs an invariant about
  states (`StickyInv`): every live request that was ever in a gamma-0 frame is
  in the latch, and while the controller holds width 0 all running requests are.
  It is inductive with `TypeOK`: `Forget` drops an ended request from the
  history, a latched frame adds only requests the refresh has already absorbed,
  and an ordinary decision of width 0 adds every live request after the host's
  call. The second part is for the locked cohort, which repeats the controller's
  width without entering it into the latch. A speculative frame is then possible
  only while no live request is latched, hence none is in the history.
  The assumption excludes the preselection, which does not enter width 0 into
  the latch either; the launcher refuses that combination (`cli.py:948`).
* **LockedCohortHolds.** The property compares frames with each other; the
  invariant (`LockInv`) compares every frame that holds a running request with
  the controller's width (`WidthInv`). Preemption is the difficulty: a preempted
  request leaves the running list while an older frame still holds it, and could
  come back at another width. `FrameInv` shows that it cannot: a request
  preempted while in flight sits in the older of two frames, so the pipe is full
  until that frame completes. `LatchInv` covers the latch, which may impose
  width 0 on a running cohort only when that is its width already. This is where
  the depth of the pipe, 1 or 2, is needed.
* **CapacityHolds.** Capacity is not a conjunct of the scheduler's guard: the
  hook passes the host a limit that several holds may have lowered, and an
  isolated refill in addition hides the running list. `LimitFits` shows that the
  hidden requests and the lowered limit always add up to no more than
  `MaxRunning`.
* **PlaceholdersHold.** `PlaceInv` adds to the property what synchronous mode
  needs: while a request's frame is in flight it holds no placeholders yet, and
  the width it will get is the frame's (`SyncInv`). In asynchronous mode the
  width the host scheduled under and the decided one are independent of each
  other in the proof (`PlaceSchedules`); `SlotsFollowFrame` shows that the repair
  brings them together whether or not the host rebuilds its list, and a request
  outside the frame, hidden by an isolated refill, keeps what its own latest frame
  left. `PipeMatchesMode` says that only an asynchronous engine has a second frame
  in flight. The exception of the property is the early return for the native
  width.
* **StableCreditsHold.** The code tests widths, the property speaks of where
  the drafts came from. `WideRow` closes the gap for one row: if it is as wide
  as the frame, it decodes placeholders that `PlaceInv` traces to the frame that
  drafted them, or it computes its prompt and the frame has width 0. A
  request that was preempted has no drafts left to be taken for its own, since a
  prompt under way goes with no drafts and a request that does not run has a
  prompt under way (`PromptInv`).
* **EveryFrameFits.** The invariant is `FitInv`: `TypeOK`, `FramesFit`, and that
  the present width fits the batch it was last decided for (`asked`). A held
  width then still fits that batch, so it fits every batch no larger (`HeldFits`),
  and the batch that enters an empty engine is no larger than the anticipated one
  (`PreselectedFits`). The rest of the work is to
  show that every one of the ways `choose` returns gives a feasible width. Each
  ends in the present width, which was checked first, in a nearest member of the
  feasible set, or in a forced maximum of it; `Feasible` depends on the batch, so
  no fact about an earlier frame helps. One lemma per operator states it, and
  each is cited once by the lemma of the operator that dispatches to it.
* **StepsShort.** The same lemmas carry a second fact: unless the batch no
  longer fits the present width, the decision is at most `MaxStep` away.
  `choose` clips a destination to the limit first and then takes the *nearest
  feasible* width, which could again be farther. `StepIsShort` shows that it is
  not: the clipped width is a candidate, because the limit is a whole number of
  candidates, and it is feasible (`NoGap`), because the budget only cuts wide
  candidates and the row limit grows with the width (`LimitGrows`). Width 0 of
  EAGLE3 has no row limit and would open a gap. These two conditions are
  `StepsAligned`; section 5 shows both are needed.
* **EvidenceHolds.** `EvidenceChain` speaks of the boundary of a launched arm only,
  and of a bucket that is being served no more. The invariant speaks of every
  width on the way: a width is *supported* in a bucket when all widths from the
  anchor up to it, itself excepted, are launched and have their rewards, and
  `ChainInv` says that the arms a bucket has launched or has rewards of, and the
  widths it travels to, are supported (`BucketsKept`); that a bucket being served
  without a travel is at a supported width (`PresentKept`), since the end of the
  window launches the present width whatever brought the controller there;
  that before the first bucket is served some feasible width is the anchor
  (`StartKept`); and that a stable frame in flight ran at a width its bucket
  supports (`FramesKept`), since its reward arrives when the controller is
  elsewhere. Widths between supported ones are supported (`SupportConvex`), so a bounded
  step from one supported width to another stays within the chain; the next
  width past a measured boundary is supported (`BoundarySupports`); and a step
  towards another feasible width leaves the present one (`StepMoves`), so a
  frame in transit is never stable. One lemma per branch of `choose` puts
  them together. `EvidenceKept` has three parts. A width forced by a batch
  is the anchor of every batch, and no width is 0, which excludes the burn-in:
  section 5 shows what happens otherwise. No cohort is held; that one is for the
  proof alone, since TLC finds no counterexample in instances with a held cohort
  (`OnlineTravel.cfg` with `Holds = {"cohort"}` or `{"native"}` and `Changes =
  {"grow", "restart"}`). The instance of *OnlineTravel* satisfies all three.
* **NativeHolds, FenceHolds, NoCompatHolds** share one inductive invariant.
  `ContextInv` says that unwinding the open contexts, from whatever state the
  runner is in, gives the native view: a context that was opened for a width the
  runner already has saves nothing, so the current fields themselves must then be
  native, and a pin inside any context must be undone by it or be harmless. Its
  two lemmas are `RoundTrip` (a context closed where it was opened changes
  nothing, also nested) and `PinnedNative` (a pin is native, because a method
  with an anchor never moves its state width). A pinned frame has no context,
  and the invariant keeps the reason: its metadata width is the anchor's.
  `FenceInv` relates the synchronised gamma to every queued frame, to the frame
  in work once `prepare_inputs` has run, and to the drafter's memory; without the
  last part a new cohort could still propose at the old width.
* **BuildersHold, DraftReplayHolds, TargetReplayHolds** extend that invariant by
  `ReplayInv`. `ServedInv`: scheduler, worker and proposer agree on the width
  last served, and the rows still hold its drafts. `WidthInv`: while the host
  executes a frame, the runner has the width of the frame's metadata.
  `BuildersInv`: where a stateful anchor is the configured width, the builders
  have that width too until the launch, and unwinding the contexts gives them
  the anchor's. `GraphInv`: the owner of the base table never changes, every
  graph is captured before the first frame, and the table in force is the
  frame's own, or the base table for its owner. The three properties follow from
  `BuildersInv` with `WidthInv`, from `ServedInv` with `GraphInv`, and from
  `WidthInv` with `GraphInv`.
* **StreamsExclusive, FailuresReported** share `JobsInv`: a job that is not done
  belongs to the call the host is in, or is one of the pool's whose handle the
  state of its role keeps, unless the host has given up. Joining the handles of
  a role therefore leaves its streams free, and the join is where a failure is
  raised.
* **ReplaysReadTheirUpdate.** `ReplayInv` follows a *binding*, the parameters of
  one node for one step, through the three places where it can be: a task of a
  job, an operation on an update stream, an event recorded on the device. It is
  in at most one of them, and while it is anywhere, the replay of its step still
  waits for it (`BindingsInv`). What could go wrong is a binding of a later step
  that changes a node before an earlier replay has read it. `GatesInv` excludes
  it: a binding does not come to the head of its stream before every earlier
  replay of its role has left the device, because a gate that was passed, or a
  wait for the replay, is queued before it. `ComingInv` prepares that for the
  update about to be dispatched. So a replay that consumes a node's event has
  its own parameters bound there, and keeps them while it reads (`ReadingInv`).
  The argument covers every mode, shared and separate pools, a drained device
  instead of ordering events, and failing bindings.
* **CountsAreOwn, MovesAreOwn.** `CountsInv` says where the true counts are, in
  three situations: every launched frame is published (`Settled`); a launched
  frame is on the stream and the device has the counts of the frame before it
  (`Executing`); it has run and its counts wait for the copy (`Finished`). In
  each, the operations that may already be queued behind it for the next frame
  are listed. The two paths, mapping on the device and counts brought back to
  the host, end in the same description, so changing from one to the other loses
  nothing.
* **GuardBoundsDenials.** The property speaks of denials since the last admission,
  the code counts holds per state; `GuardInv` says that no state has been denied
  more often than its counter says and that no counter exceeds the guard. It
  holds because a counter is reset only in a call that admits.
* **TargetNeverSteered.** `CleanInv` says what the open capture or proposal saved:
  whatever it put into the dispatcher's attributes, the saved values are the
  native ones, and a stage that has changed a flag is one whose way out resets
  it. The steering itself may be anything, so neither the buckets nor the
  selection have to be looked into: an attribute that is absent selects nothing.
* **DraftTyped, PaddingHolds** need what captures and buckets compute. `TypeOK`
  covers every attribute of the dispatcher, the tables with the rows and splits
  recorded for them, and every field of a proposal, and says that outside a
  capture and a proposal the attributes are the host's but for the runtime
  width's. `TypedInv` adds its own invariants for tables, widths and the results
  of a proposal to `DraftInv`, which carries the argument. `DraftInv` adds to
  `CleanInv`: descriptors are captured one at a time, with the
  attributes that make the dispatcher select the very one (`Captures`);
  the row starts of the batch are those of a uniform or of a mixed batch
  (`Batches`); once the proposal has steered the dispatcher, the attributes
  describe the batch in progress (`Steering`); the graph chosen has the requests
  and tokens of that batch (`Chosen`), and every forward so far has the rows it
  should (`Forwards`). The number of tokens a request keeps before a position is
  a running sum; what it satisfies for every position is shown by least
  counterexample (`LeastMember`), which needs no induction theorem.
* **GraphsCover** follows from `DraftInv` with `ForwardsCover`. A FULL graph is
  selected as the least descriptor that is large enough, so it covers; a
  piecewise one has a captured size, unless none is large enough and the size is
  forced. `ForcedSizesCaptured` says that the host captured a size for every FULL
  descriptor where piecewise forwards are forced; section 5 has the
  counterexample without.
* **ReplaysUpdate.** `ReplayInv` relates three things made at three times. What
  a capture recorded: the tasks under a descriptor's token count are those of
  that descriptor, once, in the order of the steps, and the noted widths and
  splits are its own (`Recordings`). What the dispatch decided: a FULL graph has
  the query length of the batch, or stands for its first pass (`Lengths`). What
  the metadata say: each step has the graph's tokens, or its requests where the
  settings divide them (`Metas`). In a replay the lists, cut at the noted split,
  then pair each task with the metadata of its own step and width. The pairing
  fails where capture and update decide compactness by different switches, and
  where two descriptors have one token count; `SwitchesAgree` names these cases.
  It is a condition on the settings, not on what happens: with the default
  buckets 52 and 56 it allows neither `precompact` nor `merged` together with
  `runtime`, and no batch limit at which a number of requests fills a bucket
  exactly.
* **SlotsHold** needs `TypeOK` only: `UpdatedShape` shows that an update frees the
  slots of absent requests before it hands any out, so that the slots of the
  batch stay distinct and the others are exactly the free ones.
* **VerifierDecodes, HistoryHolds.** The invariant is `IInv`. Two facts support
  each other: a frame that reads its requests' true histories emits what greedy
  decoding would, and a history stays true because outputs are what greedy
  decoding emits. The second is where the code could go wrong: a packed row
  remembers the length and last token it was built from, and the output may have
  been shortened and regrown since, in frames that took another path. The row is
  rebuilt only if these two differ. `ServedAt` therefore says what the row was
  built from: an exact output of the request, which need not be a beginning of
  the present one. `Comparable` closes the gap: greedy decoding is
  deterministic, so the shorter of two exact outputs is a beginning of the
  longer. Under approximate acceptance that fails, and the invariant uses that
  the host discards nothing there (`Discard` has `config.margin < 0`; section 5
  says what happens with both). On the way every reduction is shown to be the
  argmax over the vocabulary: the tiles and programs of the fused kernel and the
  seen/unseen split by `BestOfParts`, the Top-K proof by `ProvenIsBest`, which
  uses that a penalty of at least 1 raises no value. `AcceptedIs` and
  `GrownFollows` then turn the best token of each row into one allowed token of
  the text after the other. The induction over a vocabulary or a draft is by
  least counterexample (`LeastNat`).
* **NativeSafe** says that the native path is off, or that every history of the
  run fits a native row (`HistoriesFit`); then `update` never gives up half-way.
  *NativeStale* shows that the condition is needed; the instances of
  *RepetitionExact* satisfy it.

Model-checked only:

* the liveness properties (`AdmissionProgress`, `TravelEnds`,
  `LaunchedArmsMeasured`, `SweepReachesAllArms`, `WaitingServed`,
  `ReplaysFinish`), which are beyond the prover. Every safety invariant and
  every action property of a passing run is stated by a theorem.

## 7. Not modelled, and why

* Reward arithmetic, exploration bonuses and confidence bounds: real-valued; the
  model takes every outcome of the comparisons.
* The exception path of `adaptive_update_from_output` (it discards the frame's
  feedback and re-raises; the engine stops), and requests that wait for
  streamed input: the host's own.
* Which tokens a request gets. A completion may finish any request of the frame
  that decodes; entropy stop, which shortens proposals, is not modelled.
* The runner's capture sizes and dispatcher keys, the queue of latency
  measurements, the relaxed acceptance threshold and the copy of drafts to the
  host. The queue's measurements serve the profile policy in synchronous
  execution, where a frame is sampled before the next one is launched.
* MTP beyond the device counts: the fused pre-copy, diagnostic switches, the
  incremental Step 3.5 pass, KV-group annotation, strict graph dispatch.
* The serial Draft backend's fast metadata branch for gamma 2, the hybrid second
  token, sampling alignment, LoRA descriptors, the profiler, exceptions during
  capture.
* The Draft's own repetition states (`DraftRepetitionState`, the fused and sparse
  proposal states), the approximate Top-K, active vocabularies, probabilistic
  rejection, the rounding of `1 / penalty` in floating point.
* Other device code: kernels, packing, quantisation, sampling; no state a
  model checker could say anything about.
* The launcher, configuration, model store and benchmarks: sequential, no state
  while serving. Their checks appear as assumptions on the constants.

## 8. Plan

What is left, in this order:

1. Refinement of `AdaptiveScheduler`'s arbitrary choice `Caps` by
   `RefillAdmission`, and the composition of the two schedule hooks.
2. `GdnMetadata` — `backends/eagle3_gdn_metadata.py`: generations of shared
   metadata.
3. `GoodputController` — `adaptive/controller.py`: decisions over counts, with a
   bound on steps.
4. A frame pipe that hands each frame the width of the proposal before it as an
   abstract specification, implemented by `AdaptiveScheduler` and assumed by
   `RunnerWidth`.
