-------------------------- MODULE AdaptiveScheduler --------------------------
(***************************************************************************)
(* The scheduler hooks that vSpec installs around vLLM's Scheduler          *)
(* (adaptive/runtime.py): adaptive_schedule with its target-only latch,     *)
(* cold-start holds, refill limits, stateful-cohort lock and repair of the  *)
(* asynchronous placeholders, and the part of adaptive_update_from_output   *)
(* and adaptive_update_draft_token_ids that concerns requests.              *)
(*                                                                         *)
(* The host scheduler is external: it keeps every running request it does   *)
(* not preempt, admits as many waiting requests as the limit and the KV     *)
(* cache allow, and in asynchronous mode hands its scheduler-level          *)
(* placeholder list to every request whose prompt is complete.  The gamma   *)
(* controller is an arbitrary choice among the candidates; OnlineGamma      *)
(* models the one the online policy uses.                                   *)
(***************************************************************************)
EXTENDS Integers, FiniteSets, FiniteSetsExt, Sequences

CONSTANTS
  Requests,         \* request ids
  MaxRunning,       \* max_num_running_reqs
  KvSlots,          \* running requests the KV cache has room for
  RefillBatch,      \* adaptive_refill_batch after its default is resolved
  MaxInflight,      \* frames scheduled and not yet completed: 1 sync, 2 async
  PromptChunks,     \* bound: frames a chunked prefill may take
  Gammas,           \* candidate speculative widths
  NativeGamma,      \* scheduler.num_spec_tokens after scheduler_init
  InitialGamma      \* controller.current_gamma after scheduler_init

CONSTANTS
  Async,            \* async_scheduling and adaptive_async
  Stateful,         \* method is eagle3 or mtp
  RuntimeSwitching, \* ..._ASYNC_RUNTIME_SWITCH = 1
  StatefulLock,     \* method is eagle3 and ..._STATEFUL_COHORT_LOCK = 1
  Online,           \* adaptive_policy is online
  Sticky,           \* adaptive_gamma0_mode is sticky
  NativeRefill,     \* a backend's refill hook wraps adaptive_schedule
  IsolateRefill,    \* ..._ISOLATE_REFILL = 1
  HostResizes,      \* the host rebuilds its placeholder list at each schedule
  Preemption        \* the host may preempt running requests

CONSTANTS           \* cold start, in clock ticks; 0 switches a hold off
  CohortTarget, CohortWait, QuietTime, MaxWait

ASSUME SizeAssumption ==
  /\ IsFiniteSet(Requests)
  /\ MaxRunning \in Nat \ {0} /\ KvSlots \in Nat \ {0}
  /\ RefillBatch \in Nat \ {0} /\ MaxInflight \in Nat \ {0}
  /\ PromptChunks \in Nat \ {0}
  /\ CohortTarget \in Nat /\ CohortWait \in Nat
  /\ QuietTime \in Nat /\ MaxWait \in Nat

ASSUME GammaAssumption ==
  /\ Gammas \subseteq Nat /\ IsFiniteSet(Gammas)
  /\ NativeGamma \in Gammas /\ InitialGamma \in Gammas

ASSUME FlagAssumption ==
  /\ Async \in BOOLEAN /\ Stateful \in BOOLEAN /\ RuntimeSwitching \in BOOLEAN
  /\ StatefulLock \in BOOLEAN /\ Online \in BOOLEAN /\ Sticky \in BOOLEAN
  /\ NativeRefill \in BOOLEAN /\ IsolateRefill \in BOOLEAN
  /\ HostResizes \in BOOLEAN /\ Preemption \in BOOLEAN

VARIABLES
  status,    \* where each request is
  prompt,    \* prefill frames the request may still take; 0 once it decodes
  spec,      \* len(request.spec_token_ids): drafts its next frame verifies
  slots,     \* len(scheduler._spec_token_placeholders)
  finished,  \* the host still has finished request ids to report
  inflight,  \* frames handed to the runner, oldest first
  gamma,     \* controller.current_gamma
  latch,     \* _TargetOnlyLatch.request_ids
  startAge,  \* ticks since _vspec_adaptive_initial_cohort_started_at
  gate,      \* _vspec_adaptive_arrival_gate
  drafted,   \* history: drafts the latest frame proposes for the request
  zeroed     \* history: live requests that were in a frame of gamma 0

hostVars == <<status, prompt, spec, slots, finished, inflight>>
coldVars == <<startAge, gate>>
vars == <<hostVars, gamma, latch, coldVars, drafted, zeroed>>

Unset  == -1       \* the initial-cohort attribute does not exist yet
NoGate == <<>>     \* the arrival-gate attribute does not exist

InState(s) == {r \in Requests : status[r] \in s}
Running    == InState({"running"})
Waiting    == InState({"waiting", "preempted"})
Live       == Running \cup Waiting      \* scheduler.requests

ColdQueue  == Running = {} /\ Waiting # {}

\* The width locked for a cohort: _should_hold_eagle3_async_cohort without
\* its num_running argument, as adaptive_schedule calls it.
CohortLock == Stateful /\ Async /\ ~(RuntimeSwitching /\ ~StatefulLock)

Init ==
  /\ status = [r \in Requests |-> "new"]
  /\ prompt = [r \in Requests |-> PromptChunks]
  /\ spec = [r \in Requests |-> 0]
  /\ slots = NativeGamma
  /\ finished = FALSE
  /\ inflight = <<>>
  /\ gamma = InitialGamma
  /\ latch = {}
  /\ startAge = Unset
  /\ gate = NoGate
  /\ drafted = [r \in Requests |-> 0]
  /\ zeroed = {}

-----------------------------------------------------------------------------
(* The front end: requests arrive and clients abort them.                   *)

Forget(done) ==    \* what the host drops with a finished request
  /\ status' = [r \in Requests |-> IF r \in done THEN "done" ELSE status[r]]
  /\ prompt' = [r \in Requests |-> IF r \in done THEN PromptChunks ELSE prompt[r]]
  /\ drafted' = [r \in Requests |-> IF r \in done THEN 0 ELSE drafted[r]]
  /\ zeroed' = zeroed \ done
  /\ finished' = (finished \/ done # {})

Arrive(r) ==
  /\ status[r] = "new"
  /\ status' = [status EXCEPT ![r] = "waiting"]
  /\ UNCHANGED <<prompt, spec, slots, finished, inflight, gamma, latch,
                 coldVars, drafted, zeroed>>

Abort(r) ==
  /\ r \in Live
  /\ Forget({r})
  /\ spec' = [spec EXCEPT ![r] = 0]
  /\ UNCHANGED <<slots, inflight, gamma, latch, startAge, gate>>

-----------------------------------------------------------------------------
(* Cold start: the two holds that let a first cohort build up.              *)

\* _vspec_adaptive_initial_cohort_started_at after the head of the hook.
StartedAge == IF ColdQueue /\ startAge # Unset THEN startAge ELSE 0

HoldInitialCohort ==
  LET target == Min({CohortTarget, MaxRunning})
  IN  /\ target > 1
      /\ ColdQueue
      /\ Cardinality(Waiting) < target
      /\ StartedAge < CohortWait

GateEnabled == ColdQueue /\ QuietTime > 0 /\ MaxWait > 0

\* The gate after this call has seen the queue, before it is released.
GateSeen ==
  LET n == Cardinality(Waiting)
  IN  IF gate = NoGate THEN [age |-> 0, quiet |-> 0, count |-> n]
      ELSE IF n > gate.count THEN [age |-> gate.age, quiet |-> 0, count |-> n]
      ELSE gate

HoldGrowingCohort ==
  GateEnabled /\ GateSeen.age < MaxWait /\ GateSeen.quiet < QuietTime

HoldAdmission == HoldInitialCohort \/ HoldGrowingCohort

\* Mutant: the arrival gate is forgotten between two calls.
ColdStepForgetsGate == startAge' = StartedAge /\ gate' = NoGate

\* Both holds are joined by a short-circuit "or": while the first holds, the
\* second is not evaluated and its attribute keeps its value.
ColdStep ==
  /\ startAge' = StartedAge
  /\ gate' = IF HoldInitialCohort THEN gate
             ELSE IF HoldGrowingCohort THEN GateSeen ELSE NoGate

\* Ages saturate at the bound they are compared with.
Older(age, bound) == IF age < bound THEN age + 1 ELSE age

Tick ==
  /\ startAge' = IF startAge = Unset THEN Unset ELSE Older(startAge, CohortWait)
  /\ gate' = IF gate = NoGate THEN NoGate
             ELSE [age |-> Older(gate.age, MaxWait),
                   quiet |-> Older(gate.quiet, QuietTime), count |-> gate.count]
  /\ UNCHANGED <<hostVars, gamma, latch, drafted, zeroed>>

-----------------------------------------------------------------------------
(* One call of the host's schedule() inside the hook, and what the hook     *)
(* does with its output.                                                    *)
(*   run     the running list the host sees     keep    what it keeps of it *)
(*   limit   max_num_running_reqs in effect     admit   what it admits      *)
(*   chunks  prompt rows of the frame that leave prompt tokens over         *)
(*   gs      num_spec_tokens while the host schedules                       *)
(*   gd      num_spec_tokens_to_schedule decided for the frame              *)

AdmitCount(run, limit) ==
  Min({Cardinality(Waiting), limit - Cardinality(run),
       KvSlots - Cardinality(Running)})

HostMayPick(run, limit, keep, admit, chunks) ==
  /\ admit \subseteq Waiting
  /\ \/ keep = run /\ Cardinality(admit) = AdmitCount(run, limit)
     \/ Preemption /\ keep \subseteq run /\ keep \notin {{}, run} /\ admit = {}
  /\ chunks \subseteq {r \in keep \cup admit : prompt[r] > 1}

\* Query width of the row: scheduled_spec_decode_tokens + 1.
VerifyWidth(r) == IF prompt[r] > 0 THEN 1 ELSE spec[r] + 1

\* Mutant: the step counts as stable whatever the width of its rows.
FrameIgnoresWidths(keep, admit, chunks, gd) ==
  [gamma |-> gd, reqs |-> keep \cup admit, chunks |-> chunks,
   prefill |-> {r \in keep \cup admit : prompt[r] > 0},
   stable |-> \A r \in admit : status[r] # "waiting"]

Frame(keep, admit, chunks, gd) ==
  LET sched == keep \cup admit
      fresh == \E r \in admit : status[r] = "waiting"
  IN  [gamma |-> gd, reqs |-> sched, chunks |-> chunks,
       prefill |-> {r \in sched : prompt[r] > 0},
       \* stable_decode of adaptive_update_from_output
       stable |-> ~fresh /\ \A r \in sched : VerifyWidth(r) = gd + 1]

\* The scheduler-level list after the host's schedule() and, in the
\* asynchronous mode, _update_async_next_frame_gamma.
HostSlots(gs) == IF HostResizes THEN gs ELSE slots
Repairs(gs, gd) == Async /\ gd # NativeGamma /\ HostSlots(gs) # gd
\* Mutant: the list is repaired to the query width.
NextSlotsQueryWidth(gs, gd) == IF Repairs(gs, gd) THEN gd + 1 ELSE HostSlots(gs)

NextSlots(gs, gd) == IF Repairs(gs, gd) THEN gd ELSE HostSlots(gs)

Dispatch(run, keep, admit, chunks, gs, gd) ==
  LET sched == keep \cup admit
      ready == sched \ chunks
      preempted == run \ keep
  IN  /\ status' = [r \in Requests |-> IF r \in admit THEN "running"
                                      ELSE IF r \in preempted THEN "preempted"
                                      ELSE status[r]]
      /\ prompt' = [r \in Requests |-> IF r \in ready THEN 0
                                      ELSE IF r \in chunks THEN prompt[r] - 1
                                      ELSE IF r \in preempted THEN PromptChunks
                                      ELSE prompt[r]]
      /\ slots' = NextSlots(gs, gd)
      /\ spec' = [r \in Requests |->
                    IF r \in ready THEN (IF Async THEN NextSlots(gs, gd) ELSE 0)
                    ELSE IF r \in preempted THEN 0 ELSE spec[r]]
      /\ inflight' = Append(inflight, Frame(keep, admit, chunks, gd))
      /\ drafted' = [r \in Requests |-> IF r \in ready THEN gd
                                       ELSE IF r \in preempted THEN 0
                                       ELSE drafted[r]]
      /\ zeroed' = IF gd = 0 THEN zeroed \cup sched ELSE zeroed

NothingScheduled ==
  UNCHANGED <<status, prompt, slots, spec, inflight, drafted, zeroed>>

-----------------------------------------------------------------------------
(* adaptive_schedule.                                                       *)

NeedsLatch == Sticky /\ 0 \in Gammas
Latched    == NeedsLatch /\ latch \cap Live # {}
\* Mutant: the latch drops ended requests but does not absorb new ones.
RefreshedWithoutArrivals == IF NeedsLatch THEN latch \cap Live ELSE latch

\* _TargetOnlyLatch.refresh: a live cohort absorbs every active request.
Refreshed  == IF ~NeedsLatch THEN latch ELSE IF Latched THEN Live ELSE {}

\* max_num_running_reqs when the hook is entered: an outer refill hook may
\* have lowered it to the running count.
Caps == {MaxRunning} \cup IF NativeRefill /\ Running # {}
                          THEN {Cardinality(Running)} ELSE {}

RefillTarget ==
  Min({IF NativeRefill THEN 1 ELSE RefillBatch, Cardinality(Waiting)})
Refilling == ~NativeRefill /\ RefillBatch > 1 /\ Running # {} /\ Waiting # {}
FreeSlots(cap)   == cap - Cardinality(Running)
HoldWaiting(cap) == Refilling /\ FreeSlots(cap) < RefillTarget
Isolates(cap)    == IsolateRefill /\ Refilling /\ FreeSlots(cap) >= RefillTarget

VisibleRun(cap) == IF Isolates(cap) THEN {} ELSE Running
\* Mutant: an isolated refill is scheduled under the whole capacity.
LimitWhole(cap) == IF HoldWaiting(cap) THEN Cardinality(Running) ELSE cap

Limit(cap) == IF HoldWaiting(cap) THEN Cardinality(Running)
              ELSE IF Isolates(cap) THEN FreeSlots(cap) ELSE cap

Entered ==
  /\ Len(inflight) < MaxInflight
  /\ Live # {} \/ finished
  /\ finished' = FALSE
  /\ ColdStep

\* The host schedules under gs and the hook decides gd for a non-empty frame,
\* after which the controller holds gnext; otherwise it returns early.
HostSchedules(run, limit, gs, gd, gnext, gidle) ==
  \E keep \in SUBSET run, admit \in SUBSET Waiting :
    \E chunks \in SUBSET (keep \cup admit) :
      /\ HostMayPick(run, limit, keep, admit, chunks)
      /\ IF keep \cup admit = {}
         THEN NothingScheduled /\ gamma' = gidle
         ELSE Dispatch(run, keep, admit, chunks, gs, gd) /\ gamma' = gnext

Schedules(gs, gd, gnext, gidle) ==
  \E cap \in Caps : HostSchedules(VisibleRun(cap), Limit(cap), gs, gd, gnext, gidle)

\* A cold-start hold lowers the limit to 0 on an engine that runs nothing.
ScheduleHeld ==
  /\ Entered
  /\ HoldAdmission
  /\ latch' = Refreshed
  /\ NothingScheduled
  /\ UNCHANGED gamma

ScheduleLatched ==
  /\ Entered
  /\ ~HoldAdmission /\ Latched
  /\ Schedules(0, 0, 0, gamma)
  /\ latch' = Refreshed

\* The online policy chooses for the anticipated batch of an empty engine
\* before the host schedules; the choice is not entered into the latch.
Preselects == Online /\ ColdQueue /\ ~HoldAdmission /\ ~Latched

SchedulePreselected ==
  /\ Entered
  /\ Preselects
  /\ \E g \in Gammas : Schedules(g, g, g, g)
  /\ latch' = Refreshed

\* A locked cohort keeps the controller's width.  The native fast path is the
\* same step: it is taken only while that width is NativeGamma, where the
\* placeholder repair returns early too.
ScheduleCohortHold ==
  /\ Entered
  /\ CohortLock /\ Running # {} /\ ~Latched
  /\ Schedules(gamma, gamma, gamma, gamma)
  /\ latch' = Refreshed

\* Mutant: a cohort that still admits requests is not locked.
ScheduleChosenWhileAdmitting ==
  /\ Entered
  /\ ~HoldAdmission /\ ~Latched /\ ~Preselects
  /\ ~(CohortLock /\ Running # {} /\ Waiting = {})
  /\ \E g \in Gammas : Schedules(gamma, g, g, gamma)
  /\ latch' = Refreshed

ScheduleChosen ==
  /\ Entered
  /\ ~HoldAdmission /\ ~Latched /\ ~Preselects
  /\ ~(CohortLock /\ Running # {})
  /\ \E g \in Gammas :
       /\ Schedules(gamma, g, g, gamma)
       /\ latch' = IF inflight' # inflight /\ g = 0 /\ Sticky
                   THEN Refreshed \cup Live ELSE Refreshed

Schedule ==
  \/ ScheduleHeld \/ ScheduleLatched \/ SchedulePreselected
  \/ ScheduleCohortHold \/ ScheduleChosen

-----------------------------------------------------------------------------
(* The oldest frame completes: update_from_output and, in synchronous mode, *)
(* update_draft_token_ids.  Requests that ended while it ran are skipped.   *)

Deciding(f) == {r \in f.reqs \ f.chunks : status[r] = "running" /\ prompt[r] = 0}

Complete(done) ==
  /\ inflight # <<>>
  /\ LET f == Head(inflight)
     IN  /\ done \subseteq Deciding(f)
         /\ spec' = [r \in Requests |->
                       IF r \in done THEN 0
                       ELSE IF ~Async /\ r \in Deciding(f) THEN f.gamma
                       ELSE spec[r]]
  /\ Forget(done)
  /\ inflight' = Tail(inflight)
  /\ UNCHANGED <<slots, gamma, latch, startAge, gate>>

Next ==
  \/ \E r \in Requests : Arrive(r) \/ Abort(r)
  \/ Tick
  \/ Schedule
  \/ \E done \in SUBSET Requests : Complete(done)

Spec == Init /\ [][Next]_vars

\* The engine loop keeps stepping while it has work, the clock runs, and a
\* request that keeps decoding eventually reaches its last token.
Fairness ==
  /\ WF_vars(Schedule)
  /\ WF_vars(Tick)
  /\ WF_vars(\E done \in SUBSET Requests : Complete(done))
  /\ \A r \in Requests :
       SF_vars(\E done \in SUBSET Requests : r \in done /\ Complete(done))

FairSpec == Spec /\ Fairness

-----------------------------------------------------------------------------
(* Properties.                                                              *)

FrameType == [gamma : Gammas, reqs : SUBSET Requests, chunks : SUBSET Requests,
              prefill : SUBSET Requests, stable : BOOLEAN]

GateType == {NoGate} \cup [age : 0 .. MaxWait, quiet : 0 .. QuietTime, count : Nat]

\* The values each part of the scheduler's state ranges over.
TypeOK ==
  /\ status \in [Requests -> {"new", "waiting", "running", "preempted", "done"}]
  /\ prompt \in [Requests -> 0 .. PromptChunks]
  /\ spec \in [Requests -> Gammas \cup {0}]
  /\ slots \in Gammas
  /\ finished \in BOOLEAN
  /\ inflight \in Seq(FrameType)
  /\ gamma \in Gammas
  /\ latch \subseteq Requests
  /\ startAge \in {Unset} \cup (0 .. CohortWait)
  /\ gate \in GateType
  /\ drafted \in [Requests -> Gammas \cup {0}]
  /\ zeroed \subseteq Requests

NewFrame == inflight'[Len(inflight')]
Dispatched == Len(inflight') > Len(inflight)

\* docs/vspec_adaptive.md:268: in the sticky mode gamma 0 skips the Draft
\* forward, so a request that was ever in a gamma-0 frame is target-only until
\* it ends; no later frame may speculate on its out-of-step Draft KV.
StickyTargetOnly ==
  [][Sticky /\ Dispatched /\ NewFrame.gamma > 0
       => NewFrame.reqs \cap zeroed = {}]_vars

\* _should_hold_eagle3_async_cohort: while a stateful cohort is running, the
\* frames in flight that share a live request have one width, and so have the
\* Draft rows of all its decoding requests; admissions join at that width.
LockedCohortWidth ==
  CohortLock =>
    /\ \A i, j \in DOMAIN inflight :
         inflight[i].reqs \cap inflight[j].reqs \cap Running # {}
           => inflight[i].gamma = inflight[j].gamma
    /\ \A r \in Running : prompt[r] = 0 => drafted[r] = gamma

\* docs/vspec_adaptive.md:254: the placeholders a decoding request carries into
\* its next frame are as many as the drafts its latest frame proposes, whatever
\* width the host scheduled that frame under.  The exception is the early return of
\* _update_async_next_frame_gamma: a frame of the native width is not repaired.
PlaceholdersMatchDrafts ==
  \A r \in Running :
    /\ prompt[r] = 0
    /\ IF Async THEN drafted[r] # NativeGamma
       ELSE \A i \in DOMAIN inflight : r \notin inflight[i].reqs
    => spec[r] = drafted[r]

\* OnlineGammaController.complete_step commits "one stable decode reward" to the
\* width of the frame: the frame verifies, for each of its requests, drafts that
\* were proposed at that very width.  A request that computes its prompt again can
\* take part in a frame of width 0 only, and the placeholders of a request whose
\* drafts have the native width may have any other length.
StableCreditsOwnDrafts ==
  [][Dispatched /\ NewFrame.stable
       => \A r \in NewFrame.reqs :
            /\ status[r] # "waiting"
            /\ prompt[r] > 0 => NewFrame.gamma = 0
            /\ drafted[r] = NewFrame.gamma \/ (Async /\ drafted[r] = NativeGamma)]_vars

\* The host's running list never exceeds its capacity, although the hook
\* replaces both the list and the limit around an isolated refill.
RunningWithinCapacity == Cardinality(Running) <= MaxRunning

\* No hold (arrival gate, initial cohort, refill batching, isolation, outer
\* refill hook) keeps a request waiting for ever.
AdmissionProgress ==
  \A r \in Requests : status[r] = "waiting" ~> status[r] # "waiting"
=============================================================================
