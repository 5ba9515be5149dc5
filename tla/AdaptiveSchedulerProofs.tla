----------------------- MODULE AdaptiveSchedulerProofs -----------------------
(***************************************************************************)
(* Proofs about AdaptiveScheduler for every set of requests, every set of   *)
(* candidate widths and every combination of its modes.                     *)
(***************************************************************************)
EXTENDS AdaptiveScheduler, FiniteSetTheorems, TLAPS

Statuses == {"new", "waiting", "running", "preempted", "done"}

\* The part of TypeOK that one call of the host can disturb.
RequestType ==
  /\ status \in [Requests -> Statuses]
  /\ prompt \in [Requests -> 0 .. PromptChunks]
  /\ spec \in [Requests -> Gammas \cup {0}]
  /\ slots \in Gammas
  /\ inflight \in Seq(FrameType)
  /\ drafted \in [Requests -> Gammas \cup {0}]
  /\ zeroed \subseteq Requests

ColdType ==
  /\ startAge \in {Unset} \cup (0 .. CohortWait)
  /\ gate \in GateType

\* TypeOK in the parts that the lemmas below preserve one by one.
LEMMA TypeParts ==
  TypeOK <=> /\ RequestType /\ ColdType
             /\ finished \in BOOLEAN /\ gamma \in Gammas /\ latch \subseteq Requests
BY DEF TypeOK, RequestType, ColdType, Statuses

\* Running and waiting requests are disjoint parts of the live ones.
LEMMA LiveFacts ==
  /\ Running \subseteq Live /\ Waiting \subseteq Live /\ Live \subseteq Requests
  /\ Running \cap Waiting = {}
BY DEF Live, Running, Waiting, InState

\* A hold only ever applies to an engine that runs nothing.
LEMMA HoldIsCold == HoldAdmission => ColdQueue
BY DEF HoldAdmission, HoldInitialCohort, HoldGrowingCohort, GateEnabled

\* The initial state after scheduler_init is well typed.
LEMMA InitType == Init => TypeOK
<1>. SUFFICES ASSUME Init PROVE TypeOK  OBVIOUS
<1>1. status \in [Requests -> Statuses] /\ finished \in BOOLEAN
  BY DEF Init, Statuses
<1>2. /\ prompt \in [Requests -> 0 .. PromptChunks]
      /\ spec \in [Requests -> Gammas \cup {0}]
      /\ drafted \in [Requests -> Gammas \cup {0}]
  BY SizeAssumption DEF Init
<1>3. slots \in Gammas /\ gamma \in Gammas
  BY GammaAssumption DEF Init
<1>4. inflight \in Seq(FrameType)
  BY DEF Init
<1>5. ColdType
  BY SizeAssumption DEF Init, ColdType, GateType
<1>6. latch \subseteq Requests /\ zeroed \subseteq Requests
  BY DEF Init
<1>. QED  BY <1>1, <1>2, <1>3, <1>4, <1>5, <1>6, TypeParts DEF RequestType

\* The waiting queue is finite.
LEMMA WaitingFinite == Cardinality(Waiting) \in Nat
<1>1. IsFiniteSet(Waiting)
  BY LiveFacts, SizeAssumption, FS_Subset
<1>. QED  BY <1>1, FS_CardinalityType

\* The head of adaptive_schedule leaves both cold-start attributes well typed.
LEMMA ColdStepType ==
  ASSUME ColdType, ColdStep
  PROVE  startAge' \in {Unset} \cup (0 .. CohortWait) /\ gate' \in GateType
<1>1. startAge' \in {Unset} \cup (0 .. CohortWait)
  BY SizeAssumption DEF ColdType, ColdStep, StartedAge, Unset
<1>2. GateSeen \in GateType
  <2>1. CASE gate = NoGate
    BY <2>1, WaitingFinite, SizeAssumption DEF GateSeen, GateType
  <2>2. CASE gate # NoGate
    BY <2>2, WaitingFinite, SizeAssumption DEF ColdType, GateSeen, GateType
  <2>. QED  BY <2>1, <2>2
<1>3. gate' \in GateType
  BY <1>2 DEF ColdType, ColdStep, GateType
<1>. QED  BY <1>1, <1>3

\* Refreshing the latch only admits live requests.
LEMMA RefreshedType == latch \subseteq Requests => Refreshed \subseteq Requests
BY LiveFacts DEF Refreshed

\* What a non-empty frame does to the request state is well typed.
LEMMA DispatchType ==
  ASSUME RequestType, NEW run \in SUBSET Running, NEW keep \in SUBSET run,
         NEW admit \in SUBSET Waiting, NEW chunks \in SUBSET (keep \cup admit),
         \A r \in chunks : prompt[r] > 1,
         NEW gs \in Gammas, NEW gd \in Gammas,
         Dispatch(run, keep, admit, chunks, gs, gd)
  PROVE  RequestType'
<1>1. keep \cup admit \subseteq Requests /\ chunks \subseteq Requests
  BY LiveFacts
<1>2. NextSlots(gs, gd) \in Gammas
  BY DEF RequestType, NextSlots, HostSlots
<1>3. status' \in [Requests -> Statuses]
  BY DEF RequestType, Dispatch, Statuses
<1>4. prompt' \in [Requests -> 0 .. PromptChunks]
  <2>1. ASSUME NEW r \in chunks PROVE prompt[r] - 1 \in 0 .. PromptChunks
    BY <1>1, SizeAssumption, prompt[r] \in 0 .. PromptChunks DEF RequestType
  <2>. QED  BY <2>1, SizeAssumption DEF RequestType, Dispatch
<1>5. spec' \in [Requests -> Gammas \cup {0}] /\ slots' \in Gammas
  BY <1>2 DEF RequestType, Dispatch
<1>6. inflight' \in Seq(FrameType)
  <2>1. Frame(keep, admit, chunks, gd) \in FrameType
    BY <1>1 DEF Frame, FrameType
  <2>. QED  BY <2>1 DEF RequestType, Dispatch
<1>7. drafted' \in [Requests -> Gammas \cup {0}] /\ zeroed' \subseteq Requests
  BY <1>1 DEF RequestType, Dispatch
<1>. QED  BY <1>3, <1>4, <1>5, <1>6, <1>7 DEF RequestType

\* Every call of the host either changes nothing or dispatches a frame of
\* requests it may pick, and it admits only if it keeps all it runs.
LEMMA SchedulesCases ==
  ASSUME NEW gs, NEW gd, NEW gnext, NEW gidle, Schedules(gs, gd, gnext, gidle),
         ~(NothingScheduled /\ gamma' = gidle)
  PROVE  \E run \in SUBSET Running : \E keep \in SUBSET run,
              admit \in SUBSET Waiting : \E chunks \in SUBSET (keep \cup admit) :
              /\ \A r \in chunks : prompt[r] > 1
              /\ keep \cup admit # {}
              /\ Dispatch(run, keep, admit, chunks, gs, gd)
              /\ gamma' = gnext
<1>1. PICK cap \in Caps :
        HostSchedules(VisibleRun(cap), Limit(cap), gs, gd, gnext, gidle)
  BY Zenon DEF Schedules
<1>. DEFINE run == VisibleRun(cap)
<1>2. PICK keep \in SUBSET run, admit \in SUBSET Waiting :
        \E chunks \in SUBSET (keep \cup admit) :
          /\ HostMayPick(run, Limit(cap), keep, admit, chunks)
          /\ IF keep \cup admit = {}
             THEN NothingScheduled /\ gamma' = gidle
             ELSE Dispatch(run, keep, admit, chunks, gs, gd) /\ gamma' = gnext
  BY <1>1, Zenon DEF HostSchedules
<1>3. PICK chunks \in SUBSET (keep \cup admit) :
          /\ HostMayPick(run, Limit(cap), keep, admit, chunks)
          /\ IF keep \cup admit = {}
             THEN NothingScheduled /\ gamma' = gidle
             ELSE Dispatch(run, keep, admit, chunks, gs, gd) /\ gamma' = gnext
  BY <1>2, Zenon
<1>4. run \in SUBSET Running
  BY DEF VisibleRun
<1>5. \A r \in chunks : prompt[r] > 1
  BY <1>3 DEF HostMayPick
<1>6. /\ keep \cup admit # {}
      /\ Dispatch(run, keep, admit, chunks, gs, gd) /\ gamma' = gnext
  BY <1>3
<1>. HIDE DEF run
<1>. WITNESS run \in SUBSET Running
<1>. WITNESS keep \in SUBSET run, admit \in SUBSET Waiting
<1>. WITNESS chunks \in SUBSET (keep \cup admit)
<1>. QED  BY <1>5, <1>6

\* A call of the host preserves the types of what it changes.
LEMMA SchedulesType ==
  ASSUME RequestType, gamma \in Gammas,
         NEW gs \in Gammas, NEW gd \in Gammas, NEW gnext \in Gammas,
         NEW gidle \in Gammas, Schedules(gs, gd, gnext, gidle)
  PROVE  RequestType' /\ gamma' \in Gammas
<1>1. CASE NothingScheduled /\ gamma' = gidle
  BY <1>1 DEF NothingScheduled, RequestType
<1>2. CASE ~(NothingScheduled /\ gamma' = gidle)
  <2>1. PICK run \in SUBSET Running : \E keep \in SUBSET run,
              admit \in SUBSET Waiting : \E chunks \in SUBSET (keep \cup admit) :
              /\ \A r \in chunks : prompt[r] > 1
              /\ keep \cup admit # {}
              /\ Dispatch(run, keep, admit, chunks, gs, gd)
              /\ gamma' = gnext
    BY <1>2, SchedulesCases, Zenon
  <2>2. PICK keep \in SUBSET run, admit \in SUBSET Waiting :
             \E chunks \in SUBSET (keep \cup admit) :
              /\ \A r \in chunks : prompt[r] > 1
              /\ keep \cup admit # {}
              /\ Dispatch(run, keep, admit, chunks, gs, gd)
              /\ gamma' = gnext
    BY <2>1, Zenon
  <2>3. PICK chunks \in SUBSET (keep \cup admit) :
              /\ \A r \in chunks : prompt[r] > 1
              /\ keep \cup admit # {}
              /\ Dispatch(run, keep, admit, chunks, gs, gd)
              /\ gamma' = gnext
    BY <2>2, Zenon
  <2>. QED  BY <2>3, DispatchType
<1>. QED  BY <1>1, <1>2

\* A request that ends leaves the histories and keeps the types.
LEMMA ForgetType ==
  ASSUME RequestType, NEW done \in SUBSET Requests, Forget(done)
  PROVE  /\ status' \in [Requests -> Statuses]
         /\ prompt' \in [Requests -> 0 .. PromptChunks]
         /\ drafted' \in [Requests -> Gammas \cup {0}]
         /\ zeroed' \subseteq Requests
<1>1. status' \in [Requests -> Statuses]
  BY DEF RequestType, Forget, Statuses
<1>2. prompt' \in [Requests -> 0 .. PromptChunks]
  BY SizeAssumption DEF RequestType, Forget
<1>3. drafted' \in [Requests -> Gammas \cup {0}] /\ zeroed' \subseteq Requests
  BY DEF RequestType, Forget
<1>. QED  BY <1>1, <1>2, <1>3

\* Every step preserves TypeOK; TypeOK is inductive as it stands.
LEMMA StepType == TypeOK /\ [Next]_vars => TypeOK'
<1>. SUFFICES ASSUME RequestType, ColdType, finished \in BOOLEAN,
                     gamma \in Gammas, latch \subseteq Requests, [Next]_vars
              PROVE  /\ RequestType' /\ ColdType' /\ finished' \in BOOLEAN
                     /\ gamma' \in Gammas /\ latch' \subseteq Requests
  BY TypeParts DEF TypeOK, RequestType, ColdType, Statuses
<1>1. CASE UNCHANGED vars
  BY <1>1 DEF vars, hostVars, coldVars, RequestType, ColdType
<1>2. ASSUME NEW r \in Requests, Arrive(r)
      PROVE  /\ RequestType' /\ ColdType' /\ finished' \in BOOLEAN
             /\ gamma' \in Gammas /\ latch' \subseteq Requests
  BY <1>2 DEF Arrive, coldVars, RequestType, ColdType, Statuses
<1>3. ASSUME NEW r \in Requests, Abort(r)
      PROVE  /\ RequestType' /\ ColdType' /\ finished' \in BOOLEAN
             /\ gamma' \in Gammas /\ latch' \subseteq Requests
  <2>1. RequestType'
    <3>1. spec' \in [Requests -> Gammas \cup {0}]
      BY <1>3 DEF Abort, RequestType
    <3>2. Forget({r}) /\ UNCHANGED <<slots, inflight>>
      BY <1>3 DEF Abort
    <3>. QED  BY <3>1, <3>2, ForgetType DEF RequestType
  <2>2. ColdType'
    BY <1>3 DEF Abort, ColdType
  <2>. QED  BY <1>3, <2>1, <2>2 DEF Abort, Forget
<1>4. CASE Tick
  <2>1. startAge' \in {Unset} \cup (0 .. CohortWait)
    BY <1>4, SizeAssumption DEF Tick, ColdType, Older, Unset
  <2>2. gate' \in GateType
    BY <1>4, SizeAssumption DEF Tick, ColdType, GateType, Older
  <2>. QED  BY <1>4, <2>1, <2>2 DEF Tick, hostVars, RequestType, ColdType
<1>5. ASSUME NEW done \in SUBSET Requests, Complete(done)
      PROVE  /\ RequestType' /\ ColdType' /\ finished' \in BOOLEAN
             /\ gamma' \in Gammas /\ latch' \subseteq Requests
  <2>1. inflight # <<>> /\ Head(inflight) \in FrameType
    BY <1>5 DEF Complete, RequestType
  <2>2. Head(inflight).gamma \in Gammas
    BY <2>1 DEF FrameType
  <2>3. spec' \in [Requests -> Gammas \cup {0}]
    BY <1>5, <2>2 DEF Complete, RequestType
  <2>4. slots' \in Gammas /\ inflight' \in Seq(FrameType)
    BY <1>5, <2>1 DEF Complete, RequestType
  <2>5. RequestType'
    BY <1>5, <2>3, <2>4, ForgetType DEF Complete, RequestType
  <2>6. ColdType'
    BY <1>5 DEF Complete, ColdType
  <2>. QED  BY <1>5, <2>5, <2>6 DEF Complete, Forget
<1>6. CASE Schedule
  <2>1. Entered
    BY <1>6 DEF Schedule, ScheduleHeld, ScheduleLatched, SchedulePreselected,
                ScheduleCohortHold, ScheduleChosen
  <2>2. ColdType' /\ finished' \in BOOLEAN
    BY <2>1, ColdStepType DEF Entered, ColdType
  <2>3. Refreshed \subseteq Requests
    BY RefreshedType
  <2>4. CASE ScheduleHeld
    BY <2>2, <2>3, <2>4 DEF ScheduleHeld, NothingScheduled, RequestType
  <2>5. CASE ScheduleLatched
    <3>1. 0 \in Gammas
      BY <2>5 DEF ScheduleLatched, Latched, NeedsLatch
    <3>. QED  BY <2>2, <2>3, <2>5, <3>1, SchedulesType DEF ScheduleLatched
  <2>6. CASE SchedulePreselected
    BY <2>2, <2>3, <2>6, SchedulesType DEF SchedulePreselected
  <2>7. CASE ScheduleCohortHold
    BY <2>2, <2>3, <2>7, SchedulesType DEF ScheduleCohortHold
  <2>8. CASE ScheduleChosen
    <3>1. PICK g \in Gammas :
            /\ Schedules(gamma, g, g, gamma)
            /\ latch' = IF inflight' # inflight /\ g = 0 /\ Sticky
                        THEN Refreshed \cup Live ELSE Refreshed
      BY <2>8 DEF ScheduleChosen
    <3>2. latch' \subseteq Requests
      BY <2>3, <3>1, LiveFacts
    <3>. QED  BY <2>2, <3>1, <3>2, SchedulesType
  <2>. QED  BY <1>6, <2>4, <2>5, <2>6, <2>7, <2>8 DEF Schedule
<1>. QED  BY <1>1, <1>2, <1>3, <1>4, <1>5, <1>6 DEF Next

\* The scheduler hooks keep every part of their state within its range,
\* whatever the workload, the modes and the order of the callbacks.
THEOREM TypeCorrect == Spec => []TypeOK
BY InitType, StepType, PTL DEF Spec

-----------------------------------------------------------------------------
(* The sticky gamma-0 mode.  StickyTargetOnly is an action property; what    *)
(* makes it hold is that the latch covers every live request of a gamma-0   *)
(* frame, and that no width 0 is left in the controller for a running        *)
(* cohort outside the latch: the locked cohort would use that width without *)
(* entering the latch.                                                      *)

StickyInv ==
  /\ zeroed \subseteq latch /\ zeroed \subseteq Live
  /\ zeroed # {} => 0 \in Gammas
  /\ gamma = 0 => Running \subseteq latch

\* A frame only moves requests among the live ones, and it is appended.
LEMMA DispatchLive ==
  ASSUME RequestType, NEW run \in SUBSET Running, NEW keep \in SUBSET run,
         NEW admit \in SUBSET Waiting, NEW chunks, NEW gs, NEW gd,
         Dispatch(run, keep, admit, chunks, gs, gd)
  PROVE  /\ Live' = Live /\ Running' \subseteq Live
         /\ inflight' = Append(inflight, Frame(keep, admit, chunks, gd))
         /\ NewFrame = Frame(keep, admit, chunks, gd)
         /\ inflight' # inflight
<1>1. Live' = Live /\ Running' \subseteq Live
  BY DEF Live, Running, Waiting, InState, Dispatch, RequestType
<1>2. inflight' = Append(inflight, Frame(keep, admit, chunks, gd))
  BY DEF Dispatch
<1>. HIDE DEF Frame
<1>3. Len(inflight') = Len(inflight) + 1 /\ Len(inflight) \in Nat
      /\ NewFrame = Frame(keep, admit, chunks, gd)
  BY <1>2 DEF RequestType, NewFrame
<1>4. inflight' # inflight
  BY <1>3
<1>. QED  BY <1>1, <1>2, <1>3, <1>4

\* What a call of the host means for the latch's promise: either it changes no
\* request and no frame, or it appends one frame of the decided width.
LEMMA SchedulesFrame ==
  ASSUME RequestType, NEW gs, NEW gd, NEW gnext, NEW gidle,
         Schedules(gs, gd, gnext, gidle)
  PROVE  /\ Live' = Live
         /\ \/ /\ UNCHANGED <<status, inflight, zeroed>> /\ gamma' = gidle
               /\ Running' = Running /\ ~Dispatched
            \/ /\ NewFrame.gamma = gd /\ NewFrame.reqs \subseteq Live
               /\ Running' \subseteq Live /\ inflight' # inflight
               /\ zeroed' = IF gd = 0 THEN zeroed \cup NewFrame.reqs ELSE zeroed
               /\ gamma' = gnext
<1>1. CASE NothingScheduled /\ gamma' = gidle
  <2>1. Len(inflight) \in Nat /\ UNCHANGED <<status, inflight, zeroed>>
    BY <1>1 DEF NothingScheduled, RequestType
  <2>2. ~Dispatched
    BY <2>1 DEF Dispatched
  <2>. QED  BY <1>1, <2>1, <2>2 DEF Live, Running, Waiting, InState
<1>2. CASE ~(NothingScheduled /\ gamma' = gidle)
  <2>1. PICK run \in SUBSET Running : \E keep \in SUBSET run,
              admit \in SUBSET Waiting : \E chunks \in SUBSET (keep \cup admit) :
              /\ \A r \in chunks : prompt[r] > 1
              /\ keep \cup admit # {}
              /\ Dispatch(run, keep, admit, chunks, gs, gd)
              /\ gamma' = gnext
    BY <1>2, SchedulesCases, Zenon
  <2>2. PICK keep \in SUBSET run, admit \in SUBSET Waiting :
             \E chunks \in SUBSET (keep \cup admit) :
              /\ Dispatch(run, keep, admit, chunks, gs, gd)
              /\ gamma' = gnext
    BY <2>1, Zenon
  <2>3. PICK chunks \in SUBSET (keep \cup admit) :
              /\ Dispatch(run, keep, admit, chunks, gs, gd)
              /\ gamma' = gnext
    BY <2>2, Zenon
  <2>4. /\ Live' = Live /\ Running' \subseteq Live /\ inflight' # inflight
        /\ NewFrame = Frame(keep, admit, chunks, gd)
    BY <2>3, DispatchLive
  <2>5. NewFrame.gamma = gd /\ NewFrame.reqs = keep \cup admit
    BY <2>4 DEF Frame
  <2>6. zeroed' = IF gd = 0 THEN zeroed \cup (keep \cup admit) ELSE zeroed
    BY <2>3 DEF Dispatch
  <2>. QED  BY <2>3, <2>4, <2>5, <2>6, LiveFacts
<1>. QED  BY <1>1, <1>2

\* No request is live in the initial state, and none was in a frame.
LEMMA StickyInit == Init => StickyInv
BY DEF Init, StickyInv, Running, InState

\* Under the profile or static policy, every step of a sticky scheduler keeps
\* the latch over the gamma-0 requests and sends none of them a wider frame.
LEMMA StickyStep ==
  ASSUME Sticky, ~Online, TypeOK, StickyInv, [Next]_vars
  PROVE  /\ StickyInv'
         /\ Dispatched /\ NewFrame.gamma > 0 => NewFrame.reqs \cap zeroed = {}
<1>. RequestType /\ gamma \in Gammas /\ Len(inflight) \in Nat
  BY TypeParts DEF RequestType
<1>1. CASE UNCHANGED vars
  BY <1>1 DEF vars, hostVars, coldVars, StickyInv, Dispatched, Live, Running,
              Waiting, InState
<1>2. ASSUME NEW r \in Requests, Arrive(r)
      PROVE  StickyInv' /\ ~Dispatched
  <2>1. Running' = Running /\ Live \subseteq Live'
    BY <1>2 DEF Arrive, Live, Running, Waiting, InState, RequestType
  <2>. QED  BY <1>2, <2>1 DEF Arrive, StickyInv, Dispatched
<1>3. ASSUME NEW done \in SUBSET Requests, Forget(done), UNCHANGED <<gamma, latch>>
      PROVE  StickyInv'
  <2>1. Running' \subseteq Running /\ Live \ done \subseteq Live'
        /\ zeroed' = zeroed \ done
    BY <1>3 DEF Forget, Live, Running, Waiting, InState, RequestType
  <2>. QED  BY <1>3, <2>1 DEF StickyInv
<1>4. ASSUME NEW r \in Requests, Abort(r)
      PROVE  StickyInv' /\ ~Dispatched
  BY <1>3, <1>4 DEF Abort, Dispatched
<1>5. CASE Tick
  BY <1>5 DEF Tick, hostVars, StickyInv, Dispatched, Live, Running, Waiting, InState
<1>6. ASSUME NEW done \in SUBSET Requests, Complete(done)
      PROVE  StickyInv' /\ ~Dispatched
  <2>1. inflight # <<>> /\ inflight' = Tail(inflight) /\ inflight \in Seq(FrameType)
    BY <1>6 DEF Complete, RequestType
  <2>2. ~Dispatched
    BY <2>1 DEF Dispatched
  <2>. QED  BY <1>3, <1>6, <2>2 DEF Complete
<1>7. CASE ScheduleHeld
  <2>1. UNCHANGED <<status, inflight, zeroed, gamma>> /\ latch' = Refreshed
    BY <1>7 DEF ScheduleHeld, NothingScheduled
  <2>2. Running = {} /\ Running' = {} /\ Live' = Live
    BY <1>7, <2>1, HoldIsCold
       DEF ScheduleHeld, ColdQueue, Live, Running, Waiting, InState
  <2>3. zeroed \subseteq Refreshed
    BY DEF StickyInv, Refreshed, NeedsLatch, Latched
  <2>. QED  BY <2>1, <2>2, <2>3 DEF StickyInv, Dispatched
<1>8. CASE ScheduleLatched
  <2>1. Schedules(0, 0, 0, gamma) /\ latch' = Live /\ 0 \in Gammas
    BY <1>8 DEF ScheduleLatched, Refreshed, Latched, NeedsLatch
  <2>. QED  BY <2>1, SchedulesFrame, LiveFacts DEF StickyInv
<1>9. CASE ScheduleCohortHold
  <2>1. /\ Schedules(gamma, gamma, gamma, gamma)
        /\ Running # {} /\ ~Latched /\ latch' = Refreshed
    BY <1>9 DEF ScheduleCohortHold
  <2>2. gamma # 0
    BY <2>1, LiveFacts, Sticky DEF StickyInv, Latched, NeedsLatch
  <2>3. zeroed = {}
    BY <2>1, Sticky DEF StickyInv, Latched, NeedsLatch
  <2>. QED  BY <2>1, <2>2, <2>3, SchedulesFrame DEF StickyInv
<1>10. CASE ScheduleChosen
  <2>1. PICK g \in Gammas :
          /\ Schedules(gamma, g, g, gamma)
          /\ latch' = IF inflight' # inflight /\ g = 0 /\ Sticky
                      THEN Refreshed \cup Live ELSE Refreshed
    BY <1>10 DEF ScheduleChosen
  <2>2. ~Latched
    BY <1>10 DEF ScheduleChosen
  <2>3. zeroed = {}
    BY <2>2, Sticky DEF StickyInv, Latched, NeedsLatch
  <2>4. gamma = 0 => Running = {}
    BY <2>2, LiveFacts, Sticky DEF StickyInv, Latched, NeedsLatch
  <2>. QED  BY <2>1, <2>3, <2>4, SchedulesFrame, LiveFacts DEF StickyInv
<1>11. ~SchedulePreselected
  BY DEF SchedulePreselected, Preselects
<1>. QED
  BY <1>1, <1>2, <1>4, <1>5, <1>6, <1>7, <1>8, <1>9, <1>10, <1>11
     DEF Next, Schedule, Dispatched, StickyInv

\* Unless the online policy preselects widths, a request that was in a gamma-0
\* frame of the sticky mode is target-only until it ends: for any workload,
\* preemption, cold start, refill mode and stateful cohort.
THEOREM StickyHolds == ASSUME ~Online PROVE Spec => StickyTargetOnly
<1>1. Init => TypeOK /\ (Sticky => StickyInv)
  BY InitType, StickyInit
<1>2. TypeOK /\ (Sticky => StickyInv) /\ [Next]_vars
        => (TypeOK /\ (Sticky => StickyInv))'
  BY StepType, StickyStep
<1>3. TypeOK /\ (Sticky => StickyInv) /\ [Next]_vars
        => [Sticky /\ Dispatched /\ NewFrame.gamma > 0
              => NewFrame.reqs \cap zeroed = {}]_vars
  BY StickyStep
<1>. QED  BY <1>1, <1>2, <1>3, PTL DEF Spec, StickyTargetOnly

-----------------------------------------------------------------------------
(* The stateful-cohort lock.  LockedCohortWidth is not inductive: a running  *)
(* request could be preempted while a frame holds it and come back in a     *)
(* cohort of another width.  With at most two frames in flight the frame    *)
(* that misses it is the newer one, so the older one has completed when the *)
(* request can be scheduled again.  The latch matters too: it may force     *)
(* width 0 on a running cohort only if that is the cohort's width.          *)

WidthInv ==
  /\ \A r \in Running : prompt[r] = 0 => drafted[r] = gamma
  /\ \A i \in DOMAIN inflight : \A r \in inflight[i].reqs :
       r \in Running => inflight[i].gamma = gamma

FrameInv ==
  /\ Len(inflight) <= 2
  /\ \A i \in DOMAIN inflight : \A r \in inflight[i].reqs :
       /\ status[r] \notin {"new", "waiting"}
       /\ status[r] = "preempted" => i = 1 /\ Len(inflight) = 2

LatchInv ==
  /\ \A r \in latch : status[r] # "new"
  /\ Latched => gamma = 0

LockInv == WidthInv /\ FrameInv /\ LatchInv

\* A frame only holds requests.
LEMMA FrameRequests ==
  ASSUME inflight \in Seq(FrameType), NEW i \in 1 .. Len(inflight)
  PROVE  inflight[i].reqs \subseteq Requests
<1>1. inflight[i] \in FrameType
  OBVIOUS
<1>. QED  BY <1>1 DEF FrameType

\* A frame of the cohort's own width, or the first frame of a new cohort,
\* leaves every running request and every frame it is in at that width.
LEMMA LockDispatch ==
  ASSUME RequestType, WidthInv, FrameInv, Len(inflight) < 2,
         NEW run \in SUBSET Running, NEW keep \in SUBSET run,
         NEW admit \in SUBSET Waiting, NEW chunks \in SUBSET (keep \cup admit),
         \A r \in chunks : prompt[r] > 1,
         NEW gs, NEW gd \in Gammas, Dispatch(run, keep, admit, chunks, gs, gd),
         gd = gamma \/ Running = {}, gamma' = gd
  PROVE  WidthInv' /\ FrameInv'
<1>. DEFINE sched == keep \cup admit
            f == Frame(keep, admit, chunks, gd)
<1>1. /\ inflight' = Append(inflight, f) /\ inflight \in Seq(FrameType)
      /\ f.reqs = sched /\ f.gamma = gd
  BY DEF Dispatch, Frame, RequestType
<1>. HIDE DEF f
<1>2. /\ Len(inflight') = Len(inflight) + 1 /\ Len(inflight) \in Nat
      /\ DOMAIN inflight' = 1 .. Len(inflight') /\ DOMAIN inflight = 1 .. Len(inflight)
      /\ \A i \in DOMAIN inflight : inflight'[i] = inflight[i]
      /\ inflight'[Len(inflight')] = f
  BY <1>1
<1>3. \A i \in DOMAIN inflight' : i \in DOMAIN inflight \/ i = Len(inflight')
  BY <1>2
<1>4. /\ Running' = (Running \ (run \ keep)) \cup admit
      /\ \A r \in Running' : prompt'[r] = 0 => r \notin chunks
      /\ \A r \in sched \ chunks : drafted'[r] = gd
      /\ \A r \in Running \ run : drafted'[r] = drafted[r] /\ prompt'[r] = prompt[r]
  <2>1. Running' = (Running \ (run \ keep)) \cup admit
    BY LiveFacts DEF Dispatch, RequestType, Running, InState, Waiting
  <2>2. \A r \in chunks : r \in Requests /\ prompt'[r] # 0
    BY LiveFacts DEF Dispatch, RequestType
  <2>3. \A r \in sched \ chunks : drafted'[r] = gd
    BY LiveFacts DEF Dispatch, RequestType
  <2>4. \A r \in Running \ run : drafted'[r] = drafted[r] /\ prompt'[r] = prompt[r]
    BY LiveFacts DEF Dispatch, RequestType
  <2>. QED  BY <2>1, <2>2, <2>3, <2>4
<1>5. \A r \in Running' : prompt'[r] = 0 => drafted'[r] = gamma'
  BY <1>4 DEF WidthInv
<1>6. ASSUME NEW i \in DOMAIN inflight, NEW r \in inflight[i].reqs
      PROVE  r \notin Waiting
  BY <1>2 DEF FrameInv, Waiting, InState
<1>7. ASSUME NEW i \in DOMAIN inflight', NEW r \in inflight'[i].reqs, r \in Running'
      PROVE  inflight'[i].gamma = gamma'
  <2>1. CASE i = Len(inflight')
    BY <1>1, <1>2, <2>1
  <2>2. CASE i \in DOMAIN inflight
    BY <1>2, <1>4, <1>6, <1>7, <2>2 DEF WidthInv
  <2>. QED  BY <1>3, <2>1, <2>2
<1>8. ASSUME NEW i \in DOMAIN inflight', NEW r \in inflight'[i].reqs
      PROVE  /\ status'[r] \notin {"new", "waiting"}
             /\ status'[r] = "preempted" => i = 1 /\ Len(inflight') = 2
  <2>1. CASE i = Len(inflight')
    <3>1. r \in sched
      BY <1>1, <1>2, <2>1
    <3>2. r \in Running'
      BY <1>4, <3>1
    <3>. QED  BY <3>2 DEF Running, InState
  <2>2. CASE i \in DOMAIN inflight
    <3>1. i = 1 /\ Len(inflight') = 2
      BY <1>2, <2>2
    <3>2. status[r] \notin {"new", "waiting"} /\ r \in Requests
      BY <1>1, <1>2, <2>2, FrameRequests DEF FrameInv
    <3>3. status'[r] \in {status[r], "running", "preempted"}
      BY <3>2 DEF Dispatch
    <3>. QED  BY <3>1, <3>2, <3>3
  <2>. QED  BY <1>3, <2>1, <2>2
<1>. QED  BY <1>2, <1>5, <1>7, <1>8 DEF WidthInv, FrameInv

\* The same for a whole call of the host, which may also schedule nothing.
LEMMA LockSchedules ==
  ASSUME RequestType, WidthInv, FrameInv, Len(inflight) < 2,
         NEW gs, NEW gd \in Gammas, NEW gidle, Schedules(gs, gd, gd, gidle),
         gd = gamma \/ Running = {}, gidle = gamma \/ Running = {}
  PROVE  WidthInv' /\ FrameInv'
<1>1. CASE NothingScheduled /\ gamma' = gidle
  BY <1>1 DEF NothingScheduled, WidthInv, FrameInv, Running, InState
<1>2. CASE ~(NothingScheduled /\ gamma' = gidle)
  <2>1. PICK run \in SUBSET Running : \E keep \in SUBSET run,
              admit \in SUBSET Waiting : \E chunks \in SUBSET (keep \cup admit) :
              /\ \A r \in chunks : prompt[r] > 1
              /\ keep \cup admit # {}
              /\ Dispatch(run, keep, admit, chunks, gs, gd)
              /\ gamma' = gd
    BY <1>2, SchedulesCases, Zenon
  <2>2. PICK keep \in SUBSET run, admit \in SUBSET Waiting :
             \E chunks \in SUBSET (keep \cup admit) :
              /\ \A r \in chunks : prompt[r] > 1
              /\ keep \cup admit # {}
              /\ Dispatch(run, keep, admit, chunks, gs, gd)
              /\ gamma' = gd
    BY <2>1, Zenon
  <2>3. PICK chunks \in SUBSET (keep \cup admit) :
              /\ \A r \in chunks : prompt[r] > 1
              /\ Dispatch(run, keep, admit, chunks, gs, gd)
              /\ gamma' = gd
    BY <2>2, Zenon
  <2>. QED  BY <2>3, LockDispatch
<1>. QED  BY <1>1, <1>2

\* The refreshed latch holds live requests only; it is empty unless a live
\* request was latched already.
LEMMA RefreshedLatch ==
  /\ NeedsLatch => Refreshed = IF Latched THEN Live ELSE {}
  /\ ~NeedsLatch => Refreshed = latch /\ ~Latched
BY DEF Refreshed, Latched

\* Every step of a locked stateful engine with at most two frames in flight
\* keeps the invariant.
LEMMA LockStep ==
  ASSUME CohortLock, MaxInflight \in {1, 2}, TypeOK, LockInv, [Next]_vars
  PROVE  LockInv'
<1>. RequestType /\ gamma \in Gammas /\ Len(inflight) \in Nat
  BY TypeParts DEF RequestType
<1>. DOMAIN inflight = 1 .. Len(inflight) /\ inflight \in Seq(FrameType)
  BY DEF RequestType
<1>. (NeedsLatch' <=> NeedsLatch) /\ (NeedsLatch <=> (Sticky /\ 0 \in Gammas))
  BY DEF NeedsLatch
<1>1. ASSUME UNCHANGED <<status, prompt, inflight, gamma, latch, drafted>>
      PROVE  LockInv'
  BY <1>1 DEF LockInv, WidthInv, FrameInv, LatchInv, Latched, Live, Running,
              Waiting, InState
<1>2. ASSUME NEW r \in Requests, Arrive(r)
      PROVE  LockInv'
  <2>1. /\ Running' = Running /\ Live' = Live \cup {r} /\ r \notin latch
        /\ UNCHANGED <<prompt, inflight, gamma, latch, drafted>>
    BY <1>2 DEF Arrive, Live, Running, Waiting, InState, RequestType, LockInv, LatchInv
  <2>2. WidthInv'
    BY <2>1 DEF LockInv, WidthInv
  <2>3. \A i \in DOMAIN inflight : r \notin inflight[i].reqs
    BY <1>2 DEF Arrive, LockInv, FrameInv
  <2>4. \A q \in Requests : q # r => status'[q] = status[q]
    BY <1>2 DEF Arrive, RequestType
  <2>5. \A i \in DOMAIN inflight : inflight[i].reqs \subseteq Requests
    BY FrameRequests
  <2>6. FrameInv'
    BY <2>1, <2>3, <2>4, <2>5 DEF LockInv, FrameInv
  <2>7. latch \subseteq Requests
    BY TypeParts
  <2>8. LatchInv'
    BY <2>1, <2>4, <2>7 DEF LockInv, LatchInv, Latched
  <2>. QED  BY <2>2, <2>6, <2>8 DEF LockInv
<1>3. ASSUME NEW done \in SUBSET Requests, Forget(done), done \subseteq Live,
             UNCHANGED <<gamma, latch>>,
             UNCHANGED inflight \/ (inflight # <<>> /\ inflight' = Tail(inflight))
      PROVE  LockInv'
  <2>1. /\ Running' = Running \ done /\ Live' = Live \ done
        /\ \A r \in Requests \ done : /\ status'[r] = status[r]
                                      /\ prompt'[r] = prompt[r]
                                      /\ drafted'[r] = drafted[r]
        /\ \A r \in done : status'[r] = "done"
    BY <1>3 DEF Forget, Live, Running, Waiting, InState, RequestType
  <2>2. /\ Len(inflight') \in Nat /\ Len(inflight') <= Len(inflight)
        /\ DOMAIN inflight' = 1 .. Len(inflight')
        /\ \A i \in DOMAIN inflight' : \E j \in DOMAIN inflight :
             /\ inflight'[i] = inflight[j]
             /\ (inflight' = inflight /\ i = j) \/ j = i + 1
    BY <1>3
  <2>3. \A i \in DOMAIN inflight : inflight[i].reqs \subseteq Requests
    BY FrameRequests
  <2>4. \A r \in Running' : prompt'[r] = 0 => drafted'[r] = gamma'
    BY <1>3, <2>1, LiveFacts DEF LockInv, WidthInv
  <2>5. \A i \in DOMAIN inflight' : \A r \in inflight'[i].reqs :
          r \in Running' => inflight'[i].gamma = gamma'
    <3>. SUFFICES ASSUME NEW i \in DOMAIN inflight', NEW r \in inflight'[i].reqs,
                         r \in Running'
                  PROVE  inflight'[i].gamma = gamma'
      OBVIOUS
    <3>1. PICK j \in DOMAIN inflight : inflight'[i] = inflight[j]
      BY <2>2
    <3>. QED  BY <1>3, <2>1, <3>1 DEF LockInv, WidthInv
  <2>6. \A i \in DOMAIN inflight' : \A r \in inflight'[i].reqs :
       /\ status'[r] \notin {"new", "waiting"}
       /\ status'[r] = "preempted" => i = 1 /\ Len(inflight') = 2
    <3>. SUFFICES ASSUME NEW i \in DOMAIN inflight', NEW r \in inflight'[i].reqs
                  PROVE  /\ status'[r] \notin {"new", "waiting"}
                         /\ status'[r] = "preempted" => i = 1 /\ Len(inflight') = 2
      OBVIOUS
    <3>1. PICK j \in DOMAIN inflight :
             /\ inflight'[i] = inflight[j]
             /\ (inflight' = inflight /\ i = j) \/ j = i + 1
      BY <2>2
    <3>2. r \in Requests /\ status'[r] \in {status[r], "done"}
      BY <2>1, <2>3, <3>1
    <3>3. /\ status[r] \notin {"new", "waiting"}
          /\ status[r] = "preempted" => j = 1 /\ Len(inflight) = 2
      BY <3>1 DEF LockInv, FrameInv
    <3>. QED  BY <2>2, <3>1, <3>2, <3>3
  <2>7. Len(inflight') <= 2
    BY <2>2 DEF LockInv, FrameInv
  <2>8. latch \subseteq Requests
    BY TypeParts
  <2>9. LatchInv'
    BY <1>3, <2>1, <2>8 DEF LockInv, LatchInv, Latched
  <2>. QED  BY <2>4, <2>5, <2>6, <2>7, <2>9 DEF LockInv, WidthInv, FrameInv
<1>4. ASSUME NEW r \in Requests, Abort(r)
      PROVE  LockInv'
  BY <1>3, <1>4, LiveFacts DEF Abort
<1>5. ASSUME NEW done \in SUBSET Requests, Complete(done)
      PROVE  LockInv'
  <2>1. done \subseteq Live
    BY <1>5 DEF Complete, Deciding, Live, Running, InState
  <2>. QED  BY <1>3, <1>5, <2>1 DEF Complete
<1>6. CASE Tick
  BY <1>1, <1>6 DEF Tick, hostVars
<1>7. CASE ScheduleHeld
  <2>1. UNCHANGED <<status, prompt, inflight, gamma, drafted>> /\ latch' = Refreshed
    BY <1>7 DEF ScheduleHeld, NothingScheduled
  <2>2. WidthInv' /\ FrameInv' /\ Live' = Live
    BY <2>1 DEF LockInv, WidthInv, FrameInv, Live, Running, Waiting, InState
  <2>3. LatchInv'
    BY <2>1, <2>2, RefreshedLatch
       DEF LockInv, LatchInv, Latched, Live, Running, Waiting, InState
  <2>. QED  BY <2>2, <2>3 DEF LockInv
<1>8. ASSUME Schedule, ~ScheduleHeld
      PROVE  LockInv'
  <2>1. Len(inflight) < 2
    BY <1>8 DEF Schedule, ScheduleLatched, SchedulePreselected,
                ScheduleCohortHold, ScheduleChosen, Entered
  <2>2. PICK gs \in Gammas, gd \in Gammas, gidle \in Gammas :
          /\ Schedules(gs, gd, gd, gidle)
          /\ gd = gamma \/ Running = {}
          /\ gidle = gamma \/ Running = {}
          /\ \/ latch' = Refreshed
             \/ gd = 0 /\ inflight' # inflight /\ latch' = Refreshed \cup Live
          /\ Latched => gd = gamma /\ gidle = gamma
    <3>1. CASE ScheduleLatched
      BY <3>1 DEF ScheduleLatched, LockInv, LatchInv, Latched, NeedsLatch
    <3>2. CASE SchedulePreselected
      BY <3>2 DEF SchedulePreselected, Preselects, ColdQueue
    <3>3. CASE ScheduleCohortHold
      BY <3>3 DEF ScheduleCohortHold
    <3>4. CASE ScheduleChosen
      BY <3>4 DEF ScheduleChosen
    <3>. QED  BY <1>8, <3>1, <3>2, <3>3, <3>4 DEF Schedule
  <2>3. WidthInv' /\ FrameInv'
    BY <2>1, <2>2, LockSchedules DEF LockInv
  <2>4. Live' = Live /\ (gamma' = gd \/ (inflight' = inflight /\ gamma' = gidle))
    BY <2>2, SchedulesFrame, GammaAssumption
  <2>5. latch' \subseteq latch \cup Live
    BY <2>2, RefreshedLatch
  <2>6. \A r \in latch' : status'[r] # "new"
    <3>1. \A r \in Requests : status'[r] = "new" => status[r] = "new"
      <4>1. CASE NothingScheduled /\ gamma' = gidle
        BY <4>1 DEF NothingScheduled
      <4>2. CASE ~(NothingScheduled /\ gamma' = gidle)
        <5>1. \E run, keep, admit, chunks : Dispatch(run, keep, admit, chunks, gs, gd)
          BY <2>2, <4>2, SchedulesCases, Zenon
        <5>. QED  BY <5>1 DEF Dispatch
      <4>. QED  BY <4>1, <4>2
    <3>2. \A r \in latch \cup Live : r \in Requests /\ status[r] # "new"
      BY TypeParts DEF LockInv, LatchInv, Live, Running, Waiting, InState
    <3>. QED  BY <2>5, <3>1, <3>2
  <2>7. Latched' => gamma' = 0
    <3>1. CASE Latched
      BY <2>2, <2>4, <3>1 DEF LockInv, LatchInv
    <3>2. CASE ~Latched
      BY <2>2, <2>4, <3>2, RefreshedLatch DEF Latched
    <3>. QED  BY <3>1, <3>2
  <2>. QED  BY <2>3, <2>6, <2>7 DEF LockInv, LatchInv
<1>. QED
  BY <1>1, <1>2, <1>4, <1>5, <1>6, <1>7, <1>8 DEF Next, vars, hostVars

\* While a stateful cohort runs, its frames in flight and the Draft rows of
\* its decoding requests have one width, for any workload, if the engine keeps
\* at most the two frames in flight that asynchronous scheduling uses.
THEOREM LockedCohortHolds ==
  ASSUME MaxInflight \in {1, 2} PROVE Spec => []LockedCohortWidth
<1>1. Init => TypeOK /\ (CohortLock => LockInv)
  BY InitType DEF Init, LockInv, WidthInv, FrameInv, LatchInv, Latched,
                  Running, Waiting, Live, InState
<1>2. TypeOK /\ (CohortLock => LockInv) /\ [Next]_vars
        => (TypeOK /\ (CohortLock => LockInv))'
  BY StepType, LockStep DEF CohortLock
<1>3. TypeOK /\ (CohortLock => LockInv) => LockedCohortWidth
  BY DEF LockInv, WidthInv, LockedCohortWidth
<1>. QED  BY <1>1, <1>2, <1>3, PTL DEF Spec

-----------------------------------------------------------------------------
(* Capacity.  RunningWithinCapacity is inductive once the limit in effect is *)
(* bounded: an isolated refill hides the running list from the host and      *)
(* lowers the limit by as much.                                              *)

\* The least of three integers is at most each of them.
LEMMA LeastOfThree ==
  ASSUME NEW a \in Int, NEW b \in Int, NEW c \in Int
  PROVE  /\ Min({a, b, c}) \in Int
         /\ Min({a, b, c}) <= a /\ Min({a, b, c}) <= b /\ Min({a, b, c}) <= c
<1>1. \E x \in {a, b, c} : \A y \in {a, b, c} : x <= y
  <2>1. CASE a <= b /\ a <= c
    BY <2>1
  <2>2. CASE b <= a /\ b <= c
    BY <2>2
  <2>3. CASE c <= a /\ c <= b
    BY <2>3
  <2>. QED  BY <2>1, <2>2, <2>3
<1>2. /\ Min({a, b, c}) \in {a, b, c}
      /\ \A y \in {a, b, c} : Min({a, b, c}) <= y
  BY <1>1 DEF Min
<1>. QED  BY <1>2

\* Every set of requests is finite and its size a number.
LEMMA RequestsFinite ==
  ASSUME NEW S \in SUBSET Requests
  PROVE  IsFiniteSet(S) /\ Cardinality(S) \in Nat
<1>1. IsFiniteSet(S)
  BY SizeAssumption, FS_Subset
<1>. QED  BY <1>1, FS_CardinalityType

\* Whichever hook lowers the limit, the requests the host does not see and
\* those it may run together fit the capacity.
LEMMA LimitFits ==
  ASSUME RunningWithinCapacity, NEW cap \in Caps
  PROVE  /\ Limit(cap) \in Int /\ VisibleRun(cap) \subseteq Running
         /\ Cardinality(Running) - Cardinality(VisibleRun(cap)) + Limit(cap)
              <= MaxRunning
<1>1. Cardinality(Running) \in Nat /\ MaxRunning \in Nat
  BY RequestsFinite, LiveFacts, SizeAssumption
<1>2. cap \in Nat /\ cap <= MaxRunning
  BY <1>1 DEF Caps, RunningWithinCapacity
<1>3. CASE Isolates(cap)
  <2>1. VisibleRun(cap) = {} /\ Cardinality(VisibleRun(cap)) = 0
    BY <1>3, FS_EmptySet DEF VisibleRun
  <2>2. ~HoldWaiting(cap)
    <3>1. RefillTarget \in Int
      <4>. DEFINE t == IF NativeRefill THEN 1 ELSE RefillBatch
                  n == Cardinality(Waiting)
      <4>1. t \in Int /\ n \in Int
        BY WaitingFinite, SizeAssumption
      <4>2. RefillTarget = Min({t, n, n})
        <5>1. {t, n} = {t, n, n}
          OBVIOUS
        <5>. QED  BY <5>1, Zenon DEF RefillTarget
      <4>. HIDE DEF t, n
      <4>. QED  BY <4>1, <4>2, LeastOfThree
    <3>. QED  BY <1>1, <1>2, <1>3, <3>1 DEF HoldWaiting, Isolates, FreeSlots
  <2>3. Limit(cap) = cap - Cardinality(Running)
    BY <1>3, <2>2 DEF Limit, FreeSlots
  <2>. QED  BY <1>1, <1>2, <2>1, <2>3
<1>4. CASE ~Isolates(cap)
  <2>1. VisibleRun(cap) = Running /\ Limit(cap) \in {Cardinality(Running), cap}
    BY <1>4 DEF VisibleRun, Limit
  <2>. QED  BY <1>1, <1>2, <2>1 DEF RunningWithinCapacity
<1>. QED  BY <1>3, <1>4

\* A call of the host leaves at most MaxRunning requests running.
LEMMA HostCapacity ==
  ASSUME RequestType, RunningWithinCapacity, NEW cap \in Caps,
         NEW gs, NEW gd, NEW gnext, NEW gidle,
         HostSchedules(VisibleRun(cap), Limit(cap), gs, gd, gnext, gidle)
  PROVE  RunningWithinCapacity'
<1>. DEFINE run == VisibleRun(cap)
            limit == Limit(cap)
<1>1. /\ run \subseteq Running /\ limit \in Int
      /\ Cardinality(Running) - Cardinality(run) + limit <= MaxRunning
  BY LimitFits
<1>2. PICK keep \in SUBSET run, admit \in SUBSET Waiting :
        \E chunks \in SUBSET (keep \cup admit) :
          /\ HostMayPick(run, limit, keep, admit, chunks)
          /\ IF keep \cup admit = {}
             THEN NothingScheduled /\ gamma' = gidle
             ELSE Dispatch(run, keep, admit, chunks, gs, gd) /\ gamma' = gnext
  BY Zenon DEF HostSchedules
<1>3. PICK chunks \in SUBSET (keep \cup admit) :
          /\ HostMayPick(run, limit, keep, admit, chunks)
          /\ IF keep \cup admit = {}
             THEN NothingScheduled /\ gamma' = gidle
             ELSE Dispatch(run, keep, admit, chunks, gs, gd) /\ gamma' = gnext
  BY <1>2, Zenon
<1>. HIDE DEF run, limit
<1>4. Running' = Running \/ Running' = (Running \ (run \ keep)) \cup admit
  <2>1. CASE keep \cup admit = {}
    BY <1>3, <2>1 DEF NothingScheduled, Running, InState
  <2>2. CASE keep \cup admit # {}
    <3>1. Dispatch(run, keep, admit, chunks, gs, gd)
      BY <1>3, <2>2
    <3>. QED  BY <1>1, <3>1, LiveFacts
              DEF Dispatch, RequestType, Running, InState, Waiting
  <2>. QED  BY <2>1, <2>2
<1>5. IsFiniteSet(Running) /\ IsFiniteSet(admit)
      /\ Cardinality(Running) \in Nat /\ Cardinality(run) \in Nat
  BY <1>1, RequestsFinite, LiveFacts
<1>6. CASE Running' = Running
  BY <1>6 DEF RunningWithinCapacity
<1>7. CASE keep = run /\ Running' = Running \cup admit
  <2>1. Cardinality(admit) = AdmitCount(run, limit)
        \/ (Preemption /\ admit = {})
    BY <1>3 DEF HostMayPick
  <2>2. CASE admit = {}
    BY <1>7, <2>2 DEF RunningWithinCapacity
  <2>3. CASE Cardinality(admit) = AdmitCount(run, limit)
    <3>1. AdmitCount(run, limit) <= limit - Cardinality(run)
          /\ AdmitCount(run, limit) \in Int
      <4>1. /\ Cardinality(Waiting) \in Int /\ limit - Cardinality(run) \in Int
            /\ KvSlots - Cardinality(Running) \in Int
        BY <1>1, <1>5, WaitingFinite, SizeAssumption
      <4>2. \A a, b, c \in Int : Min({a, b, c}) \in Int /\ Min({a, b, c}) <= b
        BY LeastOfThree
      <4>. QED  BY <4>1, <4>2 DEF AdmitCount
    <3>2. Running \cap admit = {} /\ Cardinality(Running \cap admit) = 0
      BY LiveFacts, FS_EmptySet
    <3>3. Cardinality(Running \cup admit) = Cardinality(Running) + Cardinality(admit)
      <4>1. Cardinality(admit) \in Nat
        BY <1>5, FS_CardinalityType
      <4>2. Cardinality(Running \cup admit)
              = Cardinality(Running) + Cardinality(admit) - Cardinality(Running \cap admit)
        BY <1>5, FS_Union
      <4>. QED  BY <1>5, <3>2, <4>1, <4>2
    <3>4. Cardinality(Running \cup admit) <= MaxRunning
      BY <1>1, <1>5, <2>3, <3>1, <3>3, SizeAssumption
    <3>. QED  BY <1>7, <3>4 DEF RunningWithinCapacity
  <2>. QED  BY <2>1, <2>2, <2>3
<1>8. CASE keep # run /\ Running' = (Running \ (run \ keep)) \cup admit
  <2>1. Running' \subseteq Running
    BY <1>3, <1>8 DEF HostMayPick
  <2>2. Cardinality(Running') <= Cardinality(Running)
    BY <1>5, <2>1, FS_Subset
  <2>3. Cardinality(Running') \in Nat /\ MaxRunning \in Nat
    BY <1>5, <2>1, RequestsFinite, LiveFacts, SizeAssumption
  <2>. QED  BY <1>5, <2>2, <2>3 DEF RunningWithinCapacity
<1>. QED  BY <1>4, <1>6, <1>7, <1>8

\* A step that moves no request into the running list keeps it within bounds.
LEMMA FewerRunning ==
  ASSUME RunningWithinCapacity, Running' \subseteq Running
  PROVE  RunningWithinCapacity'
<1>1. IsFiniteSet(Running) /\ Cardinality(Running) \in Nat
      /\ Cardinality(Running') \in Nat
  BY RequestsFinite, LiveFacts
<1>2. Cardinality(Running') <= Cardinality(Running)
  BY <1>1, FS_Subset
<1>. QED  BY <1>1, <1>2, SizeAssumption DEF RunningWithinCapacity

\* Every step of the scheduler keeps the running list within its capacity.
LEMMA CapacityStep ==
  ASSUME TypeOK, RunningWithinCapacity, [Next]_vars
  PROVE  RunningWithinCapacity'
<1>. RequestType
  BY TypeParts
<1>1. CASE UNCHANGED vars
  BY <1>1, FewerRunning DEF vars, hostVars, Running, InState
<1>2. ASSUME NEW r \in Requests, Arrive(r) \/ Abort(r)
      PROVE  Running' \subseteq Running
  BY <1>2 DEF Arrive, Abort, Forget, RequestType, Running, InState
<1>3. CASE Tick
  BY <1>3, FewerRunning DEF Tick, hostVars, Running, InState
<1>4. ASSUME NEW done \in SUBSET Requests, Complete(done)
      PROVE  Running' \subseteq Running
  <2>1. Forget(done)
    BY <1>4 DEF Complete
  <2>. QED  BY <2>1 DEF Forget, RequestType, Running, InState
<1>5. CASE ScheduleHeld
  BY <1>5, FewerRunning DEF ScheduleHeld, NothingScheduled, Running, InState
<1>6. CASE Schedule /\ ~ScheduleHeld
  <2>1. \E gs, gd, gnext, gidle : Schedules(gs, gd, gnext, gidle)
    BY <1>6, Zenon DEF Schedule, ScheduleLatched, SchedulePreselected,
                       ScheduleCohortHold, ScheduleChosen
  <2>2. PICK gs, gd, gnext, gidle : Schedules(gs, gd, gnext, gidle)
    BY <2>1, Zenon
  <2>3. PICK cap \in Caps :
          HostSchedules(VisibleRun(cap), Limit(cap), gs, gd, gnext, gidle)
    BY <2>2, Zenon DEF Schedules
  <2>. QED  BY <2>3, HostCapacity
<1>. QED  BY <1>1, <1>2, <1>3, <1>4, <1>5, <1>6, FewerRunning DEF Next

\* The running list never exceeds its capacity, for any number of requests,
\* KV slots, refill mode, lowered limit and preemption.
THEOREM CapacityHolds == Spec => []RunningWithinCapacity
<1>1. Init => RunningWithinCapacity
  <2>1. Init => Running = {}
    BY DEF Init, Running, InState
  <2>. QED  BY <2>1, FS_EmptySet, SizeAssumption DEF RunningWithinCapacity
<1>2. TypeOK /\ RunningWithinCapacity /\ [Next]_vars => RunningWithinCapacity'
  BY CapacityStep
<1>. QED  BY <1>1, <1>2, TypeCorrect, PTL DEF Spec

-----------------------------------------------------------------------------
(* What the next frame verifies and what the controller learns from.  Both   *)
(* properties follow a request from the frame that decides its width to the  *)
(* one that uses it, over aborts, preemptions and calls that see only part   *)
(* of the running list.                                                      *)

\* The engines vLLM builds: its batch queue, which lets a second frame enter the
\* pipe, goes with asynchronous scheduling.
PipeMatchesMode == Async \/ MaxInflight = 1

\* While a frame is in flight in synchronous mode, its requests hold no
\* placeholders yet; the width they will get is the frame's.
SyncInv ==
  ~Async =>
    /\ Len(inflight) <= 1
    /\ \A i \in DOMAIN inflight : \A r \in inflight[i].reqs :
         r \in Running /\ prompt[r] = 0
           => r \notin inflight[i].chunks /\ drafted[r] = inflight[i].gamma

PlaceInv == PlaceholdersMatchDrafts /\ SyncInv

\* What a frame does to the requests it holds and to the others.
LEMMA DispatchRequests ==
  ASSUME RequestType, NEW run \in SUBSET Running, NEW keep \in SUBSET run,
         NEW admit \in SUBSET Waiting, NEW chunks \in SUBSET (keep \cup admit),
         \A r \in chunks : prompt[r] > 1,
         NEW gs, NEW gd, Dispatch(run, keep, admit, chunks, gs, gd),
         NEW r \in Running', prompt'[r] = 0
  PROVE  /\ r \in keep \cup admit =>
              /\ r \notin chunks /\ drafted'[r] = gd
              /\ spec'[r] = IF Async THEN NextSlots(gs, gd) ELSE 0
         /\ r \notin keep \cup admit =>
              /\ r \in Running /\ prompt[r] = 0
              /\ spec'[r] = spec[r] /\ drafted'[r] = drafted[r]
<1>1. r \in Requests /\ prompt[r] \in Int
  BY SizeAssumption DEF Running, InState, RequestType
<1>2. r \notin chunks
  BY <1>1 DEF Dispatch
<1>3. CASE r \in keep \cup admit
  BY <1>1, <1>2, <1>3 DEF Dispatch
<1>4. CASE r \notin keep \cup admit
  <2>1. r \notin run \ keep /\ r \in Running
    BY <1>1, <1>4, LiveFacts DEF Dispatch, Running, InState
  <2>. QED  BY <1>1, <1>2, <1>4, <2>1 DEF Dispatch
<1>. QED  BY <1>3, <1>4

\* Whatever width the host scheduled under and whether it rebuilds its list or
\* not, the placeholders of a frame that is not of the native width are repaired.
LEMMA SlotsFollowFrame ==
  ASSUME Async, NEW gs, NEW gd, gd # NativeGamma PROVE NextSlots(gs, gd) = gd
BY DEF NextSlots, Repairs

\* A call of the host keeps the invariant, whatever width the hook decides after
\* the host has scheduled.
LEMMA PlaceSchedules ==
  ASSUME RequestType, PlaceInv, PipeMatchesMode, Len(inflight) < MaxInflight,
         NEW gs, NEW gd, NEW gnext, NEW gidle, Schedules(gs, gd, gnext, gidle)
  PROVE  PlaceInv'
<1>1. CASE UNCHANGED <<status, prompt, spec, inflight, drafted>>
  BY <1>1 DEF PlaceInv, PlaceholdersMatchDrafts, SyncInv, Running, InState
<1>2. CASE ~ UNCHANGED <<status, prompt, spec, inflight, drafted>>
  <2>0. ~(NothingScheduled /\ gamma' = gidle)
    BY <1>2 DEF NothingScheduled
  <2>1. PICK run \in SUBSET Running : \E keep \in SUBSET run,
              admit \in SUBSET Waiting : \E chunks \in SUBSET (keep \cup admit) :
              /\ \A r \in chunks : prompt[r] > 1
              /\ keep \cup admit # {}
              /\ Dispatch(run, keep, admit, chunks, gs, gd)
              /\ gamma' = gnext
    BY <2>0, SchedulesCases, Zenon
  <2>2. PICK keep \in SUBSET run, admit \in SUBSET Waiting :
             \E chunks \in SUBSET (keep \cup admit) :
              /\ \A r \in chunks : prompt[r] > 1
              /\ Dispatch(run, keep, admit, chunks, gs, gd)
    BY <2>1, Zenon
  <2>3. PICK chunks \in SUBSET (keep \cup admit) :
              /\ \A r \in chunks : prompt[r] > 1
              /\ Dispatch(run, keep, admit, chunks, gs, gd)
    BY <2>2, Zenon
  <2>. DEFINE f == Frame(keep, admit, chunks, gd)
              sched == keep \cup admit
  <2>4. /\ inflight' = Append(inflight, f) /\ inflight \in Seq(FrameType)
        /\ f.reqs = sched /\ f.gamma = gd /\ f.chunks = chunks
    BY <2>3 DEF Dispatch, Frame, RequestType
  <2>. HIDE DEF f
  <2>5. /\ Len(inflight') = Len(inflight) + 1 /\ Len(inflight) \in Nat
        /\ DOMAIN inflight' = 1 .. Len(inflight') /\ DOMAIN inflight = 1 .. Len(inflight)
        /\ \A i \in DOMAIN inflight : inflight'[i] = inflight[i]
        /\ inflight'[Len(inflight')] = f
    BY <2>4
  <2>8. ASSUME NEW r \in Running', prompt'[r] = 0
        PROVE  /\ r \in sched =>
                    /\ r \notin chunks /\ drafted'[r] = gd
                    /\ spec'[r] = IF Async THEN NextSlots(gs, gd) ELSE 0
               /\ r \notin sched =>
                    /\ r \in Running /\ prompt[r] = 0
                    /\ spec'[r] = spec[r] /\ drafted'[r] = drafted[r]
    BY <2>3, <2>8, DispatchRequests
  <2>. HIDE DEF sched
  <2>6. CASE Async
    <3>1. gd # NativeGamma => NextSlots(gs, gd) = gd
      BY <2>6, SlotsFollowFrame
    <3>2. \A r \in Running' :
            prompt'[r] = 0 /\ drafted'[r] # NativeGamma => spec'[r] = drafted'[r]
      BY <2>6, <2>8, <3>1 DEF PlaceInv, PlaceholdersMatchDrafts
    <3>. QED  BY <2>6, <3>2 DEF PlaceInv, PlaceholdersMatchDrafts, SyncInv
  <2>7. CASE ~Async
    <3>1. Len(inflight) = 0 /\ Len(inflight') = 1
      BY <2>5, <2>7 DEF PipeMatchesMode
    <3>2. DOMAIN inflight = {} /\ DOMAIN inflight' = {1} /\ inflight'[1] = f
      BY <2>5, <3>1
    <3>3. ASSUME NEW r \in Running', prompt'[r] = 0, r \notin f.reqs
          PROVE  spec'[r] = drafted'[r]
      <4>1. /\ r \in Running /\ prompt[r] = 0
            /\ spec'[r] = spec[r] /\ drafted'[r] = drafted[r]
        BY <2>4, <2>8, <3>3
      <4>. QED  BY <2>7, <3>2, <4>1 DEF PlaceInv, PlaceholdersMatchDrafts
    <3>4. ASSUME NEW r \in Running', prompt'[r] = 0, r \in f.reqs
          PROVE  r \notin f.chunks /\ drafted'[r] = f.gamma
      BY <2>4, <2>8, <3>4
    <3>5. PlaceholdersMatchDrafts'
      BY <2>7, <3>2, <3>3 DEF PlaceholdersMatchDrafts
    <3>6. SyncInv'
      BY <3>1, <3>2, <3>4 DEF SyncInv
    <3>. QED  BY <3>5, <3>6 DEF PlaceInv
  <2>. QED  BY <2>6, <2>7
<1>. QED  BY <1>1, <1>2

\* Every step keeps the placeholders and the drafts of a decoding request equal.
LEMMA PlaceStep ==
  ASSUME PipeMatchesMode, TypeOK, PlaceInv, [Next]_vars
  PROVE  PlaceInv'
<1>. RequestType /\ gamma \in Gammas /\ inflight \in Seq(FrameType)
  BY TypeParts DEF RequestType
<1>1. CASE UNCHANGED <<status, prompt, spec, inflight, drafted>>
  BY <1>1 DEF PlaceInv, PlaceholdersMatchDrafts, SyncInv, Running, InState
<1>2. ASSUME NEW r \in Requests, Arrive(r)
      PROVE  PlaceInv'
  <2>1. Running' = Running /\ UNCHANGED <<prompt, spec, inflight, drafted>>
    BY <1>2 DEF Arrive, Running, InState, RequestType
  <2>. QED  BY <2>1 DEF PlaceInv, PlaceholdersMatchDrafts, SyncInv
<1>3. ASSUME NEW done \in SUBSET Requests, Forget(done)
      PROVE  /\ Running' = Running \ done
             /\ \A r \in Running' : prompt'[r] = prompt[r] /\ drafted'[r] = drafted[r]
  BY <1>3 DEF Forget, Running, InState, RequestType
<1>4. ASSUME NEW q \in Requests, Abort(q)
      PROVE  PlaceInv'
  <2>1. /\ Running' = Running \ {q} /\ inflight' = inflight
        /\ \A r \in Running' : prompt'[r] = prompt[r] /\ drafted'[r] = drafted[r]
    BY <1>3, <1>4 DEF Abort
  <2>2. \A r \in Running' : spec'[r] = spec[r]
    BY <1>4, <2>1 DEF Abort, RequestType, Running, InState
  <2>. QED  BY <2>1, <2>2 DEF PlaceInv, PlaceholdersMatchDrafts, SyncInv
<1>5. ASSUME NEW done \in SUBSET Requests, Complete(done)
      PROVE  PlaceInv'
  <2>. DEFINE f == Head(inflight)
  <2>1. /\ Running' = Running \ done
        /\ \A r \in Running' : prompt'[r] = prompt[r] /\ drafted'[r] = drafted[r]
    BY <1>3, <1>5 DEF Complete
  <2>2. /\ inflight # <<>> /\ inflight' = Tail(inflight)
        /\ Len(inflight) \in Nat \ {0} /\ DOMAIN inflight = 1 .. Len(inflight)
        /\ 1 \in DOMAIN inflight /\ inflight[1] = f
    BY <1>5 DEF Complete
  <2>3. \A r \in Running' :
          spec'[r] = IF ~Async /\ r \in Deciding(f) THEN f.gamma ELSE spec[r]
    BY <1>5, <2>1 DEF Complete, Running, InState
  <2>4. CASE Async
    <3>1. \A r \in Running' :
            prompt'[r] = 0 /\ drafted'[r] # NativeGamma => spec'[r] = drafted'[r]
      BY <2>1, <2>3, <2>4 DEF PlaceInv, PlaceholdersMatchDrafts
    <3>. QED  BY <2>4, <3>1 DEF PlaceInv, PlaceholdersMatchDrafts, SyncInv
  <2>5. CASE ~Async
    <3>1. Len(inflight) = 1 /\ DOMAIN inflight = {1}
      <4>1. Len(inflight) <= 1
        BY <2>5 DEF PlaceInv, SyncInv
      <4>2. Len(inflight) = 1 /\ DOMAIN inflight = 1 .. Len(inflight)
        BY <2>2, <4>1
      <4>3. 1 .. 1 = {1}
        OBVIOUS
      <4>. QED  BY <4>2, <4>3
    <3>2. inflight' = <<>> /\ DOMAIN inflight' = {} /\ Len(inflight') = 0
      BY <2>2, <3>1
    <3>3. ASSUME NEW r \in Running', prompt'[r] = 0
          PROVE  spec'[r] = drafted'[r]
      <4>1. r \in Running /\ prompt[r] = 0 /\ drafted'[r] = drafted[r]
        BY <2>1, <3>3
      <4>2. CASE r \in f.reqs
        <5>1. r \notin f.chunks /\ drafted[r] = f.gamma
          BY <2>2, <2>5, <4>1, <4>2 DEF PlaceInv, SyncInv
        <5>2. r \in Deciding(f)
          BY <4>1, <4>2, <5>1 DEF Deciding, Running, InState
        <5>. QED  BY <2>3, <2>5, <4>1, <5>1, <5>2
      <4>3. CASE r \notin f.reqs
        <5>1. spec[r] = drafted[r]
          BY <2>2, <2>5, <3>1, <4>1, <4>3 DEF PlaceInv, PlaceholdersMatchDrafts
        <5>2. r \notin Deciding(f)
          BY <4>3 DEF Deciding
        <5>. QED  BY <2>3, <4>1, <5>1, <5>2
      <4>. QED  BY <4>2, <4>3
    <3>. QED  BY <3>2, <3>3 DEF PlaceInv, PlaceholdersMatchDrafts, SyncInv
  <2>. QED  BY <2>4, <2>5
<1>6. CASE ScheduleHeld
  BY <1>1, <1>6 DEF ScheduleHeld, NothingScheduled
<1>7. CASE Schedule /\ ~ScheduleHeld
  <2>1. Len(inflight) < MaxInflight
    BY <1>7 DEF Schedule, ScheduleLatched, SchedulePreselected, ScheduleCohortHold,
                ScheduleChosen, Entered
  <2>2. \E gs, gd, gnext, gidle : Schedules(gs, gd, gnext, gidle)
    BY <1>7, Zenon DEF Schedule, ScheduleLatched, SchedulePreselected,
                       ScheduleCohortHold, ScheduleChosen
  <2>. QED  BY <2>1, <2>2, PlaceSchedules
<1>. QED
  BY <1>1, <1>2, <1>4, <1>5, <1>6, <1>7 DEF Next, Tick, vars, hostVars

\* The placeholders a decoding request carries into its next frame are as many
\* as its latest frame drafts: in synchronous mode whatever is decided, and in
\* asynchronous mode whatever width the host scheduled under, with the exception
\* of drafts of the native width, where the hook leaves the host's list alone.
THEOREM PlaceholdersHold ==
  ASSUME PipeMatchesMode PROVE Spec => []PlaceholdersMatchDrafts
<1>1. Init => PlaceInv
  BY DEF Init, PlaceInv, PlaceholdersMatchDrafts, SyncInv, Running, InState
<1>2. TypeOK /\ PlaceInv /\ [Next]_vars => PlaceInv'
  BY PlaceStep
<1>3. PlaceInv => PlaceholdersMatchDrafts
  BY DEF PlaceInv
<1>. QED  BY <1>1, <1>2, <1>3, TypeCorrect, PTL DEF Spec

\* A request that does not run, or that was preempted since, has its prompt to
\* compute; until it has, no frame proposes drafts for it.
PromptInv ==
  \A r \in Requests :
    /\ status[r] # "running" => prompt[r] > 0
    /\ prompt[r] > 0 => drafted[r] = 0

\* A frame ends the prompts of the requests it takes whole, and starts those of the
\* requests it preempts again.
LEMMA PromptDispatch ==
  ASSUME RequestType, PromptInv, NEW run \in SUBSET Running,
         NEW keep \in SUBSET run, NEW admit \in SUBSET Waiting,
         NEW chunks \in SUBSET (keep \cup admit),
         \A r \in chunks : prompt[r] > 1,
         NEW gs, NEW gd, Dispatch(run, keep, admit, chunks, gs, gd)
  PROVE  PromptInv'
<1>. SUFFICES ASSUME NEW r \in Requests
              PROVE  /\ status'[r] # "running" => prompt'[r] > 0
                     /\ prompt'[r] > 0 => drafted'[r] = 0
  BY DEF PromptInv
<1>1. /\ prompt[r] \in Nat /\ PromptChunks > 0
      /\ status[r] # "running" => prompt[r] > 0
      /\ prompt[r] > 0 => drafted[r] = 0
      /\ r \in run => status[r] = "running"
      /\ r \in admit => status[r] # "running"
  BY SizeAssumption DEF RequestType, PromptInv, Running, Waiting, InState
<1>2. CASE r \in (keep \cup admit) \ chunks
  BY <1>1, <1>2 DEF Dispatch
<1>3. CASE r \in chunks
  <2>1. /\ prompt'[r] = prompt[r] - 1 /\ prompt[r] > 1
        /\ drafted'[r] = drafted[r] /\ status'[r] = "running"
    BY <1>1, <1>3 DEF Dispatch
  <2>. QED  BY <1>1, <2>1
<1>4. CASE r \notin keep \cup admit
  BY <1>1, <1>4 DEF Dispatch
<1>. QED  BY <1>2, <1>3, <1>4

\* Every step keeps that invariant.
LEMMA PromptStep == TypeOK /\ PromptInv /\ [Next]_vars => PromptInv'
<1>. SUFFICES ASSUME TypeOK, PromptInv, [Next]_vars PROVE PromptInv'
  OBVIOUS
<1>. RequestType
  BY TypeParts
<1>1. CASE UNCHANGED <<status, prompt, drafted>>
  BY <1>1 DEF PromptInv
<1>2. ASSUME NEW r \in Requests, Arrive(r)
      PROVE  PromptInv'
  BY <1>2 DEF Arrive, PromptInv, RequestType
<1>3. ASSUME NEW done \in SUBSET Requests, Forget(done)
      PROVE  PromptInv'
  BY <1>3, SizeAssumption DEF Forget, PromptInv, RequestType
<1>4. ASSUME NEW gs, NEW gd, NEW gnext, NEW gidle, Schedules(gs, gd, gnext, gidle)
      PROVE  PromptInv'
  <2>1. CASE NothingScheduled /\ gamma' = gidle
    BY <1>1, <2>1 DEF NothingScheduled
  <2>2. CASE ~(NothingScheduled /\ gamma' = gidle)
    <3>1. PICK run \in SUBSET Running : \E keep \in SUBSET run,
                admit \in SUBSET Waiting : \E chunks \in SUBSET (keep \cup admit) :
                /\ \A r \in chunks : prompt[r] > 1
                /\ keep \cup admit # {}
                /\ Dispatch(run, keep, admit, chunks, gs, gd)
                /\ gamma' = gnext
      BY <1>4, <2>2, SchedulesCases, Zenon
    <3>. QED  BY <3>1, PromptDispatch
  <2>. QED  BY <2>1, <2>2
<1>5. CASE Schedule
  BY <1>1, <1>4, <1>5, Zenon
     DEF Schedule, ScheduleHeld, NothingScheduled, ScheduleLatched,
         SchedulePreselected, ScheduleCohortHold, ScheduleChosen
<1>. QED
  BY <1>1, <1>2, <1>3, <1>5 DEF Next, Abort, Complete, Tick, vars, hostVars

\* The counts of a request are natural numbers.
LEMMA CountsNatural ==
  ASSUME RequestType, NEW r \in Requests
  PROVE  prompt[r] \in Nat /\ spec[r] \in Nat
<1>1. prompt[r] \in 0 .. PromptChunks /\ spec[r] \in Gammas \cup {0}
  BY DEF RequestType
<1>2. prompt[r] \in Nat
  BY <1>1, SizeAssumption
<1>3. \A g \in Gammas \cup {0} : g \in Nat
  BY GammaAssumption
<1>4. spec[r] \in Nat
  BY <1>1, <1>3, Zenon
<1>. QED  BY <1>2, <1>4

\* A row as wide as its frame verifies drafts of the frame's own width: the
\* placeholders it comes from are as many as the drafts.
LEMMA WideRow ==
  ASSUME RequestType, PlaceInv, PromptInv, PipeMatchesMode,
         Len(inflight) < MaxInflight,
         NEW gd \in Nat, NEW r \in Requests, VerifyWidth(r) = gd + 1
  PROVE  /\ prompt[r] > 0 => gd = 0
         /\ drafted[r] = gd \/ (Async /\ drafted[r] = NativeGamma)
<1>1. prompt[r] \in Nat /\ spec[r] \in Nat
  BY CountsNatural
<1>2. CASE prompt[r] > 0
  <2>1. gd = 0
    BY <1>2 DEF VerifyWidth
  <2>. QED  BY <1>2, <2>1 DEF PromptInv
<1>3. CASE prompt[r] = 0
  <2>1. spec[r] = gd
    BY <1>1, <1>3 DEF VerifyWidth
  <2>2. r \in Running
    BY <1>3 DEF PromptInv, Running, InState
  <2>3. CASE Async
    BY <1>3, <2>1, <2>2, <2>3 DEF PlaceInv, PlaceholdersMatchDrafts
  <2>4. CASE ~Async
    <3>1. Len(inflight) = 0 /\ DOMAIN inflight = {}
      BY <2>4 DEF PipeMatchesMode, RequestType
    <3>. QED  BY <1>3, <2>1, <2>2, <2>4, <3>1
              DEF PlaceInv, PlaceholdersMatchDrafts
  <2>. QED  BY <2>3, <2>4
<1>. QED  BY <1>1, <1>2, <1>3

\* A call of the host that dispatches a stable frame dispatches one that verifies
\* drafts of its own width.
LEMMA StableSchedules ==
  ASSUME RequestType, PlaceInv, PromptInv, PipeMatchesMode,
         Len(inflight) < MaxInflight, Dispatched, NewFrame.stable,
         NEW gs, NEW gd \in Gammas, NEW gnext, NEW gidle,
         Schedules(gs, gd, gnext, gidle), NEW r \in NewFrame.reqs
  PROVE  /\ status[r] # "waiting"
         /\ prompt[r] > 0 => NewFrame.gamma = 0
         /\ drafted[r] = NewFrame.gamma \/ (Async /\ drafted[r] = NativeGamma)
<1>1. ~(NothingScheduled /\ gamma' = gidle)
  BY DEF NothingScheduled, Dispatched, RequestType
<1>2. PICK run \in SUBSET Running : \E keep \in SUBSET run,
            admit \in SUBSET Waiting : \E chunks \in SUBSET (keep \cup admit) :
            /\ \A q \in chunks : prompt[q] > 1
            /\ keep \cup admit # {}
            /\ Dispatch(run, keep, admit, chunks, gs, gd)
            /\ gamma' = gnext
  BY <1>1, SchedulesCases, Zenon
<1>3. PICK keep \in SUBSET run, admit \in SUBSET Waiting :
           \E chunks \in SUBSET (keep \cup admit) :
            Dispatch(run, keep, admit, chunks, gs, gd)
  BY <1>2, Zenon
<1>4. PICK chunks \in SUBSET (keep \cup admit) :
            Dispatch(run, keep, admit, chunks, gs, gd)
  BY <1>3, Zenon
<1>. DEFINE f == Frame(keep, admit, chunks, gd)
<1>5. inflight' = Append(inflight, f) /\ f.reqs = keep \cup admit /\ f.gamma = gd
  BY <1>4 DEF Dispatch, Frame
<1>6. NewFrame = f
  <2>. HIDE DEF f
  <2>. QED  BY <1>5 DEF NewFrame, RequestType
<1>7. /\ NewFrame.gamma = gd /\ r \in keep \cup admit
      /\ \A q \in admit : status[q] # "waiting"
      /\ VerifyWidth(r) = gd + 1
  BY <1>5, <1>6 DEF Frame
<1>. HIDE DEF f
<1>8. gd \in Nat
  BY GammaAssumption
<1>9. r \in Requests /\ status[r] # "waiting"
  BY <1>7 DEF Running, Waiting, InState
<1>10. /\ prompt[r] > 0 => gd = 0
       /\ drafted[r] = gd \/ (Async /\ drafted[r] = NativeGamma)
  BY <1>7, <1>8, <1>9, WideRow
<1>. QED  BY <1>7, <1>9, <1>10

\* The controller is credited only with frames that verify drafts of their own
\* width: no decode row lags behind a change of width, and a prompt row takes part
\* in a frame of width 0 only.
THEOREM StableCreditsHold ==
  ASSUME PipeMatchesMode PROVE Spec => StableCreditsOwnDrafts
<1>. DEFINE Credit == Dispatched /\ NewFrame.stable
               => \A r \in NewFrame.reqs :
                    /\ status[r] # "waiting"
                    /\ prompt[r] > 0 => NewFrame.gamma = 0
                    /\ drafted[r] = NewFrame.gamma \/ (Async /\ drafted[r] = NativeGamma)
<1>1. Init => PlaceInv /\ PromptInv
  BY SizeAssumption DEF Init, PlaceInv, PlaceholdersMatchDrafts, SyncInv, PromptInv,
                        Running, InState
<1>2. TypeOK /\ PlaceInv /\ PromptInv /\ [Next]_vars => PlaceInv' /\ PromptInv'
  BY PlaceStep, PromptStep
<1>3. ASSUME TypeOK, PlaceInv, PromptInv, [Next]_vars
      PROVE  [Credit]_vars
  <2>. SUFFICES ASSUME Dispatched, NewFrame.stable, NEW r \in NewFrame.reqs
                PROVE  /\ status[r] # "waiting"
                       /\ prompt[r] > 0 => NewFrame.gamma = 0
                       /\ drafted[r] = NewFrame.gamma
                          \/ (Async /\ drafted[r] = NativeGamma)
    OBVIOUS
  <2>. RequestType /\ gamma \in Gammas /\ inflight \in Seq(FrameType)
    BY <1>3, TypeParts DEF RequestType
  <2>1. inflight' # inflight /\ ~(inflight # <<>> /\ inflight' = Tail(inflight))
    BY DEF Dispatched
  <2>2. Schedule /\ ~ScheduleHeld
    BY <1>3, <2>1 DEF Next, Arrive, Abort, Tick, Complete, ScheduleHeld,
                      NothingScheduled, vars, hostVars
  <2>3. Len(inflight) < MaxInflight
    BY <2>2 DEF Schedule, ScheduleLatched, SchedulePreselected, ScheduleCohortHold,
                ScheduleChosen, Entered
  <2>4. \E gs, gd, gnext, gidle :
          gd \in Gammas /\ Schedules(gs, gd, gnext, gidle)
    BY <2>2, Zenon DEF Schedule, ScheduleLatched, SchedulePreselected,
                       ScheduleCohortHold, ScheduleChosen, Latched, NeedsLatch
  <2>. QED  BY <1>3, <2>3, <2>4, StableSchedules
<1>. QED  BY <1>1, <1>2, <1>3, TypeCorrect, PTL DEF Spec, StableCreditsOwnDrafts
================================================================================
