---------------------------- MODULE OnlineServing ----------------------------
(***************************************************************************)
(* The online controller inside the serving loop of adaptive/runtime.py:    *)
(* adaptive_schedule asks it for a width or forces one, and                 *)
(* adaptive_update_from_output gives it the frame's reward, one frame later  *)
(* when scheduling is asynchronous.                                         *)
(*                                                                         *)
(* A width decided for a frame is the number of drafts the frame proposes;   *)
(* the next frame verifies them.  A frame is therefore stable, and its       *)
(* reward is credited to its own width, only when all its rows verify as     *)
(* many drafts as the frame proposes and no request is new.                 *)
(*                                                                         *)
(* The host scheduler and the requests are an arbitrary sequence of batches: *)
(* how many requests the next frame has, and which of them are new or still  *)
(* compute their prompt.  The target-only latch is not part of the module:   *)
(* the launcher refuses the online policy with width 0 in the sticky mode.   *)
(***************************************************************************)
EXTENDS OnlineGamma, Sequences

CONSTANTS
  Changes,  \* what may happen to the batch: grow, refill, drain, restart,
            \* stall
  Holds     \* settings of the cohort hold the scheduler may be started with

ASSUME ChangeAssumption == Changes \subseteq {"grow", "refill", "drain", "restart", "stall"}

\* Only asynchronous EAGLE3 and MTP hold the width of a cohort.
ASSUME HoldAssumption ==
  /\ Holds # {} /\ Holds \subseteq {"off", "cohort", "native"}
  /\ Holds # {"off"} => Async /\ Method \in {"eagle3", "mtp"}

\* Frames scheduled and not yet completed.
MaxInflight == IF Async THEN 2 ELSE 1

\* scheduler.num_spec_tokens after scheduler_init.
NativeGamma == IF HasInitial THEN Initial ELSE MaxGamma

VARIABLES
  hold,   \* how scheduler_init was configured: "off" nothing is held, "cohort"
          \* the width of a running cohort is forced, "native" a native refill
          \* hook schedules a running cohort of the native width by itself
  pipe,   \* frames in flight, oldest first
  last,   \* the latest frame: its batch (0 once the engine is empty) and the
          \* drafts its requests carry into the next frame
  asked   \* history: the batch choose last decided a width for

vars == <<ctlVars, hold, pipe, last, asked>>

Init ==
  /\ CtlInit
  /\ hold \in Holds
  /\ pipe = <<>>
  /\ last = [batch |-> 0, slots |-> NativeGamma]
  /\ asked = 0

-----------------------------------------------------------------------------
(* The frames the host schedules.                                           *)

\* The drafts a request carries into its next frame.  The asynchronous host sizes
\* its placeholder list by the width it schedules under (gs), and
\* _update_async_next_frame_gamma repairs it unless the decided width (gd) is the
\* native one; a synchronous request gets the drafts its frame proposed.
NextSlots(gs, gd) == IF Async /\ gd = NativeGamma THEN gs ELSE gd

\* scheduled_spec_decode_tokens, as the set of counts its rows have: a row that
\* computes its prompt verifies nothing.
Verified(joins) == IF joins THEN {{0}, {0, last.slots}} ELSE {{last.slots}}

\* A frame scheduled under gs for which the controller's width is decided.
Dispatch(batch, new, rows, gs) ==
  /\ pipe' = Append(pipe, [gamma |-> gamma', batch |-> batch, decided |-> asked',
                           \* stable_decode of adaptive_update_from_output
                           stable |-> ~new /\ rows = {gamma'}])
  /\ last' = [batch |-> batch, slots |-> NextSlots(gs, gamma')]

\* The next frame of an engine that runs requests, scheduled under the present
\* width.
DispatchRunning(batch, joins, new) ==
  /\ last.batch # 0
  /\ batch > last.batch => joins /\ "grow" \in Changes
  /\ batch < last.batch => "drain" \in Changes
  /\ joins /\ batch <= last.batch => "refill" \in Changes
  /\ new => joins
  /\ \E rows \in Verified(joins) : Dispatch(batch, new, rows, gamma)

-----------------------------------------------------------------------------
(* adaptive_schedule, one action per way it decides the width of a frame.    *)

\* An engine that runs nothing: choose decides for the requests that may enter,
\* before the host schedules; fewer of them may enter, or none.
SchedulePreselected(anticipated) ==
  /\ Len(pipe) < MaxInflight
  /\ last.batch = 0 \/ "restart" \in Changes
  /\ Choose(anticipated)
  /\ asked' = anticipated
  /\ \/ \E batch \in Batches, new \in BOOLEAN :
          batch <= anticipated /\ Dispatch(batch, new, {0}, gamma')
     \/ "stall" \in Changes /\ UNCHANGED pipe /\ last' = [last EXCEPT !.batch = 0]
  /\ UNCHANGED hold

\* A running cohort keeps its width: the hook forces it, whatever the batch has
\* become, or leaves the controller alone where the native hook schedules.
ScheduleHeld(batch, joins, new) ==
  /\ Len(pipe) < MaxInflight
  /\ hold # "off"
  /\ IF hold = "native" /\ gamma = NativeGamma THEN UNCHANGED ctlVars
     ELSE ForceWidth(gamma, batch)
  /\ UNCHANGED <<hold, asked>>
  /\ DispatchRunning(batch, joins, new)

\* Nothing holds the width: choose decides for the batch the host scheduled.
ScheduleChosen(batch, joins, new) ==
  /\ Len(pipe) < MaxInflight
  /\ hold = "off"
  /\ Choose(batch)
  /\ asked' = batch
  /\ DispatchRunning(batch, joins, new)
  /\ UNCHANGED hold

\* adaptive_update_from_output.
Feedback ==
  /\ pipe # <<>>
  /\ LET f == Head(pipe)
     IN  IF f.stable THEN CompleteStep(f.gamma, f.batch) ELSE DiscardStep
  /\ pipe' = Tail(pipe)
  /\ UNCHANGED <<hold, last, asked>>

Next ==
  \/ \E batch \in Batches : SchedulePreselected(batch)
  \/ \E batch \in Batches, joins \in BOOLEAN, new \in BOOLEAN :
       ScheduleHeld(batch, joins, new) \/ ScheduleChosen(batch, joins, new)
  \/ Feedback

Spec == Init /\ [][Next]_vars

\* The engine keeps stepping while it has requests, and every frame completes.
\* Every frame that is scheduled enters the pipe and every Feedback takes one out,
\* so fairness of the two is fairness of the pipe.
Frames == [gamma : Gammas, batch : Batches, decided : Batches, stable : BOOLEAN]
Enters == Len(pipe) < MaxInflight /\ \E f \in Frames : pipe' = Append(pipe, f)
Leaves == pipe # <<>> /\ pipe' = Tail(pipe)

Fairness == WF_pipe(Enters) /\ WF_pipe(Leaves)

FairSpec == Spec /\ Fairness

-----------------------------------------------------------------------------
(* Properties.                                                              *)

BucketType ==
  [obs : [Gammas -> 0 .. ObsBound], launched : SUBSET Gammas,
   selected : Gammas \cup {None}, heard : BOOLEAN, sched : 0 .. SchedBound,
   returned : BOOLEAN, wtarget : Gammas \cup {None}, boot : Gammas \cup {None},
   seeded : BOOLEAN, deferred : BOOLEAN,
   reval : {<<>>} \cup (Gammas \X (0 .. Window))]

\* The values the controller and the frames in flight range over.
TypeOK ==
  /\ gamma \in Gammas
  /\ active \in Keys \cup {None}
  /\ burn \in 0 .. WarmupSamples
  /\ stamped \in BOOLEAN
  /\ buckets \in [Keys -> BucketType \cup {Absent}]
  /\ pipe \in Seq(Frames) /\ Len(pipe) <= MaxInflight
  /\ last \in [batch : Batches \cup {0}, slots : Gammas]
  /\ asked \in Batches \cup {0}
  /\ hold \in Holds

\* candidate_is_feasible and the batch_token_budget branch of choose: a width fits
\* max_num_batched_tokens and its own batch limit for the batch it was chosen for,
\* whatever bucket it was learned in.  So does every frame that has it, except
\* those of a held cohort that has outgrown that batch.
FramesFit ==
  \A i \in DOMAIN pipe :
    LET f == pipe[i]
    IN  /\ f.gamma \in Feasible[f.decided]
        /\ f.gamma \in Feasible[f.batch] \/ (hold # "off" /\ f.batch > f.decided)

\* docs/vspec_adaptive.md:34: the width changes by at most max_gamma_step per
\* decision.  A batch the current width does not fit forces a larger change.
StepBounded ==
  [][gamma' # gamma /\ gamma \in Feasible[asked'] => Distance(gamma', gamma) <= MaxStep]_vars

\* choose: "a farther arm becomes eligible only through a measured adjacent
\* boundary".  Where the initial width starts the search and no prior was
\* inherited, the arms a bucket has launched reach out from the anchor with no
\* gap, and every arm has rewards before the next one is launched.  A width forced
\* by a batch (ForceWidth) can break the chain unless it is the anchor.
EvidenceChain ==
  HasInitial =>
    \A b \in Batches :
      LET B == buckets[Bucket(b)]
          anchor == Nearest[Feasible[b]][Anchor]
      IN  B # Absent /\ ~B.seeded =>
            \A g \in B.launched \ {anchor} :
              Boundary(g, anchor) \in B.launched /\ Ready(B, Boundary(g, anchor))

\* choose waits for the reward of every arm it launched ("the exploration
\* windows are already in flight"): in the bucket being served, a launched arm
\* gets its warmup samples.
LaunchedArmsMeasured ==
  \A k \in Keys, g \in Gammas :
    (active = k /\ buckets[k] # Absent /\ g \in buckets[k].launched)
      ~> (active # k \/ Ready(buckets[k], g))

\* "requires --adaptive-gamma0-mode sync so speculation can resume", and the
\* "bounded transition" of choose: while a bucket is served, the travel to the
\* width it inherited or resumes comes to an end, unless batches the present width
\* does not fit force it back again and again.
TravelEnds ==
  []<><<gamma \notin Feasible[asked']>>_vars
  \/ \A k \in Keys :
       (active = k /\ buckets[k] # Absent /\ buckets[k].boot # None)
         ~> (active # k \/ buckets[k].boot = None)

\* The engine serves a batch of one size that no request joins.
Undisturbed(b) == ScheduleChosen(b, FALSE, FALSE) \/ Feedback

\* "Explore every arm once": while one batch is served and nothing joins it, the
\* sweep of its bucket reaches every feasible arm.
SweepReachesAllArms ==
  \A b \in Batches :
    <>[][Undisturbed(b)]_vars
      => <>(buckets[Bucket(b)] # Absent /\ Feasible[b] \subseteq buckets[Bucket(b)].launched)
=============================================================================
