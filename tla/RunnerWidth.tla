----------------------------- MODULE RunnerWidth -----------------------------
(***************************************************************************)
(* The model runner's half of adaptive/runtime.py: how one worker changes    *)
(* its query width from frame to frame.                                      *)
(*                                                                         *)
(* The host runner is built for one width.  The hooks rebind it around every *)
(* call: execute_model and the prepare_inputs it calls, then sample_tokens   *)
(* and the _propose it calls, each in a context that saves the runner's       *)
(* fields and puts them back.  Stateful methods have a pinned anchor width    *)
(* whose frames skip the contexts.  Frames stay on the device after           *)
(* execute_model has returned.                                               *)
(*                                                                         *)
(* One behaviour serves one deployment, chosen at the start.  The draft's     *)
(* full graphs are on: without adaptive_full_graph no graph is chosen.       *)
(***************************************************************************)
EXTENDS Integers, Sequences

CONSTANTS
  Deployments,    \* the settings to be served
  PromptTokens,   \* lengths of prompt chunks
  MaxQueued       \* frames the device may have queued

Methods == {"eagle", "eagle3", "mtp", "draft_model"}

\* The settings the hooks read.  The configured capacity is max: the launcher
\* starts the host with num_speculative_tokens = max.
DeploymentType ==
  [method    : Methods,
   min       : Nat,
   max       : Nat,
   locked    : BOOLEAN,   \* stateful_cohort_locked
   isolated  : BOOLEAN,   \* a graph mode with a parameter table per width
   measured  : BOOLEAN,   \* measure_step_latency
   kernel    : BOOLEAN]   \* the dynamic EAGLE state kernel

\* The launcher's checks (cli.py) and the methods a lock exists for.
Served(d) ==
  /\ d.min < d.max
  /\ d.method = "mtp" => d.min >= 2 /\ d.min % 2 = 0 /\ d.max % 2 = 0
  /\ d.method = "draft_model" => d.min <= 2 /\ 2 <= d.max
  /\ d.locked => d.method \in {"eagle3", "mtp"}
  /\ d.kernel => d.method = "eagle"

ASSUME RunnerAssumption ==
  /\ Deployments \subseteq DeploymentType
  /\ \A d \in Deployments : Served(d)
  /\ PromptTokens \subseteq Nat \ {0}
  /\ MaxQueued \in Nat \ {0}

VARIABLES
  dep,       \* the deployment
  phase,     \* where the worker is in its calls
  frame,     \* the frame being worked on
  last,      \* gamma of the latest frame, Unset before the first
  pending,   \* drafts a decoding request holds
  runner,    \* the runner's width fields
  outer,     \* what execute_model or sample_tokens will put back
  inner,     \* what _propose will put back
  drafter,   \* the proposer's fields
  kept,      \* what _propose will put back of them
  previous,  \* _vspec_adaptive_previous_proposal_gamma
  synced,    \* _vspec_eagle3_synchronized_gamma
  device,    \* gammas of the frames the device has queued
  graphs,    \* captured graphs and the owner of the base parameter table
  table,     \* the width whose target table is installed, 0 for the base table
  eager      \* the flags execute_model sets for the host's dispatch

runnerVars == <<runner, outer, inner>>
draftVars  == <<drafter, kept, previous>>
vars == <<dep, phase, frame, last, pending, runnerVars, draftVars, synced,
          device, graphs, table, eager>>

Unset == -1
NoWidth == 0
NoGraph == 0   \* the runnable is the unwrapped body, dispatch is eager

-----------------------------------------------------------------------------
(* The deployment's widths *)

Clip(g) ==
  IF g < dep.min THEN dep.min ELSE IF g > dep.max THEN dep.max ELSE g

Stateful == dep.method \in {"eagle3", "mtp"}

\* The gamma whose width the runner is native to; it also owns the native
\* draft graph.
Anchor ==
  IF dep.method = "draft_model" THEN 2
  ELSE IF dep.method = "eagle3" THEN Clip(5)
  ELSE IF dep.method = "mtp" THEN Clip(4) - (Clip(4) % 2)
  ELSE dep.max

Gammas ==
  {g \in dep.min .. dep.max : dep.method = "mtp" => (g - dep.min) % 2 = 0}

\* Target widths with a graph of their own.
CaptureWidths ==
  IF dep.method = "draft_model" THEN {3, 4} ELSE {g + 1 : g \in Gammas}

WidestCapture == IF dep.method = "draft_model" THEN 4 ELSE dep.max + 1

\* The state width of dynamic EAGLE: the middle of the candidates.
Midpoint == (dep.min + dep.max + 1) \div 2

-----------------------------------------------------------------------------
(* Contexts: binding the runner to a width and putting it back *)

NoView == [width |-> NoWidth, spec |-> 0, builders |-> NoWidth,
           pinned |-> NoWidth]

\* Every field already has the width: the context neither sets nor restores.
Fits(r, q) == r.width = q /\ r.spec = q - 1 /\ r.builders = q

\* Mutant: no early return for a batch of no common width.
BindNoWidth(r, q) == [r EXCEPT !.width = q, !.spec = q - 1, !.builders = q]

\* Mutant: the metadata builders are left out.
BindRunnerOnly(r, q) ==
  IF q = NoWidth THEN r ELSE [r EXCEPT !.width = q, !.spec = q - 1]

Bind(r, q) ==
  IF q = NoWidth THEN r
  ELSE [r EXCEPT !.width = q, !.spec = q - 1, !.builders = q]

Saved(r, q) == IF q = NoWidth \/ Fits(r, q) THEN NoView ELSE r

\* Mutant: num_spec_tokens is not put back.
RestoreWidths(r, view) ==
  IF view.width = NoWidth THEN r
  ELSE [r EXCEPT !.width = view.width, !.builders = view.builders]

Restore(r, view) ==
  IF view.width = NoWidth THEN r ELSE [view EXCEPT !.pinned = r.pinned]

Pin(r, q) == [Bind(r, q) EXCEPT !.pinned = q]

IsAnchor(r, g, q) ==
  /\ Stateful
  /\ g = Anchor
  /\ q = g + 1
  /\ r.spec = g
  /\ r.width = q

IsPinnedAnchor(r, g, q) == IsAnchor(r, g, q) /\ r.pinned = q

-----------------------------------------------------------------------------
(* Frames *)

\* Rows verify the drafts they hold; prompt rows hold none.
RowWidths(f) ==
  (IF f.decodes THEN {f.verify + 1} ELSE {})
    \cup (IF f.prompts # {} THEN {1} ELSE {})

\* The width all rows have, NoWidth when they differ.
Common(widths) ==
  IF \E w \in widths : widths = {w} THEN CHOOSE w \in widths : TRUE ELSE NoWidth

\* _runtime_target_query_width.
Uniform(f) == Common(RowWidths(f))

\* _runtime_target_metadata_query_width.
Widest(f) == IF f.decodes THEN f.verify + 1 ELSE 1

\* _proposal_input_query_width counts tokens, so a prompt counts its length.
InputWidth(f) ==
  Common((IF f.decodes THEN {f.verify + 1} ELSE {}) \cup f.prompts)

\* A locked cohort's anchor frame is recognised without looking at its rows.
Native(r, f) ==
  dep.locked /\ ~f.new /\ IsAnchor(r, f.gamma, f.gamma + 1)

Layout(r, f) ==
  IF Native(r, f)
  THEN [current |-> f.gamma + 1, metadata |-> f.gamma + 1, stable |-> TRUE]
  ELSE [current |-> Uniform(f), metadata |-> Widest(f),
        stable |-> ~f.new /\ Uniform(f) = f.gamma + 1]

NoFrame ==
  [gamma |-> 0, verify |-> 0, decodes |-> FALSE, prompts |-> {}, new |-> FALSE,
   metadata |-> NoWidth, pinnedRun |-> FALSE, built |-> NoWidth,
   kernelOn |-> FALSE, execution |-> 0]

\* The scheduler's output for one call.
Requested(g, decodes, prompts, new) ==
  [NoFrame EXCEPT !.gamma = g, !.verify = pending, !.decodes = decodes,
                  !.prompts = prompts, !.new = new]

\* What the scheduler may hand to the worker.  Decoding rows hold the drafts of
\* the proposal before; a locked cohort changes its width only when none is left.
Arrives(f) ==
  /\ f.decodes \/ f.prompts # {}
  /\ f.new => f.prompts # {}
  /\ last = Unset => f.new /\ ~f.decodes
  /\ dep.locked /\ last # Unset /\ f.gamma # last => ~f.decodes

-----------------------------------------------------------------------------
(* Start-up *)

NoFlags == [force |-> FALSE, targetOnly |-> FALSE]

NativeDrafter ==
  [gamma |-> Anchor, active |-> NoWidth, runnable |-> Anchor,
   params |-> Anchor]

\* runner_init: the runner gets the anchor's width, the metadata builders, which
\* the host makes later, the configured one.
Init ==
  /\ dep \in Deployments
  /\ phase = "boot"
  /\ frame = NoFrame
  /\ last = Unset
  /\ pending = 0
  /\ runner = [width |-> Anchor + 1, spec |-> Anchor, builders |-> dep.max + 1,
               pinned |-> IF dep.method = "eagle3" /\ Anchor = dep.max
                          THEN Anchor + 1 ELSE NoWidth]
  /\ outer = NoView
  /\ inner = NoView
  /\ drafter = NativeDrafter
  /\ kept = NativeDrafter
  /\ previous = Unset
  /\ synced = Unset
  /\ device = <<>>
  /\ graphs = [target |-> {}, draft |-> {}, native |-> NoWidth]
  /\ table = NoWidth
  /\ eager = NoFlags

\* Mutant: the widest graph always owns the base table.
TablesWidest(r) ==
  IF WidestCapture = graphs.native THEN graphs
  ELSE [graphs EXCEPT !.native = WidestCapture, !.target = {}]

\* _prepare_target_graph_params: a new source key discards every captured table.
Tables(r) ==
  LET native == IF r.width \in CaptureWidths THEN r.width
                ELSE WidestCapture
  IN  IF native = graphs.native THEN graphs
      ELSE [graphs EXCEPT !.native = native, !.target = {}]

\* warmup_and_capture of a uniform FULL graph.
CaptureTarget(q) ==
  /\ phase = "boot"
  /\ dep.isolated
  /\ graphs' = [Tables(runner) EXCEPT !.target = @ \cup {q}]
  /\ runner' = Restore(Bind(runner, q), Saved(runner, q))
  /\ UNCHANGED <<dep, phase, frame, last, pending, outer, inner, draftVars,
                 synced, device, table, eager>>

\* adaptive_dummy_run: serial drafting captures its native arm only.
CaptureDraft ==
  /\ phase = "boot"
  /\ graphs' = [graphs EXCEPT !.draft = IF dep.method = "draft_model" THEN {2}
                                        ELSE Gammas \ {0}]
  /\ UNCHANGED <<dep, phase, frame, last, pending, runnerVars, draftVars,
                 synced, device, table, eager>>

Ready ==
  /\ phase = "boot"
  /\ graphs.draft # {}
  /\ dep.isolated => graphs.target = CaptureWidths
  /\ phase' = "idle"
  /\ UNCHANGED <<dep, frame, last, pending, runnerVars, draftVars, synced,
                 device, graphs, table, eager>>

-----------------------------------------------------------------------------
(* execute_model *)

\* The first call of dynamic EAGLE moves the state width to the midpoint.
StateWidth(r) ==
  IF dep.kernel /\ last = Unset THEN [r EXCEPT !.spec = Midpoint] ELSE r

\* Serial drafting has a target graph for width 3 only, EAGLE3 none for rows
\* that differ or hold no drafts.
ForceEager(current) ==
  \/ dep.method = "draft_model" /\ current \notin {NoWidth, 3}
  \/ dep.method = "eagle3" /\ current <= 1

\* The part before the host's method.
ExecuteModel(f) ==
  /\ phase = "idle"
  /\ Arrives(f)
  /\ LET r == StateWidth(runner)
         layout == Layout(r, f)
         pinnedRun ==
           layout.stable /\ IsPinnedAnchor(r, f.gamma, layout.metadata)
         fast == pinnedRun /\ ~dep.measured
     IN  /\ frame' = [f EXCEPT !.metadata = layout.metadata,
                               !.pinnedRun = pinnedRun]
         /\ outer' = IF pinnedRun THEN NoView ELSE Saved(r, layout.metadata)
         /\ runner' = IF pinnedRun THEN r ELSE Bind(r, layout.metadata)
         /\ eager' = IF fast THEN NoFlags
                     ELSE [force |-> ForceEager(layout.current),
                           targetOnly |-> IF layout.current = NoWidth
                                          THEN f.gamma = 0
                                          ELSE layout.current = 1]
         /\ IF fast \/ ~dep.isolated
            THEN UNCHANGED <<graphs, table>>
            ELSE /\ graphs' = Tables(r)
                 /\ table' = IF layout.metadata \in CaptureWidths
                             THEN layout.metadata ELSE NoWidth
  /\ last' = f.gamma
  /\ phase' = "executing"
  /\ UNCHANGED <<dep, pending, inner, draftVars, synced, device>>

\* Mutant: the queued frames are not waited for.
FenceNoWait ==
  IF ~(dep.locked /\ dep.method = "eagle3")
  THEN UNCHANGED <<synced, device, previous>>
  ELSE /\ synced' = frame.gamma
       /\ previous' = IF frame.gamma = IF synced = Unset THEN Anchor ELSE synced
                      THEN previous ELSE frame.gamma
       /\ UNCHANGED device

\* Mutant: the drafter still remembers the old cohort's width.
FenceKeepsGamma ==
  IF ~(dep.locked /\ dep.method = "eagle3")
  THEN UNCHANGED <<synced, device, previous>>
  ELSE /\ synced' = frame.gamma
       /\ device' = IF frame.gamma = IF synced = Unset THEN Anchor ELSE synced
                    THEN device ELSE <<>>
       /\ UNCHANGED previous

\* _synchronize_eagle3_width_transition.
Fence ==
  LET before == IF synced = Unset THEN Anchor ELSE synced
  IN  IF ~(dep.locked /\ dep.method = "eagle3")
      THEN UNCHANGED <<synced, device, previous>>
      ELSE /\ synced' = frame.gamma
           /\ IF before = frame.gamma
              THEN UNCHANGED <<device, previous>>
              ELSE device' = <<>> /\ previous' = frame.gamma

\* prepare_inputs, called by the host inside execute_model.  Its own context is
\* closed again when it returns.
PrepareInputs ==
  /\ phase = "executing"
  /\ Fence
  /\ LET layout == Layout(runner, frame)
         anchored ==
           layout.stable /\ IsAnchor(runner, frame.gamma, layout.metadata)
     IN  IF anchored
         THEN /\ runner' = IF runner.pinned = layout.metadata THEN runner
                           ELSE Pin(runner, layout.metadata)
              /\ UNCHANGED frame
         ELSE /\ runner' = Restore(Bind(runner, layout.metadata),
                                   Saved(runner, layout.metadata))
              /\ frame' = [frame EXCEPT
                   !.kernelOn = /\ dep.kernel
                                /\ layout.stable
                                /\ runner.spec = frame.gamma]
  /\ phase' = "prepared"
  /\ UNCHANGED <<dep, last, pending, outer, inner, drafter, kept, graphs,
                 table, eager>>

\* The rest of the host's method: it builds the metadata, queues the frame, and
\* may put the builders back to their configured view.
Launch ==
  /\ phase = "prepared"
  /\ Len(device) < MaxQueued
  /\ frame' = [frame EXCEPT !.built = runner.builders]
  /\ device' = Append(device, frame.gamma)
  /\ \E view \in {runner.builders, dep.max + 1} :
       runner' = [runner EXCEPT !.builders = view]
  /\ phase' = "launched"
  /\ UNCHANGED <<dep, last, pending, outer, inner, draftVars, synced, graphs,
                 table, eager>>

\* The finally clauses: a pinned frame is pinned again unless the host's own
\* width is the anchor's, any other frame closes its context.
LeaveExecute(r) ==
  IF frame.pinnedRun
  THEN IF Anchor = dep.max THEN r ELSE Pin(r, frame.metadata)
  ELSE Restore(r, outer)

EndExecute ==
  /\ phase = "launched"
  /\ runner' = LeaveExecute(runner)
  /\ outer' = NoView
  /\ table' = NoWidth
  /\ eager' = NoFlags
  /\ phase' = "executed"
  /\ UNCHANGED <<dep, frame, last, pending, inner, draftVars, synced, device,
                 graphs>>

-----------------------------------------------------------------------------
(* sample_tokens *)

\* The runner is bound to the width of the proposal to come.
SampleTokens ==
  /\ phase = "executed"
  /\ LET q == frame.gamma + 1
         fast == ~dep.measured /\ IsPinnedAnchor(runner, frame.gamma, q)
     IN  /\ outer' = IF fast THEN NoView ELSE Saved(runner, q)
         /\ runner' = IF fast THEN runner ELSE Bind(runner, q)
  /\ phase' = "sampling"
  /\ UNCHANGED <<dep, frame, last, pending, inner, draftVars, synced, device,
                 graphs, table, eager>>

\* _proposal_execution_gamma: the EAGLE family goes down one frame late.
ExecutionGamma ==
  IF dep.method \in {"eagle", "eagle3"} /\ frame.gamma < previous
  THEN previous ELSE frame.gamma

\* _can_use_stable_configured_draft_path.
StablePath ==
  /\ previous \in {Unset, frame.gamma}
  /\ frame.gamma = Anchor

\* Whether the batch may be one the captured draft graph covers.
BatchMatches(g) ==
  dep.method # "draft_model" /\ frame.prompts = {} => frame.verify >= g

\* The width of the merged continuation, gamma 2 of serial drafting only.
Continuation(g) ==
  IF dep.method = "draft_model" /\ g = 2 THEN 4 ELSE NoWidth

\* _propose is entered with the proposer bound to gamma g: a graph replay uses
\* the runnable and the parameters of g, an eager one the unwrapped body.
EnterProposal(g, replay) ==
  /\ inner' = Saved(runner, InputWidth(frame))
  /\ runner' = Bind(runner, InputWidth(frame))
  /\ kept' = drafter
  /\ drafter' = [gamma |-> g, active |-> Continuation(g),
                 runnable |-> IF replay THEN g ELSE NoGraph, params |-> g]
  /\ frame' = [frame EXCEPT !.execution = g]

\* Gamma 0 drafts nothing, or, in the "sync" mode, one eager token that keeps the
\* drafter's state and is thrown away.
ProposeNothing ==
  /\ frame.gamma = 0
  /\ \/ UNCHANGED <<runner, inner, drafter, kept>>
     \/ /\ inner' = Saved(runner, InputWidth(frame))
        /\ runner' = Bind(runner, InputWidth(frame))
        /\ kept' = drafter
        /\ drafter' = [drafter EXCEPT !.gamma = 1, !.runnable = NoGraph]
  /\ UNCHANGED frame

\* The native graph is kept; an anchor frame does not even bind the width.
ProposeStable ==
  /\ frame.gamma > 0 /\ StablePath
  /\ IF IsPinnedAnchor(runner, frame.gamma, InputWidth(frame))
     THEN /\ UNCHANGED <<runner, inner, drafter, kept>>
          /\ frame' = [frame EXCEPT !.execution = frame.gamma]
     ELSE EnterProposal(frame.gamma, TRUE)

\* Mutant: a transition replays the graph of its new width at once.
ProposeDynamicAtOnce ==
  /\ frame.gamma > 0 /\ ~StablePath
  /\ LET g == ExecutionGamma
         replayable == /\ dep.method = "draft_model" => g = 2
                       /\ BatchMatches(g)
     IN  \E replay \in {FALSE, replayable} : EnterProposal(g, replay)

\* Any other proposal.  A draft graph is replayed only when the frame before
\* proposed the same width and the batch matches.
ProposeDynamic ==
  /\ frame.gamma > 0 /\ ~StablePath
  /\ LET g == ExecutionGamma
         replayable == /\ dep.method = "draft_model" => g = 2
                       /\ previous \in {Unset, g}
                       /\ BatchMatches(g)
     IN  \E replay \in {FALSE, replayable} : EnterProposal(g, replay)

Propose ==
  /\ phase = "sampling"
  /\ ProposeNothing \/ ProposeStable \/ ProposeDynamic
  /\ phase' = "proposing"
  /\ UNCHANGED <<dep, last, pending, outer, previous, synced, device, graphs,
                 table, eager>>

\* The contexts of _propose and sample_tokens are closed and the drafts handed
\* out, cut down to the width that was asked for.
LeaveSample(r) == Restore(Restore(r, inner), outer)

EndSample ==
  /\ phase = "proposing"
  /\ runner' = LeaveSample(runner)
  /\ inner' = NoView
  /\ outer' = NoView
  /\ drafter' = kept
  /\ previous' = frame.gamma
  /\ pending' = frame.gamma
  /\ frame' = NoFrame
  /\ phase' = "idle"
  /\ UNCHANGED <<dep, last, kept, synced, device, graphs, table, eager>>

-----------------------------------------------------------------------------

\* The device finishes its oldest frame.
DeviceDone ==
  /\ device # <<>>
  /\ device' = Tail(device)
  /\ UNCHANGED <<dep, phase, frame, last, pending, runnerVars, draftVars,
                 synced, graphs, table, eager>>

\* The host raises inside a call: every finally clause runs, the worker ends.
Raise ==
  /\ \/ /\ phase \in {"executing", "prepared", "launched"}
        /\ runner' = LeaveExecute(runner)
     \/ /\ phase \in {"sampling", "proposing"}
        /\ runner' = LeaveSample(runner)
  /\ inner' = NoView
  /\ outer' = NoView
  /\ drafter' = IF phase = "proposing" THEN kept ELSE drafter
  /\ table' = NoWidth
  /\ eager' = NoFlags
  /\ phase' = "failed"
  /\ UNCHANGED <<dep, frame, last, pending, kept, previous, synced, device,
                 graphs>>

Next ==
  \/ \E q \in CaptureWidths : CaptureTarget(q)
  \/ CaptureDraft
  \/ Ready
  \/ \E g \in Gammas, decodes, new \in BOOLEAN, prompts \in SUBSET PromptTokens :
       ExecuteModel(Requested(g, decodes, prompts, new))
  \/ PrepareInputs
  \/ Launch
  \/ EndExecute
  \/ SampleTokens
  \/ Propose
  \/ EndSample
  \/ DeviceDone
  \/ Raise

Spec == Init /\ [][Next]_vars

-----------------------------------------------------------------------------
(* Properties *)

ViewType == [width : Nat, spec : Nat, builders : Nat, pinned : Nat]
DrafterType == [gamma : Nat, active : Nat, runnable : Nat, params : Nat]
FrameType ==
  [gamma : Nat, verify : Nat, decodes : BOOLEAN, prompts : SUBSET PromptTokens,
   new : BOOLEAN, metadata : Nat, pinnedRun : BOOLEAN, built : Nat,
   kernelOn : BOOLEAN, execution : Nat]
Calls == {"executing", "prepared", "launched", "executed", "sampling",
          "proposing"}

\* Types of the worker's state.
TypeOK ==
  /\ dep \in Deployments
  /\ phase \in {"boot", "idle", "failed"} \cup Calls
  /\ frame \in FrameType
  /\ last \in Nat \cup {Unset}
  /\ pending \in Nat
  /\ runner \in ViewType /\ outer \in ViewType /\ inner \in ViewType
  /\ drafter \in DrafterType /\ kept \in DrafterType
  /\ previous \in Nat \cup {Unset}
  /\ synced \in Nat \cup {Unset}
  /\ device \in Seq(Nat)
  /\ graphs \in [target : SUBSET Nat, draft : SUBSET Nat, native : Nat]
  /\ table \in Nat
  /\ eager \in [force : BOOLEAN, targetOnly : BOOLEAN]

\* Whatever a call did, and even if it raised, the runner is left with its native
\* width and the proposer with its native graph: nested contexts, pins that
\* happen inside them and the skipped contexts of anchor frames cancel out
\* (_runner_query_width, _pin_runner_query_width, adaptive_propose).
NativeSpec == IF dep.kernel /\ last # Unset THEN Midpoint ELSE Anchor

NativeBetweenCalls ==
  phase \in {"boot", "idle", "failed"} =>
    /\ runner.width = Anchor + 1
    /\ runner.spec = NativeSpec
    /\ drafter = NativeDrafter
    /\ table = NoWidth

\* A frame that verifies drafts is built with metadata builders of its own width:
\* a wider view advances an extra state slot (comment in _runner_query_width).
BuildersMatchFrame ==
  phase = "launched" /\ frame.decodes => frame.built = frame.verify + 1

\* The same where the anchor, if there is one, is the configured width.
ConfiguredBuildersMatch ==
  ~Stateful \/ Anchor = dep.max => BuildersMatchFrame

\* A locked EAGLE3 worker never has frames of two widths on the device: the
\* transition waits for the old cohort's frames
\* (_synchronize_eagle3_width_transition).
FencedTransition ==
  dep.locked /\ dep.method = "eagle3" =>
    \A i, j \in 1 .. Len(device) : device[i] = device[j]

\* A locked EAGLE3 cohort proposes its own width from its first frame, without a
\* step at the width of the cohort before (same function).
NoCompatibilityStep ==
  phase = "proposing" /\ dep.locked /\ dep.method = "eagle3" =>
    frame.execution = frame.gamma

\* A frame whose rows all decode.
Decode == frame.decodes /\ frame.prompts = {}

\* A draft graph is replayed only for target outputs of its own layout, with its
\* own parameters, and only if it was captured: a lazy capture is forbidden
\* (adaptive_propose).
DraftReplay ==
  phase = "proposing" /\ Decode /\ frame.gamma > 0
    /\ drafter.runnable # NoGraph =>
    /\ drafter.runnable = drafter.gamma
    /\ drafter.runnable = drafter.params
    /\ drafter.runnable \in graphs.draft
    /\ drafter.runnable = frame.verify

\* A decode frame runs with the dispatcher at its width, and a target graph is
\* replayed with the parameter table it was captured with
\* (_prepare_target_graph_params, execute_model).
TargetReplay ==
  phase = "launched" /\ Decode =>
    LET width == frame.verify + 1
    IN  /\ runner.width = width
        /\ dep.isolated /\ width \in CaptureWidths /\ ~eager.force =>
             /\ width = IF table = NoWidth THEN graphs.native ELSE table
             /\ width \in graphs.target

=============================================================================
