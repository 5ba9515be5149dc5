-------------------------- MODULE RunnerWidthProofs --------------------------
(***************************************************************************)
(* Proofs about RunnerWidth for every set of deployments the launcher        *)
(* accepts: the state is well typed, the runner is native between calls, a   *)
(* locked EAGLE3 worker fences its transitions and never proposes at the      *)
(* width of the cohort before, frames are built with builders of their own    *)
(* width, and graphs are replayed for the layout they were captured for.      *)
(***************************************************************************)
EXTENDS RunnerWidth, TLAPS

-----------------------------------------------------------------------------
(* The inductive invariant *)

\* A view of the native width.
IsNative(r) == r.width = Anchor + 1 /\ r.spec = NativeSpec

Executing == {"executing", "prepared", "launched"}

\* Unwinding the open contexts from any state gives the native view.  A pinned
\* frame opens no context and will be pinned to the anchor's width.
ContextInv ==
  /\ runner.width # NoWidth
  /\ IsNative(Restore(Restore(runner, inner), outer))
  /\ phase # "proposing" => inner.width = NoWidth
  /\ phase \notin Executing \cup {"sampling", "proposing"} =>
       outer.width = NoWidth
  /\ phase \in Executing /\ frame.pinnedRun =>
       Stateful /\ frame.metadata = Anchor + 1 /\ outer.width = NoWidth

\* The proposer and the target table leave their native state only in the calls
\* that put them back.
BindingInv ==
  /\ kept = NativeDrafter
  /\ phase # "proposing" => drafter = NativeDrafter
  /\ phase \notin Executing => table = NoWidth

\* The width the device was last synchronised for.
SyncedGamma == IF synced = Unset THEN Anchor ELSE synced

\* Under the lock everything queued has the synchronised width, and so has the
\* frame once prepare_inputs has run.
FenceInv ==
  dep.locked /\ dep.method = "eagle3" =>
    /\ \A i \in 1 .. Len(device) : device[i] = SyncedGamma
    /\ previous \in {Unset, SyncedGamma}
    /\ phase \in {"prepared", "launched", "executed", "sampling", "proposing"}
         => synced = frame.gamma
    /\ phase \in Calls \ {"proposing"} => frame.execution = 0
    /\ phase = "proposing" => frame.execution = frame.gamma

IInv == TypeOK /\ ContextInv /\ BindingInv /\ FenceInv

-----------------------------------------------------------------------------
(* Widths, views and contexts *)

\* The deployment's widths are natural numbers.
LEMMA DeploymentFacts ==
  ASSUME dep \in Deployments
  PROVE  /\ dep.min \in Nat /\ dep.max \in Nat
         /\ Anchor \in Nat
         /\ Midpoint \in Nat
         /\ Gammas \subseteq Nat
         /\ CaptureWidths \subseteq Nat
         /\ WidestCapture \in Nat
<1>1. dep \in DeploymentType /\ Served(dep)
  BY RunnerAssumption
<1>2. dep.min \in Nat /\ dep.max \in Nat
  BY <1>1 DEF DeploymentType
<1>3. ASSUME NEW g \in Nat PROVE Clip(g) \in Nat
  BY <1>2 DEF Clip
<1>4. Clip(4) - (Clip(4) % 2) \in Nat
  <2>1. \A x \in Nat : x - (x % 2) \in Nat
    OBVIOUS
  <2>. QED  BY <1>3, <2>1
<1>5. Anchor \in Nat
  BY <1>2, <1>3, <1>4 DEF Anchor
<1>6. Midpoint \in Nat
  BY <1>2 DEF Midpoint
<1>7. Gammas \subseteq Nat
  BY <1>2 DEF Gammas
<1>8. CaptureWidths \subseteq Nat
  BY <1>7 DEF CaptureWidths
<1>. QED  BY <1>2, <1>5, <1>6, <1>7, <1>8 DEF WidestCapture

\* The common width of a set of widths is one of them, or no width.
LEMMA CommonWidth ==
  ASSUME NEW widths \in SUBSET Nat
  PROVE  Common(widths) \in Nat
BY DEF Common, NoWidth

\* Reading a frame's rows gives widths.
LEMMA FrameWidths ==
  ASSUME NEW f \in FrameType
  PROVE  Uniform(f) \in Nat /\ Widest(f) \in Nat \ {0} /\ InputWidth(f) \in Nat
<1>1. f.verify \in Nat /\ f.prompts \subseteq Nat
  BY RunnerAssumption DEF FrameType
<1>2. RowWidths(f) \subseteq Nat
  BY <1>1 DEF RowWidths
<1>3. ((IF f.decodes THEN {f.verify + 1} ELSE {}) \cup f.prompts) \subseteq Nat
  BY <1>1
<1>. QED  BY <1>1, <1>2, <1>3, CommonWidth DEF Uniform, Widest, InputWidth

\* A frame's layout: its metadata width is a width.
LEMMA LayoutFacts ==
  ASSUME NEW f \in FrameType, NEW r \in ViewType
  PROVE  /\ Layout(r, f).current \in Nat
         /\ Layout(r, f).metadata \in Nat \ {0}
         /\ Layout(r, f).stable \in BOOLEAN
<1>1. f.gamma \in Nat
  BY DEF FrameType
<1>2. Uniform(f) \in Nat /\ Widest(f) \in Nat \ {0}
  BY FrameWidths
<1>3. CASE Native(r, f)
  BY <1>1, <1>3 DEF Layout
<1>4. CASE ~Native(r, f)
  <2>. DEFINE decodes == ~f.new /\ Uniform(f) = f.gamma + 1
  <2>1. Layout(r, f) = [current |-> Uniform(f), metadata |-> Widest(f),
                        stable |-> decodes]
    BY <1>4 DEF Layout
  <2>2. decodes \in BOOLEAN
    BY Zenon
  <2>3. ASSUME NEW h \in BOOLEAN, NEW layout,
               layout = [current |-> Uniform(f), metadata |-> Widest(f),
                         stable |-> h]
        PROVE  /\ layout.current = Uniform(f)
               /\ layout.metadata = Widest(f)
               /\ layout.stable = h
    BY <2>3, Zenon
  <2>. HIDE DEF decodes
  <2>4. /\ Layout(r, f).current = Uniform(f)
        /\ Layout(r, f).metadata = Widest(f)
        /\ Layout(r, f).stable = decodes
    BY <2>1, <2>2, <2>3, Zenon
  <2>. QED  BY <2>2, <2>4, <1>2, Zenon
<1>. QED  BY <1>3, <1>4, Zenon

\* Opening a context, or binding a width, keeps a view a view.
LEMMA ContextType ==
  ASSUME NEW r \in ViewType, NEW q \in Nat
  PROVE  /\ Bind(r, q) \in ViewType
         /\ Saved(r, q) \in ViewType
         /\ Pin(r, q) \in ViewType
<1>1. Bind(r, q) \in ViewType
  <2>1. q # NoWidth => q - 1 \in Nat
    BY DEF NoWidth
  <2>. QED  BY <2>1 DEF Bind, ViewType
<1>2. NoView \in ViewType
  BY DEF NoView, NoWidth, ViewType
<1>3. Saved(r, q) \in ViewType
  BY <1>2 DEF Saved
<1>4. Pin(r, q) \in ViewType
  BY <1>1 DEF Pin, ViewType
<1>. QED  BY <1>1, <1>3, <1>4

\* Closing a context keeps a view a view.
LEMMA RestoreType ==
  ASSUME NEW r \in ViewType, NEW view \in ViewType
  PROVE  Restore(r, view) \in ViewType
BY DEF Restore, ViewType

\* A context that is closed where it was opened changes nothing.
LEMMA RoundTrip ==
  ASSUME NEW r \in ViewType, NEW q \in Nat, r.width # NoWidth
  PROVE  Restore(Bind(r, q), Saved(r, q)) = r
<1>1. CASE q = NoWidth
  BY <1>1 DEF Restore, Bind, Saved, NoView, NoWidth
<1>2. CASE q # NoWidth /\ Fits(r, q)
  <2>1. Bind(r, q) = r
    BY <1>2 DEF Bind, Fits, ViewType
  <2>2. Saved(r, q) = NoView
    BY <1>2 DEF Saved
  <2>. QED  BY <2>1, <2>2 DEF Restore, NoView
<1>3. CASE q # NoWidth /\ ~Fits(r, q)
  <2>1. Saved(r, q) = r
    BY <1>3 DEF Saved
  <2>2. Bind(r, q).pinned = r.pinned
    BY <1>3 DEF Bind, ViewType
  <2>. QED  BY <2>1, <2>2 DEF Restore, ViewType
<1>. QED  BY <1>1, <1>2, <1>3

\* Closing the context just opened under an outer one gives what closing the
\* outer one alone would have given.
LEMMA NestedRoundTrip ==
  ASSUME NEW r \in ViewType, NEW q \in Nat, NEW view \in ViewType,
         r.width # NoWidth
  PROVE  Restore(Restore(Bind(r, q), Saved(r, q)), view) = Restore(r, view)
BY RoundTrip

-----------------------------------------------------------------------------
(* The actions *)

\* The deployment never changes, nor do the widths derived from it.
LEMMA SameDeployment ==
  ASSUME Next
  PROVE  /\ dep' = dep
         /\ Anchor' = Anchor /\ Midpoint' = Midpoint /\ Stateful' = Stateful
         /\ NativeDrafter' = NativeDrafter
<1>1. dep' = dep
  <2>1. \A f : ExecuteModel(f) => dep' = dep
    BY DEF ExecuteModel
  <2>2. \A q : CaptureTarget(q) => dep' = dep
    BY DEF CaptureTarget
  <2>3. CaptureDraft \/ Ready \/ PrepareInputs \/ Launch \/ EndExecute
        \/ SampleTokens \/ Propose \/ EndSample \/ DeviceDone \/ Raise
          => dep' = dep
    BY DEF CaptureDraft, Ready, PrepareInputs, Launch, EndExecute, SampleTokens,
           Propose, EndSample, DeviceDone, Raise
  <2>. QED  BY <2>1, <2>2, <2>3, Zenon DEF Next
<1>2. Anchor' = Anchor /\ Midpoint' = Midpoint /\ Stateful' = Stateful
  BY <1>1 DEF Anchor, Clip, Midpoint, Stateful
<1>. QED  BY <1>1, <1>2 DEF NativeDrafter

\* Once a frame has arrived the native state width is settled.
LEMMA SameNative ==
  ASSUME Next, last' = last
  PROVE  NativeSpec' = NativeSpec
BY SameDeployment DEF NativeSpec

\* The initial state.
LEMMA InitInv == Init => IInv
<1>. SUFFICES ASSUME Init PROVE IInv
  OBVIOUS
<1>1. dep \in Deployments
  BY DEF Init
<1>2. Anchor \in Nat /\ dep.max \in Nat
  BY <1>1, DeploymentFacts
<1>3. NativeDrafter \in DrafterType
  BY <1>2 DEF NativeDrafter, DrafterType, NoWidth
<1>4. NoView \in ViewType /\ runner \in ViewType
  BY <1>2 DEF Init, NoView, NoWidth, ViewType
<1>5. NoFrame \in FrameType /\ NoFlags \in [force : BOOLEAN, targetOnly : BOOLEAN]
  BY DEF NoFrame, NoFlags, FrameType, NoWidth
<1>6. TypeOK
  BY <1>1, <1>3, <1>4, <1>5 DEF Init, TypeOK, NoWidth, Unset
<1>7. ContextInv
  <2>1. Restore(Restore(runner, inner), outer) = runner
    BY DEF Init, Restore, NoView
  <2>2. IsNative(runner) /\ runner.width # NoWidth
    BY <1>2 DEF Init, IsNative, NativeSpec, NoWidth
  <2>. QED  BY <2>1, <2>2 DEF ContextInv, Init, Executing, NoView
<1>8. BindingInv
  BY DEF BindingInv, Init, Executing
<1>9. FenceInv
  BY DEF FenceInv, Init, Calls
<1>. QED  BY <1>6, <1>7, <1>8, <1>9 DEF IInv

\* Capturing a target graph rebinds the runner and puts it back.
LEMMA CaptureTargetInv ==
  ASSUME IInv, NEW q \in CaptureWidths, CaptureTarget(q), Next
  PROVE  IInv'
<1>. USE DEF IInv, runnerVars, draftVars
<1>1. q \in Nat /\ WidestCapture \in Nat
  BY DeploymentFacts DEF TypeOK
<1>2. runner' = runner
  BY <1>1, RoundTrip DEF TypeOK, ContextInv, CaptureTarget
<1>3. Tables(runner) \in [target : SUBSET Nat, draft : SUBSET Nat, native : Nat]
  BY <1>1 DEF Tables, TypeOK, ViewType
<1>4. graphs' \in [target : SUBSET Nat, draft : SUBSET Nat, native : Nat]
  BY <1>1, <1>3 DEF CaptureTarget
<1>5. TypeOK'
  BY <1>2, <1>4 DEF TypeOK, CaptureTarget
<1>6. IsNative(Restore(Restore(runner, inner), outer))'
  BY <1>2, SameDeployment, SameNative
     DEF ContextInv, CaptureTarget, IsNative, Restore
<1>7. ContextInv'
  BY <1>2, <1>6 DEF ContextInv, CaptureTarget, Executing
<1>8. BindingInv'
  BY SameDeployment DEF BindingInv, CaptureTarget, Executing
<1>9. FenceInv'
  BY SameDeployment DEF FenceInv, CaptureTarget, Calls, SyncedGamma
<1>. QED  BY <1>5, <1>7, <1>8, <1>9

\* Steps of the start-up and of the device leave every binding alone.
LEMMA QuietInv ==
  ASSUME IInv, CaptureDraft \/ Ready \/ DeviceDone, Next
  PROVE  IInv'
<1>. USE DEF IInv, runnerVars, draftVars
<1>1. /\ UNCHANGED <<dep, frame, last, pending, runnerVars, draftVars, synced,
                     table, eager>>
      /\ phase' = phase \/ (phase = "boot" /\ phase' = "idle")
  BY DEF CaptureDraft, Ready, DeviceDone
<1>2. graphs' \in [target : SUBSET Nat, draft : SUBSET Nat, native : Nat]
  <2>1. Gammas \subseteq Nat
    BY DeploymentFacts DEF TypeOK
  <2>2. CASE CaptureDraft
    BY <2>1, <2>2 DEF TypeOK, CaptureDraft
  <2>3. CASE Ready \/ DeviceDone
    BY <2>3 DEF TypeOK, Ready, DeviceDone
  <2>. QED  BY <2>2, <2>3
<1>3. device' \in Seq(Nat)
  <2>1. device \in Seq(Nat) /\ (device # <<>> => Tail(device) \in Seq(Nat))
    BY DEF TypeOK
  <2>. QED  BY <2>1 DEF CaptureDraft, Ready, DeviceDone
<1>4. TypeOK'
  BY <1>1, <1>2, <1>3 DEF TypeOK
<1>5. IsNative(Restore(Restore(runner, inner), outer))'
  BY <1>1, SameDeployment, SameNative
     DEF ContextInv, IsNative, Restore
<1>6. ContextInv'
  BY <1>1, <1>5, SameDeployment DEF ContextInv, Executing
<1>7. BindingInv'
  BY <1>1, SameDeployment DEF BindingInv, Executing
<1>8. FenceInv'
  <2>1. ASSUME \A i \in 1 .. Len(device) : device[i] = SyncedGamma
        PROVE  \A i \in 1 .. Len(device') : device'[i] = SyncedGamma
    <3>1. CASE device' = device
      BY <2>1, <3>1
    <3>2. CASE device # <<>> /\ device' = Tail(device)
      BY <2>1, <3>2 DEF TypeOK
    <3>. QED  BY <3>1, <3>2 DEF CaptureDraft, Ready, DeviceDone
  <2>2. SyncedGamma' = SyncedGamma
    BY <1>1, SameDeployment DEF SyncedGamma
  <2>. QED  BY <1>1, <2>1, <2>2 DEF FenceInv, Calls
<1>. QED  BY <1>4, <1>6, <1>7, <1>8

\* Outside the calls that hold a view, the runner itself is native.
LEMMA ClosedContexts ==
  ASSUME IInv, inner.width = NoWidth, outer.width = NoWidth
  PROVE  IsNative(runner)
BY DEF IInv, ContextInv, Restore

\* The flags execute_model sets.
LEMMA FlagsType ==
  ASSUME NEW a \in BOOLEAN, NEW b \in BOOLEAN
  PROVE  [force |-> a, targetOnly |-> b] \in
           [force : BOOLEAN, targetOnly : BOOLEAN]
OBVIOUS

\* A requested frame is a frame that has proposed nothing yet.
LEMMA RequestedType ==
  ASSUME TypeOK, NEW g \in Gammas, NEW decodes \in BOOLEAN, NEW new \in BOOLEAN,
         NEW prompts \in SUBSET PromptTokens
  PROVE  /\ Requested(g, decodes, prompts, new) \in FrameType
         /\ Requested(g, decodes, prompts, new).execution = 0
<1>1. g \in Nat /\ pending \in Nat
  BY DeploymentFacts DEF TypeOK
<1>2. NoFrame \in FrameType /\ NoFrame.execution = 0
  BY DEF NoFrame, FrameType, NoWidth
<1>3. ASSUME NEW n \in FrameType, NEW v \in Nat, NEW h,
             h = [n EXCEPT !.gamma = g, !.verify = v, !.decodes = decodes,
                           !.prompts = prompts, !.new = new]
      PROVE  h \in FrameType /\ h.execution = n.execution
  BY <1>1, <1>3 DEF FrameType
<1>. QED  BY <1>1, <1>2, <1>3 DEF Requested

\* execute_model opens the frame's context, or none for a pinned frame.
LEMMA ExecuteModelInv ==
  ASSUME IInv, NEW f \in FrameType, f.execution = 0, ExecuteModel(f), Next
  PROVE  IInv'
<1>. USE DEF IInv, runnerVars, draftVars
<1>. DEFINE r == StateWidth(runner)
            layout == Layout(r, f)
            pinnedRun ==
              layout.stable /\ IsPinnedAnchor(r, f.gamma, layout.metadata)
<1>1. f \in FrameType /\ f.gamma \in Nat /\ f.execution = 0
  BY DEF FrameType
<1>2. /\ phase = "idle" /\ phase' = "executing" /\ last' = f.gamma
      /\ inner.width = NoWidth /\ outer.width = NoWidth /\ IsNative(runner)
      /\ UNCHANGED <<dep, pending, inner, drafter, kept, previous, synced,
                     device>>
  BY ClosedContexts DEF ExecuteModel, ContextInv, Executing
<1>3. r \in ViewType /\ r.width = runner.width
  BY DeploymentFacts DEF TypeOK, StateWidth, ViewType
<1>4. r.width = Anchor + 1 /\ r.spec = NativeSpec' /\ r.width # NoWidth
  <2>1. last' # Unset
    BY <1>1, <1>2 DEF Unset
  <2>2. r.spec = IF dep.kernel THEN Midpoint ELSE Anchor
    BY <1>2 DEF IsNative, NativeSpec, StateWidth, TypeOK, ViewType
  <2>3. NativeSpec' = IF dep.kernel THEN Midpoint ELSE Anchor
    BY <2>1, SameDeployment DEF NativeSpec
  <2>4. r.width = Anchor + 1
    BY <1>2, <1>3 DEF IsNative
  <2>. QED  BY <1>3, <2>2, <2>3, <2>4 DEF ContextInv
<1>5. layout.metadata \in Nat \ {0} /\ layout.stable \in BOOLEAN
  BY <1>1, <1>3, LayoutFacts
<1>6. pinnedRun \in BOOLEAN
  BY Zenon
<1>7. /\ frame' = [f EXCEPT !.metadata = layout.metadata,
                            !.pinnedRun = pinnedRun]
      /\ outer' = IF pinnedRun THEN NoView ELSE Saved(r, layout.metadata)
      /\ runner' = IF pinnedRun THEN r ELSE Bind(r, layout.metadata)
  BY DEF ExecuteModel
<1>8. pinnedRun => Stateful /\ layout.metadata = Anchor + 1
  BY DEF IsPinnedAnchor, IsAnchor
<1>. HIDE DEF pinnedRun, layout, r
<1>9. /\ frame' \in FrameType
      /\ frame'.metadata = layout.metadata /\ frame'.pinnedRun = pinnedRun
      /\ frame'.gamma = f.gamma /\ frame'.execution = 0
  <2>1. PICK q \in Nat : q = layout.metadata
    BY <1>5
  <2>2. PICK h \in BOOLEAN : h = pinnedRun
    BY <1>6, Zenon
  <2>3. frame' = [f EXCEPT !.metadata = q, !.pinnedRun = h]
    BY <1>7, <2>1, <2>2, Zenon
  <2>4. /\ frame' \in FrameType
        /\ frame'.metadata = q /\ frame'.pinnedRun = h
        /\ frame'.gamma = f.gamma /\ frame'.execution = 0
    BY <1>1, <2>3 DEF FrameType
  <2>. QED  BY <2>1, <2>2, <2>4, Zenon
<1>10. runner' \in ViewType /\ outer' \in ViewType /\ runner'.width # NoWidth
  <2>1. NoView \in ViewType
    BY DEF NoView, ViewType, NoWidth
  <2>2. Bind(r, layout.metadata).width # NoWidth
    BY <1>3, <1>5 DEF Bind, NoWidth, ViewType
  <2>. QED  BY <1>3, <1>4, <1>5, <1>7, <2>1, <2>2, ContextType
<1>11. Restore(Restore(runner', inner'), outer') = r
  <2>1. Restore(runner', inner') = runner'
    BY <1>2 DEF Restore
  <2>2. CASE pinnedRun
    BY <1>7, <2>1, <2>2 DEF Restore, NoView
  <2>3. CASE ~pinnedRun
    BY <1>3, <1>4, <1>5, <1>7, <2>1, <2>3, RoundTrip
  <2>. QED  BY <2>2, <2>3
<1>12. eager' \in [force : BOOLEAN, targetOnly : BOOLEAN]
  <2>1. ASSUME NEW c PROVE ForceEager(c) \in BOOLEAN
    BY Zenon DEF ForceEager
  <2>2. ASSUME NEW c
        PROVE  (IF c = NoWidth THEN f.gamma = 0 ELSE c = 1) \in BOOLEAN
    BY Zenon
  <2>3. NoFlags \in [force : BOOLEAN, targetOnly : BOOLEAN]
    BY DEF NoFlags
  <2>4. LET c == Layout(r, f).current
        IN  [force |-> ForceEager(c),
             targetOnly |-> IF c = NoWidth THEN f.gamma = 0 ELSE c = 1] \in
              [force : BOOLEAN, targetOnly : BOOLEAN]
    BY <2>1, <2>2, FlagsType, Zenon
  <2>5. \/ eager' = NoFlags
        \/ eager' = [force |-> ForceEager(Layout(r, f).current),
                     targetOnly |-> IF Layout(r, f).current = NoWidth
                                    THEN f.gamma = 0
                                    ELSE Layout(r, f).current = 1]
    BY Zenon DEF ExecuteModel, r
  <2>. QED  BY <2>3, <2>4, <2>5, Zenon
<1>13. /\ graphs' \in [target : SUBSET Nat, draft : SUBSET Nat, native : Nat]
       /\ table' \in Nat
  <2>1. Tables(r) \in [target : SUBSET Nat, draft : SUBSET Nat, native : Nat]
    BY <1>3, DeploymentFacts DEF Tables, TypeOK, ViewType
  <2>2. \/ UNCHANGED <<graphs, table>>
        \/ /\ graphs' = Tables(r)
           /\ table' \in {layout.metadata, NoWidth}
    BY DEF ExecuteModel, layout, r
  <2>. QED  BY <1>5, <2>1, <2>2 DEF TypeOK, NoWidth
<1>14. TypeOK'
  BY <1>1, <1>2, <1>9, <1>10, <1>12, <1>13 DEF TypeOK, Calls
<1>15. ContextInv'
  <2>1. IsNative(Restore(Restore(runner, inner), outer))'
    BY <1>4, <1>11, SameDeployment DEF IsNative
  <2>2. pinnedRun =>
          Stateful' /\ frame'.metadata = Anchor' + 1 /\ outer'.width = NoWidth
    BY <1>7, <1>8, <1>9, SameDeployment DEF NoView
  <2>. QED  BY <1>2, <1>9, <1>10, <2>1, <2>2 DEF ContextInv, Executing
<1>16. BindingInv'
  BY <1>2, SameDeployment DEF BindingInv, Executing
<1>17. FenceInv'
  BY <1>2, <1>9, SameDeployment DEF FenceInv, Calls, SyncedGamma
<1>. QED  BY <1>14, <1>15, <1>16, <1>17

\* What closing a context yields does not depend on the view it is closed on,
\* except for the pin.
LEMMA RestoreNative ==
  ASSUME NEW r, NEW r2, NEW view \in ViewType, IsNative(Restore(r, view)),
         view.width = NoWidth => IsNative(r2)
  PROVE  IsNative(Restore(r2, view))
<1>1. CASE view.width = NoWidth
  BY <1>1 DEF Restore
<1>2. CASE view.width # NoWidth
  BY <1>2 DEF Restore, IsNative, ViewType
<1>. QED  BY <1>1, <1>2

\* A pinned anchor view is native: the state width of a stateful method never
\* moves to the midpoint.
LEMMA PinnedNative ==
  ASSUME dep \in Deployments, Stateful, NEW r \in ViewType
  PROVE  /\ IsNative(Pin(r, Anchor + 1))
         /\ NativeSpec = Anchor
<1>1. Anchor \in Nat /\ ~dep.kernel
  BY RunnerAssumption, DeploymentFacts DEF Stateful, Served
<1>. QED  BY <1>1 DEF IsNative, NativeSpec, Pin, Bind, ViewType, NoWidth

\* prepare_inputs fences a transition, pins an anchor frame, and closes the
\* context it opens for any other.
LEMMA PrepareInputsInv ==
  ASSUME IInv, PrepareInputs, Next
  PROVE  IInv'
<1>. USE DEF IInv, runnerVars, draftVars
<1>. DEFINE layout == Layout(runner, frame)
            anchored ==
              layout.stable /\ IsAnchor(runner, frame.gamma, layout.metadata)
<1>1. /\ phase = "executing" /\ phase' = "prepared"
      /\ UNCHANGED <<dep, last, pending, outer, inner, drafter, kept, graphs,
                     table, eager>>
      /\ inner.width = NoWidth
      /\ frame \in FrameType /\ frame.gamma \in Nat
  BY DEF PrepareInputs, ContextInv, TypeOK, FrameType
<1>2. layout.metadata \in Nat /\ layout.metadata # NoWidth
  BY LayoutFacts DEF TypeOK, NoWidth
<1>. DEFINE Held == /\ runner' \in ViewType /\ runner'.width # NoWidth
                    /\ IsNative(Restore(runner', outer))
                    /\ frame' \in FrameType
                    /\ frame'.gamma = frame.gamma
                    /\ frame'.metadata = frame.metadata
                    /\ frame'.pinnedRun = frame.pinnedRun
                    /\ frame'.execution = frame.execution
<1>3. ASSUME anchored PROVE Held
  <2>1. Stateful /\ layout.metadata = Anchor + 1
    BY <1>3 DEF IsAnchor
  <2>2. runner' \in {runner, Pin(runner, Anchor + 1)} /\ frame' = frame
    BY <1>3, <2>1 DEF PrepareInputs
  <2>3. runner' \in ViewType /\ runner'.width # NoWidth
    <3>1. Pin(runner, Anchor + 1) \in ViewType
      BY <2>1, <1>2, ContextType DEF TypeOK
    <3>2. Pin(runner, Anchor + 1).width # NoWidth
      BY <2>1, <1>2 DEF TypeOK, ContextInv, Pin, Bind, ViewType
    <3>. QED  BY <2>2, <3>1, <3>2 DEF TypeOK, ContextInv
  <2>4. outer.width = NoWidth => IsNative(runner')
    BY <2>1, <2>2, <1>1, PinnedNative DEF TypeOK, ContextInv, Restore
  <2>5. IsNative(Restore(runner', outer))
    BY <1>1, <2>4, RestoreNative DEF TypeOK, ContextInv, Restore
  <2>. QED  BY <1>1, <2>2, <2>3, <2>5
<1>4. ASSUME ~anchored PROVE Held
  <2>1. runner' = runner
    BY <1>2, <1>4, RoundTrip DEF PrepareInputs, TypeOK, ContextInv
  <2>2. IsNative(Restore(runner', outer))
    BY <1>1, <2>1 DEF ContextInv, Restore
  <2>3. PICK h \in BOOLEAN :
          h = (dep.kernel /\ layout.stable /\ runner.spec = frame.gamma)
    BY Zenon
  <2>4. frame' = [frame EXCEPT !.kernelOn = h]
    BY <1>4, <2>3, Zenon DEF PrepareInputs
  <2>. QED  BY <1>1, <2>1, <2>2, <2>4 DEF TypeOK, ContextInv, FrameType
<1>5. Held
  BY <1>3, <1>4
<1>. HIDE DEF layout, anchored
<1>6. /\ synced' \in Nat \cup {Unset} /\ device' \in Seq(Nat)
      /\ previous' \in Nat \cup {Unset}
      /\ dep.locked /\ dep.method = "eagle3" =>
           /\ synced' = frame.gamma
           /\ \A i \in 1 .. Len(device') : device'[i] = frame.gamma
           /\ previous' \in {Unset, frame.gamma}
  <2>1. Fence
    BY DEF PrepareInputs
  <2>2. CASE ~(dep.locked /\ dep.method = "eagle3")
    BY <2>1, <2>2 DEF Fence, TypeOK
  <2>3. CASE dep.locked /\ dep.method = "eagle3" /\ SyncedGamma = frame.gamma
    BY <1>1, <2>1, <2>3 DEF Fence, TypeOK, FenceInv, SyncedGamma
  <2>4. CASE dep.locked /\ dep.method = "eagle3" /\ SyncedGamma # frame.gamma
    BY <1>1, <2>1, <2>4 DEF Fence, TypeOK, SyncedGamma
  <2>. QED  BY <2>2, <2>3, <2>4
<1>7. TypeOK'
  BY <1>1, <1>5, <1>6 DEF TypeOK, Calls
<1>8. ContextInv'
  <2>1. Restore(runner', inner) = runner'
    BY <1>1 DEF Restore
  <2>2. IsNative(Restore(Restore(runner, inner), outer))'
    BY <1>1, <1>5, <2>1, SameDeployment, SameNative DEF IsNative
  <2>. QED  BY <1>1, <1>5, <2>2, SameDeployment DEF ContextInv, Executing
<1>9. BindingInv'
  BY <1>1, SameDeployment DEF BindingInv, Executing
<1>10. FenceInv'
  <2>1. frame.gamma # Unset
    BY <1>1 DEF Unset
  <2>. QED  BY <1>1, <1>5, <1>6, <2>1 DEF FenceInv, Calls, SyncedGamma
<1>. QED  BY <1>7, <1>8, <1>9, <1>10

\* The host queues the frame and may reset the builders.
LEMMA LaunchInv ==
  ASSUME IInv, Launch, Next
  PROVE  IInv'
<1>. USE DEF IInv, runnerVars, draftVars
<1>1. PICK view \in {runner.builders, dep.max + 1} :
        runner' = [runner EXCEPT !.builders = view]
  BY DEF Launch
<1>2. /\ phase = "prepared" /\ phase' = "launched"
      /\ frame' = [frame EXCEPT !.built = runner.builders]
      /\ device' = Append(device, frame.gamma)
      /\ inner.width = NoWidth
      /\ UNCHANGED <<dep, last, pending, outer, inner, drafter, kept, previous,
                     synced, graphs, table, eager>>
  BY DEF Launch, ContextInv
<1>3. view \in Nat
  <2>1. dep.max \in Nat
    BY DeploymentFacts DEF TypeOK
  <2>2. runner.builders \in Nat
    BY DEF TypeOK, ViewType
  <2>. QED  BY <1>1, <2>1, <2>2
<1>4. /\ runner' \in ViewType /\ runner'.width = runner.width
      /\ runner'.spec = runner.spec
  BY <1>1, <1>3 DEF TypeOK, ViewType
<1>5. /\ frame' \in FrameType /\ frame'.gamma = frame.gamma
      /\ frame'.gamma \in Nat /\ frame'.metadata = frame.metadata
      /\ frame'.pinnedRun = frame.pinnedRun
      /\ frame'.execution = frame.execution
  BY <1>2 DEF TypeOK, FrameType, ViewType
<1>6. device' \in Seq(Nat)
  BY <1>2, <1>5 DEF TypeOK
<1>7. TypeOK'
  BY <1>2, <1>4, <1>5, <1>6 DEF TypeOK, Calls
<1>8. ContextInv'
  <2>1. Restore(runner, inner) = runner /\ Restore(runner', inner) = runner'
    BY <1>2 DEF Restore
  <2>2. IsNative(Restore(runner', outer))
    <3>1. outer \in ViewType /\ IsNative(Restore(runner, outer))
      BY <2>1 DEF TypeOK, ContextInv
    <3>2. outer.width = NoWidth => IsNative(runner')
      BY <1>4, <3>1 DEF Restore, IsNative
    <3>. QED  BY <3>1, <3>2, RestoreNative
  <2>3. IsNative(Restore(Restore(runner, inner), outer))'
    BY <1>2, <2>1, <2>2, SameDeployment, SameNative DEF IsNative
  <2>. QED  BY <1>2, <1>4, <1>5, <2>3, SameDeployment
            DEF ContextInv, Executing
<1>9. BindingInv'
  BY <1>2, SameDeployment DEF BindingInv, Executing
<1>10. FenceInv'
  <2>1. ASSUME dep.locked /\ dep.method = "eagle3"
        PROVE  \A i \in 1 .. Len(device') : device'[i] = SyncedGamma
    <3>1. synced = frame.gamma /\ frame.gamma # Unset
      BY <1>2, <1>5, <2>1 DEF FenceInv, Unset
    <3>. QED  BY <1>2, <2>1, <3>1 DEF FenceInv, TypeOK, SyncedGamma
  <2>2. SyncedGamma' = SyncedGamma
    BY <1>2, SameDeployment DEF SyncedGamma
  <2>3. (dep.locked /\ dep.method = "eagle3") =>
          /\ \A i \in 1 .. Len(device') : device'[i] = SyncedGamma'
          /\ previous' \in {Unset, SyncedGamma'}
          /\ synced' = frame'.gamma /\ frame'.execution = 0
    BY <1>2, <1>5, <2>1, <2>2 DEF FenceInv, Calls
  <2>. QED  BY <1>2, <2>3 DEF FenceInv, Calls
<1>. QED  BY <1>7, <1>8, <1>9, <1>10

\* Leaving execute_model, by returning or by raising, leaves the runner native.
LEMMA LeaveExecuteNative ==
  ASSUME IInv, phase \in Executing
  PROVE  /\ LeaveExecute(runner) \in ViewType
         /\ LeaveExecute(runner).width # NoWidth
         /\ IsNative(LeaveExecute(runner))
<1>. USE DEF IInv
<1>1. /\ runner \in ViewType /\ outer \in ViewType /\ Anchor \in Nat
      /\ Restore(runner, inner) = runner
  BY DeploymentFacts DEF TypeOK, ContextInv, Executing, Restore
<1>2. IsNative(Restore(runner, outer))
  BY <1>1 DEF ContextInv
<1>3. LeaveExecute(runner) \in ViewType
  <2>1. frame.metadata \in Nat
    BY DEF TypeOK, FrameType
  <2>. QED  BY <1>1, <2>1, ContextType, RestoreType DEF LeaveExecute
<1>4. IsNative(LeaveExecute(runner))
  <2>1. CASE ~frame.pinnedRun
    BY <1>2, <2>1 DEF LeaveExecute
  <2>2. CASE frame.pinnedRun
    <3>1. /\ Stateful /\ frame.metadata = Anchor + 1
          /\ Restore(runner, outer) = runner
      BY <2>2 DEF ContextInv, Restore
    <3>. QED  BY <1>1, <1>2, <2>2, <3>1, PinnedNative
              DEF LeaveExecute, TypeOK
  <2>. QED  BY <2>1, <2>2
<1>. QED  BY <1>1, <1>3, <1>4 DEF IsNative, NoWidth

\* execute_model returns: its context is closed, the table is the base one.
LEMMA EndExecuteInv ==
  ASSUME IInv, EndExecute, Next
  PROVE  IInv'
<1>. USE DEF IInv, runnerVars, draftVars
<1>1. /\ phase = "launched" /\ phase' = "executed"
      /\ runner' = LeaveExecute(runner) /\ outer' = NoView
      /\ table' = NoWidth /\ eager' = NoFlags
      /\ inner.width = NoWidth
      /\ UNCHANGED <<dep, frame, last, pending, inner, drafter, kept, previous,
                     synced, device, graphs>>
  BY DEF EndExecute, ContextInv
<1>2. /\ runner' \in ViewType /\ runner'.width # NoWidth /\ IsNative(runner')
  BY <1>1, LeaveExecuteNative DEF Executing
<1>3. NoView \in ViewType /\ NoFlags \in [force : BOOLEAN, targetOnly : BOOLEAN]
  BY DEF NoView, ViewType, NoWidth, NoFlags
<1>4. TypeOK'
  BY <1>1, <1>2, <1>3 DEF TypeOK, Calls, NoWidth
<1>5. ContextInv'
  <2>1. Restore(Restore(runner', inner), outer') = runner'
    BY <1>1 DEF Restore, NoView
  <2>2. IsNative(Restore(Restore(runner, inner), outer))'
    BY <1>1, <1>2, <2>1, SameDeployment, SameNative DEF IsNative
  <2>. QED  BY <1>1, <1>2, <2>2 DEF ContextInv, Executing, NoView
<1>6. BindingInv'
  BY <1>1, SameDeployment DEF BindingInv, Executing
<1>7. FenceInv'
  BY <1>1, SameDeployment DEF FenceInv, Calls, SyncedGamma
<1>. QED  BY <1>4, <1>5, <1>6, <1>7

\* sample_tokens opens the context of the proposal to come.
LEMMA SampleTokensInv ==
  ASSUME IInv, SampleTokens, Next
  PROVE  IInv'
<1>. USE DEF IInv, runnerVars, draftVars
<1>. DEFINE q == frame.gamma + 1
<1>1. /\ phase = "executed" /\ phase' = "sampling"
      /\ inner.width = NoWidth /\ outer.width = NoWidth /\ IsNative(runner)
      /\ UNCHANGED <<dep, frame, last, pending, inner, drafter, kept, previous,
                     synced, device, graphs, table, eager>>
  BY ClosedContexts DEF SampleTokens, ContextInv, Executing
<1>2. q \in Nat /\ q # NoWidth
  BY DEF TypeOK, FrameType, NoWidth
<1>3. \/ runner' = runner /\ outer' = NoView
      \/ runner' = Bind(runner, q) /\ outer' = Saved(runner, q)
  BY DEF SampleTokens
<1>4. /\ runner' \in ViewType /\ outer' \in ViewType /\ runner'.width # NoWidth
      /\ Restore(runner', outer') = runner
  <2>. HIDE DEF q
  <2>1. NoView \in ViewType
    BY DEF NoView, ViewType, NoWidth
  <2>2. CASE runner' = runner /\ outer' = NoView
    BY <2>1, <2>2 DEF TypeOK, ContextInv, Restore, NoView
  <2>3. CASE runner' = Bind(runner, q) /\ outer' = Saved(runner, q)
    <3>1. Bind(runner, q).width # NoWidth
      BY <1>2 DEF Bind, TypeOK, ViewType
    <3>. QED  BY <1>2, <2>3, <3>1, ContextType, RoundTrip
              DEF TypeOK, ContextInv
  <2>. QED  BY <1>3, <2>2, <2>3
<1>5. TypeOK'
  BY <1>1, <1>4 DEF TypeOK, Calls
<1>6. ContextInv'
  <2>1. Restore(Restore(runner', inner), outer') = runner
    BY <1>1, <1>4 DEF Restore
  <2>2. IsNative(Restore(Restore(runner, inner), outer))'
    BY <1>1, <2>1, SameDeployment, SameNative DEF IsNative
  <2>. QED  BY <1>1, <1>4, <2>2 DEF ContextInv, Executing
<1>7. BindingInv'
  BY <1>1, SameDeployment DEF BindingInv, Executing
<1>8. FenceInv'
  BY <1>1, SameDeployment DEF FenceInv, Calls, SyncedGamma
<1>. QED  BY <1>5, <1>6, <1>7, <1>8

\* Under the lock a frame proposes at the width it was fenced for.
LEMMA LockedExecution ==
  ASSUME IInv, phase = "sampling", dep.locked, dep.method = "eagle3"
  PROVE  ExecutionGamma = frame.gamma
<1>1. previous \in {Unset, frame.gamma} /\ frame.gamma \in Nat
  BY DEF IInv, FenceInv, SyncedGamma, TypeOK, FrameType, Unset
<1>. QED  BY <1>1 DEF ExecutionGamma, Unset

\* The width a proposal runs at is a natural number.
LEMMA ExecutionType ==
  ASSUME TypeOK
  PROVE  ExecutionGamma \in Nat
<1>1. frame.gamma \in Nat /\ previous \in Nat \cup {Unset}
  BY DEF TypeOK, FrameType
<1>. QED  BY <1>1 DEF ExecutionGamma, Unset

\* What every proposal does: the runner opens a context or stays as it is, the
\* proposer's fields are saved or stay as they are.
LEMMA ProposalEffect ==
  ASSUME IInv, Propose
  PROVE  /\ runner' \in ViewType /\ inner' \in ViewType
         /\ runner'.width # NoWidth
         /\ Restore(runner', inner') = runner
         /\ drafter' \in DrafterType /\ kept' = NativeDrafter
         /\ frame' \in FrameType /\ frame'.gamma = frame.gamma
         /\ \/ frame'.execution = frame.execution /\ frame.gamma = 0
            \/ frame'.execution = frame.gamma
            \/ frame'.execution = ExecutionGamma
<1>. USE DEF IInv
<1>. DEFINE q == InputWidth(frame)
<1>1. /\ phase = "sampling" /\ inner.width = NoWidth /\ inner \in ViewType
      /\ frame \in FrameType /\ frame.gamma \in Nat
      /\ runner \in ViewType /\ runner.width # NoWidth
      /\ drafter = NativeDrafter /\ kept = NativeDrafter
      /\ drafter \in DrafterType
  BY DEF Propose, ContextInv, BindingInv, TypeOK, FrameType
<1>2. q \in Nat
  BY <1>1, FrameWidths
<1>3. /\ Restore(runner, inner) = runner
      /\ Bind(runner, q) \in ViewType /\ Saved(runner, q) \in ViewType
      /\ Bind(runner, q).width # NoWidth
      /\ Restore(Bind(runner, q), Saved(runner, q)) = runner
  <2>. HIDE DEF q
  <2>1. Restore(runner, inner) = runner
    BY <1>1 DEF Restore
  <2>2. Bind(runner, q).width # NoWidth
    BY <1>1, <1>2 DEF Bind, ViewType
  <2>. QED  BY <1>1, <1>2, <2>1, <2>2, ContextType, RoundTrip
<1>. HIDE DEF q
<1>4. ASSUME NEW g \in Nat, NEW replay, EnterProposal(g, replay)
      PROVE  /\ runner' \in ViewType /\ inner' \in ViewType
             /\ runner'.width # NoWidth
             /\ Restore(runner', inner') = runner
             /\ drafter' \in DrafterType /\ kept' = NativeDrafter
             /\ frame' \in FrameType /\ frame'.gamma = frame.gamma
             /\ frame'.execution = g
  <2>1. runner' = Bind(runner, q) /\ inner' = Saved(runner, q)
    BY <1>4 DEF EnterProposal, q
  <2>2. kept' = NativeDrafter
    BY <1>1, <1>4 DEF EnterProposal
  <2>3. drafter' \in DrafterType
    <3>1. Continuation(g) \in Nat
      BY DEF Continuation, NoWidth
    <3>2. (IF replay THEN g ELSE NoGraph) \in Nat
      BY DEF NoGraph
    <3>3. PICK a \in Nat : a = Continuation(g)
      BY <3>1
    <3>4. PICK b \in Nat : b = IF replay THEN g ELSE NoGraph
      BY <3>2
    <3>5. drafter' = [gamma |-> g, active |-> a, runnable |-> b, params |-> g]
      BY <1>4, <3>3, <3>4 DEF EnterProposal
    <3>. QED  BY <3>5 DEF DrafterType
  <2>4. frame' = [frame EXCEPT !.execution = g]
    BY <1>4 DEF EnterProposal
  <2>. QED  BY <1>1, <1>3, <2>1, <2>2, <2>3, <2>4 DEF FrameType
<1>5. CASE ProposeNothing
  <2>1. frame' = frame /\ frame.gamma = 0 /\ kept' = NativeDrafter
    BY <1>1, <1>5 DEF ProposeNothing
  <2>2. drafter' \in DrafterType
    <3>1. \/ drafter' = drafter
          \/ drafter' = [drafter EXCEPT !.gamma = 1, !.runnable = NoGraph]
      BY <1>5 DEF ProposeNothing
    <3>2. [drafter EXCEPT !.gamma = 1, !.runnable = NoGraph] \in DrafterType
      BY <1>1 DEF DrafterType, NoGraph
    <3>. QED  BY <1>1, <3>1, <3>2
  <2>3. \/ runner' = runner /\ inner' = inner
        \/ runner' = Bind(runner, q) /\ inner' = Saved(runner, q)
    BY <1>5 DEF ProposeNothing, q
  <2>. QED  BY <1>1, <1>3, <2>1, <2>2, <2>3
<1>6. CASE ProposeStable
  <2>1. CASE /\ UNCHANGED <<runner, inner, drafter, kept>>
             /\ frame' = [frame EXCEPT !.execution = frame.gamma]
    BY <1>1, <1>3, <2>1 DEF FrameType
  <2>2. CASE EnterProposal(frame.gamma, TRUE)
    BY <1>1, <1>4, <2>2
  <2>. QED  BY <1>6, <2>1, <2>2 DEF ProposeStable
<1>7. CASE ProposeDynamic
  <2>1. PICK replay : EnterProposal(ExecutionGamma, replay)
    BY <1>7, Zenon DEF ProposeDynamic
  <2>. QED  BY <1>4, <2>1, ExecutionType
<1>. QED  BY <1>5, <1>6, <1>7 DEF Propose

\* _propose: a context inside that of sample_tokens.
LEMMA ProposeInv ==
  ASSUME IInv, Propose, Next
  PROVE  IInv'
<1>. USE DEF IInv, runnerVars, draftVars
<1>1. /\ phase = "sampling" /\ phase' = "proposing"
      /\ UNCHANGED <<dep, last, pending, outer, previous, synced, device,
                     graphs, table, eager>>
      /\ inner.width = NoWidth
  BY DEF Propose, ContextInv
<1>2. /\ runner' \in ViewType /\ inner' \in ViewType
      /\ runner'.width # NoWidth
      /\ Restore(runner', inner') = runner
      /\ drafter' \in DrafterType /\ kept' = NativeDrafter
      /\ frame' \in FrameType /\ frame'.gamma = frame.gamma
  BY ProposalEffect
<1>3. NativeDrafter \in DrafterType
  BY <1>2 DEF TypeOK, BindingInv
<1>4. TypeOK'
  BY <1>1, <1>2, <1>3 DEF TypeOK, Calls
<1>5. ContextInv'
  <2>1. Restore(runner, inner) = runner
    BY <1>1 DEF Restore
  <2>2. IsNative(Restore(Restore(runner, inner), outer))'
    BY <1>1, <1>2, <2>1, SameDeployment, SameNative DEF ContextInv, IsNative
  <2>. QED  BY <1>1, <1>2, <2>2 DEF ContextInv, Executing
<1>6. BindingInv'
  BY <1>1, <1>2, SameDeployment DEF BindingInv, Executing
<1>7. FenceInv'
  <2>1. ASSUME dep.locked, dep.method = "eagle3"
        PROVE  frame'.execution = frame.gamma
    <3>1. ExecutionGamma = frame.gamma
      BY <1>1, <2>1, LockedExecution
    <3>2. frame.execution = 0
      BY <1>1, <2>1 DEF FenceInv, Calls
    <3>. QED  BY <3>1, <3>2, ProposalEffect
  <2>. QED  BY <1>1, <1>2, <2>1, SameDeployment
            DEF FenceInv, Calls, SyncedGamma
<1>. QED  BY <1>4, <1>5, <1>6, <1>7

\* Leaving sample_tokens, by returning or by raising, closes both contexts.
LEMMA LeaveSampleNative ==
  ASSUME IInv
  PROVE  /\ LeaveSample(runner) \in ViewType
         /\ LeaveSample(runner).width # NoWidth
         /\ IsNative(LeaveSample(runner))
<1>1. Restore(runner, inner) \in ViewType
  BY RestoreType DEF IInv, TypeOK
<1>2. LeaveSample(runner) \in ViewType
  BY <1>1, RestoreType DEF IInv, TypeOK, LeaveSample
<1>3. IsNative(LeaveSample(runner)) /\ Anchor \in Nat
  BY DeploymentFacts DEF IInv, TypeOK, ContextInv, LeaveSample
<1>. QED  BY <1>2, <1>3 DEF IsNative, NoWidth

\* sample_tokens returns.
LEMMA EndSampleInv ==
  ASSUME IInv, EndSample, Next
  PROVE  IInv'
<1>. USE DEF IInv, runnerVars, draftVars
<1>1. /\ phase = "proposing" /\ phase' = "idle"
      /\ runner' = LeaveSample(runner) /\ inner' = NoView /\ outer' = NoView
      /\ drafter' = kept /\ previous' = frame.gamma /\ pending' = frame.gamma
      /\ frame' = NoFrame
      /\ UNCHANGED <<dep, last, kept, synced, device, graphs, table, eager>>
  BY DEF EndSample
<1>2. /\ runner' \in ViewType /\ runner'.width # NoWidth /\ IsNative(runner')
  BY <1>1, LeaveSampleNative
<1>3. /\ NoView \in ViewType /\ NoFrame \in FrameType
      /\ frame.gamma \in Nat
  BY DEF NoView, ViewType, NoWidth, NoFrame, FrameType, TypeOK
<1>4. TypeOK'
  BY <1>1, <1>2, <1>3 DEF TypeOK
<1>5. ContextInv'
  <2>1. Restore(Restore(runner', inner'), outer') = runner'
    BY <1>1 DEF Restore, NoView
  <2>2. IsNative(Restore(Restore(runner, inner), outer))'
    BY <1>1, <1>2, <2>1, SameDeployment, SameNative DEF IsNative
  <2>. QED  BY <1>1, <1>2, <2>2 DEF ContextInv, Executing, NoView
<1>6. BindingInv'
  BY <1>1, SameDeployment DEF BindingInv, Executing
<1>7. FenceInv'
  BY <1>1, SameDeployment DEF FenceInv, Calls, SyncedGamma
<1>. QED  BY <1>4, <1>5, <1>6, <1>7

\* The host raises: the finally clauses leave the worker native.
LEMMA RaiseInv ==
  ASSUME IInv, Raise, Next
  PROVE  IInv'
<1>. USE DEF IInv, runnerVars, draftVars
<1>1. /\ phase' = "failed" /\ inner' = NoView /\ outer' = NoView
      /\ drafter' = IF phase = "proposing" THEN kept ELSE drafter
      /\ table' = NoWidth /\ eager' = NoFlags
      /\ UNCHANGED <<dep, frame, last, pending, kept, previous, synced, device,
                     graphs>>
  BY DEF Raise
<1>2. /\ runner' \in ViewType /\ runner'.width # NoWidth /\ IsNative(runner')
  <2>1. CASE phase \in Executing /\ runner' = LeaveExecute(runner)
    BY <2>1, LeaveExecuteNative
  <2>2. CASE runner' = LeaveSample(runner)
    BY <2>2, LeaveSampleNative
  <2>. QED  BY <2>1, <2>2 DEF Raise, Executing
<1>3. /\ NoView \in ViewType
      /\ NoFlags \in [force : BOOLEAN, targetOnly : BOOLEAN]
  BY DEF NoView, ViewType, NoWidth, NoFlags
<1>4. TypeOK'
  BY <1>1, <1>2, <1>3 DEF TypeOK, NoWidth
<1>5. ContextInv'
  <2>1. Restore(Restore(runner', inner'), outer') = runner'
    BY <1>1 DEF Restore, NoView
  <2>2. IsNative(Restore(Restore(runner, inner), outer))'
    BY <1>1, <1>2, <2>1, SameDeployment, SameNative DEF IsNative
  <2>. QED  BY <1>1, <1>2, <2>2 DEF ContextInv, Executing, NoView
<1>6. BindingInv'
  BY <1>1, SameDeployment DEF BindingInv, Executing
<1>7. FenceInv'
  BY <1>1, SameDeployment DEF FenceInv, Calls, SyncedGamma
<1>. QED  BY <1>4, <1>5, <1>6, <1>7

\* A step that changes nothing.
LEMMA StutterInv ==
  ASSUME IInv, UNCHANGED vars
  PROVE  IInv'
<1>. USE DEF IInv, vars, runnerVars, draftVars
<1>1. Anchor' = Anchor /\ Stateful' = Stateful /\ NativeDrafter' = NativeDrafter
      /\ Midpoint' = Midpoint
  BY DEF Anchor, Clip, Stateful, NativeDrafter, Midpoint
<1>2. NativeSpec' = NativeSpec
  BY <1>1 DEF NativeSpec
<1>3. TypeOK'
  BY DEF TypeOK
<1>4. ContextInv'
  <2>1. IsNative(Restore(Restore(runner, inner), outer))'
    BY <1>1, <1>2 DEF ContextInv, IsNative, Restore
  <2>. QED  BY <1>1, <2>1 DEF ContextInv
<1>5. BindingInv'
  BY <1>1 DEF BindingInv
<1>6. FenceInv'
  BY <1>1 DEF FenceInv, SyncedGamma
<1>. QED  BY <1>3, <1>4, <1>5, <1>6

\* The invariant is inductive.
LEMMA Inductive == IInv /\ [Next]_vars => IInv'
<1>. SUFFICES ASSUME IInv, [Next]_vars PROVE IInv'
  OBVIOUS
<1>1. CASE UNCHANGED vars
  BY <1>1, StutterInv
<1>2. ASSUME Next, NEW q \in CaptureWidths, CaptureTarget(q) PROVE IInv'
  BY <1>2, CaptureTargetInv
<1>3. ASSUME Next, NEW g \in Gammas, NEW decodes \in BOOLEAN,
             NEW new \in BOOLEAN, NEW prompts \in SUBSET PromptTokens,
             ExecuteModel(Requested(g, decodes, prompts, new))
      PROVE  IInv'
  <2>1. TypeOK
    BY DEF IInv
  <2>. QED  BY <1>3, <2>1, RequestedType, ExecuteModelInv
<1>4. CASE Next /\ (CaptureDraft \/ Ready \/ DeviceDone)
  BY <1>4, QuietInv
<1>5. CASE Next /\ PrepareInputs
  BY <1>5, PrepareInputsInv
<1>6. CASE Next /\ Launch
  BY <1>6, LaunchInv
<1>7. CASE Next /\ EndExecute
  BY <1>7, EndExecuteInv
<1>8. CASE Next /\ SampleTokens
  BY <1>8, SampleTokensInv
<1>9. CASE Next /\ Propose
  BY <1>9, ProposeInv
<1>10. CASE Next /\ EndSample
  BY <1>10, EndSampleInv
<1>11. CASE Next /\ Raise
  BY <1>11, RaiseInv
<1>. QED
  BY <1>1, <1>2, <1>3, <1>4, <1>5, <1>6, <1>7, <1>8, <1>9, <1>10, <1>11, Zenon
     DEF Next

-----------------------------------------------------------------------------
(* What a frame is built and replayed with *)

\* Every gamma is a candidate.  Between two frames the scheduler, the worker and
\* the proposer agree on the width that was served last; the rows of a frame
\* still hold the drafts of that width.
ServedInv ==
  /\ phase = "boot" => last = Unset
  /\ phase \in Calls => frame.gamma \in Gammas /\ last = frame.gamma
  /\ phase = "idle" /\ last # Unset =>
       last \in Gammas /\ pending = last /\ previous = last
  /\ phase \in Calls /\ frame.decodes =>
       /\ frame.verify \in Gammas
       /\ previous = frame.verify
       /\ dep.locked => frame.gamma = frame.verify

\* While the host executes a frame the runner has the width of the frame's
\* metadata, which is the width of its widest row.
WidthInv ==
  phase \in Executing =>
    /\ runner.width = frame.metadata
    /\ frame.decodes => frame.metadata = frame.verify + 1

\* The anchor, if there is one, is the width the builders are configured for.
Configured == Stateful => Anchor = dep.max

\* The builders have the frame's width until the frame is launched, and a
\* stateful anchor's between calls.
BuildersInv ==
  Configured =>
    /\ phase \in {"executing", "prepared"} => runner.builders = frame.metadata
    /\ phase = "launched" => frame.built = frame.metadata
    /\ Stateful =>
         Restore(Restore(runner, inner), outer).builders = Anchor + 1

\* The width whose captured graphs use the base parameter table.
Owner == IF Anchor + 1 \in CaptureWidths THEN Anchor + 1 ELSE WidestCapture

DraftWidths == IF dep.method = "draft_model" THEN {2} ELSE Gammas \ {0}

\* Every graph is captured before the first frame, and no frame changes the
\* owner.  A frame is launched with the table of its width, or with the base
\* table if it is the owner or has no graph.
GraphInv ==
  /\ graphs.target # {} => graphs.native = Owner
  /\ phase # "boot" /\ dep.isolated => graphs.target = CaptureWidths
  /\ graphs.draft \in {{}, DraftWidths}
  /\ phase # "boot" => graphs.draft = DraftWidths
  /\ phase \in Executing /\ dep.isolated /\ frame.metadata \in CaptureWidths =>
       table = frame.metadata \/ (table = NoWidth /\ frame.metadata = Anchor + 1)

ReplayInv == ServedInv /\ WidthInv /\ BuildersInv /\ GraphInv /\ DraftReplay

\* The widths of the deployment never change.
LEMMA SameWidths ==
  ASSUME dep' = dep
  PROVE  /\ Gammas' = Gammas /\ CaptureWidths' = CaptureWidths
         /\ WidestCapture' = WidestCapture /\ Anchor' = Anchor
         /\ Stateful' = Stateful /\ Configured' = Configured
         /\ Owner' = Owner /\ DraftWidths' = DraftWidths
BY DEF Gammas, CaptureWidths, WidestCapture, Anchor, Clip, Stateful, Configured,
       Owner, DraftWidths

\* A requested frame is what the scheduler sent, with the drafts held.
LEMMA RequestedFields ==
  ASSUME NEW g, NEW decodes \in BOOLEAN, NEW new \in BOOLEAN, NEW prompts,
         NEW f, f = Requested(g, decodes, prompts, new)
  PROVE  f.gamma = g /\ f.verify = pending /\ f.decodes = decodes
BY DEF Requested, NoFrame

\* What execute_model records of the frame, and the width it binds.
LEMMA ExecuteEffect ==
  ASSUME IInv, NEW f \in FrameType, ExecuteModel(f)
  PROVE  LET r == StateWidth(runner)
             metadata == Layout(r, f).metadata
         IN  /\ r \in ViewType
             /\ r.width = Anchor + 1 /\ r.builders = runner.builders
             /\ metadata \in Nat \ {0}
             /\ frame'.gamma = f.gamma /\ frame'.verify = f.verify
             /\ frame'.decodes = f.decodes /\ frame'.metadata = metadata
             /\ \/ /\ runner' = r /\ outer' = NoView
                   /\ metadata = Anchor + 1 /\ Stateful
                \/ runner' = Bind(r, metadata) /\ outer' = Saved(r, metadata)
             /\ \/ /\ UNCHANGED <<graphs, table>>
                   /\ metadata = Anchor + 1 \/ ~dep.isolated
                \/ /\ graphs' = Tables(r)
                   /\ table' = IF metadata \in CaptureWidths THEN metadata
                               ELSE NoWidth
<1>. USE DEF IInv
<1>. DEFINE r == StateWidth(runner)
            layout == Layout(r, f)
            pinnedRun ==
              layout.stable /\ IsPinnedAnchor(r, f.gamma, layout.metadata)
<1>1. IsNative(runner)
  BY ClosedContexts DEF ExecuteModel, ContextInv, Executing
<1>2. /\ r \in ViewType /\ r.width = runner.width
      /\ r.builders = runner.builders
  BY DeploymentFacts DEF TypeOK, StateWidth, ViewType
<1>3. layout.metadata \in Nat \ {0}
  BY <1>2, LayoutFacts
<1>4. pinnedRun => Stateful /\ layout.metadata = Anchor + 1
  BY DEF IsPinnedAnchor, IsAnchor
<1>5. /\ frame' = [f EXCEPT !.metadata = layout.metadata,
                            !.pinnedRun = pinnedRun]
      /\ outer' = IF pinnedRun THEN NoView ELSE Saved(r, layout.metadata)
      /\ runner' = IF pinnedRun THEN r ELSE Bind(r, layout.metadata)
      /\ IF (pinnedRun /\ ~dep.measured) \/ ~dep.isolated
         THEN UNCHANGED <<graphs, table>>
         ELSE /\ graphs' = Tables(r)
              /\ table' = IF layout.metadata \in CaptureWidths
                          THEN layout.metadata ELSE NoWidth
  BY DEF ExecuteModel
<1>6. pinnedRun \in BOOLEAN
  BY Zenon
<1>. HIDE DEF pinnedRun, layout, r
<1>7. /\ frame'.gamma = f.gamma /\ frame'.verify = f.verify
      /\ frame'.decodes = f.decodes /\ frame'.metadata = layout.metadata
  <2>1. PICK q \in Nat : q = layout.metadata
    BY <1>3
  <2>2. PICK h \in BOOLEAN : h = pinnedRun
    BY <1>6, Zenon
  <2>3. frame' = [f EXCEPT !.metadata = q, !.pinnedRun = h]
    BY <1>5, <2>1, <2>2, Zenon
  <2>4. /\ frame'.gamma = f.gamma /\ frame'.verify = f.verify
        /\ frame'.decodes = f.decodes /\ frame'.metadata = q
    BY <2>3 DEF FrameType
  <2>. QED  BY <2>1, <2>4
<1>8. r.width = Anchor + 1
  BY <1>1, <1>2 DEF IsNative
<1>9. \/ /\ runner' = r /\ outer' = NoView
         /\ layout.metadata = Anchor + 1 /\ Stateful
      \/ runner' = Bind(r, layout.metadata) /\ outer' = Saved(r, layout.metadata)
  BY <1>4, <1>5
<1>10. \/ /\ UNCHANGED <<graphs, table>>
          /\ layout.metadata = Anchor + 1 \/ ~dep.isolated
       \/ /\ graphs' = Tables(r)
          /\ table' = IF layout.metadata \in CaptureWidths THEN layout.metadata
                      ELSE NoWidth
  BY <1>4, <1>5
<1>. QED  BY <1>2, <1>3, <1>7, <1>8, <1>9, <1>10 DEF layout, r

\* The fence changes the proposer's memory only for a frame whose width is new.
LEMMA FenceKeepsServed ==
  ASSUME IInv, PrepareInputs, ServedInv, frame.decodes
  PROVE  previous' = previous
<1>1. /\ phase \in Calls /\ frame.verify \in Gammas /\ previous = frame.verify
      /\ dep.locked => frame.gamma = frame.verify
  BY DEF PrepareInputs, ServedInv, Calls
<1>2. previous # Unset
  BY <1>1, DeploymentFacts DEF IInv, TypeOK, Unset
<1>3. dep.locked /\ dep.method = "eagle3" => SyncedGamma = frame.gamma
  BY <1>1, <1>2 DEF IInv, FenceInv
<1>. QED  BY <1>3 DEF PrepareInputs, Fence, SyncedGamma

\* prepare_inputs changes nothing of the frame but the kernel's flag.
LEMMA PrepareFrame ==
  ASSUME IInv, PrepareInputs
  PROVE  /\ frame'.gamma = frame.gamma /\ frame'.verify = frame.verify
         /\ frame'.decodes = frame.decodes /\ frame'.metadata = frame.metadata
         /\ frame'.prompts = frame.prompts
<1>. DEFINE layout == Layout(runner, frame)
            on == dep.kernel /\ layout.stable /\ runner.spec = frame.gamma
<1>1. frame \in FrameType
  BY DEF IInv, TypeOK
<1>2. PICK h \in BOOLEAN : h = on
  BY Zenon
<1>. HIDE DEF on
<1>3. frame' = frame \/ frame' = [frame EXCEPT !.kernelOn = h]
  BY <1>2, Zenon DEF PrepareInputs, layout, on
<1>. QED  BY <1>1, <1>3 DEF FrameType

\* The scheduler, the worker and the proposer keep agreeing on the last width.
LEMMA ServedStep ==
  ASSUME IInv, ServedInv, Next
  PROVE  ServedInv'
<1>. USE DEF IInv, runnerVars, draftVars
<1>1. Gammas' = Gammas /\ dep' = dep
  BY SameDeployment, SameWidths
<1>2. ASSUME NEW g \in Gammas, NEW decodes \in BOOLEAN, NEW new \in BOOLEAN,
             NEW prompts \in SUBSET PromptTokens,
             ExecuteModel(Requested(g, decodes, prompts, new))
      PROVE  ServedInv'
  <2>1. PICK f \in FrameType : f = Requested(g, decodes, prompts, new)
    BY RequestedType
  <2>2. f.gamma = g /\ f.verify = pending /\ f.decodes = decodes
    BY <2>1, RequestedFields
  <2>3. /\ frame'.gamma = g /\ frame'.verify = pending
        /\ frame'.decodes = decodes
    BY <1>2, <2>1, <2>2, ExecuteEffect
  <2>4. /\ phase = "idle" /\ phase' = "executing" /\ last' = g
        /\ previous' = previous
        /\ last = Unset => ~decodes
        /\ dep.locked /\ last # Unset /\ g # last => ~decodes
    BY <1>2, <2>1, <2>2 DEF ExecuteModel, Arrives
  <2>. QED  BY <1>1, <2>3, <2>4 DEF ServedInv, Calls
<1>3. CASE PrepareInputs
  <2>1. /\ phase = "executing" /\ phase' = "prepared"
        /\ UNCHANGED <<last, pending>>
    BY <1>3 DEF PrepareInputs
  <2>2. frame.decodes => previous' = previous
    BY <1>3, FenceKeepsServed
  <2>. QED  BY <1>1, <1>3, <2>1, <2>2, PrepareFrame DEF ServedInv, Calls
<1>4. CASE Launch
  <2>1. /\ frame'.gamma = frame.gamma /\ frame'.verify = frame.verify
        /\ frame'.decodes = frame.decodes
    BY <1>4 DEF Launch, TypeOK, FrameType
  <2>2. /\ phase = "prepared" /\ phase' = "launched"
        /\ UNCHANGED <<last, pending, previous>>
    BY <1>4 DEF Launch
  <2>. QED  BY <1>1, <2>1, <2>2 DEF ServedInv, Calls
<1>5. CASE EndExecute \/ SampleTokens
  BY <1>1, <1>5 DEF EndExecute, SampleTokens, ServedInv, Calls
<1>6. CASE Propose
  <2>1. /\ phase = "sampling" /\ phase' = "proposing"
        /\ UNCHANGED <<last, pending, previous>>
    BY <1>6 DEF Propose
  <2>2. PICK e : frame' = frame \/ frame' = [frame EXCEPT !.execution = e]
    BY <1>6 DEF Propose, ProposeNothing, ProposeStable, ProposeDynamic,
                EnterProposal
  <2>3. /\ frame'.gamma = frame.gamma /\ frame'.verify = frame.verify
        /\ frame'.decodes = frame.decodes
    BY <2>2 DEF TypeOK, FrameType
  <2>. QED  BY <1>1, <2>1, <2>3 DEF ServedInv, Calls
<1>7. CASE EndSample
  BY <1>1, <1>7 DEF EndSample, ServedInv, Calls
<1>8. CASE Raise
  BY <1>8 DEF Raise, ServedInv, Calls
<1>9. ASSUME \/ \E q \in CaptureWidths : CaptureTarget(q)
             \/ CaptureDraft \/ DeviceDone
      PROVE  ServedInv'
  BY <1>1, <1>9 DEF CaptureTarget, CaptureDraft, DeviceDone, ServedInv
<1>10. CASE Ready
  BY <1>1, <1>10 DEF Ready, ServedInv, Calls
<1>. QED
  BY <1>2, <1>3, <1>4, <1>5, <1>6, <1>7, <1>8, <1>9, <1>10, Zenon DEF Next

\* prepare_inputs leaves the runner's width alone.  It may only give the builders
\* that width, and it pins nothing but the anchor.
LEMMA PrepareRunner ==
  ASSUME IInv, PrepareInputs
  PROVE  /\ runner'.width = runner.width
         /\ \/ runner' = runner
            \/ /\ runner'.builders = runner.width
               /\ Stateful /\ runner.width = Anchor + 1
<1>. USE DEF IInv
<1>. DEFINE layout == Layout(runner, frame)
            anchored ==
              layout.stable /\ IsAnchor(runner, frame.gamma, layout.metadata)
<1>1. layout.metadata \in Nat /\ layout.metadata # NoWidth
  BY LayoutFacts DEF TypeOK, NoWidth
<1>2. CASE anchored
  <2>1. Stateful /\ layout.metadata = Anchor + 1 /\ runner.width = Anchor + 1
    BY <1>2 DEF IsAnchor
  <2>2. runner' \in {runner, Pin(runner, Anchor + 1)}
    BY <1>2, <2>1 DEF PrepareInputs
  <2>3. Anchor + 1 # NoWidth
    BY <1>1, <2>1
  <2>. QED  BY <2>1, <2>2, <2>3 DEF Pin, Bind, TypeOK, ViewType
<1>3. CASE ~anchored
  <2>1. runner' = runner
    BY <1>1, <1>3, RoundTrip DEF PrepareInputs, TypeOK, ContextInv
  <2>. QED  BY <2>1
<1>. QED  BY <1>2, <1>3

\* The frame's width is the runner's while the host executes it.
LEMMA WidthStep ==
  ASSUME IInv, ServedInv, WidthInv, Next
  PROVE  WidthInv'
<1>. USE DEF IInv, runnerVars, draftVars
<1>1. ASSUME NEW g \in Gammas, NEW decodes \in BOOLEAN, NEW new \in BOOLEAN,
             NEW prompts \in SUBSET PromptTokens,
             ExecuteModel(Requested(g, decodes, prompts, new))
      PROVE  WidthInv'
  <2>1. PICK f \in FrameType : f = Requested(g, decodes, prompts, new)
    BY RequestedType
  <2>2. f.gamma = g /\ f.verify = pending /\ f.decodes = decodes
    BY <2>1, RequestedFields
  <2>. DEFINE r == StateWidth(runner)
              metadata == Layout(r, f).metadata
  <2>3. /\ r \in ViewType /\ r.width = Anchor + 1 /\ metadata \in Nat \ {0}
        /\ frame'.verify = f.verify /\ frame'.decodes = f.decodes
        /\ frame'.metadata = metadata
        /\ (runner' = r /\ metadata = Anchor + 1) \/ runner' = Bind(r, metadata)
    BY <1>1, <2>1, ExecuteEffect
  <2>4. decodes => metadata = pending + 1
    <3>1. CASE Native(r, f)
      <4>1. metadata = g + 1 /\ dep.locked
        BY <2>2, <3>1 DEF Layout, Native
      <4>2. decodes => last # Unset /\ (dep.locked => g = last)
        BY <1>1, <2>1, <2>2 DEF ExecuteModel, Arrives
      <4>3. decodes => pending = g
        BY <1>1, <4>1, <4>2 DEF ServedInv, ExecuteModel
      <4>. QED  BY <4>1, <4>3
    <3>2. CASE ~Native(r, f)
      <4>1. metadata = Widest(f)
        <5>1. PICK h \in BOOLEAN : h = (~f.new /\ Uniform(f) = f.gamma + 1)
          BY Zenon
        <5>2. Layout(r, f) = [current |-> Uniform(f), metadata |-> Widest(f),
                              stable |-> h]
          BY <3>2, <5>1, Zenon DEF Layout
        <5>. QED  BY <5>2
      <4>. QED  BY <2>2, <4>1 DEF Widest
    <3>. QED  BY <3>1, <3>2
  <2>. HIDE DEF r, metadata
  <2>5. runner'.width = metadata
    BY <2>3 DEF Bind, ViewType, NoWidth
  <2>. QED  BY <2>2, <2>3, <2>4, <2>5 DEF WidthInv
<1>2. CASE PrepareInputs
  <2>1. phase = "executing"
    BY <1>2 DEF PrepareInputs
  <2>. QED  BY <1>2, <2>1, PrepareRunner, PrepareFrame DEF WidthInv, Executing
<1>3. CASE Launch
  <2>1. /\ frame'.metadata = frame.metadata /\ frame'.verify = frame.verify
        /\ frame'.decodes = frame.decodes /\ runner'.width = runner.width
    BY <1>3 DEF Launch, TypeOK, FrameType, ViewType
  <2>2. phase = "prepared"
    BY <1>3 DEF Launch
  <2>. QED  BY <2>1, <2>2 DEF WidthInv, Executing
<1>4. CASE EndExecute \/ SampleTokens \/ Propose \/ EndSample \/ Raise \/ Ready
  BY <1>4 DEF EndExecute, SampleTokens, Propose, EndSample, Raise, Ready,
              WidthInv, Executing
<1>5. ASSUME \/ \E q \in CaptureWidths : CaptureTarget(q)
             \/ CaptureDraft \/ DeviceDone
      PROVE  WidthInv'
  BY <1>5 DEF CaptureTarget, CaptureDraft, DeviceDone, WidthInv, Executing
<1>. QED
  BY <1>1, <1>2, <1>3, <1>4, <1>5, Zenon DEF Next

\* The builders a closed context leaves are those of the innermost view saved.
LEMMA RestoreBuilders ==
  ASSUME NEW r, NEW view \in ViewType
  PROVE  Restore(r, view).builders =
           IF view.width = NoWidth THEN r.builders ELSE view.builders
BY DEF Restore, ViewType

\* Where the anchor is the configured width, or there is none, a frame's builders
\* have its width.
LEMMA BuildersStep ==
  ASSUME IInv, WidthInv, BuildersInv, Next
  PROVE  BuildersInv'
<1>. USE DEF IInv, runnerVars, draftVars
<1>1. /\ dep' = dep /\ Anchor' = Anchor /\ Stateful' = Stateful
      /\ Configured' = Configured
  BY SameDeployment, SameWidths
<1>. DEFINE Left == Restore(Restore(runner, inner), outer).builders
<1>2. Left' = Restore(Restore(runner', inner'), outer').builders
  OBVIOUS
<1>. SUFFICES ASSUME Configured
              PROVE  /\ phase' \in {"executing", "prepared"} =>
                          runner'.builders = frame'.metadata
                     /\ phase' = "launched" => frame'.built = frame'.metadata
                     /\ Stateful => Left' = Anchor + 1
  BY <1>1 DEF BuildersInv
<1>3. Stateful => Left = Anchor + 1
  BY DEF BuildersInv
<1>4. ASSUME NEW g \in Gammas, NEW decodes \in BOOLEAN, NEW new \in BOOLEAN,
             NEW prompts \in SUBSET PromptTokens,
             ExecuteModel(Requested(g, decodes, prompts, new))
      PROVE  /\ phase' = "executing" /\ runner'.builders = frame'.metadata
             /\ Stateful => Left' = Anchor + 1
  <2>1. PICK f \in FrameType : f = Requested(g, decodes, prompts, new)
    BY RequestedType
  <2>. DEFINE r == StateWidth(runner)
              metadata == Layout(r, f).metadata
  <2>2. /\ r \in ViewType /\ r.width = Anchor + 1
        /\ r.builders = runner.builders
        /\ metadata \in Nat \ {0} /\ frame'.metadata = metadata
        /\ \/ /\ runner' = r /\ outer' = NoView
              /\ metadata = Anchor + 1 /\ Stateful
           \/ runner' = Bind(r, metadata) /\ outer' = Saved(r, metadata)
    BY <1>4, <2>1, ExecuteEffect
  <2>. HIDE DEF r, metadata
  <2>3. /\ phase = "idle" /\ phase' = "executing" /\ inner' = inner
        /\ inner.width = NoWidth /\ outer.width = NoWidth
    BY <1>4 DEF ExecuteModel, ContextInv, Executing
  <2>4. Stateful => r.builders = Anchor + 1
    BY <1>3, <2>2, <2>3 DEF Restore
  <2>5. Restore(runner', outer') = r
    <3>1. CASE runner' = r /\ outer' = NoView
      BY <3>1 DEF Restore, NoView
    <3>2. CASE runner' = Bind(r, metadata) /\ outer' = Saved(r, metadata)
      <4>1. r.width # NoWidth
        BY <2>2, DeploymentFacts DEF TypeOK, NoWidth
      <4>. QED  BY <2>2, <3>2, <4>1, RoundTrip
    <3>. QED  BY <2>2, <3>1, <3>2
  <2>6. Left' = r.builders
    BY <1>2, <2>3, <2>5 DEF Restore
  <2>7. runner'.builders = metadata
    BY <2>2, <2>4 DEF Bind, ViewType, NoWidth
  <2>. QED  BY <2>2, <2>3, <2>4, <2>6, <2>7
<1>5. CASE PrepareInputs
  <2>1. /\ phase = "executing" /\ phase' = "prepared"
        /\ UNCHANGED <<inner, outer>> /\ inner.width = NoWidth
        /\ inner \in ViewType /\ outer \in ViewType
    BY <1>5 DEF PrepareInputs, ContextInv, TypeOK
  <2>2. /\ runner.builders = frame.metadata /\ runner.width = frame.metadata
    BY <2>1 DEF BuildersInv, WidthInv, Executing
  <2>3. /\ \/ runner' = runner
           \/ /\ runner'.builders = runner.width
              /\ Stateful /\ runner.width = Anchor + 1
        /\ frame'.metadata = frame.metadata
    BY <1>5, PrepareRunner, PrepareFrame
  <2>4. Left = Restore(runner, outer).builders
        /\ Left' = Restore(runner', outer).builders
    BY <1>2, <2>1 DEF Restore
  <2>5. Stateful => Left' = Anchor + 1
    BY <1>3, <2>1, <2>2, <2>3, <2>4, RestoreBuilders
  <2>. QED  BY <2>1, <2>2, <2>3, <2>5
<1>6. CASE Launch
  <2>1. PICK view \in {runner.builders, dep.max + 1} :
          runner' = [runner EXCEPT !.builders = view]
    BY <1>6 DEF Launch
  <2>2. /\ phase = "prepared" /\ phase' = "launched"
        /\ frame' = [frame EXCEPT !.built = runner.builders]
        /\ UNCHANGED <<inner, outer>> /\ inner.width = NoWidth
        /\ inner \in ViewType /\ outer \in ViewType
    BY <1>6 DEF Launch, ContextInv, TypeOK
  <2>3. runner.builders = frame.metadata
    BY <2>2 DEF BuildersInv
  <2>4. frame'.built = frame.metadata /\ frame'.metadata = frame.metadata
    BY <2>2, <2>3 DEF TypeOK, FrameType
  <2>5. runner'.builders = view
    BY <2>1 DEF TypeOK, ViewType
  <2>6. Left = Restore(runner, outer).builders
        /\ Left' = Restore(runner', outer).builders
    BY <1>2, <2>2 DEF Restore
  <2>7. Stateful => Left' = Anchor + 1
    <3>1. view = runner.builders \/ view = dep.max + 1
      BY <2>1
    <3>2. CASE outer.width = NoWidth
      <4>1. Left = runner.builders /\ Left' = view
        BY <2>2, <2>5, <2>6, <3>2, RestoreBuilders
      <4>. QED  BY <1>3, <3>1, <4>1 DEF Configured
    <3>3. CASE outer.width # NoWidth
      <4>1. Left = outer.builders /\ Left' = outer.builders
        BY <2>2, <2>6, <3>3, RestoreBuilders
      <4>. QED  BY <1>3, <4>1
    <3>. QED  BY <3>2, <3>3
  <2>. QED  BY <2>2, <2>4, <2>7
<1>7. CASE EndExecute
  <2>1. /\ phase = "launched" /\ phase' = "executed"
        /\ runner' = LeaveExecute(runner) /\ outer' = NoView
        /\ inner' = inner /\ inner.width = NoWidth
    BY <1>7 DEF EndExecute, ContextInv
  <2>2. Left' = runner'.builders
    BY <1>2, <2>1 DEF Restore, NoView
  <2>3. Left = Restore(runner, outer).builders
    BY <2>1 DEF Restore
  <2>4. Stateful => runner'.builders = Left
    <3>1. frame.pinnedRun => outer.width = NoWidth
      BY <2>1 DEF ContextInv, Executing
    <3>. QED  BY <2>1, <2>3, <3>1 DEF LeaveExecute, Restore, Configured
  <2>. QED  BY <1>3, <2>1, <2>2, <2>4
<1>8. CASE SampleTokens
  <2>1. /\ phase' = "sampling" /\ inner' = inner /\ inner.width = NoWidth
        /\ outer.width = NoWidth
    BY <1>8 DEF SampleTokens, ContextInv, Executing
  <2>2. Restore(runner', outer') = runner
    <3>1. frame.gamma + 1 \in Nat
      BY DEF TypeOK, FrameType
    <3>2. CASE runner' = runner /\ outer' = NoView
      BY <3>2 DEF Restore, NoView
    <3>3. CASE /\ runner' = Bind(runner, frame.gamma + 1)
               /\ outer' = Saved(runner, frame.gamma + 1)
      BY <3>1, <3>3, RoundTrip DEF TypeOK, ContextInv
    <3>. QED  BY <1>8, <3>2, <3>3 DEF SampleTokens
  <2>3. Left' = runner.builders /\ Left = runner.builders
    BY <1>2, <2>1, <2>2 DEF Restore
  <2>. QED  BY <1>3, <2>1, <2>3
<1>9. CASE Propose
  <2>1. /\ phase' = "proposing" /\ outer' = outer /\ inner.width = NoWidth
    BY <1>9 DEF Propose, ContextInv
  <2>2. Restore(runner', inner') = runner
    BY <1>9, ProposalEffect
  <2>3. Restore(runner, inner) = runner
    BY <2>1 DEF Restore
  <2>4. Left' = Left
    BY <1>2, <2>1, <2>2, <2>3
  <2>. QED  BY <1>3, <2>1, <2>4
<1>10. CASE EndSample
  <2>1. /\ phase' = "idle" /\ inner' = NoView /\ outer' = NoView
        /\ runner' = LeaveSample(runner)
    BY <1>10 DEF EndSample
  <2>2. Left' = runner'.builders
    BY <1>2, <2>1 DEF Restore, NoView
  <2>3. runner'.builders = Left
    BY <2>1 DEF LeaveSample
  <2>. QED  BY <1>3, <2>1, <2>2, <2>3
<1>11. CASE Raise
  <2>1. /\ phase' = "failed" /\ inner' = NoView /\ outer' = NoView
    BY <1>11 DEF Raise
  <2>2. Left' = runner'.builders
    BY <1>2, <2>1 DEF Restore, NoView
  <2>3. CASE phase \in Executing /\ runner' = LeaveExecute(runner)
    <3>1. /\ Restore(runner, inner) = runner
          /\ frame.pinnedRun => outer.width = NoWidth
      BY <2>3 DEF ContextInv, Executing, Restore
    <3>2. Stateful => runner'.builders = Left
      BY <2>3, <3>1 DEF LeaveExecute, Restore, Configured
    <3>. QED  BY <1>3, <2>1, <2>2, <3>2
  <2>4. CASE runner' = LeaveSample(runner)
    BY <1>3, <2>1, <2>2, <2>4 DEF LeaveSample
  <2>. QED  BY <1>11, <2>3, <2>4 DEF Raise, Executing
<1>12. ASSUME NEW q \in CaptureWidths, CaptureTarget(q)
       PROVE  /\ phase' = "boot"
              /\ Stateful => Left' = Anchor + 1
  <2>1. q \in Nat
    BY DeploymentFacts DEF TypeOK
  <2>2. runner' = runner /\ phase' = "boot" /\ UNCHANGED <<inner, outer>>
    BY <1>12, <2>1, RoundTrip DEF TypeOK, ContextInv, CaptureTarget
  <2>. QED  BY <1>2, <1>3, <2>2
<1>13. CASE CaptureDraft \/ Ready
  <2>1. UNCHANGED <<runner, inner, outer>> /\ phase' \in {"boot", "idle"}
    BY <1>13 DEF CaptureDraft, Ready
  <2>. QED  BY <1>2, <1>3, <2>1
<1>14. CASE DeviceDone
  <2>1. UNCHANGED <<runner, inner, outer, phase, frame>>
    BY <1>14 DEF DeviceDone
  <2>. QED  BY <1>2, <1>3, <2>1 DEF BuildersInv
<1>. QED
  BY <1>4, <1>5, <1>6, <1>7, <1>8, <1>9, <1>10, <1>11, <1>12, <1>13, <1>14
     DEF Next

\* Some target width is captured.
LEMMA SomeCapture ==
  ASSUME dep \in Deployments
  PROVE  CaptureWidths # {}
<1>1. dep.min \in Nat /\ dep.max \in Nat /\ dep.min < dep.max
  BY RunnerAssumption DEF DeploymentType, Served
<1>2. dep.min \in Gammas
  BY <1>1 DEF Gammas
<1>. QED  BY <1>2 DEF CaptureWidths

\* Sent to the tables with its native width, the runner keeps the owner, or
\* discards what another owner had captured.
LEMMA TablesFacts ==
  ASSUME TypeOK, GraphInv, NEW r, r.width = Anchor + 1
  PROVE  /\ Tables(r).native = Owner
         /\ Tables(r).draft = graphs.draft
         /\ Tables(r).target \subseteq graphs.target
         /\ Tables(r) \in [target : SUBSET Nat, draft : SUBSET Nat,
                           native : Nat]
         /\ graphs.target # {} => Tables(r) = graphs
<1>1. WidestCapture \in Nat /\ Anchor + 1 \in Nat
  BY DeploymentFacts DEF TypeOK
<1>2. Tables(r) = IF Owner = graphs.native THEN graphs
                  ELSE [graphs EXCEPT !.native = Owner, !.target = {}]
  BY DEF Tables, Owner
<1>3. Owner \in Nat
  BY <1>1 DEF Owner
<1>4. graphs \in [target : SUBSET Nat, draft : SUBSET Nat, native : Nat]
  BY DEF TypeOK
<1>. QED  BY <1>2, <1>3, <1>4 DEF GraphInv

\* Graphs are captured at the start only; a frame is launched with the table of
\* its own width.
LEMMA GraphStep ==
  ASSUME IInv, WidthInv, GraphInv, Next
  PROVE  GraphInv'
<1>. USE DEF IInv, runnerVars, draftVars
<1>1. /\ dep' = dep /\ CaptureWidths' = CaptureWidths /\ Owner' = Owner
      /\ DraftWidths' = DraftWidths /\ Anchor' = Anchor
  BY SameDeployment, SameWidths
<1>2. ASSUME NEW q \in CaptureWidths, CaptureTarget(q)
      PROVE  GraphInv'
  <2>1. runner.width = Anchor + 1
    BY <1>2, ClosedContexts DEF CaptureTarget, ContextInv, Executing, IsNative
  <2>2. PICK t : t = Tables(runner)
    OBVIOUS
  <2>3. /\ t.native = Owner /\ t.draft = graphs.draft
        /\ t \in [target : SUBSET Nat, draft : SUBSET Nat, native : Nat]
    BY <2>1, <2>2, TablesFacts
  <2>4. graphs' = [t EXCEPT !.target = @ \cup {q}]
    BY <1>2, <2>2 DEF CaptureTarget
  <2>5. graphs'.native = Owner /\ graphs'.draft = graphs.draft
    BY <2>3, <2>4
  <2>6. phase = "boot" /\ phase' = "boot"
    BY <1>2 DEF CaptureTarget
  <2>. QED  BY <1>1, <2>5, <2>6 DEF GraphInv, Executing
<1>3. CASE CaptureDraft
  <2>1. /\ phase = "boot" /\ phase' = "boot"
        /\ graphs' = [graphs EXCEPT !.draft = DraftWidths]
    BY <1>3 DEF CaptureDraft, DraftWidths
  <2>2. /\ graphs'.draft = DraftWidths /\ graphs'.target = graphs.target
        /\ graphs'.native = graphs.native
    BY <2>1 DEF TypeOK
  <2>. QED  BY <1>1, <2>1, <2>2 DEF GraphInv, Executing
<1>4. CASE Ready
  BY <1>1, <1>4 DEF Ready, GraphInv, Executing
<1>5. ASSUME NEW g \in Gammas, NEW decodes \in BOOLEAN, NEW new \in BOOLEAN,
             NEW prompts \in SUBSET PromptTokens,
             ExecuteModel(Requested(g, decodes, prompts, new))
      PROVE  GraphInv'
  <2>1. PICK f \in FrameType : f = Requested(g, decodes, prompts, new)
    BY RequestedType
  <2>2. PICK r : r = StateWidth(runner)
    OBVIOUS
  <2>3. PICK metadata : metadata = Layout(r, f).metadata
    OBVIOUS
  <2>4. /\ r.width = Anchor + 1 /\ frame'.metadata = metadata
        /\ \/ /\ UNCHANGED <<graphs, table>>
              /\ metadata = Anchor + 1 \/ ~dep.isolated
           \/ /\ graphs' = Tables(r)
              /\ table' = IF metadata \in CaptureWidths THEN metadata
                          ELSE NoWidth
    BY <1>5, <2>1, <2>2, <2>3, ExecuteEffect
  <2>5. phase = "idle" /\ phase' = "executing" /\ table = NoWidth
    BY <1>5 DEF ExecuteModel, BindingInv, Executing
  <2>6. /\ graphs'.draft = graphs.draft
        /\ graphs'.target # {} => graphs'.native = Owner
        /\ dep.isolated => graphs'.target = CaptureWidths
    <3>1. dep.isolated => graphs.target = CaptureWidths /\ graphs.target # {}
      BY <2>5, SomeCapture DEF GraphInv, TypeOK
    <3>2. CASE graphs' = graphs
      BY <3>1, <3>2 DEF GraphInv
    <3>3. CASE graphs' = Tables(r)
      <4>1. /\ graphs'.native = Owner /\ graphs'.draft = graphs.draft
            /\ graphs.target # {} => graphs' = graphs
        BY <2>4, <3>3, TablesFacts
      <4>. QED  BY <3>1, <4>1
    <3>. QED  BY <2>4, <3>2, <3>3
  <2>7. dep.isolated /\ metadata \in CaptureWidths =>
          table' = metadata \/ (table' = NoWidth /\ metadata = Anchor + 1)
    BY <2>4, <2>5
  <2>. QED  BY <1>1, <2>4, <2>5, <2>6, <2>7 DEF GraphInv
<1>6. CASE PrepareInputs
  <2>1. phase = "executing" /\ UNCHANGED <<graphs, table>>
    BY <1>6 DEF PrepareInputs
  <2>. QED  BY <1>1, <1>6, <2>1, PrepareFrame DEF GraphInv, Executing
<1>7. CASE Launch
  <2>1. frame'.metadata = frame.metadata
    BY <1>7 DEF Launch, TypeOK, FrameType
  <2>2. phase = "prepared" /\ UNCHANGED <<graphs, table>>
    BY <1>7 DEF Launch
  <2>. QED  BY <1>1, <2>1, <2>2 DEF GraphInv, Executing
<1>8. CASE EndExecute \/ SampleTokens \/ Propose \/ EndSample
  <2>1. /\ phase # "boot" /\ phase' # "boot" /\ phase' \notin Executing
        /\ graphs' = graphs
    BY <1>8 DEF EndExecute, SampleTokens, Propose, EndSample, Executing
  <2>. QED  BY <1>1, <2>1 DEF GraphInv
<1>9. CASE Raise
  <2>1. /\ phase # "boot" /\ phase' # "boot" /\ phase' \notin Executing
        /\ graphs' = graphs
    BY <1>9 DEF Raise, Executing
  <2>. QED  BY <1>1, <2>1 DEF GraphInv
<1>10. CASE DeviceDone
  BY <1>1, <1>10 DEF DeviceDone, GraphInv
<1>. QED
  BY <1>2, <1>3, <1>4, <1>5, <1>6, <1>7, <1>8, <1>9, <1>10 DEF Next

\* A graph proposed for a frame of decoding rows is a captured one of the width
\* of its rows, whichever path chose it.
LEMMA ReplayStep ==
  ASSUME IInv, ServedInv, GraphInv, DraftReplay, Next
  PROVE  DraftReplay'
<1>. USE DEF IInv, runnerVars, draftVars
<1>1. CASE Propose
  <2>1. phase = "sampling" /\ graphs' = graphs /\ drafter = NativeDrafter
    BY <1>1 DEF Propose, BindingInv
  <2>2. /\ frame.gamma \in Gammas /\ frame.gamma \in Nat /\ frame \in FrameType
        /\ graphs.draft = DraftWidths
        /\ frame.decodes => frame.verify \in Gammas /\ previous = frame.verify
        /\ frame.decodes => frame.verify \in Nat /\ frame.verify # Unset
    BY <2>1, DeploymentFacts DEF ServedInv, GraphInv, TypeOK, FrameType, Calls,
                                 Unset
  <2>3. PICK e : frame' = frame \/ frame' = [frame EXCEPT !.execution = e]
    BY <1>1 DEF Propose, ProposeNothing, ProposeStable, ProposeDynamic,
                EnterProposal
  <2>4. /\ frame'.gamma = frame.gamma /\ frame'.verify = frame.verify
        /\ frame'.decodes = frame.decodes /\ frame'.prompts = frame.prompts
    BY <2>2, <2>3 DEF FrameType
  <2>. SUFFICES ASSUME frame.decodes, frame.gamma > 0,
                       drafter'.runnable # NoGraph
                PROVE  /\ drafter'.runnable = drafter'.gamma
                       /\ drafter'.runnable = drafter'.params
                       /\ drafter'.runnable \in graphs.draft
                       /\ drafter'.runnable = frame.verify
    BY <2>1, <2>4 DEF DraftReplay, Decode
  <2>. DEFINE Right(d) == /\ d.runnable = d.gamma /\ d.runnable = d.params
                          /\ d.runnable \in graphs.draft
                          /\ d.runnable = frame.verify
  <2>5. CASE ProposeStable
    <3>1. frame.gamma = Anchor /\ frame.verify = Anchor
      BY <2>2, <2>5 DEF ProposeStable, StablePath
    <3>2. Anchor \in DraftWidths
      BY <2>2, <3>1 DEF DraftWidths, Anchor
    <3>3. /\ drafter'.runnable = Anchor /\ drafter'.gamma = Anchor
          /\ drafter'.params = Anchor
      BY <2>1, <2>5, <3>1 DEF ProposeStable, EnterProposal, NativeDrafter
    <3>. QED  BY <2>2, <3>1, <3>2, <3>3
  <2>6. CASE ProposeDynamic
    <3>. DEFINE g == ExecutionGamma
                replayable == /\ dep.method = "draft_model" => g = 2
                              /\ previous \in {Unset, g}
                              /\ BatchMatches(g)
    <3>1. PICK replay \in {FALSE, replayable} : EnterProposal(g, replay)
      BY <2>6, Zenon DEF ProposeDynamic
    <3>2. /\ drafter'.runnable = (IF replay THEN g ELSE NoGraph)
          /\ drafter'.gamma = g /\ drafter'.params = g
      BY <3>1 DEF EnterProposal
    <3>3. replay = TRUE
      BY <3>1, <3>2
    <3>4. replayable
      BY <3>1, <3>3
    <3>5. g = frame.verify
      BY <2>2, <3>4
    <3>6. g \in DraftWidths
      <4>1. g # 0
        BY <2>2 DEF ExecutionGamma
      <4>. QED  BY <2>2, <3>4, <3>5, <4>1 DEF DraftWidths
    <3>. QED  BY <2>2, <3>2, <3>3, <3>5, <3>6
  <2>. QED  BY <1>1, <2>5, <2>6, <2>2 DEF Propose, ProposeNothing
<1>2. CASE DeviceDone
  BY <1>2 DEF DeviceDone, DraftReplay, Decode
<1>3. ASSUME \/ \E f : ExecuteModel(f)
             \/ \E q : CaptureTarget(q)
             \/ CaptureDraft \/ Ready \/ PrepareInputs \/ Launch \/ EndExecute
             \/ SampleTokens \/ EndSample \/ Raise
      PROVE  phase' # "proposing"
  BY <1>3 DEF ExecuteModel, CaptureTarget, CaptureDraft, Ready, PrepareInputs,
              Launch, EndExecute, SampleTokens, EndSample, Raise
<1>. QED
  <2>1. Propose \/ DeviceDone \/ phase' # "proposing"
    BY <1>3, Zenon DEF Next
  <2>. QED  BY <1>1, <1>2, <2>1 DEF DraftReplay

\* The invariant of frames and graphs is inductive, given that of the contexts.
LEMMA ReplayInitially == Init => ReplayInv
<1>. SUFFICES ASSUME Init PROVE ReplayInv
  OBVIOUS
<1>1. phase = "boot" /\ dep \in Deployments
  BY DEF Init
<1>2. ServedInv /\ WidthInv /\ DraftReplay
  BY <1>1 DEF Init, ServedInv, WidthInv, DraftReplay, Calls, Executing
<1>3. BuildersInv
  <2>1. Restore(Restore(runner, inner), outer) = runner
    BY DEF Init, Restore, NoView
  <2>2. runner.builders = dep.max + 1
    BY DEF Init
  <2>. QED  BY <1>1, <2>1, <2>2 DEF BuildersInv, Configured
<1>4. GraphInv
  BY <1>1 DEF Init, GraphInv, Executing
<1>. QED  BY <1>2, <1>3, <1>4 DEF ReplayInv

LEMMA ReplayInductive ==
  ASSUME IInv, ReplayInv, [Next]_vars
  PROVE  ReplayInv'
<1>1. CASE Next
  BY <1>1, ServedStep, WidthStep, BuildersStep, GraphStep, ReplayStep
     DEF ReplayInv
<1>2. CASE UNCHANGED vars
  <2>. USE DEF vars, runnerVars, draftVars
  <2>1. dep' = dep
    BY <1>2
  <2>2. ServedInv' /\ WidthInv' /\ DraftReplay'
    BY <1>2, <2>1, SameWidths
       DEF ReplayInv, ServedInv, WidthInv, DraftReplay, Decode
  <2>3. BuildersInv'
    <3>1. Restore(Restore(runner, inner), outer)' =
            Restore(Restore(runner, inner), outer)
      BY <1>2 DEF Restore
    <3>. QED  BY <1>2, <2>1, <3>1, SameWidths DEF ReplayInv, BuildersInv
  <2>4. GraphInv'
    BY <1>2, <2>1, SameWidths DEF ReplayInv, GraphInv
  <2>. QED  BY <2>2, <2>3, <2>4 DEF ReplayInv
<1>. QED  BY <1>1, <1>2

-----------------------------------------------------------------------------
(* Theorems *)

\* The invariant holds in every reachable state.
THEOREM Invariant == Spec => []IInv
BY InitInv, Inductive, PTL DEF Spec

\* Every reachable state of the worker is well typed, for any deployments the
\* launcher accepts.
THEOREM RunnerTyped == Spec => []TypeOK
<1>1. IInv => TypeOK
  BY DEF IInv
<1>. QED  BY Invariant, <1>1, PTL

\* Between calls, and after a call that raised, the runner has its native width,
\* the proposer its native graph and the target its base table: nested contexts,
\* pins and skipped contexts cancel out (_runner_query_width, adaptive_propose).
THEOREM NativeHolds == Spec => []NativeBetweenCalls
<1>1. IInv => NativeBetweenCalls
  <2>. SUFFICES ASSUME IInv, phase \in {"boot", "idle", "failed"}
                PROVE  /\ runner.width = Anchor + 1
                       /\ runner.spec = NativeSpec
                       /\ drafter = NativeDrafter
                       /\ table = NoWidth
    BY DEF NativeBetweenCalls
  <2>1. inner.width = NoWidth /\ outer.width = NoWidth
    BY DEF IInv, ContextInv, Executing
  <2>2. IsNative(runner)
    BY <2>1, ClosedContexts
  <2>. QED  BY <2>2 DEF IInv, BindingInv, Executing, IsNative
<1>. QED  BY Invariant, <1>1, PTL

\* A locked EAGLE3 worker never has frames of two widths on the device
\* (_synchronize_eagle3_width_transition).
THEOREM FenceHolds == Spec => []FencedTransition
<1>1. IInv => FencedTransition
  BY DEF IInv, FenceInv, FencedTransition
<1>. QED  BY Invariant, <1>1, PTL

\* A locked EAGLE3 cohort proposes its own width from its first frame: the fence
\* also resets the gamma the compatibility step compares with.
THEOREM NoCompatHolds == Spec => []NoCompatibilityStep
<1>1. IInv => NoCompatibilityStep
  BY DEF IInv, FenceInv, NoCompatibilityStep
<1>. QED  BY Invariant, <1>1, PTL

\* What a frame is built and replayed with, in every reachable state.
THEOREM ReplayInvariant == Spec => []ReplayInv
BY Invariant, ReplayInitially, ReplayInductive, PTL DEF Spec

\* A frame that verifies drafts is built with metadata builders of its own width
\* wherever the anchor, if there is one, is the configured width
\* (_runner_query_width).
THEOREM BuildersHold == Spec => []ConfiguredBuildersMatch
<1>1. IInv /\ ReplayInv => ConfiguredBuildersMatch
  <2>. SUFFICES ASSUME IInv, ReplayInv, ~Stateful \/ Anchor = dep.max,
                       phase = "launched", frame.decodes
                PROVE  frame.built = frame.verify + 1
    BY DEF ConfiguredBuildersMatch, BuildersMatchFrame
  <2>1. frame.built = frame.metadata
    BY DEF ReplayInv, BuildersInv, Configured
  <2>. QED  BY <2>1 DEF ReplayInv, WidthInv, Executing
<1>. QED  BY Invariant, ReplayInvariant, <1>1, PTL

\* A draft graph is replayed only for target outputs of its own layout, with its
\* own parameters, and only if it was captured (adaptive_propose).
THEOREM DraftReplayHolds == Spec => []DraftReplay
<1>1. ReplayInv => DraftReplay
  BY DEF ReplayInv
<1>. QED  BY ReplayInvariant, <1>1, PTL

\* A decode frame runs with the dispatcher at its width, and a target graph is
\* replayed with the parameter table it was captured with
\* (_prepare_target_graph_params, execute_model).
THEOREM TargetReplayHolds == Spec => []TargetReplay
<1>1. IInv /\ ReplayInv => TargetReplay
  <2>. SUFFICES ASSUME IInv, ReplayInv, phase = "launched", Decode
                PROVE  /\ runner.width = frame.verify + 1
                       /\ dep.isolated /\ frame.verify + 1 \in CaptureWidths =>
                            /\ frame.verify + 1 =
                                 IF table = NoWidth THEN graphs.native ELSE table
                            /\ frame.verify + 1 \in graphs.target
    BY DEF TargetReplay
  <2>1. frame.metadata = frame.verify + 1 /\ runner.width = frame.metadata
    BY DEF ReplayInv, WidthInv, Executing, Decode
  <2>2. ASSUME dep.isolated, frame.metadata \in CaptureWidths
        PROVE  /\ frame.metadata = IF table = NoWidth THEN graphs.native
                                   ELSE table
               /\ frame.metadata \in graphs.target
    <3>1. graphs.target = CaptureWidths /\ graphs.native = Owner
      BY <2>2 DEF ReplayInv, GraphInv
    <3>2. \/ table = frame.metadata
          \/ table = NoWidth /\ frame.metadata = Anchor + 1
      BY <2>2 DEF ReplayInv, GraphInv, Executing
    <3>3. frame.metadata # NoWidth
      BY <2>1 DEF IInv, ContextInv
    <3>. QED  BY <2>2, <3>1, <3>2, <3>3 DEF Owner
  <2>. QED  BY <2>1, <2>2
<1>. QED  BY Invariant, ReplayInvariant, <1>1, PTL

=============================================================================
