-------------------------- MODULE DraftGraphsProofs --------------------------
(***************************************************************************)
(* Proofs about DraftGraphs.  However captures and proposals end, the       *)
(* dispatcher they share with the Target comes back as it was (CleanInv).   *)
(* In between, what the dispatcher is steered with describes the batch, so  *)
(* the descriptor it selects holds the batch (DraftInv), what captures and  *)
(* proposals record has its type (TypedInv), and an update gives every      *)
(* recorded task the rows it was captured with (ReplayInv).                 *)
(***************************************************************************)
EXTENDS DraftGraphs, TLAPS, WellFoundedInduction

AttrFields == {"reqs", "len", "runtime", "capture", "stash", "dispatch", "uniformLen",
               "padding", "piecewise", "force", "runnable"}
FrameFields == {"stage", "number", "batch", "len", "kept", "tokens", "uniform", "prefill",
                "starts", "rows", "path", "mode", "graph", "metas", "step", "updates",
                "forwards", "saved", "host"}
CaptureFields == {"running", "tried", "done", "saved"}

\* What no proposal and no capture touches, per group of attributes.
SameSteering(s, t) == s.reqs = t.reqs /\ s.len = t.len /\ s.stash = t.stash /\ s.dispatch = t.dispatch
SameFlags(s, t) == /\ s.padding = t.padding /\ s.piecewise = t.piecewise
                   /\ s.force = t.force /\ s.runnable = t.runnable
SameCapture(s, t) == s.capture = t.capture /\ s.uniformLen = t.uniformLen
Same(s, t) == /\ SameSteering(s, t) /\ SameFlags(s, t) /\ SameCapture(s, t)
              /\ s.runtime = t.runtime

\* The attributes inside the runtime's width binding.
Bound(s) == /\ s.reqs = Absent /\ s.stash = <<>> /\ s.dispatch = "host"
            /\ SameFlags(s, Native) /\ SameCapture(s, Native)
            /\ IF config.runtime THEN s.len = 4 /\ s.runtime = 4
                                 ELSE s.len = Absent /\ s.runtime = Absent

Shapes ==
    /\ DOMAIN shared = AttrFields /\ DOMAIN frame = FrameFields
    /\ DOMAIN capture = CaptureFields
    /\ DOMAIN capture.saved = AttrFields
    /\ DOMAIN frame.saved = AttrFields /\ DOMAIN frame.host = AttrFields

Between == capture.running = NoGraph /\ frame.stage = "idle" => Same(shared, Native)

Capturing ==
    capture.running # NoGraph =>
        /\ frame.stage = "idle" /\ Same(capture.saved, Native)
        /\ SameFlags(shared, Native) /\ shared.runtime = Absent
        /\ shared.reqs = Absent /\ shared.len = Absent /\ shared.dispatch = "host"
        /\ capture.running.uniform => shared.stash = <<>>
        /\ ~capture.running.uniform => SameCapture(shared, Native)

Middle == {"inputs", "dispatch", "pad", "metadata", "run", "ran"}

Proposing ==
    /\ frame.stage \in {"idle", "entered", "left"} \cup Middle
    /\ frame.stage # "idle" =>
           /\ capture.running = NoGraph /\ capture.tried = Keys(config)
           /\ Same(frame.host, Native)
    /\ frame.stage \in {"entered", "left"} => Bound(shared)
    /\ frame.stage \in Middle =>
           /\ Bound(frame.saved) /\ SameCapture(shared, Native)
           /\ shared.runtime = frame.saved.runtime
           /\ frame.path \in {"merged", "force", "plain"}
           /\ frame.path \in {"merged", "plain"} =>
                  shared.force = FALSE /\ shared.runnable = "graph"
           /\ frame.path = "merged" => shared.piecewise = FALSE
           /\ frame.path = "plain" => shared.padding = FALSE

CleanInv == Shapes /\ Between /\ Capturing /\ Proposing

LEMMA InitClean == Init => CleanInv
  BY DEF Init, Idle, Native, NoGraph, Graph, CleanInv, Shapes, Between, Capturing, Proposing,
         AttrFields, FrameFields, CaptureFields, Same, SameSteering, SameFlags, SameCapture,
         Middle

LEMMA BeginCaptureClean ==
  ASSUME CleanInv, NEW graph \in Keys(config), BeginCapture(graph)
  PROVE  CleanInv'
<1>0. CleanInv /\ frame' = frame /\ config' = config BY DEF BeginCapture
<1>1. frame.stage = "idle" /\ Same(shared, Native)
  BY <1>0 DEF BeginCapture, CleanInv, Between, Proposing
<1>2. Shapes' BY DEF CleanInv, Shapes, BeginCapture, AttrFields, FrameFields, CaptureFields
<1>3. capture'.running = graph /\ capture'.saved = shared
  BY DEF CleanInv, Shapes, BeginCapture, CaptureFields
<1>4. /\ SameFlags(shared', Native) /\ shared'.runtime = Absent
      /\ shared'.reqs = Absent /\ shared'.len = Absent /\ shared'.dispatch = "host"
      /\ graph.uniform => shared'.stash = <<>>
      /\ ~graph.uniform => SameCapture(shared', Native)
  BY <1>1 DEF CleanInv, Shapes, BeginCapture, AttrFields, Same, SameFlags, SameCapture,
              SameSteering, Native, Absent
<1>5. graph # NoGraph
  <2>1. graph.reqs \in Nat \ {0}
    BY DraftAssumption DEF Keys, Graph, Buckets
  <2> QED BY <2>1 DEF NoGraph, Graph
<1>6. Between' /\ Proposing'
  BY <1>0, <1>1, <1>3, <1>5 DEF Between, Proposing, Middle
<1>7. Capturing'
  BY <1>0, <1>1, <1>3, <1>4 DEF Capturing, Same, SameFlags, SameCapture, SameSteering
<1> QED
  BY <1>2, <1>6, <1>7 DEF CleanInv

LEMMA EndCaptureClean ==
  ASSUME CleanInv, EndCapture
  PROVE  CleanInv'
<1>0. CleanInv /\ frame' = frame /\ config' = config BY DEF EndCapture
<1>1. capture.running # NoGraph BY DEF EndCapture
<1>2. frame.stage = "idle" BY <1>0, <1>1 DEF CleanInv, Capturing
<1>3. Shapes' BY DEF CleanInv, Shapes, EndCapture, AttrFields, FrameFields, CaptureFields
<1>4. capture'.running = NoGraph
  BY DEF CleanInv, Shapes, EndCapture, CaptureFields
<1>5. shared' = IF capture.running.uniform
                THEN [shared EXCEPT !.uniformLen = capture.saved.uniformLen,
                                    !.capture = capture.saved.capture]
                ELSE [shared EXCEPT !.stash = capture.saved.stash]
  BY DEF EndCapture
<1>6. Same(shared', Native)
  <2>1. CASE capture.running.uniform
    BY <2>1, <1>1, <1>5 DEF CleanInv, Shapes, Capturing, AttrFields, Same, SameFlags,
       SameCapture, SameSteering, Native
  <2>2. CASE ~capture.running.uniform
    BY <2>2, <1>1, <1>5 DEF CleanInv, Shapes, Capturing, AttrFields, Same, SameFlags,
       SameCapture, SameSteering, Native
  <2> QED BY <2>1, <2>2
<1> QED
  BY <1>0, <1>2, <1>3, <1>4, <1>6 DEF CleanInv, Between, Capturing, Proposing, Middle

LEMMA HostFrameClean ==
  ASSUME CleanInv, NEW batch, NEW len, NEW kept, NEW tokens, NEW uniform, NEW prefill,
         HostFrame(batch, len, kept, tokens, uniform, prefill)
  PROVE  CleanInv'
<1>0. CleanInv /\ capture' = capture /\ config' = config BY DEF HostFrame
<1>1. /\ capture.running = NoGraph /\ capture.tried = Keys(config)
      /\ Same(shared, Native)
  BY DEF HostFrame, Serving, CleanInv, Between
<1>2. Shapes' BY DEF CleanInv, Shapes, HostFrame, AttrFields, FrameFields, CaptureFields
<1>3. frame'.stage = "entered" /\ frame'.host = shared
  BY DEF CleanInv, Shapes, HostFrame, FrameFields
<1>4. Bound(shared)'
  <2>1. CASE config.runtime
    BY <2>1, <1>0, <1>1 DEF CleanInv, Shapes, HostFrame, AttrFields, Bound, Same, SameFlags,
       SameCapture, SameSteering, Native
  <2>2. CASE ~config.runtime
    BY <2>2, <1>0, <1>1 DEF CleanInv, Shapes, HostFrame, AttrFields, Bound, Same, SameFlags,
       SameCapture, SameSteering, Native
  <2> QED BY <2>1, <2>2
<1>5. Same(frame'.host, Native) BY <1>1, <1>3
<1>6. Between' /\ Capturing' BY <1>0, <1>1, <1>3 DEF Between, Capturing
<1>7. Proposing'
  BY <1>0, <1>1, <1>3, <1>4, <1>5, Zenon DEF Proposing, Middle
<1> QED BY <1>2, <1>6, <1>7 DEF CleanInv

LEMMA ProposeClean == ASSUME CleanInv, Propose PROVE CleanInv'
<1>0. CleanInv /\ capture' = capture /\ config' = config BY DEF Propose
<1>1. /\ capture.running = NoGraph /\ capture.tried = Keys(config)
      /\ Same(frame.host, Native) /\ Bound(shared)
  BY DEF Propose, CleanInv, Proposing
<1>2. PICK path : /\ path \in {"merged", "force", "plain"}
                  /\ frame' = [frame EXCEPT !.stage = "inputs", !.path = path, !.saved = shared]
                  /\ path = "merged" =>
                        shared' = [shared EXCEPT !.reqs = frame.batch, !.len = shared.runtime,
                                                 !.padding = TRUE]
                  /\ path = "force" =>
                        shared' = [shared EXCEPT !.reqs = frame.batch, !.len = shared.runtime,
                                                 !.padding = TRUE, !.piecewise = TRUE,
                                                 !.force = TRUE, !.runnable = "body"]
                  /\ path = "plain" =>
                        shared' = [shared EXCEPT !.dispatch = "nonuniform", !.piecewise = TRUE]
  BY DEF Propose
<1>3. /\ frame'.stage = "inputs" /\ frame'.path = path /\ frame'.saved = shared
      /\ frame'.host = frame.host
  BY <1>2 DEF CleanInv, Shapes, FrameFields
<1>4. /\ DOMAIN shared' = AttrFields /\ SameCapture(shared', Native)
      /\ shared'.runtime = shared.runtime
      /\ path \in {"merged", "plain"} => shared'.force = FALSE /\ shared'.runnable = "graph"
      /\ path = "merged" => shared'.piecewise = FALSE
      /\ path = "plain" => shared'.padding = FALSE
  <2>1. CASE path = "merged"
    BY <2>1, <1>1, <1>2, ZenonT(60) DEF CleanInv, Shapes, AttrFields, Bound, SameFlags, SameCapture, Native
  <2>2. CASE path = "force"
    <3>1. shared' = [shared EXCEPT !.reqs = frame.batch, !.len = shared.runtime,
                                   !.padding = TRUE, !.piecewise = TRUE,
                                   !.force = TRUE, !.runnable = "body"]
      BY <2>2, <1>2
    <3>2. DOMAIN shared = AttrFields BY DEF CleanInv, Shapes
    <3>3. /\ DOMAIN shared' = AttrFields /\ shared'.runtime = shared.runtime
          /\ shared'.capture = shared.capture /\ shared'.uniformLen = shared.uniformLen
      BY <3>1, <3>2 DEF AttrFields
    <3> QED BY <2>2, <3>3, <1>1 DEF Bound, SameCapture, Native
  <2>3. CASE path = "plain"
    BY <2>3, <1>1, <1>2, ZenonT(60) DEF CleanInv, Shapes, AttrFields, Bound, SameFlags, SameCapture, Native
  <2> QED BY <2>1, <2>2, <2>3, <1>2
<1>5. Shapes' BY <1>0, <1>2, <1>3, <1>4 DEF CleanInv, Shapes, FrameFields
<1>6. Bound(frame.saved)'
  BY <1>0, <1>1, <1>3 DEF Bound
<1>7. Proposing'
  BY <1>0, <1>1, <1>2, <1>3, <1>4, <1>6 DEF Proposing, Middle
<1>8. Between' /\ Capturing' BY <1>0, <1>1, <1>3 DEF Between, Capturing
<1> QED BY <1>5, <1>7, <1>8 DEF CleanInv

\* Inside a proposal a step that leaves the steering's shape alone.
LEMMA InsideClean ==
  ASSUME CleanInv, frame.stage \in Middle, frame'.stage \in Middle,
         UNCHANGED <<config, capture>>, DOMAIN frame' = FrameFields,
         frame'.saved = frame.saved, frame'.host = frame.host, frame'.path = frame.path,
         DOMAIN shared' = AttrFields, SameFlags(shared', shared),
         SameCapture(shared', shared), shared'.runtime = shared.runtime
  PROVE  CleanInv'
<1>1. Shapes' BY DEF CleanInv, Shapes
<1>2. frame'.stage # "idle" /\ frame.stage # "idle" BY DEF Middle
<1>3. Between' /\ Capturing' BY <1>2 DEF CleanInv, Between, Capturing, Proposing
<1>4. Bound(frame.saved)' BY DEF CleanInv, Proposing, Bound
<1>5. Proposing'
  BY <1>2, <1>4 DEF CleanInv, Proposing, Middle, SameFlags, SameCapture
<1> QED BY <1>1, <1>3, <1>5 DEF CleanInv

LEMMA InsideStepsClean ==
  ASSUME CleanInv,
         (\E ready \in BOOLEAN : FirstPass(ready)) \/ Dispatch \/ Pad \/ Metadata
            \/ Replay \/ Forward
  PROVE  CleanInv'
<1>0. DOMAIN shared = AttrFields /\ DOMAIN frame = FrameFields BY DEF CleanInv, Shapes
<1>1. CASE \E ready \in BOOLEAN : FirstPass(ready)
  <2>1. PICK ready \in BOOLEAN : FirstPass(ready) BY <1>1
  <2>2. /\ frame.stage = "inputs" /\ UNCHANGED <<config, capture>>
        /\ \/ frame' = [frame EXCEPT !.stage = "dispatch", !.tokens = Compacted,
                          !.starts = KeptBefore]
           \/ frame' = [frame EXCEPT !.stage = "dispatch"]
        /\ shared' = shared \/ \E stash : shared' = [shared EXCEPT !.stash = stash]
    BY <2>1 DEF FirstPass
  <2>3. /\ frame'.stage = "dispatch" /\ DOMAIN frame' = FrameFields
        /\ frame'.saved = frame.saved /\ frame'.host = frame.host /\ frame'.path = frame.path
    BY <1>0, <2>2 DEF FrameFields
  <2>4. /\ DOMAIN shared' = AttrFields /\ SameFlags(shared', shared)
        /\ SameCapture(shared', shared) /\ shared'.runtime = shared.runtime
    BY <1>0, <2>2 DEF AttrFields, SameFlags, SameCapture
  <2> QED BY <2>2, <2>3, <2>4, InsideClean DEF Middle
<1>2. CASE Dispatch
  <2>1. /\ frame.stage = "dispatch" /\ UNCHANGED <<config, capture>>
        /\ shared' = Remembered(shared, frame.tokens)
        /\ \E mode, graph : frame' = [frame EXCEPT !.stage = "pad", !.mode = mode,
                                      !.graph = graph, !.rows = frame.starts]
    BY <1>2 DEF Dispatch
  <2>2. /\ frame'.stage = "pad" /\ DOMAIN frame' = FrameFields
        /\ frame'.saved = frame.saved /\ frame'.host = frame.host /\ frame'.path = frame.path
    BY <1>0, <2>1 DEF FrameFields
  <2>3. shared' = shared \/ \E len : shared' = [shared EXCEPT !.len = len]
    BY <2>1 DEF Remembered
  <2>4. /\ DOMAIN shared' = AttrFields /\ SameFlags(shared', shared)
        /\ SameCapture(shared', shared) /\ shared'.runtime = shared.runtime
    BY <1>0, <2>3 DEF AttrFields, SameFlags, SameCapture
  <2> QED BY <2>1, <2>2, <2>4, InsideClean DEF Middle
<1>3. CASE Pad \/ Metadata \/ Replay \/ Forward
  <2>1. /\ frame.stage \in Middle /\ frame'.stage \in Middle /\ DOMAIN frame' = FrameFields
        /\ frame'.saved = frame.saved /\ frame'.host = frame.host /\ frame'.path = frame.path
    <3>1. CASE Pad BY <3>1, <1>0 DEF Pad, FrameFields, Middle
    <3>2. CASE Metadata BY <3>2, <1>0 DEF Metadata, FrameFields, Middle
    <3>3. CASE Replay BY <3>3, <1>0 DEF Replay, FrameFields, Middle
    <3>4. CASE Forward BY <3>4, <1>0 DEF Forward, FrameFields, Middle
    <3> QED BY <1>3, <3>1, <3>2, <3>3, <3>4
  <2>2. UNCHANGED <<config, capture, shared>>
    BY <1>3 DEF Pad, Metadata, Replay, Forward
  <2> QED BY <2>1, <2>2, <1>0, InsideClean DEF SameFlags, SameCapture
<1> QED BY <1>1, <1>2, <1>3

\* Restored gives back, on each path, what that path set.
LEMMA RestoredBound ==
  ASSUME CleanInv, frame.stage \in Middle,
         shared' = Restored(shared, frame.saved, frame.path), config' = config
  PROVE  Bound(shared)' /\ DOMAIN shared' = AttrFields
<1>0. /\ DOMAIN shared = AttrFields /\ Bound(frame.saved) /\ SameCapture(shared, Native)
      /\ shared.runtime = frame.saved.runtime
      /\ frame.path \in {"merged", "force", "plain"}
      /\ frame.path \in {"merged", "plain"} => shared.force = FALSE /\ shared.runnable = "graph"
      /\ frame.path = "merged" => shared.piecewise = FALSE
      /\ frame.path = "plain" => shared.padding = FALSE
  BY DEF CleanInv, Shapes, Proposing
<1> DEFINE Steering == [shared EXCEPT !.dispatch = frame.saved.dispatch,
                                     !.len = frame.saved.len, !.reqs = frame.saved.reqs,
                                     !.stash = frame.saved.stash]
<1>1. /\ DOMAIN Steering = AttrFields /\ SameSteering(Steering, frame.saved)
      /\ SameFlags(Steering, shared) /\ SameCapture(Steering, shared)
      /\ Steering.runtime = shared.runtime
  BY <1>0 DEF AttrFields, SameSteering, SameFlags, SameCapture
<1>2. /\ frame.path = "merged" => shared' = [Steering EXCEPT !.padding = frame.saved.padding]
      /\ frame.path = "force" =>
            shared' = [Steering EXCEPT !.padding = frame.saved.padding,
                                       !.runnable = frame.saved.runnable,
                                       !.piecewise = FALSE, !.force = FALSE]
      /\ frame.path = "plain" => shared' = [Steering EXCEPT !.piecewise = FALSE]
  BY <1>0 DEF Restored
<1> HIDE DEF Steering
<1>3. /\ DOMAIN shared' = AttrFields /\ SameSteering(shared', frame.saved)
      /\ SameFlags(shared', Native) /\ SameCapture(shared', Native)
      /\ shared'.runtime = frame.saved.runtime
  <2>1. CASE frame.path = "merged"
    BY <2>1, <1>0, <1>1, <1>2, ZenonT(60)
    DEF AttrFields, Bound, SameSteering, SameFlags, SameCapture, Native
  <2>2. CASE frame.path = "force"
    <3>1. shared' = [Steering EXCEPT !.padding = frame.saved.padding,
                                    !.runnable = frame.saved.runnable,
                                    !.piecewise = FALSE, !.force = FALSE]
      BY <2>2, <1>2
    <3>2. /\ DOMAIN shared' = AttrFields /\ SameSteering(shared', Steering)
          /\ SameCapture(shared', Steering) /\ shared'.runtime = Steering.runtime
          /\ shared'.padding = frame.saved.padding /\ shared'.runnable = frame.saved.runnable
          /\ shared'.piecewise = FALSE /\ shared'.force = FALSE
      BY <3>1, <1>1 DEF AttrFields, SameSteering, SameCapture
    <3> QED BY <3>2, <1>0, <1>1 DEF Bound, SameSteering, SameFlags, SameCapture, Native
  <2>3. CASE frame.path = "plain"
    <3>1. shared' = [Steering EXCEPT !.piecewise = FALSE]
      BY <2>3, <1>2
    <3>2. /\ DOMAIN shared' = AttrFields /\ SameSteering(shared', Steering)
          /\ SameCapture(shared', Steering) /\ shared'.runtime = Steering.runtime
          /\ shared'.padding = shared.padding /\ shared'.runnable = shared.runnable
          /\ shared'.piecewise = FALSE /\ shared'.force = shared.force
      BY <3>1, <1>1 DEF AttrFields, SameSteering, SameCapture, SameFlags
    <3>3. shared.padding = FALSE /\ shared.force = FALSE /\ shared.runnable = "graph"
      BY <2>3, <1>0
    <3> QED BY <3>2, <3>3, <1>0, <1>1 DEF SameSteering, SameFlags, SameCapture, Native
  <2> QED BY <2>1, <2>2, <2>3, <1>0
<1> QED BY <1>0, <1>3 DEF Bound, SameSteering

LEMMA LeavingClean == ASSUME CleanInv, Return \/ Raise PROVE CleanInv'
<1>1. /\ frame.stage \in Middle /\ frame' = [frame EXCEPT !.stage = "left"]
      /\ shared' = Restored(shared, frame.saved, frame.path)
      /\ UNCHANGED <<config, capture>>
  BY DEF Return, Raise, Middle
<1>2. Bound(shared)' /\ DOMAIN shared' = AttrFields BY <1>1, RestoredBound
<1>3. /\ frame'.stage = "left" /\ DOMAIN frame' = FrameFields
      /\ frame'.saved = frame.saved /\ frame'.host = frame.host
  BY <1>1 DEF CleanInv, Shapes, FrameFields
<1>4. frame.stage # "idle" BY <1>1 DEF Middle
<1>5. Shapes' BY <1>1, <1>2, <1>3 DEF CleanInv, Shapes
<1>6. Between' /\ Capturing' BY <1>1, <1>3, <1>4 DEF CleanInv, Between, Capturing, Proposing
<1>7. Proposing' BY <1>1, <1>2, <1>3, <1>4 DEF CleanInv, Proposing, Middle
<1> QED BY <1>5, <1>6, <1>7 DEF CleanInv

LEMMA LeaveClean == ASSUME CleanInv, Leave PROVE CleanInv'
<1>0. /\ frame.stage = "left" /\ frame' = Idle(frame.number) /\ UNCHANGED <<config, capture>>
      /\ shared' = IF config.runtime
                   THEN [shared EXCEPT !.len = frame.host.len, !.runtime = frame.host.runtime]
                   ELSE shared
  BY DEF Leave
<1>1. /\ capture.running = NoGraph /\ Same(frame.host, Native) /\ Bound(shared)
      /\ DOMAIN shared = AttrFields
  BY <1>0 DEF CleanInv, Shapes, Proposing
<1>2. Same(shared', Native) /\ DOMAIN shared' = AttrFields
  <2>1. CASE config.runtime
    BY <2>1, <1>0, <1>1 DEF AttrFields, Bound, Same, SameSteering, SameFlags, SameCapture,
       Native
  <2>2. CASE ~config.runtime
    BY <2>2, <1>0, <1>1 DEF AttrFields, Bound, Same, SameSteering, SameFlags, SameCapture,
       Native
  <2> QED BY <2>1, <2>2
<1>3. /\ frame'.stage = "idle" /\ DOMAIN frame' = FrameFields
      /\ DOMAIN frame'.saved = AttrFields /\ DOMAIN frame'.host = AttrFields
  BY <1>0 DEF Idle, Native, FrameFields, AttrFields
<1>4. Shapes' BY <1>0, <1>2, <1>3 DEF CleanInv, Shapes
<1>5. Between' /\ Capturing' /\ Proposing'
  BY <1>0, <1>1, <1>2, <1>3 DEF Between, Capturing, Proposing, Middle
<1> QED BY <1>4, <1>5 DEF CleanInv

LEMMA NextClean == ASSUME CleanInv, [Next]_vars PROVE CleanInv'
<1>1. CASE \E graph \in Keys(config) : BeginCapture(graph) BY <1>1, BeginCaptureClean
<1>2. CASE EndCapture BY <1>2, EndCaptureClean
<1>3. CASE UniformFrame BY <1>3, HostFrameClean DEF UniformFrame
<1>4. CASE MixedFrame BY <1>4, HostFrameClean DEF MixedFrame
<1>5. CASE Propose BY <1>5, ProposeClean
<1>6. CASE \E ready \in BOOLEAN : FirstPass(ready) BY <1>6, InsideStepsClean
<1>7. CASE Dispatch \/ Pad \/ Metadata \/ Replay \/ Forward BY <1>7, InsideStepsClean
<1>8. CASE Return \/ Raise BY <1>8, LeavingClean
<1>9. CASE Leave BY <1>9, LeaveClean
<1>10. CASE UNCHANGED vars
  BY <1>10 DEF vars, CleanInv, Shapes, Between, Capturing, Proposing, Same, SameSteering,
     SameFlags, SameCapture, Bound
<1> QED
  BY <1>1, <1>2, <1>3, <1>4, <1>5, <1>6, <1>7, <1>8, <1>9, <1>10 DEF Next

LEMMA CleanUnsteered == CleanInv => TargetUnsteered
<1> SUFFICES ASSUME CleanInv, capture.running = NoGraph, frame.stage = "idle"
             PROVE  /\ \A tokens \in 1..(MaxSeqs * 8), uniform \in BOOLEAN :
                          Selected(shared, tokens, uniform) = NoGraph
                    /\ shared.dispatch = "host" /\ shared.runnable = "graph"
                    /\ ~shared.padding /\ ~shared.piecewise /\ ~shared.force
  BY DEF TargetUnsteered
<1>1. Same(shared, Native) BY DEF CleanInv, Between
<1>2. /\ shared.stash = <<>> /\ shared.reqs = Absent /\ shared.capture = Absent
      /\ shared.dispatch = "host" /\ shared.runnable = "graph"
      /\ ~shared.padding /\ ~shared.piecewise /\ ~shared.force
  BY <1>1 DEF Same, SameSteering, SameFlags, SameCapture, Native
<1>3. \A tokens : ~StashHit(shared, tokens) BY <1>2 DEF StashHit
<1>4. ~Steered(shared) BY <1>2 DEF Steered
<1> QED BY <1>2, <1>3, <1>4 DEF Selected

\* Whatever sequence of captures, proposals and exceptions went before, between
\* them the dispatcher selects no Draft graph for a Target batch and the runner
\* and proposer flags are the host's (draft.py, the finally blocks of
\* warmup_and_capture and draft_propose).
THEOREM TargetNeverSteered == Spec => []TargetUnsteered
<1>1. Init => CleanInv BY InitClean
<1>2. CleanInv /\ [Next]_vars => CleanInv' BY NextClean
<1> QED BY <1>1, <1>2, CleanUnsteered, PTL DEF Spec

(***************************************************************************)
(* Sums and row starts.                                                    *)
(***************************************************************************)
LEMMA LeastMember ==
  ASSUME NEW S \in SUBSET Nat, S # {}
  PROVE  \E y \in S : \A x \in S : y <= x
<1>1. PICK y \in S : \A x \in S : ~(<<x, y>> \in OpToRel(<, Nat))
  BY NatLessThanWellFounded, WFMin
<1>2. \A x \in S : ~(x < y) BY <1>1 DEF OpToRel
<1> QED BY <1>2

\* start holds, for each of n rows, the sum of the counts before it.
Sums(start, counts, n) ==
    start = [row \in 0..n |-> IF row = 0 THEN 0 ELSE start[row - 1] + counts[row]]

\* There are such sums: the fewest rows without them would extend the sums of
\* one row less.
LEMMA SumsExist ==
  ASSUME NEW batch \in Nat, NEW counts
  PROVE  \E start : Sums(start, counts, batch)
<1> DEFINE Without == {n \in Nat : ~\E start : Sums(start, counts, n)}
<1>1. SUFFICES ASSUME Without # {} PROVE FALSE
  OBVIOUS
<1>2. PICK n \in Without : \A m \in Without : n <= m BY <1>1, LeastMember
<1>3. Sums([row \in 0..0 |-> 0], counts, 0) BY DEF Sums
<1>4. n # 0 BY <1>3
<1>5. n - 1 \in Nat /\ ~(n - 1 \in Without) BY <1>2, <1>4
<1>6. PICK start : Sums(start, counts, n - 1) BY <1>5
<1> DEFINE next == [row \in 0..n |-> IF row = n THEN start[n - 1] + counts[n] ELSE start[row]]
<1>7. \A row \in 0..(n - 1) :
          start[row] = IF row = 0 THEN 0 ELSE start[row - 1] + counts[row]
  BY <1>6 DEF Sums
<1>8. next = [row \in 0..n |-> IF row = 0 THEN 0 ELSE next[row - 1] + counts[row]]
  <2>1. ASSUME NEW row \in 0..n
        PROVE  next[row] = IF row = 0 THEN 0 ELSE next[row - 1] + counts[row]
    <3>1. CASE row = n
      <4>1. next[n] = start[n - 1] + counts[n] /\ next[n - 1] = start[n - 1]
        BY <1>2, <1>4
      <4> QED BY <3>1, <4>1, <1>4
    <3>2. CASE row # n
      <4>1. row \in 0..(n - 1) /\ next[row] = start[row] BY <3>2, <1>2
      <4>2. row # 0 => row - 1 \in 0..n /\ row - 1 # n BY <4>1, <1>2
      <4> QED BY <4>1, <4>2, <1>7
    <3> QED BY <3>1, <3>2
  <2> HIDE DEF next
  <2>2. DOMAIN next = 0..n /\ next = [row \in DOMAIN next |-> next[row]]
    BY DEF next
  <2> QED BY <2>1, <2>2
<1>9. Sums(next, counts, n) BY <1>8 DEF Sums
<1> QED BY <1>2, <1>9

LEMMA KeptBeforeSums ==
  ASSUME frame.batch \in Nat
  PROVE  Sums(KeptBefore, frame.kept, frame.batch)
<1>1. \E start : start = [row \in 0..frame.batch |->
                            IF row = 0 THEN 0 ELSE start[row - 1] + frame.kept[row]]
  BY SumsExist DEF Sums
<1> QED BY <1>1 DEF Sums, KeptBefore

\* The compacted starts: every request keeps a row.
LEMMA KeptBeforeStarts ==
  ASSUME frame.batch \in Nat, frame.kept \in [1..frame.batch -> 1..4]
  PROVE  /\ KeptBefore \in [0..frame.batch -> Nat]
         /\ \A row \in 1..frame.batch : KeptBefore[row - 1] < KeptBefore[row]
         /\ \A row \in 0..frame.batch : KeptBefore[row] >= row
<1> DEFINE n == frame.batch
           counts == frame.kept
           start == KeptBefore
<1>1. Sums(start, counts, n) BY KeptBeforeSums
<1>2. n \in Nat /\ counts \in [1..n -> 1..4] OBVIOUS
<1> HIDE DEF n, counts, start
<1>3. DOMAIN start = 0..n /\ start = [row \in DOMAIN start |-> start[row]] BY <1>1 DEF Sums
<1>4. \A row \in 0..n : start[row] = IF row = 0 THEN 0 ELSE start[row - 1] + counts[row]
  BY <1>1 DEF Sums
<1> DEFINE Bad == {row \in 0..n : ~(start[row] \in Nat /\ start[row] >= row)}
<1>5. Bad = {}
  <2>1. SUFFICES ASSUME Bad # {} PROVE FALSE OBVIOUS
  <2>2. Bad \in SUBSET Nat BY <1>2
  <2>3. PICK row \in Bad : \A other \in Bad : row <= other BY <2>1, <2>2, LeastMember
  <2>4. row # 0 BY <1>2, <1>4
  <2>5. row - 1 \in 0..n /\ ~(row - 1 \in Bad) BY <2>3, <2>4, <1>2
  <2>6. start[row - 1] \in Nat /\ start[row - 1] >= row - 1 BY <2>5
  <2>7. counts[row] \in 1..4 BY <2>3, <2>4, <1>2
  <2>8. start[row] = start[row - 1] + counts[row] BY <1>4, <2>4
  <2>9. start[row] \in Nat /\ start[row] >= row BY <2>6, <2>7, <2>8, <2>3
  <2> QED BY <2>9
<1>6. \A row \in 0..n : start[row] \in Nat /\ start[row] >= row BY <1>5
<1>7. ASSUME NEW row \in 1..n PROVE start[row - 1] < start[row]
  <2>1. row - 1 \in 0..n /\ row \in 0..n /\ row # 0 BY <1>2
  <2>2. counts[row] \in 1..4 BY <1>2
  <2>3. start[row] = start[row - 1] + counts[row] BY <1>4, <2>1
  <2> QED BY <2>1, <2>2, <2>3, <1>6
<1>8. start \in [0..n -> Nat] BY <1>3, <1>6
<1> QED BY <1>6, <1>7, <1>8 DEF n, start

Starts(starts, batch, tokens) ==
    /\ starts \in [0..batch -> Nat] /\ starts[batch] = tokens
    /\ \A row \in 1..batch : starts[row - 1] <= starts[row]

LEMMA TimesNat == ASSUME NEW a \in Nat, NEW b \in Nat PROVE a * b \in Nat
OBVIOUS

LEMMA Division ==
  ASSUME NEW a \in Nat, NEW b \in Nat \ {0}
  PROVE  a \div b \in Nat /\ a % b \in 0..(b - 1) /\ a = b * (a \div b) + (a % b)
OBVIOUS

LEMMA DivisionGrows ==
  ASSUME NEW a \in Nat, NEW b \in Nat, NEW d \in Nat \ {0}, a <= b
  PROVE  a \div d <= b \div d
<1> DEFINE p == a \div d
           q == b \div d
<1>1. /\ p \in Nat /\ q \in Nat /\ a = d * p + (a % d) /\ b = d * q + (b % d)
      /\ a % d \in 0..(d - 1) /\ b % d \in 0..(d - 1)
  BY Division
<1> HIDE DEF p, q
<1>2. SUFFICES ASSUME q + 1 <= p PROVE FALSE BY <1>1 DEF p, q
<1>3. PICK k \in Nat : p = q + 1 + k
  <2>1. p - (q + 1) \in Nat /\ p = q + 1 + (p - (q + 1)) BY <1>1, <1>2
  <2> QED BY <2>1
<1>4. d * p = d * q + d + d * k BY <1>1, <1>3
<1>5. d * k \in Nat /\ d * q \in Nat BY <1>1, TimesNat
<1> QED BY <1>1, <1>4, <1>5

LEMMA ExactDivision ==
  ASSUME NEW a \in Nat, NEW d \in Nat \ {0}
  PROVE  (a * d) \div d = a /\ (a * d) % d = 0 /\ (d * a) \div d = a
OBVIOUS

LEMMA UniformStarts ==
  ASSUME NEW batch \in Nat, NEW len \in Nat
  PROVE  Starts([row \in 0..batch |-> row * len], batch, batch * len)
<1>1. \A row \in 0..batch : row * len \in Nat BY TimesNat
<1>2. ASSUME NEW row \in 1..batch PROVE (row - 1) * len <= row * len
  <2>1. (row - 1) * len = row * len - len BY TimesNat
  <2>2. row * len \in Nat BY <1>1
  <2> QED BY <2>1, <2>2
<1> QED BY <1>1, <1>2 DEF Starts

LEMMA MixedStarts ==
  ASSUME NEW batch \in Nat \ {0}, NEW tokens \in Nat
  PROVE  Starts([row \in 0..batch |-> (row * tokens) \div batch], batch, tokens)
<1>1. \A row \in 0..batch : row * tokens \in Nat BY TimesNat
<1>2. \A row \in 0..batch : (row * tokens) \div batch \in Nat BY <1>1, Division
<1>3. (batch * tokens) \div batch = tokens BY ExactDivision
<1>4. ASSUME NEW row \in 1..batch
      PROVE  ((row - 1) * tokens) \div batch <= (row * tokens) \div batch
  <2>1. (row - 1) * tokens = row * tokens - tokens BY TimesNat
  <2>2. row * tokens \in Nat /\ (row - 1) * tokens \in Nat BY <1>1
  <2>3. (row - 1) * tokens <= row * tokens BY <2>1, <2>2
  <2> QED BY <2>2, <2>3, DivisionGrows
<1> DEFINE Start(row) == (row * tokens) \div batch
           starts == [row \in 0..batch |-> Start(row)]
<1>5. /\ \A row \in 0..batch : Start(row) \in Nat
      /\ \A row \in 1..batch : Start(row - 1) <= Start(row)
      /\ Start(batch) = tokens
  BY <1>2, <1>3, <1>4
<1> HIDE DEF Start
<1>6. Starts(starts, batch, tokens) BY <1>5 DEF Starts
<1> QED BY <1>6 DEF Start

LEMMA LesserOfTwo ==
  ASSUME NEW a \in Int, NEW b \in Int
  PROVE  /\ Min({a, b}) \in {a, b} /\ Min({a, b}) <= a /\ Min({a, b}) <= b
         /\ Min({a, b}) = IF a <= b THEN a ELSE b
<1>1. \E x \in {a, b} : \A y \in {a, b} : x <= y
  <2>1. CASE a <= b BY <2>1
  <2>2. CASE ~(a <= b) BY <2>2
  <2> QED BY <2>1, <2>2
<1>2. Min({a, b}) \in {a, b} /\ \A y \in {a, b} : Min({a, b}) <= y BY <1>1 DEF Min
<1> QED BY <1>2

\* Padding a batch to a descriptor that holds it.
LEMMA SpreadKeeps ==
  ASSUME NEW batch \in Nat, NEW tokens \in Nat, NEW starts, Starts(starts, batch, tokens),
         NEW reqs \in Nat, NEW total \in Nat, batch <= reqs, tokens <= total,
         NEW rows, rows = Spread(starts, batch, total, reqs)
  PROVE  /\ DOMAIN rows = 0..reqs /\ rows[reqs] = total
         /\ \A row \in 0..(batch - 1) : rows[row] = starts[row]
         /\ \A row \in 1..reqs : rows[row] >= rows[row - 1]
         /\ \A row \in 0..reqs : rows[row] \in Nat
<1>1. /\ starts \in [0..batch -> Nat] /\ starts[batch] = tokens
      /\ \A row \in 1..batch : starts[row - 1] <= starts[row]
  BY DEF Starts
<1>2. CASE reqs = batch
  <2>1. rows = [starts EXCEPT ![batch] = total] BY <1>2 DEF Spread
  <2>2. DOMAIN rows = 0..batch /\ \A row \in 0..batch :
            rows[row] = IF row = batch THEN total ELSE starts[row]
    BY <1>1, <2>1
  <2>3. ASSUME NEW row \in 1..batch PROVE rows[row] >= rows[row - 1]
    <3>1. row \in 0..batch /\ row - 1 \in 0..batch /\ row - 1 # batch OBVIOUS
    <3>2. rows[row - 1] = starts[row - 1] BY <3>1, <2>2
    <3>3. starts[row - 1] <= starts[row] /\ starts[row] \in Nat /\ starts[row - 1] \in Nat
      BY <1>1, <3>1
    <3>4. rows[row] >= starts[row] BY <2>2, <3>1, <3>3, <1>1
    <3>5. rows[row] \in Nat BY <2>2, <3>1, <1>1
    <3> QED BY <3>2, <3>3, <3>4, <3>5
  <2>4. \A row \in 0..batch : rows[row] \in Nat BY <1>1, <2>2
  <2> QED BY <1>2, <2>2, <2>3, <2>4
<1>3. CASE reqs # batch
  <2> DEFINE left == total - tokens
             dummies == reqs - batch
             each == left \div dummies
             rest == left % dummies
             Extra(row) == Min({row - batch, rest})
             Dummy(row) == tokens + (row - batch) * each + Extra(row)
  <2>1. left \in Nat /\ dummies \in Nat \ {0} BY <1>3
  <2>2. each \in Nat /\ rest \in 0..(dummies - 1) /\ left = dummies * each + rest
    BY <2>1, Division
  <2>3. rows = [row \in 0..reqs |-> IF row <= batch THEN starts[row] ELSE Dummy(row)]
    BY <1>1, <1>3, <2>1 DEF Spread, Extra
  <2>3a. /\ DOMAIN rows = 0..reqs
         /\ \A row \in 0..reqs : rows[row] = IF row <= batch THEN starts[row] ELSE Dummy(row)
    BY <2>3
  <2> HIDE DEF each, rest
  <2>4. \A row \in batch..reqs : (row - batch) * each \in Nat BY <2>2, TimesNat
  <2>5. ASSUME NEW row \in batch..reqs
        PROVE  Extra(row) = IF row - batch <= rest THEN row - batch ELSE rest
    <3>1. row - batch \in Int /\ rest \in Int BY <2>2
    <3> QED BY <3>1, LesserOfTwo
  <2> HIDE DEF Extra
  <2>5a. \A row \in batch..reqs : Extra(row) \in Nat BY <2>2, <2>5
  <2>6. \A row \in batch..reqs : Dummy(row) \in Nat BY <2>4, <2>5a
  <2>7. ASSUME NEW row \in batch..(reqs - 1) PROVE Dummy(row) <= Dummy(row + 1)
    <3>0. row \in batch..reqs /\ row + 1 \in batch..reqs OBVIOUS
    <3>1. (row + 1 - batch) * each = (row - batch) * each + each BY <2>2
    <3>2. Extra(row) <= Extra(row + 1) BY <3>0, <2>2, <2>5
    <3>3. (row - batch) * each \in Nat /\ (row + 1 - batch) * each \in Nat BY <3>0, <2>4
    <3>4. Extra(row) \in Nat /\ Extra(row + 1) \in Nat BY <3>0, <2>5a
    <3> QED BY <3>1, <3>2, <3>3, <3>4, <2>2
  <2>8. Dummy(batch) = tokens
    <3>1. (batch - batch) * each = 0 BY <2>2
    <3>2. Extra(batch) = 0 BY <2>2, <2>5
    <3> QED BY <3>1, <3>2
  <2>9. Dummy(reqs) = total
    <3>1. Extra(reqs) = rest BY <2>1, <2>2, <2>5
    <3>2. (reqs - batch) * each \in Nat /\ left = (reqs - batch) * each + rest
      BY <2>2, <2>4
    <3> QED BY <3>1, <3>2, <2>1, <2>2
  <2> HIDE DEF Dummy
  <2>10. rows[reqs] = total BY <2>1, <2>3a, <2>9, <1>3
  <2>11. \A row \in 0..(batch - 1) : rows[row] = starts[row] BY <2>3a
  <2>12. ASSUME NEW row \in 1..reqs PROVE rows[row] >= rows[row - 1]
    <3>1. row \in 0..reqs /\ row - 1 \in 0..reqs OBVIOUS
    <3>2. CASE row <= batch
      <4>1. rows[row] = starts[row] /\ rows[row - 1] = starts[row - 1]
        BY <3>1, <3>2, <2>3a
      <4>2. starts[row - 1] <= starts[row] /\ starts[row] \in Nat /\ starts[row - 1] \in Nat
        BY <1>1, <3>2
      <4> QED BY <4>1, <4>2
    <3>3. CASE ~(row <= batch)
      <4>1. row - 1 \in batch..(reqs - 1) /\ row \in batch..reqs BY <3>3
      <4>2. rows[row] = Dummy(row) BY <3>1, <3>3, <2>3a
      <4>3. rows[row - 1] = Dummy(row - 1)
        <5>1. CASE row - 1 = batch BY <5>1, <3>1, <2>3a, <2>8, <1>1
        <5>2. CASE row - 1 # batch
          <6>1. ~(row - 1 <= batch) BY <5>2, <4>1
          <6> QED BY <6>1, <3>1, <2>3a
        <5> QED BY <5>1, <5>2
      <4>4. Dummy(row - 1) <= Dummy(row)
        <5>1. Dummy(row - 1) <= Dummy((row - 1) + 1) BY <4>1, <2>7
        <5>2. (row - 1) + 1 = row OBVIOUS
        <5> QED BY <5>1, <5>2
      <4>5. Dummy(row - 1) \in Nat /\ Dummy(row) \in Nat BY <4>1, <2>6
      <4> QED BY <4>2, <4>3, <4>4, <4>5
    <3> QED BY <3>2, <3>3
  <2>13. ASSUME NEW row \in 0..reqs PROVE rows[row] \in Nat
    <3>1. CASE row <= batch BY <3>1, <2>3a, <1>1
    <3>2. CASE ~(row <= batch)
      <4>1. row \in batch..reqs BY <3>2
      <4> QED BY <4>1, <3>2, <2>3a, <2>6
    <3> QED BY <3>1, <3>2
  <2> QED BY <2>3a, <2>10, <2>11, <2>12, <2>13
<1> QED BY <1>2, <1>3

(***************************************************************************)
(* The invariant, and what the dispatcher selects.                         *)
(***************************************************************************)
\* Descriptors are captured one at a time, each by a dispatch that selects it.
Captures ==
    /\ config \in Configs /\ capture.tried \subseteq Keys(config)
    /\ capture.running = NoGraph => capture.done = capture.tried
    /\ capture.running # NoGraph =>
           /\ capture.running \in Keys(config) \ capture.done
           /\ capture.tried = capture.done \cup {capture.running}
           /\ capture.running.uniform => shared.capture = Width(capture.running)
           /\ ~capture.running.uniform =>
                  shared.stash = <<capture.running.tokens, capture.running.tokens,
                                   capture.running.reqs>>

Batches ==
    /\ frame.number \in 0..MaxFrames
    /\ frame.stage # "idle" =>
           /\ frame.batch \in 1..MaxSeqs /\ frame.len \in config.lens
           /\ frame.kept \in [1..frame.batch -> 1..4]
           /\ frame.tokens \in Nat /\ frame.tokens >= frame.batch
           /\ frame.uniform \in BOOLEAN
           /\ Starts(frame.starts, frame.batch, frame.tokens)

\* What a proposal steers the dispatcher with is what its batch is.
Steering ==
    /\ frame.stage = "entered" /\ frame.uniform => frame.tokens = frame.batch * frame.len
    /\ frame.stage \in Middle =>
        /\ IF frame.path = "plain" THEN shared.reqs = Absent /\ shared.dispatch = "nonuniform"
                                   ELSE shared.reqs = frame.batch /\ shared.dispatch = "host"
        /\ frame.path = "force" => config.force
        /\ shared.len \in {Absent} \cup config.lens
        /\ config.runtime => shared.len = 4
        /\ frame.stage \in {"inputs", "dispatch"} /\ ~config.runtime => shared.len = Absent
        /\ frame.stage = "inputs" => shared.stash = <<>>
        /\ shared.stash = <<>> /\ frame.uniform => frame.tokens = frame.batch * frame.len
        /\ shared.stash # <<>> =>
               /\ frame.batch = MaxSeqs /\ frame.len = 4
               /\ \E bucket \in config.firsts :
                      /\ bucket >= frame.tokens
                      /\ shared.stash = <<frame.tokens, bucket, frame.batch>>

\* A FULL descriptor holds the batch; otherwise the host padded its tokens.
Covers(graph) ==
    /\ graph \in Keys(config)
    /\ graph.reqs >= frame.batch /\ graph.tokens >= frame.tokens
    /\ graph.uniform => graph.tokens = graph.reqs * frame.len
    /\ ~graph.uniform => shared.stash # <<>>

Late == {"pad", "metadata", "run", "ran"}
Chosen ==
    frame.stage \in Late =>
        /\ frame.mode = "FULL" => Covers(frame.graph)
        /\ frame.mode # "FULL" =>
               frame.graph = Graph(PiecewiseBucket(frame.tokens), Absent, FALSE)

RowsOf(step) == IF step = 1 THEN frame.tokens ELSE frame.batch
ForwardCovers(forward, step) ==
    /\ forward.rows >= RowsOf(step)
    /\ forward.mode = "PIECEWISE" => forward.rows \in HostSizes
Forwards ==
    /\ frame.forwards \in Seq([mode : {"outer", "PIECEWISE"}, rows : Nat])
    /\ frame.stage \in {"idle", "entered", "inputs", "dispatch", "pad", "metadata"} =>
           frame.forwards = <<>>
    /\ frame.stage = "run" => frame.step = Len(frame.forwards) + 1
ForwardsCover ==
    \A step \in DOMAIN frame.forwards : ForwardCovers(frame.forwards[step], step)

TaskSet == [graph : Keys(config), step : Nat \ {0}, rows : Nat \ {0}]
RecordedTasks == \A key \in DOMAIN tables : tables[key] \in Seq(TaskSet)

LEMMA ConfigFacts ==
  ASSUME config \in Configs
  PROVE  /\ config.lens \subseteq 3..8 /\ config.firsts \subseteq Nat \ {0}
         /\ config.firsts # {} => config.lens = {4}
         /\ config.runtime => config.lens = {4}
         /\ config.runtime \in BOOLEAN /\ config.force \in BOOLEAN
BY ConfigAssumption DEF ConfigType

LEMMA DescriptorFacts ==
  ASSUME config \in Configs, NEW graph \in Keys(config)
  PROVE  /\ graph.tokens \in Nat \ {0} /\ graph.reqs \in 1..MaxSeqs
         /\ graph.uniform \in BOOLEAN /\ graph # NoGraph
         /\ graph = Graph(graph.tokens, graph.reqs, graph.uniform)
         /\ graph.uniform => /\ Width(graph) \in config.lens
                             /\ graph.tokens = graph.reqs * Width(graph)
         /\ ~graph.uniform => graph.reqs = MaxSeqs /\ graph.tokens \in config.firsts
<1>0. Buckets \subseteq 1..MaxSeqs /\ MaxSeqs \in Nat \ {0} BY DraftAssumption DEF Buckets
<1>1. CASE \E reqs \in Buckets, len \in config.lens : graph = Graph(reqs * len, reqs, TRUE)
  <2>1. PICK reqs \in Buckets, len \in config.lens : graph = Graph(reqs * len, reqs, TRUE)
    BY <1>1
  <2>2. reqs \in 1..MaxSeqs /\ len \in 3..8 BY <1>0, ConfigFacts
  <2>3. graph.tokens = reqs * len /\ graph.reqs = reqs /\ graph.uniform = TRUE
    BY <2>1 DEF Graph
  <2>4. reqs * len \in Nat \ {0}
    <3>1. reqs * len \in Nat BY <2>2, <1>0, TimesNat
    <3>2. reqs * len >= len
      <4>1. reqs - 1 \in Nat /\ reqs \in Nat /\ len \in Nat BY <2>2, <1>0
      <4>2. (reqs - 1) * len \in Nat BY <4>1, TimesNat
      <4>3. reqs * len = (reqs - 1) * len + len BY <4>1
      <4> QED BY <4>1, <4>2, <4>3
    <3> QED BY <3>1, <3>2, <2>2
  <2>5. Width(graph) = len
    <3>1. reqs \in Nat \ {0} /\ len \in Nat BY <2>2, <1>0
    <3>2. (reqs * len) \div reqs = len BY <3>1, ExactDivision
    <3> QED BY <3>2, <2>3 DEF Width
  <2>6. graph # NoGraph BY <2>2, <2>3, <1>0 DEF NoGraph, Graph
  <2> QED BY <2>1, <2>2, <2>3, <2>4, <2>5, <2>6
<1>2. CASE \E bucket \in config.firsts : graph = Graph(bucket, MaxSeqs, FALSE)
  <2>1. PICK bucket \in config.firsts : graph = Graph(bucket, MaxSeqs, FALSE) BY <1>2
  <2>2. bucket \in Nat \ {0} BY ConfigFacts
  <2>3. graph.tokens = bucket /\ graph.reqs = MaxSeqs /\ graph.uniform = FALSE
    BY <2>1 DEF Graph
  <2>4. graph # NoGraph BY <2>3, <1>0 DEF NoGraph, Graph
  <2>5. graph = Graph(graph.tokens, graph.reqs, graph.uniform) BY <2>1, <2>3, Zenon
  <2>6. graph.uniform \in BOOLEAN /\ ~graph.uniform BY <2>3, Zenon
  <2>7. graph.tokens \in Nat \ {0} /\ graph.reqs \in 1..MaxSeqs /\ graph.reqs = MaxSeqs
    BY <2>2, <2>3, <1>0
  <2>8. graph.tokens \in config.firsts BY <2>3
  <2> QED BY <2>4, <2>5, <2>6, <2>7, <2>8
<1>3. \/ \E reqs \in Buckets, len \in config.lens : graph = Graph(reqs * len, reqs, TRUE)
      \/ \E bucket \in config.firsts : graph = Graph(bucket, MaxSeqs, FALSE)
  BY DEF Keys, Graph
<1> QED BY <1>1, <1>2, <1>3

\* What a selection returns when the stash does not decide it.
LEMMA SelectedFits ==
  ASSUME config \in Configs, NEW s, NEW tokens, NEW uniform, ~StashHit(s, tokens),
         NEW graph, graph = Selected(s, tokens, uniform), graph # NoGraph,
         NEW len, len = QueryLen(s, tokens)
  PROVE  /\ graph \in Keys(config) /\ Fits(graph, tokens, len)
         /\ \A other \in Keys(config) :
                Fits(other, tokens, len) => graph.tokens <= other.tokens
         /\ Steered(s) /\ uniform /\ len \in config.lens /\ tokens % len = 0
<1> DEFINE fitting == {g \in Keys(config) : Fits(g, tokens, len)}
<1>1. /\ Steered(s) /\ uniform /\ len \in config.lens /\ tokens % len = 0
      /\ fitting # {}
      /\ graph = CHOOSE g \in fitting : \A other \in fitting : g.tokens <= other.tokens
  BY DEF Selected
<1>2. \E g \in fitting : \A other \in fitting : g.tokens <= other.tokens
  <2> DEFINE counts == {g.tokens : g \in fitting}
  <2>1. counts \in SUBSET Nat /\ counts # {} BY <1>1, DescriptorFacts
  <2>2. PICK least \in counts : \A count \in counts : least <= count BY <2>1, LeastMember
  <2> QED BY <2>2
<1>3. graph \in fitting /\ \A other \in fitting : graph.tokens <= other.tokens
  BY <1>1, <1>2
<1> QED BY <1>1, <1>3

\* The dispatch of a capture selects the descriptor being captured.
LEMMA CaptureSelects ==
  ASSUME CleanInv, Captures, capture.running # NoGraph
  PROVE  Dispatched(shared, capture.running.tokens, capture.running.uniform)
            = [mode |-> "FULL", graph |-> capture.running]
<1> DEFINE running == capture.running
           graph == Selected(shared, running.tokens, running.uniform)
<1>1. config \in Configs /\ running \in Keys(config) /\ shared.dispatch = "host"
  BY DEF Captures, CleanInv, Capturing
<1>2. /\ running.tokens \in Nat \ {0} /\ running.reqs \in 1..MaxSeqs
      /\ running.uniform \in BOOLEAN /\ running # NoGraph
      /\ running = Graph(running.tokens, running.reqs, running.uniform)
      /\ running.uniform => /\ Width(running) \in config.lens
                            /\ running.tokens = running.reqs * Width(running)
  BY <1>1, DescriptorFacts
<1>3. CASE ~running.uniform
  <2>1. shared.stash = <<running.tokens, running.tokens, running.reqs>>
    BY <1>3 DEF Captures
  <2>2. StashHit(shared, running.tokens) BY <2>1 DEF StashHit
  <2>3. Selected(shared, running.tokens, running.uniform /\ shared.dispatch = "host")
           = Graph(running.tokens, running.reqs, FALSE)
    BY <2>1, <2>2 DEF Selected
  <2> QED BY <1>2, <1>3, <2>3 DEF Dispatched
<1>4. CASE running.uniform
  <2>1. shared.stash = <<>> /\ shared.capture = Width(running)
    BY <1>4 DEF Captures, CleanInv, Capturing
  <2> DEFINE len == Width(running)
  <2>2. len \in 3..8 /\ len \in config.lens /\ running.tokens = running.reqs * len
    BY <1>1, <1>2, <1>4, ConfigFacts
  <2> HIDE DEF len
  <2>3. ~StashHit(shared, running.tokens) BY <2>1 DEF StashHit
  <2>4. QueryLen(shared, running.tokens) = len /\ Steered(shared)
    BY <2>1, <2>2 DEF QueryLen, Steered, Absent, len
  <2>5. running.tokens % len = 0 /\ running.tokens \div len = running.reqs
    <3>1. running.reqs \in Nat /\ len \in Nat \ {0} BY <1>2, <2>2, DraftAssumption
    <3> QED BY <3>1, <2>2, ExactDivision
  <2>6. Fits(running, running.tokens, len)
    BY <1>2, <1>4, <2>2, <2>5 DEF Fits
  <2>7. graph # NoGraph
    <3> DEFINE fitting == {g \in Keys(config) : Fits(g, running.tokens, len)}
    <3>1. fitting # {} BY <1>1, <2>6
    <3>2. graph = CHOOSE g \in fitting : \A other \in fitting : g.tokens <= other.tokens
      BY <3>1, <1>4, <2>2, <2>3, <2>4, <2>5 DEF Selected
    <3>3. \E g \in fitting : \A other \in fitting : g.tokens <= other.tokens
      <4> DEFINE counts == {g.tokens : g \in fitting}
      <4>1. counts \in SUBSET Nat /\ counts # {} BY <3>1, <1>1, DescriptorFacts
      <4>2. PICK least \in counts : \A count \in counts : least <= count
        BY <4>1, LeastMember
      <4> QED BY <4>2
    <3>4. graph \in fitting BY <3>2, <3>3
    <3> QED BY <3>4, <1>1, DescriptorFacts
  <2>8. /\ graph \in Keys(config) /\ Fits(graph, running.tokens, len)
        /\ graph.tokens <= running.tokens
    BY <2>3, <2>4, <2>6, <2>7, <1>1, SelectedFits
  <2>9. /\ graph.reqs \in Nat /\ graph.uniform = TRUE
        /\ graph = Graph(graph.tokens, graph.reqs, TRUE)
        /\ graph.reqs >= running.reqs /\ graph.tokens = graph.reqs * len
    <3>1. /\ graph.reqs \in 1..MaxSeqs /\ graph.uniform \in BOOLEAN
          /\ graph = Graph(graph.tokens, graph.reqs, graph.uniform)
      BY <2>8, <1>1, DescriptorFacts
    <3>2. graph.uniform /\ graph.reqs >= running.reqs /\ graph.tokens = graph.reqs * len
      BY <2>8, <2>5 DEF Fits
    <3>3. graph.uniform = TRUE BY <3>1, <3>2, Zenon
    <3>4. graph = Graph(graph.tokens, graph.reqs, TRUE) BY <3>1, <3>3, Zenon
    <3>5. graph.reqs \in Nat BY <3>1, DraftAssumption
    <3> QED BY <3>2, <3>3, <3>4, <3>5
  <2> HIDE DEF graph
  <2>10. graph.reqs = running.reqs
    <3>1. running.reqs \in Nat BY <1>2, DraftAssumption
    <3>2. graph.reqs * len <= running.reqs * len BY <2>2, <2>8, <2>9
    <3>3. SUFFICES ASSUME graph.reqs >= running.reqs + 1 PROVE FALSE BY <3>1, <2>9
    <3>4. PICK k \in Nat : graph.reqs = running.reqs + 1 + k
      <4>1. graph.reqs - (running.reqs + 1) \in Nat BY <3>1, <3>3, <2>9
      <4> QED BY <4>1, <3>1, <2>9
    <3>5. graph.reqs * len = running.reqs * len + len + k * len BY <3>1, <3>4, <2>2
    <3>6. k * len \in Nat /\ running.reqs * len \in Nat BY <3>1, <2>2, TimesNat
    <3> QED BY <3>2, <3>5, <3>6, <2>2
  <2>11. graph = running BY <1>2, <1>4, <2>2, <2>9, <2>10
  <2> QED BY <2>11, <1>1, <1>2, <1>4 DEF Dispatched, graph
<1> QED BY <1>3, <1>4, <1>2

(***************************************************************************)
(* Captures and the tables.                                                *)
(***************************************************************************)
LEMMA BeginCaptures ==
  ASSUME CleanInv, Captures, NEW graph \in Keys(config), BeginCapture(graph)
  PROVE  Captures'
<1>1. /\ capture.running = NoGraph /\ graph \in Keys(config) \ capture.tried
      /\ capture' = [capture EXCEPT !.running = graph, !.tried = @ \cup {graph},
                                    !.saved = shared]
      /\ config' = config
  BY DEF BeginCapture
<1>2. DOMAIN capture = CaptureFields /\ DOMAIN shared = AttrFields BY DEF CleanInv, Shapes
<1>3. /\ capture'.running = graph /\ capture'.tried = capture.tried \cup {graph}
      /\ capture'.done = capture.done
  BY <1>1, <1>2 DEF CaptureFields
<1>4. /\ config \in Configs /\ capture.tried \subseteq Keys(config)
      /\ capture.done = capture.tried
  BY <1>1 DEF Captures
<1>5. graph # NoGraph BY <1>4, DescriptorFacts
<1>6. /\ graph.uniform => shared'.capture = Width(graph)
      /\ ~graph.uniform => shared'.stash = <<graph.tokens, graph.tokens, graph.reqs>>
  BY <1>2 DEF BeginCapture, AttrFields
<1> QED BY <1>1, <1>3, <1>4, <1>5, <1>6 DEF Captures

LEMMA EndCaptures ==
  ASSUME CleanInv, Captures, EndCapture
  PROVE  Captures'
<1> DEFINE ran == Dispatched(shared, capture.running.tokens, capture.running.uniform)
<1>1. /\ capture.running # NoGraph /\ config' = config
      /\ capture' = [capture EXCEPT !.running = NoGraph, !.done = @ \cup {ran.graph}]
  BY DEF EndCapture
<1>2. ran = [mode |-> "FULL", graph |-> capture.running] BY <1>1, CaptureSelects
<1>3. DOMAIN capture = CaptureFields BY DEF CleanInv, Shapes
<1> HIDE DEF ran
<1>4. /\ capture'.running = NoGraph /\ capture'.tried = capture.tried
      /\ capture'.done = capture.done \cup {capture.running}
  BY <1>1, <1>2, <1>3 DEF CaptureFields
<1> QED BY <1>1, <1>4 DEF Captures

LEMMA OtherCaptures ==
  ASSUME Captures, UNCHANGED <<config, capture>>, capture.running = NoGraph
  PROVE  Captures'
BY DEF Captures

LEMMA TasksTyped ==
  ASSUME config \in Configs, NEW graph \in Keys(config), NEW key
  PROVE  Tasks(graph, key) \in Seq(TaskSet)
<1> DEFINE gamma == Gamma(GraphLen(graph))
           first == IF TaskKey(graph, gamma, 1) = key THEN 1 ELSE 2
           last == IF TaskKey(graph, gamma, 2) = key THEN gamma ELSE 1
           rows == CaptureRows(graph, gamma)
           Task(step) == [graph |-> graph, step |-> step,
                          rows |-> IF step = 1 THEN graph.tokens ELSE rows]
           n == last - first + 1
<1>1. /\ graph.tokens \in Nat \ {0} /\ graph.reqs \in Nat \ {0}
      /\ graph.uniform => Width(graph) \in 3..8
  BY DescriptorFacts, ConfigFacts, DraftAssumption
<1>2. gamma \in Nat
  BY <1>1 DEF Gamma, GraphLen
<1>3. rows \in Nat \ {0} BY <1>1 DEF CaptureRows
<1>4. Tasks(graph, key) = [i \in 1..n |-> Task(first + i - 1)] BY DEF Tasks
<1>5. first \in {1, 2} /\ last \in Nat BY <1>2
<1> HIDE DEF gamma, first, last, rows
<1>6. \A i \in 1..n : first + i - 1 \in Nat \ {0} BY <1>5
<1>7. \A i \in 1..n : Task(first + i - 1) \in TaskSet BY <1>1, <1>3, <1>6 DEF TaskSet
<1>8. n \in Int BY <1>5
<1> HIDE DEF Task, n
<1>9. CASE n \in Nat BY <1>4, <1>7, <1>9
<1>10. CASE n \notin Nat
  <2>1. 1..n = {} BY <1>8, <1>10
  <2>2. Tasks(graph, key) = <<>> BY <1>4, <2>1
  <2> QED BY <2>2
<1> QED BY <1>9, <1>10

LEMMA EndCaptureRecords ==
  ASSUME CleanInv, Captures, RecordedTasks, EndCapture
  PROVE  RecordedTasks'
<1> DEFINE ran == Dispatched(shared, capture.running.tokens, capture.running.uniform)
<1>1. /\ capture.running # NoGraph /\ config' = config /\ tables' = Recorded(ran.graph)
  BY DEF EndCapture
<1>2. ran = [mode |-> "FULL", graph |-> capture.running] BY <1>1, CaptureSelects
<1> HIDE DEF ran
<1> DEFINE graph == capture.running
<1>3. graph \in Keys(config) /\ config \in Configs BY <1>1 DEF Captures
<1>4. tables' = Recorded(graph) BY <1>1, <1>2
<1> HIDE DEF graph
<1>5. ASSUME NEW key \in DOMAIN tables' PROVE tables'[key] \in Seq(TaskSet)
  <2>1. tables'[key] = (IF key \in DOMAIN tables THEN tables[key] ELSE <<>>)
                           \o Tasks(graph, key)
    BY <1>4, <1>5 DEF Recorded
  <2> DEFINE old == IF key \in DOMAIN tables THEN tables[key] ELSE <<>>
             new == Tasks(graph, key)
  <2>2. old \in Seq(TaskSet) /\ new \in Seq(TaskSet)
    BY <1>3, TasksTyped DEF RecordedTasks
  <2>3. tables'[key] = old \o new BY <2>1
  <2> HIDE DEF old, new
  <2> QED BY <2>2, <2>3
<1>6. TaskSet' = TaskSet BY <1>1 DEF TaskSet, Keys
<1> QED BY <1>5, <1>6 DEF RecordedTasks

LEMMA OtherRecords ==
  ASSUME RecordedTasks, UNCHANGED <<config, tables>>
  PROVE  RecordedTasks'
<1>1. TaskSet' = TaskSet BY DEF TaskSet, Keys
<1> QED BY <1>1 DEF RecordedTasks

(***************************************************************************)
(* The batch of a proposal.                                                *)
(***************************************************************************)
SameBatch ==
    /\ frame'.number = frame.number /\ frame'.batch = frame.batch /\ frame'.len = frame.len
    /\ frame'.kept = frame.kept /\ frame'.tokens = frame.tokens
    /\ frame'.uniform = frame.uniform /\ frame'.starts = frame.starts

LEMMA OtherBatches ==
  ASSUME Batches, SameBatch, config' = config, frame'.stage # "idle" => frame.stage # "idle"
  PROVE  Batches'
BY DEF Batches, SameBatch, Starts

\* Either way a host frame starts, its rows and its accepted counts fit.
LEMMA HostBatch ==
  ASSUME CleanInv, config \in Configs, UniformFrame \/ MixedFrame
  PROVE  \E batch \in 1..MaxSeqs, len \in config.lens, tokens \in Nat, uniform \in BOOLEAN,
            prefill \in BOOLEAN : \E kept \in [1..batch -> 1..4] :
             /\ HostFrame(batch, len, kept, tokens, uniform, prefill)
             /\ tokens >= batch
             /\ uniform => tokens = batch * len
<1>0. MaxSeqs \in Nat /\ config.lens \subseteq 3..8 BY ConfigFacts, DraftAssumption
<1>1. CASE UniformFrame
  <2>1. PICK batch \in 1..MaxSeqs, len \in config.lens :
            \E kept \in Accepted(batch) : HostFrame(batch, len, kept, batch * len, TRUE, FALSE)
    BY <1>1 DEF UniformFrame
  <2>2. PICK kept \in Accepted(batch) : HostFrame(batch, len, kept, batch * len, TRUE, FALSE)
    BY <2>1
  <2>3. kept \in [1..batch -> 1..4]
    <3>1. [row \in 1..batch |-> 1] \in [1..batch -> 1..4] OBVIOUS
    <3> QED BY <3>1, <2>2 DEF Accepted
  <2>4. batch * len \in Nat /\ batch * len >= batch
    <3>1. batch \in Nat /\ len - 1 \in Nat /\ len \in Nat BY <1>0
    <3>2. batch * (len - 1) \in Nat BY <3>1, TimesNat
    <3>3. batch * len = batch * (len - 1) + batch BY <3>1
    <3> QED BY <3>1, <3>2, <3>3
  <2>5. TRUE \in BOOLEAN OBVIOUS
  <2> QED BY <2>2, <2>3, <2>4, <2>5
<1>2. CASE MixedFrame
  <2>1. PICK batch \in 1..MaxSeqs, len \in config.lens, prefill \in BOOLEAN :
            \E tokens \in batch..(batch * len) :
                HostFrame(batch, len, [row \in 1..batch |-> 1], tokens, FALSE, prefill)
    BY <1>2 DEF MixedFrame
  <2>2. PICK tokens \in batch..(batch * len) :
            HostFrame(batch, len, [row \in 1..batch |-> 1], tokens, FALSE, prefill)
    BY <2>1
  <2>3. [row \in 1..batch |-> 1] \in [1..batch -> 1..4] OBVIOUS
  <2>4. tokens \in Nat /\ tokens >= batch
    <3>1. batch \in Nat /\ len \in Nat BY <1>0
    <3>2. batch * len \in Nat BY <3>1, TimesNat
    <3> QED BY <3>1, <3>2
  <2>5. FALSE \in BOOLEAN /\ ~FALSE OBVIOUS
  <2> QED BY <2>2, <2>3, <2>4, <2>5
<1> QED BY <1>1, <1>2

LEMMA HostFrameBatches ==
  ASSUME CleanInv, config \in Configs, Batches, NEW batch \in 1..MaxSeqs, NEW len \in config.lens,
         NEW tokens \in Nat, NEW uniform \in BOOLEAN, NEW prefill, NEW kept,
         HostFrame(batch, len, kept, tokens, uniform, prefill),
         kept \in [1..batch -> 1..4], tokens >= batch, uniform => tokens = batch * len
  PROVE  /\ Batches'
         /\ frame'.stage = "entered" /\ frame'.forwards = frame.forwards
         /\ frame'.uniform => frame'.tokens = frame'.batch * frame'.len
<1> DEFINE starts == [row \in 0..batch |-> IF uniform THEN row * len ELSE (row * tokens) \div batch]
<1>0. MaxSeqs \in Nat /\ config.lens \subseteq 3..8 BY ConfigFacts, DraftAssumption
<1>1. DOMAIN frame = FrameFields BY DEF CleanInv, Shapes
<1>2. Starts(starts, batch, tokens)
  <2>1. CASE uniform
    <3>1. starts = [row \in 0..batch |-> row * len] BY <2>1
    <3>2. batch \in Nat /\ len \in Nat BY <1>0
    <3>3. Starts([row \in 0..batch |-> row * len], batch, batch * len)
      BY <3>2, UniformStarts
    <3> HIDE DEF starts
    <3> QED BY <2>1, <3>1, <3>3
  <2>2. CASE ~uniform
    <3>1. starts = [row \in 0..batch |-> (row * tokens) \div batch] BY <2>2
    <3>2. batch \in Nat \ {0} BY <1>0
    <3>3. Starts([row \in 0..batch |-> (row * tokens) \div batch], batch, tokens)
      BY <3>2, MixedStarts
    <3> HIDE DEF starts
    <3> QED BY <3>1, <3>3
  <2> QED BY <2>1, <2>2
<1>3. /\ frame' = [frame EXCEPT !.stage = "entered", !.number = @ + 1,
                    !.batch = batch, !.len = len, !.kept = kept, !.tokens = tokens,
                    !.uniform = uniform, !.prefill = prefill, !.host = shared,
                    !.starts = starts]
      /\ frame.number < MaxFrames /\ config' = config
  BY DEF HostFrame
<1> HIDE DEF starts
<1>4. /\ frame'.stage = "entered" /\ frame'.number = frame.number + 1
      /\ frame'.batch = batch /\ frame'.len = len /\ frame'.kept = kept
      /\ frame'.tokens = tokens /\ frame'.uniform = uniform /\ frame'.starts = starts
      /\ frame'.forwards = frame.forwards
  BY <1>1, <1>3 DEF FrameFields
<1>5. frame'.number \in 0..MaxFrames
  BY <1>3, <1>4, DraftAssumption DEF Batches
<1>6. Batches' BY <1>2, <1>3, <1>4, <1>5 DEF Batches
<1> QED BY <1>4, <1>6

LEMMA LeastOfNaturals ==
  ASSUME NEW S \in SUBSET Nat, S # {}
  PROVE  Min(S) \in S /\ \A x \in S : Min(S) <= x
BY LeastMember DEF Min

\* The first pass leaves the batch alone or drops its rejected rows.
Drops ==
    /\ frame'.tokens = Compacted /\ frame'.starts = KeptBefore
    /\ frame.len = 4 /\ frame.batch = MaxSeqs
    /\ \E bucket \in config.firsts :
           /\ bucket >= Compacted /\ bucket < frame.tokens
           /\ shared' = [shared EXCEPT !.stash = <<Compacted, bucket, frame.batch>>]

LEMMA FirstPassFrame ==
  ASSUME CleanInv, config \in Configs, NEW ready \in BOOLEAN, FirstPass(ready)
  PROVE  /\ frame.stage = "inputs" /\ frame'.stage = "dispatch"
         /\ UNCHANGED <<config, tables, widths, splits, capture>>
         /\ frame'.path = frame.path /\ frame'.forwards = frame.forwards
         /\ frame'.batch = frame.batch /\ frame'.len = frame.len
         /\ frame'.uniform = frame.uniform /\ frame'.number = frame.number
         /\ frame'.kept = frame.kept
         /\ (SameBatch /\ shared' = shared) \/ Drops
<1> DEFINE buckets == {bucket \in config.firsts : bucket >= Compacted /\ bucket < frame.tokens}
<1>1. DOMAIN frame = FrameFields BY DEF CleanInv, Shapes
<1>2. frame.stage = "inputs" /\ UNCHANGED <<config, tables, widths, splits, capture>>
  BY DEF FirstPass
<1>3. \/ frame' = [frame EXCEPT !.stage = "dispatch"] /\ shared' = shared
      \/ /\ frame' = [frame EXCEPT !.stage = "dispatch", !.tokens = Compacted,
                                    !.starts = KeptBefore]
         /\ shared' = [shared EXCEPT !.stash = <<Compacted, Min(buckets), frame.batch>>]
         /\ frame.len = 4 /\ frame.batch = MaxSeqs /\ buckets # {}
  BY DEF FirstPass
<1>4. CASE frame' = [frame EXCEPT !.stage = "dispatch"] /\ shared' = shared
  BY <1>1, <1>2, <1>4 DEF FrameFields, SameBatch
<1>5. CASE /\ frame' = [frame EXCEPT !.stage = "dispatch", !.tokens = Compacted,
                                     !.starts = KeptBefore]
           /\ shared' = [shared EXCEPT !.stash = <<Compacted, Min(buckets), frame.batch>>]
           /\ frame.len = 4 /\ frame.batch = MaxSeqs /\ buckets # {}
  <2>1. buckets \in SUBSET Nat BY ConfigFacts
  <2>2. Min(buckets) \in buckets BY <1>5, <2>1, LeastOfNaturals
  <2>3. Drops
    <3>1. frame'.tokens = Compacted /\ frame'.starts = KeptBefore
      BY <1>1, <1>5 DEF FrameFields
    <3> QED BY <3>1, <2>2, <1>5 DEF Drops
  <2>4. /\ frame'.stage = "dispatch" /\ frame'.path = frame.path
        /\ frame'.forwards = frame.forwards /\ frame'.batch = frame.batch
        /\ frame'.len = frame.len /\ frame'.uniform = frame.uniform
        /\ frame'.number = frame.number /\ frame'.kept = frame.kept
    BY <1>1, <1>5 DEF FrameFields
  <2> QED BY <1>2, <2>3, <2>4
<1> QED BY <1>3, <1>4, <1>5

LEMMA FirstPassBatches ==
  ASSUME CleanInv, config \in Configs, Batches, NEW ready \in BOOLEAN, FirstPass(ready)
  PROVE  Batches'
<1>1. /\ frame.stage = "inputs" /\ frame'.stage = "dispatch" /\ config' = config
      /\ frame'.batch = frame.batch /\ frame'.len = frame.len
      /\ frame'.uniform = frame.uniform /\ frame'.number = frame.number
      /\ frame'.kept = frame.kept
      /\ SameBatch \/ Drops
  BY FirstPassFrame
<1>2. CASE SameBatch BY <1>1, <1>2, OtherBatches
<1>3. CASE Drops
  <2>1. frame.batch \in Nat /\ frame.kept \in [1..frame.batch -> 1..4]
    BY <1>1, DraftAssumption DEF Batches
  <2>2. /\ KeptBefore \in [0..frame.batch -> Nat]
        /\ \A row \in 1..frame.batch : KeptBefore[row - 1] < KeptBefore[row]
        /\ \A row \in 0..frame.batch : KeptBefore[row] >= row
    BY <2>1, KeptBeforeStarts
  <2> DEFINE starts == KeptBefore
             tokens == Compacted
  <2>3. starts[frame.batch] = tokens BY DEF Compacted
  <2>4. frame'.tokens = tokens /\ frame'.starts = starts BY <1>3 DEF Drops
  <2> HIDE DEF starts, tokens
  <2>5. /\ starts \in [0..frame.batch -> Nat]
        /\ \A row \in 1..frame.batch : starts[row - 1] < starts[row]
        /\ \A row \in 0..frame.batch : starts[row] >= row
    BY <2>2 DEF starts
  <2>6. Starts(starts, frame.batch, tokens)
    <3>1. \A row \in 1..frame.batch : starts[row - 1] <= starts[row]
      <4>1. \A row \in 1..frame.batch : row \in 0..frame.batch /\ row - 1 \in 0..frame.batch
        BY <2>1
      <4> QED BY <4>1, <2>5
    <3> QED BY <3>1, <2>3, <2>5 DEF Starts
  <2>7. frame.batch \in 0..frame.batch BY <2>1
  <2>8. tokens \in Nat /\ tokens >= frame.batch BY <2>3, <2>5, <2>7
  <2> QED BY <1>1, <2>4, <2>6, <2>8 DEF Batches
<1> QED BY <1>1, <1>2, <1>3

(* The steering. *)
LEMMA ProposeSteers ==
  ASSUME CleanInv, config \in Configs, Batches, Steering, Propose
  PROVE  /\ Steering' /\ SameBatch /\ frame'.stage = "inputs" /\ frame.stage = "entered"
         /\ UNCHANGED <<config, tables, widths, splits, capture>>
         /\ frame'.forwards = frame.forwards
<1>0. /\ frame.stage = "entered" /\ UNCHANGED <<config, tables, widths, splits, capture>>
  BY DEF Propose
<1>1. Bound(shared) /\ DOMAIN shared = AttrFields /\ DOMAIN frame = FrameFields
  BY <1>0 DEF CleanInv, Shapes, Proposing
<1>2. PICK path : /\ path \in {"merged", "force", "plain"}
                  /\ path = "force" => config.force
                  /\ frame' = [frame EXCEPT !.stage = "inputs", !.path = path, !.saved = shared]
                  /\ path = "merged" =>
                        shared' = [shared EXCEPT !.reqs = frame.batch, !.len = shared.runtime,
                                                 !.padding = TRUE]
                  /\ path = "force" =>
                        shared' = [shared EXCEPT !.reqs = frame.batch, !.len = shared.runtime,
                                                 !.padding = TRUE, !.piecewise = TRUE,
                                                 !.force = TRUE, !.runnable = "body"]
                  /\ path = "plain" =>
                        shared' = [shared EXCEPT !.dispatch = "nonuniform", !.piecewise = TRUE]
  BY DEF Propose
<1>3. /\ frame'.stage = "inputs" /\ frame'.path = path /\ SameBatch
      /\ frame'.forwards = frame.forwards
  BY <1>1, <1>2 DEF FrameFields, SameBatch
<1>4. /\ shared'.stash = shared.stash
      /\ path = "plain" => /\ shared'.reqs = shared.reqs /\ shared'.len = shared.len
                           /\ shared'.dispatch = "nonuniform"
      /\ path # "plain" => /\ shared'.reqs = frame.batch /\ shared'.len = shared.runtime
                           /\ shared'.dispatch = shared.dispatch
  <2>1. CASE path = "merged" BY <2>1, <1>1, <1>2, ZenonT(60) DEF AttrFields
  <2>2. CASE path = "force" BY <2>2, <1>1, <1>2, ZenonT(60) DEF AttrFields
  <2>3. CASE path = "plain" BY <2>3, <1>1, <1>2, ZenonT(60) DEF AttrFields
  <2> QED BY <2>1, <2>2, <2>3, <1>2
<1>5. /\ shared.reqs = Absent /\ shared.stash = <<>> /\ shared.dispatch = "host"
      /\ config.runtime => shared.len = 4 /\ shared.runtime = 4
      /\ ~config.runtime => shared.len = Absent /\ shared.runtime = Absent
  BY <1>1 DEF Bound
<1>6. config.runtime => config.lens = {4} BY ConfigFacts
<1>7. shared'.len = IF config.runtime THEN 4 ELSE Absent
  BY <1>2, <1>4, <1>5
<1>8. shared'.len \in {Absent} \cup config.lens BY <1>6, <1>7
<1>9. frame.uniform => frame.tokens = frame.batch * frame.len BY <1>0 DEF Steering
<1>10. Steering'
  BY <1>0, <1>2, <1>3, <1>4, <1>5, <1>7, <1>8, <1>9 DEF Steering, SameBatch, Middle
<1> QED BY <1>0, <1>3, <1>10

LEMMA FirstPassSteers ==
  ASSUME CleanInv, config \in Configs, Batches, Steering, NEW ready \in BOOLEAN, FirstPass(ready)
  PROVE  Steering'
<1>1. /\ frame.stage = "inputs" /\ frame'.stage = "dispatch" /\ config' = config
      /\ frame'.path = frame.path
      /\ frame'.batch = frame.batch /\ frame'.len = frame.len
      /\ frame'.uniform = frame.uniform
      /\ (SameBatch /\ shared' = shared) \/ Drops
  BY FirstPassFrame
<1>2. DOMAIN shared = AttrFields BY DEF CleanInv, Shapes
<1>3. CASE SameBatch /\ shared' = shared
  BY <1>1, <1>3 DEF Steering, SameBatch, Middle
<1>4. CASE Drops
  <2>1. PICK bucket \in config.firsts :
            /\ bucket >= Compacted /\ bucket < frame.tokens
            /\ shared' = [shared EXCEPT !.stash = <<Compacted, bucket, frame.batch>>]
    BY <1>4 DEF Drops
  <2>2. frame'.tokens = Compacted /\ frame.len = 4 /\ frame.batch = MaxSeqs
    BY <1>4 DEF Drops
  <2>3. /\ shared'.stash = <<frame'.tokens, bucket, frame.batch>>
        /\ shared'.reqs = shared.reqs /\ shared'.len = shared.len
        /\ shared'.dispatch = shared.dispatch
    BY <2>1, <2>2, <1>2 DEF AttrFields
  <2>4. shared'.stash # <<>> BY <2>3
  <2> QED BY <1>1, <2>1, <2>2, <2>3, <2>4 DEF Steering, Middle
<1> QED BY <1>1, <1>3, <1>4

\* A step inside the proposal that leaves the steering to be.
LEMMA OtherSteering ==
  ASSUME Steering, SameBatch, frame'.path = frame.path, UNCHANGED <<config, shared>>,
         frame.stage \in Late, frame'.stage \in Late
  PROVE  Steering'
BY DEF Steering, SameBatch, Middle, Late

LEMMA OutsideSteering ==
  ASSUME frame'.stage \in {"idle", "left"}
  PROVE  Steering'
BY DEF Steering, Middle

(***************************************************************************)
(* Dispatch.                                                               *)
(***************************************************************************)
LEMMA DispatchFrame ==
  ASSUME CleanInv, Dispatch, NEW chosen,
         chosen = Dispatched(shared, frame.tokens, frame.uniform)
  PROVE  /\ frame.stage = "dispatch" /\ frame'.stage = "pad" /\ SameBatch
         /\ frame'.path = frame.path /\ frame'.forwards = frame.forwards
         /\ frame'.mode = chosen.mode /\ frame'.graph = chosen.graph
         /\ shared' = Remembered(shared, frame.tokens)
         /\ UNCHANGED <<config, tables, widths, splits, capture>>
<1>1. DOMAIN frame = FrameFields BY DEF CleanInv, Shapes
<1>2. /\ frame.stage = "dispatch" /\ shared' = Remembered(shared, frame.tokens)
      /\ UNCHANGED <<config, tables, widths, splits, capture>>
      /\ frame' = [frame EXCEPT !.stage = "pad", !.mode = chosen.mode, !.graph = chosen.graph,
                                !.rows = frame.starts]
  BY DEF Dispatch
<1> QED BY <1>1, <1>2 DEF FrameFields, SameBatch

\* The length a proposal's dispatch works with.
LEMMA LengthOfBatch ==
  ASSUME CleanInv, config \in Configs, Batches, Steering, frame.stage = "dispatch"
  PROVE  /\ QueryLen(shared, frame.tokens) \in {Absent} \cup config.lens
         /\ config.runtime => QueryLen(shared, frame.tokens) = 4
         /\ frame.uniform /\ frame.path # "plain" /\ shared.stash = <<>> =>
                QueryLen(shared, frame.tokens) = frame.len
<1>1. shared.capture = Absent
  BY DEF CleanInv, Proposing, Middle, SameCapture, Native
<1>2. /\ shared.len \in {Absent} \cup config.lens
      /\ config.runtime => shared.len = 4
      /\ ~config.runtime => shared.len = Absent
      /\ frame.path # "plain" => shared.reqs = frame.batch
      /\ shared.stash = <<>> /\ frame.uniform => frame.tokens = frame.batch * frame.len
  BY DEF Steering, Middle
<1>3. frame.batch \in Nat \ {0} /\ frame.len \in config.lens
  BY DraftAssumption DEF Batches, Middle
<1>4. config.lens \subseteq 3..8 /\ (config.runtime => config.lens = {4}) BY ConfigFacts
<1>5. CASE shared.len # Absent
  BY <1>1, <1>2, <1>3, <1>4, <1>5 DEF QueryLen
<1>6. CASE shared.len = Absent
  <2>1. ~config.runtime BY <1>2, <1>6 DEF Absent
  <2>2. QueryLen(shared, frame.tokens) =
            IF shared.reqs > 0 /\ frame.tokens % shared.reqs = 0
                  /\ frame.tokens \div shared.reqs \in config.lens
            THEN frame.tokens \div shared.reqs ELSE Absent
    BY <1>1, <1>6 DEF QueryLen
  <2>3. ASSUME frame.uniform, frame.path # "plain", shared.stash = <<>>
        PROVE  QueryLen(shared, frame.tokens) = frame.len
    <3>1. shared.reqs = frame.batch /\ frame.tokens = frame.batch * frame.len
      BY <1>2, <2>3
    <3> DEFINE batch == frame.batch
               len == frame.len
    <3>2. batch \in Nat \ {0} /\ len \in Nat /\ len \in config.lens BY <1>3, <1>4
    <3> HIDE DEF batch, len
    <3>3. (len * batch) % batch = 0 /\ (batch * len) \div batch = len /\ batch * len = len * batch
      BY <3>2, ExactDivision
    <3>4. frame.tokens % shared.reqs = 0 /\ frame.tokens \div shared.reqs = len
      BY <3>1, <3>3 DEF batch, len
    <3>5. shared.reqs > 0 BY <3>1, <3>2 DEF batch
    <3> QED BY <2>2, <3>2, <3>4, <3>5 DEF len
  <2> QED BY <2>1, <2>2, <2>3
<1> QED BY <1>5, <1>6

LEMMA DispatchSteers ==
  ASSUME CleanInv, config \in Configs, Batches, Steering, Dispatch
  PROVE  Steering'
<1> DEFINE chosen == Dispatched(shared, frame.tokens, frame.uniform)
<1>1. /\ frame.stage = "dispatch" /\ frame'.stage = "pad" /\ SameBatch
      /\ frame'.path = frame.path /\ shared' = Remembered(shared, frame.tokens)
      /\ config' = config
  BY DispatchFrame
<1>2. DOMAIN shared = AttrFields BY DEF CleanInv, Shapes
<1>3. /\ shared'.reqs = shared.reqs /\ shared'.stash = shared.stash
      /\ shared'.dispatch = shared.dispatch
      /\ shared'.len \in {shared.len, QueryLen(shared, frame.tokens)}
  BY <1>1, <1>2 DEF Remembered, AttrFields
<1>4. /\ QueryLen(shared, frame.tokens) \in {Absent} \cup config.lens
      /\ config.runtime => QueryLen(shared, frame.tokens) = 4
  BY <1>1, LengthOfBatch
<1>5. /\ shared.len \in {Absent} \cup config.lens /\ (config.runtime => shared.len = 4)
  BY <1>1 DEF Steering, Middle
<1>6. /\ shared'.len \in {Absent} \cup config.lens /\ (config.runtime => shared'.len = 4)
  BY <1>3, <1>4, <1>5
<1> QED BY <1>1, <1>3, <1>6 DEF Steering, SameBatch, Middle

LEMMA FirstIsKey ==
  ASSUME NEW bucket \in config.firsts
  PROVE  Graph(bucket, MaxSeqs, FALSE) \in Keys(config)
<1> DEFINE graph == Graph(bucket, MaxSeqs, FALSE)
           firsts == {Graph(b, MaxSeqs, FALSE) : b \in config.firsts}
           uniforms == {Graph(reqs * len, reqs, TRUE) : reqs \in Buckets, len \in config.lens}
<1>1. graph \in firsts BY Zenon
<1>2. Keys(config) = uniforms \cup firsts BY DEF Keys
<1> HIDE DEF graph, firsts, uniforms
<1>3. graph \in Keys(config) BY <1>1, <1>2
<1> QED BY <1>3 DEF graph

LEMMA DispatchChooses ==
  ASSUME CleanInv, config \in Configs, Batches, Steering, Dispatch
  PROVE  Chosen'
<1> DEFINE chosen == Dispatched(shared, frame.tokens, frame.uniform)
           asked == frame.uniform /\ shared.dispatch = "host"
           graph == Selected(shared, frame.tokens, asked)
<1>1. /\ frame.stage = "dispatch" /\ frame'.stage = "pad" /\ SameBatch
      /\ frame'.mode = chosen.mode /\ frame'.graph = chosen.graph
      /\ shared' = Remembered(shared, frame.tokens) /\ config' = config
  BY DispatchFrame
<1>2. DOMAIN shared = AttrFields BY DEF CleanInv, Shapes
<1>3. shared'.stash = shared.stash
  BY <1>1, <1>2 DEF Remembered, AttrFields
<1>4. chosen = IF graph # NoGraph THEN [mode |-> "FULL", graph |-> graph]
               ELSE HostDispatch(frame.tokens)
  BY DEF Dispatched
<1> HIDE DEF chosen
<1>5. /\ frame.batch \in 1..MaxSeqs /\ frame.len \in config.lens
      /\ frame.tokens \in Nat
  BY <1>1 DEF Batches
<1>5a. Keys(config)' = Keys(config) BY <1>1 DEF Keys
<1>6. CASE graph = NoGraph
  <2>1. frame'.mode # "FULL" /\ frame'.graph = Graph(PiecewiseBucket(frame.tokens), Absent, FALSE)
    BY <1>1, <1>4, <1>6 DEF HostDispatch
  <2> QED BY <2>1, <1>1 DEF Chosen, SameBatch, PiecewiseBucket
<1>7. CASE graph # NoGraph /\ shared.stash # <<>>
  <2>1. PICK bucket \in config.firsts :
            /\ bucket >= frame.tokens
            /\ shared.stash = <<frame.tokens, bucket, frame.batch>>
    BY <1>1, <1>7 DEF Steering, Middle
  <2>2. frame.batch = MaxSeqs BY <1>1, <1>7 DEF Steering, Middle
  <2>3. StashHit(shared, frame.tokens) BY <1>7, <2>1 DEF StashHit
  <2>4. graph = Graph(bucket, MaxSeqs, FALSE) BY <2>1, <2>2, <2>3 DEF Selected
  <2> HIDE DEF graph
  <2>5. frame'.graph = Graph(bucket, MaxSeqs, FALSE) BY <1>1, <1>4, <1>7, <2>4
  <2>6. frame'.graph \in Keys(config)
    BY <2>5, FirstIsKey
  <2>7. /\ frame'.graph.tokens = bucket /\ frame'.graph.reqs = MaxSeqs
        /\ frame'.graph.uniform = FALSE
    BY <2>5 DEF Graph
  <2>8. frame'.graph.reqs >= frame.batch BY <2>2, <2>7, DraftAssumption
  <2> QED
    <3>1. (Covers(frame.graph))'
      BY <1>1, <1>3, <1>7, <1>5a, <2>1, <2>6, <2>7, <2>8 DEF Covers, SameBatch
    <3>2. frame'.mode = "FULL" BY <1>1, <1>4, <1>7
    <3> QED BY <3>1, <3>2 DEF Chosen
<1>8. CASE graph # NoGraph /\ shared.stash = <<>>
  <2> DEFINE len == QueryLen(shared, frame.tokens)
  <2>1. ~StashHit(shared, frame.tokens) BY <1>8 DEF StashHit
  <2>2. graph \in Keys(config) /\ Fits(graph, frame.tokens, len) /\ asked
    BY <1>8, <2>1, SelectedFits
  <2>3. frame.uniform /\ frame.path # "plain" BY <1>1, <2>2 DEF Steering, Middle
  <2>4. len = frame.len BY <1>1, <1>8, <2>3, LengthOfBatch
  <2>5. frame.tokens = frame.batch * frame.len BY <1>1, <1>8, <2>3 DEF Steering, Middle
  <2> HIDE DEF graph, len
  <2>6. frame.batch \in Nat \ {0} /\ frame.len \in Nat \ {0}
    BY <1>5, ConfigFacts, DraftAssumption
  <2>7. frame.tokens \div frame.len = frame.batch BY <2>5, <2>6, ExactDivision
  <2>8. /\ graph.uniform /\ graph.reqs >= frame.batch /\ graph.tokens = graph.reqs * frame.len
    BY <2>2, <2>4, <2>7 DEF Fits
  <2>9. graph.reqs \in Nat BY <2>2, DescriptorFacts, DraftAssumption
  <2>10. graph.tokens >= frame.tokens
    <3>1. PICK k \in Nat : graph.reqs = frame.batch + k
      <4>1. graph.reqs - frame.batch \in Nat BY <2>6, <2>8, <2>9
      <4> QED BY <4>1, <2>6, <2>9
    <3>2. graph.reqs * frame.len = frame.batch * frame.len + k * frame.len
      BY <3>1, <2>6
    <3>3. k * frame.len \in Nat /\ frame.batch * frame.len \in Nat BY <3>1, <2>6, TimesNat
    <3> QED BY <3>2, <3>3, <2>5, <2>8
  <2>11. frame'.graph = graph /\ frame'.mode = "FULL" BY <1>1, <1>4, <1>8
  <2>12. Covers(frame.graph)'
    BY <1>1, <1>5a, <2>2, <2>8, <2>10, <2>11 DEF Covers, SameBatch
  <2> QED BY <2>11, <2>12 DEF Chosen
<1> QED BY <1>6, <1>7, <1>8

LEMMA OtherChosen ==
  ASSUME Chosen, SameBatch, frame'.mode = frame.mode, frame'.graph = frame.graph,
         UNCHANGED <<config, shared>>, frame.stage \in Late
  PROVE  Chosen'
<1>1. Keys(config)' = Keys(config) BY DEF Keys
<1>2. Covers(frame.graph) => Covers(frame.graph)' BY <1>1 DEF Covers, SameBatch
<1> QED BY <1>2 DEF Chosen, SameBatch, PiecewiseBucket

LEMMA OutsideChosen ==
  ASSUME frame'.stage \notin Late
  PROVE  Chosen'
BY DEF Chosen

(***************************************************************************)
(* Padding, and the forwards outside a graph.                              *)
(***************************************************************************)
LEMMA PadPads ==
  ASSUME CleanInv, Captures, Batches, Chosen, Pad
  PROVE  /\ PaddingKeepsRows' /\ SameBatch /\ UNCHANGED <<config, tables, widths, splits, shared, capture>>
         /\ frame.stage = "pad" /\ frame'.stage = "metadata"
         /\ frame'.mode = frame.mode /\ frame'.graph = frame.graph
         /\ frame'.path = frame.path /\ frame'.forwards = frame.forwards
<1> DEFINE pads == shared.padding /\ frame.mode = "FULL"
           rows == IF pads THEN Spread(frame.starts, frame.batch, frame.graph.tokens,
                                       frame.graph.reqs)
                           ELSE frame.starts
<1>1. DOMAIN frame = FrameFields BY DEF CleanInv, Shapes
<1>2. /\ frame.stage = "pad" /\ UNCHANGED <<config, tables, widths, splits, shared, capture>>
      /\ pads => frame.batch <= frame.graph.reqs /\ frame.tokens <= frame.graph.tokens
      /\ frame' = [frame EXCEPT !.stage = "metadata", !.rows = rows]
  BY DEF Pad
<1>3. /\ frame.batch \in Nat \ {0} /\ frame.tokens \in Nat
      /\ Starts(frame.starts, frame.batch, frame.tokens)
  BY <1>2, DraftAssumption DEF Batches
<1> HIDE DEF rows
<1>4. /\ frame'.stage = "metadata" /\ frame'.rows = rows /\ SameBatch
      /\ frame'.mode = frame.mode /\ frame'.graph = frame.graph
      /\ frame'.path = frame.path /\ frame'.forwards = frame.forwards
  BY <1>1, <1>2 DEF FrameFields, SameBatch
<1>5. CASE pads
  <2>1. frame.graph \in Keys(config) /\ config \in Configs
    BY <1>2, <1>5 DEF Chosen, Covers, Late, Captures
  <2>2. frame.graph.tokens \in Nat /\ frame.graph.reqs \in Nat
    BY <2>1, DescriptorFacts, DraftAssumption
  <2>3. rows = Spread(frame.starts, frame.batch, frame.graph.tokens, frame.graph.reqs)
    BY <1>5 DEF rows
  <2>4. /\ DOMAIN rows = 0..frame.graph.reqs /\ rows[frame.graph.reqs] = frame.graph.tokens
        /\ \A row \in 0..(frame.batch - 1) : rows[row] = frame.starts[row]
        /\ \A row \in 1..frame.graph.reqs : rows[row] >= rows[row - 1]
    BY <1>2, <1>3, <1>5, <2>2, <2>3, SpreadKeeps, SMTT(30)
  <2>5. DOMAIN rows \ {0} = 1..frame.graph.reqs BY <2>2, <2>4
  <2>6. PaddingKeepsRows' BY <1>2, <1>4, <2>4, <2>5 DEF PaddingKeepsRows, SameBatch
  <2> QED BY <1>2, <1>4, <2>6
<1>6. CASE ~pads
  <2>1. rows = frame.starts BY <1>6 DEF rows
  <2> DEFINE starts == frame.starts
             batch == frame.batch
  <2>2. /\ starts \in [0..batch -> Nat] /\ batch \in Nat \ {0}
        /\ \A row \in 1..batch : starts[row - 1] <= starts[row]
    BY <1>3 DEF Starts
  <2> HIDE DEF starts, batch
  <2>3. DOMAIN starts \ {0} = 1..batch BY <2>2
  <2>4. \A row \in 1..batch : starts[row] >= starts[row - 1]
    <3>1. \A row \in 1..batch : row \in 0..batch /\ row - 1 \in 0..batch BY <2>2
    <3> QED BY <2>2, <3>1
  <2>5. \A row \in DOMAIN rows \ {0} : rows[row] >= rows[row - 1]
    BY <2>1, <2>3, <2>4 DEF starts
  <2>6. ~(shared.padding /\ frame.mode = "FULL")' BY <1>2, <1>4, <1>6
  <2>7. PaddingKeepsRows' BY <1>4, <2>1, <2>5, <2>6 DEF PaddingKeepsRows, SameBatch
  <2> QED BY <1>2, <1>4, <2>7
<1> QED BY <1>5, <1>6

LEMMA OtherPadding ==
  ASSUME PaddingKeepsRows, SameBatch, shared' = shared,
         frame'.rows = frame.rows, frame'.mode = frame.mode, frame'.graph = frame.graph,
         frame.stage \in {"metadata", "run", "ran"}
  PROVE  PaddingKeepsRows'
BY DEF PaddingKeepsRows, SameBatch

LEMMA OutsidePadding ==
  ASSUME frame'.stage \notin {"metadata", "run", "ran"}
  PROVE  PaddingKeepsRows'
BY DEF PaddingKeepsRows

LEMMA PiecewiseFacts ==
  ASSUME NEW tokens \in Nat
  PROVE  /\ PiecewiseBucket(tokens) \in Nat /\ PiecewiseBucket(tokens) >= tokens
         /\ (\E size \in HostSizes : size >= tokens) => PiecewiseBucket(tokens) \in HostSizes
<1> DEFINE sizes == {size \in HostSizes : size >= tokens}
<1>1. sizes \in SUBSET Nat BY DraftAssumption
<1>2. CASE sizes = {} BY <1>2 DEF PiecewiseBucket
<1>3. CASE sizes # {}
  <2>1. Min(sizes) \in sizes BY <1>1, <1>3, LeastOfNaturals
  <2>2. PiecewiseBucket(tokens) = Min(sizes) BY <1>3 DEF PiecewiseBucket
  <2> QED BY <2>1, <2>2, DraftAssumption
<1> QED BY <1>2, <1>3

LEMMA ForwardOfCovers ==
  ASSUME CleanInv, Captures, Batches, Steering, Chosen, frame.stage = "run",
         NEW step \in Nat \ {0}
  PROVE  /\ ForwardOf(step) \in [mode : {"outer", "PIECEWISE"}, rows : Nat]
         /\ ForwardOf(step).rows >= RowsOf(step)
         /\ ForcedSizesCaptured => ForwardCovers(ForwardOf(step), step)
<1> DEFINE gamma == Gamma(frame.len)
           graph == frame.graph
           rows == IF step = 1 THEN graph.tokens ELSE frame.batch
           forced == shared.force /\ frame.mode = "FULL"
           chosen == Dispatched(shared, rows, FALSE)
<1>1. /\ frame.batch \in Nat /\ frame.tokens \in Nat /\ frame.tokens >= frame.batch
      /\ config \in Configs
  BY DraftAssumption DEF Batches, Captures
<1>2. /\ graph.tokens \in Nat /\ graph.tokens >= frame.tokens
      /\ frame.mode = "FULL" => /\ graph.reqs \in Nat /\ graph.reqs >= frame.batch
                                /\ graph \in Keys(config)
      /\ frame.mode # "FULL" => graph.reqs = Absent
  <2>1. CASE frame.mode = "FULL"
    <3>1. Covers(graph) BY <2>1 DEF Chosen, Late
    <3>2. graph.tokens \in Nat /\ graph.reqs \in Nat
      BY <3>1, <1>1, DescriptorFacts, DraftAssumption DEF Covers
    <3> QED BY <2>1, <3>1, <3>2 DEF Covers
  <2>2. CASE frame.mode # "FULL"
    <3>1. graph = Graph(PiecewiseBucket(frame.tokens), Absent, FALSE)
      BY <2>2 DEF Chosen, Late
    <3>2. graph.tokens = PiecewiseBucket(frame.tokens) /\ graph.reqs = Absent
      BY <3>1 DEF Graph
    <3> QED BY <2>2, <3>2, <1>1, PiecewiseFacts
  <2> QED BY <2>1, <2>2
<1>3. shared.force => config.force
  BY DEF CleanInv, Proposing, Steering, Middle
<1>4. rows \in Nat /\ rows >= RowsOf(step) /\ rows <= graph.tokens BY <1>1, <1>2 DEF RowsOf
<1>5. graph.tokens >= RowsOf(step) BY <1>1, <1>2 DEF RowsOf
<1> DEFINE outer(n) == [mode |-> "outer", rows |-> n]
           good(f) == /\ f \in [mode : {"outer", "PIECEWISE"}, rows : Nat]
                      /\ f.rows >= RowsOf(step)
                      /\ ForcedSizesCaptured => ForwardCovers(f, step)
<1>6. \A n \in Nat : n >= RowsOf(step) => good(outer(n)) BY DEF ForwardCovers
<1>7. ASSUME forced PROVE good([mode |-> "PIECEWISE", rows |-> PiecewiseBucket(rows)])
  <2>1. PiecewiseBucket(rows) \in Nat /\ PiecewiseBucket(rows) >= rows
    BY <1>4, PiecewiseFacts
  <2>2. ASSUME ForcedSizesCaptured PROVE PiecewiseBucket(rows) \in HostSizes
    <3>1. PICK size \in HostSizes : size >= graph.tokens
      BY <1>1, <1>2, <1>3, <1>7, <2>2 DEF ForcedSizesCaptured
    <3>2. size >= rows BY <3>1, <1>2, <1>4, DraftAssumption
    <3> QED BY <3>2, <1>4, PiecewiseFacts
  <2>3. PiecewiseBucket(rows) >= RowsOf(step)
    <3>1. RowsOf(step) \in Nat BY <1>1 DEF RowsOf
    <3> QED BY <2>1, <3>1, <1>4
  <2> QED BY <2>1, <2>2, <2>3 DEF ForwardCovers
<1>8. ASSUME step # 1, chosen.mode = "PIECEWISE"
      PROVE  good([mode |-> "PIECEWISE", rows |-> chosen.graph.tokens])
  <2>1. chosen = HostDispatch(rows) BY <1>8 DEF Dispatched
  <2>2. /\ chosen.graph.tokens = PiecewiseBucket(rows)
        /\ \E size \in HostSizes : size >= rows
    <3> HIDE DEF chosen, rows
    <3>1. /\ chosen.mode = IF \E size \in HostSizes : size >= rows THEN "PIECEWISE" ELSE "NONE"
          /\ chosen.graph = Graph(PiecewiseBucket(rows), Absent, FALSE)
      BY <2>1 DEF HostDispatch
    <3>2. chosen.graph.tokens = PiecewiseBucket(rows) BY <3>1 DEF Graph
    <3>3. \E size \in HostSizes : size >= rows BY <3>1, <1>8
    <3> QED BY <3>2, <3>3
  <2> HIDE DEF chosen, rows
  <2>3. /\ PiecewiseBucket(rows) \in Nat /\ PiecewiseBucket(rows) >= rows
        /\ PiecewiseBucket(rows) \in HostSizes
    BY <2>2, <1>4, PiecewiseFacts
  <2>4. RowsOf(step) \in Nat BY <1>1 DEF RowsOf
  <2> QED BY <2>2, <2>3, <2>4, <1>4 DEF ForwardCovers
<1>9. graph.reqs # Absent => graph.reqs \in Nat /\ graph.reqs >= frame.batch BY <1>2
<1>10. good(ForwardOf(step))
  <2> HIDE DEF good
  <2>1. CASE SerialPath(gamma)
    <3> DEFINE n == IF step = 1 \/ ~(UnifiedPath(gamma) \/ SplitPath(gamma)) THEN graph.tokens
                    ELSE IF graph.reqs # Absent THEN graph.reqs ELSE frame.batch
    <3>1. ForwardOf(step) = outer(n) BY <2>1 DEF ForwardOf
    <3>2. n \in Nat /\ n >= RowsOf(step) BY <1>1, <1>2, <1>5, <1>9 DEF RowsOf
    <3> QED BY <3>1, <3>2, <1>6
  <2>2. CASE ~SerialPath(gamma) /\ ~shared.piecewise
    <3>1. ForwardOf(step) = outer(graph.tokens) BY <2>2 DEF ForwardOf
    <3> QED BY <3>1, <1>2, <1>5, <1>6
  <2>3. CASE ~SerialPath(gamma) /\ shared.piecewise
    <3>1. CASE step = 1 /\ ~forced
      <4>1. ForwardOf(step) = outer(rows) BY <2>3, <3>1 DEF ForwardOf
      <4> QED BY <4>1, <1>4, <1>6
    <3>2. CASE forced
      <4>1. ForwardOf(step) = [mode |-> "PIECEWISE", rows |-> PiecewiseBucket(rows)]
        BY <2>3, <3>2 DEF ForwardOf
      <4> QED BY <4>1, <3>2, <1>7
    <3>3. CASE step # 1 /\ ~forced /\ chosen.mode # "PIECEWISE"
      <4>1. ForwardOf(step) = outer(rows) BY <2>3, <3>3 DEF ForwardOf
      <4> QED BY <4>1, <1>4, <1>6
    <3>4. CASE step # 1 /\ ~forced /\ chosen.mode = "PIECEWISE"
      <4>1. ForwardOf(step) = [mode |-> "PIECEWISE", rows |-> chosen.graph.tokens]
        BY <2>3, <3>4 DEF ForwardOf
      <4> QED BY <4>1, <3>4, <1>8
    <3> QED BY <3>1, <3>2, <3>3, <3>4
  <2> QED BY <2>1, <2>2, <2>3
<1> QED BY <1>10

(***************************************************************************)
(* Every step keeps the invariant.                                         *)
(***************************************************************************)
DraftInv == /\ CleanInv /\ Captures /\ Batches /\ Steering /\ Chosen /\ Forwards
            /\ RecordedTasks /\ PaddingKeepsRows

LEMMA ForwardFrame ==
  ASSUME DraftInv, Forward
  PROVE  /\ frame.stage = "run" /\ frame'.stage \in {"run", "ran"} /\ SameBatch
         /\ frame'.path = frame.path /\ frame'.mode = frame.mode /\ frame'.graph = frame.graph
         /\ frame'.rows = frame.rows
         /\ frame'.forwards = Append(frame.forwards, ForwardOf(frame.step))
         /\ Forwards'
         /\ UNCHANGED <<config, tables, widths, splits, shared, capture>>
<1> DEFINE stage == IF frame.step = Gamma(frame.len) THEN "ran" ELSE "run"
           forward == ForwardOf(frame.step)
<1>1. DOMAIN frame = FrameFields BY DEF DraftInv, CleanInv, Shapes
<1>2. /\ frame.stage = "run" /\ UNCHANGED <<config, tables, widths, splits, shared, capture>>
      /\ frame' = [frame EXCEPT !.stage = stage, !.step = @ + 1,
                                !.forwards = Append(@, forward)]
  BY DEF Forward
<1>3. stage \in {"run", "ran"} OBVIOUS
<1>4. frame.step = Len(frame.forwards) + 1
      /\ frame.forwards \in Seq([mode : {"outer", "PIECEWISE"}, rows : Nat])
  BY <1>2 DEF DraftInv, Forwards
<1>5. frame.step \in Nat \ {0} BY <1>4
<1>6. forward \in [mode : {"outer", "PIECEWISE"}, rows : Nat]
  BY <1>2, <1>5, ForwardOfCovers DEF DraftInv
<1> HIDE DEF stage, forward
<1>7. /\ frame'.stage = stage /\ SameBatch /\ frame'.path = frame.path
      /\ frame'.mode = frame.mode /\ frame'.graph = frame.graph /\ frame'.rows = frame.rows
      /\ frame'.step = frame.step + 1
      /\ frame'.forwards = Append(frame.forwards, forward)
  BY <1>1, <1>2 DEF FrameFields, SameBatch
<1>8. /\ frame'.forwards \in Seq([mode : {"outer", "PIECEWISE"}, rows : Nat])
      /\ Len(frame'.forwards) = Len(frame.forwards) + 1
  BY <1>4, <1>6, <1>7
<1>9. Forwards' BY <1>3, <1>4, <1>7, <1>8 DEF Forwards
<1> QED BY <1>2, <1>3, <1>7, <1>9 DEF forward

LEMMA MetadataFrame ==
  ASSUME DraftInv, Metadata \/ Replay
  PROVE  /\ frame.stage \in {"metadata", "run"} /\ frame'.stage \in {"run", "ran"} /\ SameBatch
         /\ frame'.path = frame.path /\ frame'.mode = frame.mode /\ frame'.graph = frame.graph
         /\ frame'.rows = frame.rows /\ frame'.forwards = frame.forwards
         /\ Forwards'
         /\ UNCHANGED <<config, tables, widths, splits, shared, capture>>
<1>1. DOMAIN frame = FrameFields BY DEF DraftInv, CleanInv, Shapes
<1>2. CASE Metadata
  <2>1. /\ frame.stage = "metadata" /\ UNCHANGED <<config, tables, widths, splits, shared, capture>>
        /\ \E metas : frame' = [frame EXCEPT !.stage = "run", !.step = 1, !.metas = metas]
    BY <1>2 DEF Metadata
  <2>2. /\ frame'.stage = "run" /\ frame'.step = 1 /\ SameBatch /\ frame'.path = frame.path
        /\ frame'.mode = frame.mode /\ frame'.graph = frame.graph /\ frame'.rows = frame.rows
        /\ frame'.forwards = frame.forwards
    BY <1>1, <2>1 DEF FrameFields, SameBatch
  <2>3. frame.forwards = <<>> BY <2>1 DEF DraftInv, Forwards
  <2>4. Forwards' BY <2>2, <2>3 DEF Forwards
  <2> QED BY <2>1, <2>2, <2>4
<1>3. CASE Replay
  <2>1. /\ frame.stage = "run" /\ UNCHANGED <<config, tables, widths, splits, shared, capture>>
        /\ \E updates : frame' = [frame EXCEPT !.stage = "ran", !.updates = updates]
    BY <1>3 DEF Replay
  <2>2. /\ frame'.stage = "ran" /\ SameBatch /\ frame'.path = frame.path
        /\ frame'.mode = frame.mode /\ frame'.graph = frame.graph /\ frame'.rows = frame.rows
        /\ frame'.forwards = frame.forwards
    BY <1>1, <2>1 DEF FrameFields, SameBatch
  <2>3. Forwards' BY <2>2 DEF DraftInv, Forwards
  <2> QED BY <2>1, <2>2, <2>3
<1> QED BY <1>2, <1>3

LEMMA LeavingFrame ==
  ASSUME DraftInv, Return \/ Raise
  PROVE  /\ frame.stage \in Middle /\ frame'.stage = "left" /\ SameBatch
         /\ frame'.forwards = frame.forwards
         /\ UNCHANGED <<config, tables, widths, splits, capture>>
<1>1. DOMAIN frame = FrameFields BY DEF DraftInv, CleanInv, Shapes
<1>2. /\ frame.stage \in Middle /\ frame' = [frame EXCEPT !.stage = "left"]
      /\ UNCHANGED <<config, tables, widths, splits, capture>>
  BY DEF Return, Raise, Middle
<1> QED BY <1>1, <1>2 DEF FrameFields, SameBatch

LEMMA OtherForwards ==
  ASSUME Forwards, frame'.forwards = frame.forwards,
         frame'.stage \in {"entered", "inputs", "dispatch", "pad", "metadata"} =>
             frame.stage \in {"idle", "entered", "inputs", "dispatch", "pad"},
         frame'.stage \in {"entered", "inputs", "dispatch", "pad", "metadata", "left"}
  PROVE  Forwards'
BY DEF Forwards

LEMMA NoProposalWhileCapturing ==
  ASSUME CleanInv, frame.stage # "idle"
  PROVE  capture.running = NoGraph
BY DEF CleanInv, Proposing

LEMMA InitDraft == Init => DraftInv
<1> SUFFICES ASSUME Init PROVE DraftInv OBVIOUS
<1>1. CleanInv BY InitClean
<1>2. Captures
  <2>1. capture = [running |-> NoGraph, tried |-> {}, done |-> {}, saved |-> Native]
        /\ config \in Configs
    BY DEF Init
  <2> QED BY <2>1 DEF Captures
<1>3. /\ frame.stage = "idle" /\ frame.number = 0 /\ frame.forwards = <<>> /\ tables = <<>>
  BY DEF Init, Idle
<1>4. Batches /\ Steering /\ Chosen /\ Forwards /\ PaddingKeepsRows
  BY <1>3, DraftAssumption
  DEF Batches, Steering, Chosen, Forwards, PaddingKeepsRows, Middle, Late
<1>5. RecordedTasks BY <1>3 DEF RecordedTasks
<1> QED BY <1>1, <1>2, <1>4, <1>5 DEF DraftInv

LEMMA NextDraft == ASSUME DraftInv, Next PROVE DraftInv'
<1>0. CleanInv' BY NextClean DEF DraftInv
<1>00. config \in Configs BY DEF DraftInv, Captures
<1>1. CASE (\E graph \in Keys(config) : BeginCapture(graph)) \/ EndCapture
  <2>1. frame' = frame /\ config' = config /\ frame.stage = "idle"
    <3>1. CASE \E graph \in Keys(config) : BeginCapture(graph)
      <4>1. frame' = frame /\ config' = config /\ capture.running = NoGraph
            /\ ~(capture.tried = Keys(config))
        BY <3>1 DEF BeginCapture
      <4> QED BY <4>1 DEF DraftInv, CleanInv, Proposing
    <3>2. CASE EndCapture
      <4>1. frame' = frame /\ config' = config /\ capture.running # NoGraph
        BY <3>2 DEF EndCapture
      <4> QED BY <4>1 DEF DraftInv, CleanInv, Capturing
    <3> QED BY <1>1, <3>1, <3>2
  <2>2. Captures' BY <1>1, BeginCaptures, EndCaptures DEF DraftInv
  <2>3. RecordedTasks'
    <3>1. CASE \E graph \in Keys(config) : BeginCapture(graph)
      BY <3>1, OtherRecords DEF DraftInv, BeginCapture
    <3>2. CASE EndCapture BY <3>2, EndCaptureRecords DEF DraftInv
    <3> QED BY <1>1, <3>1, <3>2
  <2>4. Batches' BY <2>1 DEF DraftInv, Batches
  <2>5. Steering' /\ Chosen' /\ PaddingKeepsRows'
    BY <2>1, OutsideSteering, OutsideChosen, OutsidePadding DEF Late
  <2>6. Forwards' BY <2>1 DEF DraftInv, Forwards
  <2> QED BY <1>0, <2>2, <2>3, <2>4, <2>5, <2>6 DEF DraftInv
<1>2. CASE UniformFrame \/ MixedFrame
  <2>0. PICK batch \in 1..MaxSeqs, len \in config.lens, tokens \in Nat, uniform \in BOOLEAN,
            prefill \in BOOLEAN : \E kept \in [1..batch -> 1..4] :
             /\ HostFrame(batch, len, kept, tokens, uniform, prefill)
             /\ tokens >= batch
             /\ uniform => tokens = batch * len
    BY <1>2, <1>00, HostBatch DEF DraftInv
  <2>1. PICK kept \in [1..batch -> 1..4] :
             /\ HostFrame(batch, len, kept, tokens, uniform, prefill)
             /\ tokens >= batch
             /\ uniform => tokens = batch * len
    BY <2>0
  <2>2. /\ Batches' /\ frame'.stage = "entered" /\ frame'.forwards = frame.forwards
        /\ frame'.uniform => frame'.tokens = frame'.batch * frame'.len
    BY <2>1, <1>00, HostFrameBatches DEF DraftInv
  <2>3. /\ UNCHANGED <<config, tables, capture>> /\ capture.running = NoGraph
        /\ frame.stage = "idle"
    BY <2>1 DEF HostFrame, Serving
  <2>4. Captures' /\ RecordedTasks' BY <2>3, OtherCaptures, OtherRecords DEF DraftInv
  <2>5. Steering' BY <2>2 DEF Steering, Middle
  <2>6. Chosen' /\ PaddingKeepsRows' BY <2>2, OutsideChosen, OutsidePadding DEF Late
  <2>7. Forwards' BY <2>2, <2>3, OtherForwards DEF DraftInv
  <2> QED BY <1>0, <2>2, <2>4, <2>5, <2>6, <2>7 DEF DraftInv
<1>3. CASE Propose
  <2>1. /\ Steering' /\ SameBatch /\ frame'.stage = "inputs" /\ frame.stage = "entered"
        /\ UNCHANGED <<config, tables, widths, splits, capture>>
        /\ frame'.forwards = frame.forwards
    BY <1>3, <1>00, ProposeSteers DEF DraftInv
  <2>2. Batches' BY <2>1, OtherBatches DEF DraftInv
  <2>3. Captures' /\ RecordedTasks'
    BY <2>1, NoProposalWhileCapturing, OtherCaptures, OtherRecords DEF DraftInv
  <2>4. Chosen' /\ PaddingKeepsRows' BY <2>1, OutsideChosen, OutsidePadding DEF Late
  <2>5. Forwards' BY <2>1, OtherForwards DEF DraftInv
  <2> QED BY <1>0, <2>1, <2>2, <2>3, <2>4, <2>5 DEF DraftInv
<1>4. CASE \E ready \in BOOLEAN : FirstPass(ready)
  <2>0. PICK ready \in BOOLEAN : FirstPass(ready) BY <1>4
  <2>1. /\ frame.stage = "inputs" /\ frame'.stage = "dispatch"
        /\ UNCHANGED <<config, tables, widths, splits, capture>>
        /\ frame'.forwards = frame.forwards
    BY <2>0, <1>00, FirstPassFrame DEF DraftInv
  <2>2. Batches' /\ Steering'
    BY <2>0, <1>00, FirstPassBatches, FirstPassSteers DEF DraftInv
  <2>3. Captures' /\ RecordedTasks'
    BY <2>1, NoProposalWhileCapturing, OtherCaptures, OtherRecords DEF DraftInv
  <2>4. Chosen' /\ PaddingKeepsRows' BY <2>1, OutsideChosen, OutsidePadding DEF Late
  <2>5. Forwards' BY <2>1, OtherForwards DEF DraftInv
  <2> QED BY <1>0, <2>2, <2>3, <2>4, <2>5 DEF DraftInv
<1>5. CASE Dispatch
  <2>1. /\ frame.stage = "dispatch" /\ frame'.stage = "pad" /\ SameBatch
        /\ UNCHANGED <<config, tables, widths, splits, capture>>
        /\ frame'.forwards = frame.forwards
    BY <1>5, DispatchFrame DEF DraftInv
  <2>2. Steering' /\ Chosen'
    BY <1>5, <1>00, DispatchSteers, DispatchChooses DEF DraftInv
  <2>3. Captures' /\ RecordedTasks'
    BY <2>1, NoProposalWhileCapturing, OtherCaptures, OtherRecords DEF DraftInv
  <2>4. Batches' /\ PaddingKeepsRows'
    BY <2>1, OtherBatches, OutsidePadding DEF DraftInv
  <2>5. Forwards' BY <2>1, OtherForwards DEF DraftInv
  <2> QED BY <1>0, <2>2, <2>3, <2>4, <2>5 DEF DraftInv
<1>6. CASE Pad
  <2>1. /\ PaddingKeepsRows' /\ SameBatch
        /\ UNCHANGED <<config, tables, widths, splits, shared, capture>>
        /\ frame.stage = "pad" /\ frame'.stage = "metadata"
        /\ frame'.mode = frame.mode /\ frame'.graph = frame.graph
        /\ frame'.path = frame.path /\ frame'.forwards = frame.forwards
    BY <1>6, PadPads DEF DraftInv
  <2>2. Steering' /\ Chosen' BY <2>1, OtherSteering, OtherChosen DEF DraftInv, Late
  <2>3. Captures' /\ RecordedTasks'
    BY <2>1, NoProposalWhileCapturing, OtherCaptures, OtherRecords DEF DraftInv
  <2>4. Batches' BY <2>1, OtherBatches DEF DraftInv
  <2>5. Forwards' BY <2>1, OtherForwards DEF DraftInv
  <2> QED BY <1>0, <2>1, <2>2, <2>3, <2>4, <2>5 DEF DraftInv
<1>7. CASE Metadata \/ Replay \/ Forward
  <2>1. /\ frame.stage \in {"metadata", "run"} /\ frame'.stage \in {"run", "ran"} /\ SameBatch
        /\ frame'.path = frame.path /\ frame'.mode = frame.mode /\ frame'.graph = frame.graph
        /\ frame'.rows = frame.rows /\ Forwards'
        /\ UNCHANGED <<config, tables, widths, splits, shared, capture>>
    BY <1>7, MetadataFrame, ForwardFrame
  <2>2. Steering' /\ Chosen' BY <2>1, OtherSteering, OtherChosen DEF DraftInv, Late
  <2>3. Captures' /\ RecordedTasks'
    BY <2>1, NoProposalWhileCapturing, OtherCaptures, OtherRecords DEF DraftInv
  <2>4. Batches' /\ PaddingKeepsRows' BY <2>1, OtherBatches, OtherPadding DEF DraftInv
  <2> QED BY <1>0, <2>1, <2>2, <2>3, <2>4 DEF DraftInv
<1>8. CASE Return \/ Raise
  <2>1. /\ frame.stage \in Middle /\ frame'.stage = "left" /\ SameBatch
        /\ frame'.forwards = frame.forwards
        /\ UNCHANGED <<config, tables, widths, splits, capture>>
    BY <1>8, LeavingFrame
  <2>2. frame.stage # "idle" BY <2>1 DEF Middle
  <2>3. Captures' /\ RecordedTasks'
    BY <2>1, <2>2, NoProposalWhileCapturing, OtherCaptures, OtherRecords DEF DraftInv
  <2>4. Batches' BY <2>1, <2>2, OtherBatches DEF DraftInv
  <2>5. Steering' /\ Chosen' /\ PaddingKeepsRows'
    BY <2>1, OutsideSteering, OutsideChosen, OutsidePadding DEF Late
  <2>6. Forwards' BY <2>1, OtherForwards DEF DraftInv
  <2> QED BY <1>0, <2>3, <2>4, <2>5, <2>6 DEF DraftInv
<1>9. CASE Leave
  <2>1. /\ frame.stage = "left" /\ frame' = Idle(frame.number)
        /\ UNCHANGED <<config, tables, widths, splits, capture>>
    BY <1>9 DEF Leave
  <2>2. frame'.stage = "idle" /\ frame'.number = frame.number /\ frame'.forwards = <<>>
    BY <2>1 DEF Idle
  <2>3. Captures' /\ RecordedTasks'
    BY <2>1, NoProposalWhileCapturing, OtherCaptures, OtherRecords DEF DraftInv
  <2>4. Batches' /\ Forwards' BY <2>2 DEF DraftInv, Batches, Forwards
  <2>5. Steering' /\ Chosen' /\ PaddingKeepsRows'
    BY <2>2, OutsideSteering, OutsideChosen, OutsidePadding DEF Late
  <2> QED BY <1>0, <2>3, <2>4, <2>5 DEF DraftInv
<1> QED BY <1>1, <1>2, <1>3, <1>4, <1>5, <1>6, <1>7, <1>8, <1>9 DEF Next

LEMMA StutterDraft == ASSUME DraftInv, UNCHANGED vars PROVE DraftInv'
<1>0. UNCHANGED <<config, tables, widths, splits, shared, capture, frame>> BY DEF vars
<1>1. CleanInv' BY NextClean DEF DraftInv
<1>2. Keys(config)' = Keys(config) /\ TaskSet' = TaskSet BY <1>0 DEF Keys, TaskSet
<1>3. Captures' /\ RecordedTasks' BY <1>0, <1>2 DEF DraftInv, Captures, RecordedTasks
<1>4. Batches' /\ Steering' BY <1>0 DEF DraftInv, Batches, Steering
<1>5. Covers(frame.graph)' <=> Covers(frame.graph) BY <1>0, <1>2 DEF Covers
<1>6. PiecewiseBucket(frame.tokens)' = PiecewiseBucket(frame.tokens) BY <1>0 DEF PiecewiseBucket
<1>7. Chosen' BY <1>0, <1>5, <1>6 DEF DraftInv, Chosen
<1>8. Forwards' /\ PaddingKeepsRows' BY <1>0 DEF DraftInv, Forwards, PaddingKeepsRows
<1> QED BY <1>1, <1>3, <1>4, <1>7, <1>8 DEF DraftInv

(***************************************************************************)
(* Types, padding, and descriptors that hold the batch.                    *)
(***************************************************************************)
Flags(s) == /\ s.dispatch \in {"host", "nonuniform"} /\ s.runnable \in {"graph", "body"}
            /\ s.padding \in BOOLEAN /\ s.piecewise \in BOOLEAN /\ s.force \in BOOLEAN

\* What the rest of the invariant does not say of the values it does not use.
FlagsTyped == frame.stage \in Middle => Flags(shared)
CapturesTyped ==
    /\ Same(capture.saved, Native)
    /\ capture.running # NoGraph => shared.uniformLen \in {Absent} \cup config.lens
    /\ \A key \in DOMAIN tables :
           \E graph \in Keys(config) : key \in {graph.tokens, -(graph.tokens + 1)}
RowsTyped(rows) ==
    \A tokens \in DOMAIN rows : /\ \E graph \in Keys(config) : tokens = graph.tokens
                                /\ rows[tokens] \in 1..MaxSeqs
ProposalTyped ==
    /\ AttributesOK(frame.saved) /\ AttributesOK(frame.host)
    /\ frame.path \in {"merged", "force", "plain"}
    /\ frame.uniform \in BOOLEAN /\ frame.prefill \in BOOLEAN
HostGraphs == [tokens : Nat, reqs : {Absent}, uniform : {FALSE}]
ResultsTyped ==
    /\ frame.mode \in {"FULL", "PIECEWISE", "NONE"}
    /\ frame.graph \in Keys(config) \cup HostGraphs
    /\ \A row \in DOMAIN frame.rows : row \in 0..MaxSeqs /\ frame.rows[row] \in Nat
    /\ frame.stage = "run" => frame.step \in 1..Gamma(frame.len)
    /\ frame.metas \in Seq(Metadatas)
    /\ \A key \in DOMAIN frame.updates : frame.updates[key] \in Seq(Metadatas)
TypedInv == /\ DraftInv /\ FlagsTyped /\ CapturesTyped /\ RowsTyped(widths) /\ RowsTyped(splits)
            /\ ProposalTyped /\ ResultsTyped

LEMMA TripleSequence ==
  ASSUME NEW a \in Nat, NEW b \in Nat, NEW c \in Nat
  PROVE  <<a, b, c>> \in Seq(Nat) /\ Len(<<a, b, c>>) = 3
OBVIOUS

LEMMA NativeTyped ==
  ASSUME NEW s, Same(s, Native), config \in Configs
  PROVE  AttributesOK(s)
<1>1. /\ s.reqs = 0 /\ s.len = 0 /\ s.runtime = 0 /\ s.capture = 0 /\ s.stash = <<>>
      /\ s.dispatch = "host" /\ s.uniformLen = 0 /\ s.padding = FALSE /\ s.piecewise = FALSE
      /\ s.force = FALSE /\ s.runnable = "graph"
  BY DEF Same, SameSteering, SameFlags, SameCapture, Native, Absent
<1>2. s.reqs \in 0..MaxSeqs BY <1>1, DraftAssumption
<1>3. s.stash \in Seq(Nat) /\ Len(s.stash) = 0 BY <1>1
<1> QED BY <1>1, <1>2, <1>3 DEF AttributesOK, Absent

LEMMA BoundTyped ==
  ASSUME NEW s, Bound(s), config \in Configs
  PROVE  AttributesOK(s)
<1>1. /\ s.reqs = 0 /\ s.capture = 0 /\ s.stash = <<>> /\ s.dispatch = "host"
      /\ s.uniformLen = 0 /\ s.padding = FALSE /\ s.piecewise = FALSE
      /\ s.force = FALSE /\ s.runnable = "graph"
      /\ (s.len = 4 /\ s.runtime = 4 /\ config.runtime) \/ (s.len = 0 /\ s.runtime = 0)
  BY DEF Bound, SameFlags, SameCapture, Native, Absent
<1>2. s.reqs \in 0..MaxSeqs BY <1>1, DraftAssumption
<1>3. s.stash \in Seq(Nat) /\ Len(s.stash) = 0 BY <1>1
<1>4. s.len \in {Absent} \cup config.lens BY <1>1, ConfigFacts DEF Absent
<1> QED BY <1>1, <1>2, <1>3, <1>4 DEF AttributesOK, Absent

LEMMA SharedTyped ==
  ASSUME TypedInv
  PROVE  AttributesOK(shared)
<1>1. config \in Configs /\ CleanInv /\ MaxSeqs \in Nat
  BY DraftAssumption DEF TypedInv, DraftInv, Captures
<1>2. CASE frame.stage = "idle" /\ capture.running = NoGraph
  <2>1. Same(shared, Native) BY <1>1, <1>2 DEF CleanInv, Between
  <2> QED BY <2>1, <1>1, NativeTyped
<1>3. CASE capture.running # NoGraph
  <2> DEFINE graph == capture.running
  <2>1. /\ shared.reqs = Absent /\ shared.len = Absent /\ shared.runtime = Absent
        /\ shared.dispatch = "host" /\ SameFlags(shared, Native)
        /\ graph.uniform => shared.stash = <<>> /\ shared.capture = Width(graph)
        /\ ~graph.uniform => /\ SameCapture(shared, Native)
                             /\ shared.stash = <<graph.tokens, graph.tokens, graph.reqs>>
        /\ graph \in Keys(config) /\ shared.uniformLen \in {Absent} \cup config.lens
    BY <1>1, <1>3 DEF TypedInv, DraftInv, Captures, CleanInv, Capturing, CapturesTyped
  <2>2. /\ graph.tokens \in Nat /\ graph.reqs \in Nat
        /\ graph.uniform => Width(graph) \in config.lens
    BY <2>1, <1>1, DescriptorFacts
  <2>3. shared.capture \in {Absent} \cup config.lens BY <2>1, <2>2 DEF SameCapture, Native
  <2>4. shared.stash \in Seq(Nat) /\ Len(shared.stash) \in {0, 3}
    <3>1. CASE graph.uniform
      <4>1. shared.stash = <<>> BY <2>1, <3>1
      <4> QED BY <4>1
    <3>2. CASE ~graph.uniform
      <4>1. shared.stash = <<graph.tokens, graph.tokens, graph.reqs>> BY <2>1, <3>2
      <4> HIDE DEF graph
      <4> QED BY <4>1, <2>2, TripleSequence
    <3> QED BY <3>1, <3>2
  <2>5. /\ shared.padding = FALSE /\ shared.piecewise = FALSE /\ shared.force = FALSE
        /\ shared.runnable = "graph"
    BY <2>1 DEF SameFlags, Native
  <2>6. /\ shared.reqs = 0 /\ shared.len = 0 /\ shared.runtime = 0
        /\ shared.dispatch = "host" /\ shared.uniformLen \in {Absent} \cup config.lens
    BY <2>1 DEF Absent
  <2> HIDE DEF graph
  <2>7. shared.reqs \in 0..MaxSeqs /\ shared.runtime \in {Absent, 4} BY <2>6, <1>1 DEF Absent
  <2>8. {shared.len, shared.capture, shared.uniformLen} \subseteq {Absent} \cup config.lens
    BY <2>3, <2>6 DEF Absent
  <2>9. /\ shared.dispatch \in {"host", "nonuniform"} /\ shared.runnable \in {"graph", "body"}
        /\ {shared.padding, shared.piecewise, shared.force} \subseteq BOOLEAN
    BY <2>5, <2>6
  <2> QED BY <2>4, <2>7, <2>8, <2>9, Zenon DEF AttributesOK
<1>4. CASE frame.stage \in {"entered", "left"}
  <2>1. Bound(shared) BY <1>1, <1>4 DEF CleanInv, Proposing
  <2> QED BY <2>1, <1>1, BoundTyped
<1>5. CASE frame.stage \in Middle
  <2>1. /\ shared.len \in {Absent} \cup config.lens
        /\ shared.reqs \in {Absent, frame.batch}
        /\ shared.stash # <<>> =>
               \E bucket \in config.firsts : shared.stash = <<frame.tokens, bucket, frame.batch>>
    BY <1>5 DEF TypedInv, DraftInv, Steering
  <2>2. /\ shared.capture = Absent /\ shared.uniformLen = Absent
        /\ shared.runtime = frame.saved.runtime
    BY <1>1, <1>5 DEF CleanInv, Proposing, SameCapture, Native, Absent
  <2>3. frame.batch \in 1..MaxSeqs /\ frame.tokens \in Nat
    BY <1>5 DEF TypedInv, DraftInv, Batches, Middle
  <2>4. shared.stash \in Seq(Nat) /\ Len(shared.stash) \in {0, 3}
    <3>1. CASE shared.stash = <<>> BY <3>1
    <3>2. CASE shared.stash # <<>>
      <4>1. PICK bucket \in config.firsts : shared.stash = <<frame.tokens, bucket, frame.batch>>
        BY <3>2, <2>1
      <4>2. bucket \in Nat /\ frame.batch \in Nat /\ frame.tokens \in Nat
        BY <1>1, <2>3, ConfigFacts
      <4> QED BY <4>1, <4>2, TripleSequence
    <3> QED BY <3>1, <3>2
  <2>5. Flags(shared) BY <1>5 DEF TypedInv, FlagsTyped
  <2>6. shared.runtime \in {Absent, 4} BY <2>2 DEF TypedInv, ProposalTyped, AttributesOK
  <2>7. shared.reqs \in 0..MaxSeqs BY <2>1, <2>3, <1>1 DEF Absent
  <2> QED BY <2>1, <2>2, <2>4, <2>5, <2>6, <2>7, <1>1 DEF AttributesOK, Flags
<1> QED BY <1>1, <1>2, <1>3, <1>4, <1>5 DEF CleanInv, Proposing

LEMMA SteeringInside ==
  ASSUME CleanInv
  PROVE  SteeredInside
<1>1. capture.running # NoGraph => frame.stage = "idle" BY DEF CleanInv, Capturing
<1>2. ASSUME capture.running = NoGraph, frame.stage \in {"idle", "entered", "left"},
             NEW a \in DOMAIN Native
      PROVE  \/ shared[a] = Native[a]
             \/ frame.stage # "idle" /\ config.runtime /\ a \in {"len", "runtime"}
  <2>1. a \in AttrFields BY <1>2 DEF Native, AttrFields
  <2>2. CASE frame.stage = "idle"
    <3>1. Same(shared, Native) BY <1>2, <2>2 DEF CleanInv, Between
    <3> QED BY <2>1, <3>1 DEF Same, SameSteering, SameFlags, SameCapture, AttrFields
  <2>3. CASE frame.stage # "idle"
    <3>1. Bound(shared) BY <1>2, <2>3 DEF CleanInv, Proposing
    <3>2. /\ shared.reqs = Native.reqs /\ shared.stash = Native.stash
          /\ shared.dispatch = Native.dispatch
          /\ ~config.runtime => shared.len = Native.len /\ shared.runtime = Native.runtime
      BY <3>1 DEF Bound, Native
    <3> QED BY <2>1, <2>3, <3>1, <3>2 DEF Bound, SameFlags, SameCapture, AttrFields
  <2> QED BY <2>2, <2>3
<1> QED BY <1>1, <1>2 DEF SteeredInside

LEMMA TypedIsTypeOK == TypedInv => TypeOK
<1> SUFFICES ASSUME TypedInv PROVE TypeOK OBVIOUS
<1>1. /\ config \in Configs /\ CleanInv
      /\ capture.running \in Keys(config) \cup {NoGraph}
      /\ capture.done \subseteq capture.tried /\ capture.tried \subseteq Keys(config)
  BY DEF TypedInv, DraftInv, Captures
<1>2. AttributesOK(capture.saved) BY <1>1, NativeTyped DEF TypedInv, CapturesTyped
<1>3. ASSUME NEW key \in DOMAIN tables, NEW i \in DOMAIN tables[key]
      PROVE  /\ tables[key][i].graph \in Keys(config)
             /\ tables[key][i].step \in Nat \ {0} /\ tables[key][i].rows \in Nat \ {0}
  <2> DEFINE list == tables[key]
  <2>1. list \in Seq(TaskSet) BY DEF TypedInv, DraftInv, RecordedTasks
  <2>2. i \in DOMAIN list OBVIOUS
  <2> HIDE DEF list
  <2>3. list[i] \in TaskSet BY <2>1, <2>2
  <2> QED BY <2>3 DEF TaskSet, list
<1>4. CaptureOK
  BY <1>1, <1>2, <1>3, Zenon DEF CaptureOK, TypedInv, CapturesTyped, RowsTyped
<1>5. FrameOK
  <2>1. frame.stage \in {"idle", "entered", "inputs", "dispatch", "pad", "metadata",
                         "run", "ran", "left"}
    BY <1>1 DEF CleanInv, Proposing, Middle
  <2>2. /\ frame.number \in 0..MaxFrames
        /\ frame.stage # "idle" =>
               /\ frame.batch \in 1..MaxSeqs /\ frame.len \in config.lens
               /\ frame.kept \in [1..frame.batch -> 1..4]
               /\ frame.tokens \in Nat /\ frame.tokens >= frame.batch
               /\ frame.starts \in [0..frame.batch -> Nat]
               /\ frame.starts[frame.batch] = frame.tokens
    BY DEF TypedInv, DraftInv, Batches, Starts
  <2>3. frame.forwards \in Seq([mode : {"outer", "PIECEWISE"}, rows : Nat])
    BY DEF TypedInv, DraftInv, Forwards
  <2>4. {frame.uniform, frame.prefill} \subseteq BOOLEAN BY DEF TypedInv, ProposalTyped
  <2> QED BY <2>1, <2>2, <2>3, <2>4, Zenon
          DEF FrameOK, TypedInv, ProposalTyped, ResultsTyped, HostGraphs
<1> QED BY <1>1, <1>4, <1>5, SharedTyped, SteeringInside DEF TypeOK

LEMMA HostFrameEnters ==
  ASSUME DraftInv, UniformFrame \/ MixedFrame
  PROVE  frame.stage = "idle" /\ frame'.stage = "entered" /\ frame'.updates = frame.updates
<1>1. DOMAIN frame = FrameFields BY DEF DraftInv, CleanInv, Shapes
<1>2. PICK batch, len, kept, tokens, uniform, prefill :
          HostFrame(batch, len, kept, tokens, uniform, prefill)
  BY DEF UniformFrame, MixedFrame
<1> DEFINE starts == [row \in 0..batch |-> IF uniform THEN row * len
                                          ELSE (row * tokens) \div batch]
<1>3. /\ frame.stage = "idle"
      /\ frame' = [frame EXCEPT !.stage = "entered", !.number = @ + 1,
                    !.batch = batch, !.len = len, !.kept = kept, !.tokens = tokens,
                    !.uniform = uniform, !.prefill = prefill, !.host = shared,
                    !.starts = starts]
  BY <1>2 DEF HostFrame
<1> HIDE DEF starts
<1> QED BY <1>1, <1>3 DEF FrameFields

LEMMA CapturesWhileIdle ==
  ASSUME DraftInv, (\E graph \in Keys(config) : BeginCapture(graph)) \/ EndCapture
  PROVE  frame' = frame /\ frame.stage = "idle"
<1>1. frame' = frame BY DEF BeginCapture, EndCapture
<1>2. SUFFICES ASSUME frame.stage # "idle" PROVE FALSE BY <1>1
<1>3. capture.running = NoGraph /\ capture.tried = Keys(config)
  BY <1>2 DEF DraftInv, CleanInv, Proposing
<1>4. CASE EndCapture BY <1>3, <1>4 DEF EndCapture
<1>5. CASE \E graph \in Keys(config) : BeginCapture(graph)
  <2>1. PICK graph \in Keys(config) : graph \in Keys(config) \ capture.tried
    BY <1>5 DEF BeginCapture
  <2> QED BY <1>3, <2>1
<1> QED BY <1>4, <1>5

LEMMA HostFrameAlone ==
  ASSUME UniformFrame \/ MixedFrame
  PROVE  UNCHANGED <<config, tables, widths, splits, capture>> /\ capture.running = NoGraph
<1>1. PICK batch, len, kept, tokens, uniform, prefill :
          HostFrame(batch, len, kept, tokens, uniform, prefill)
  BY DEF UniformFrame, MixedFrame
<1> QED BY <1>1 DEF HostFrame, Serving

LEMMA InitTyped == Init => TypedInv
<1> SUFFICES ASSUME Init PROVE TypedInv OBVIOUS
<1>1. /\ config \in Configs /\ tables = <<>> /\ widths = <<>> /\ splits = <<>>
      /\ shared = Native /\ frame = Idle(0)
      /\ capture.saved = Native /\ capture.running = NoGraph
  BY DEF Init
<1>2. Same(Native, Native) BY DEF Same, SameSteering, SameFlags, SameCapture
<1>3. AttributesOK(Native) BY <1>1, <1>2, NativeTyped
<1>4. /\ frame.stage = "idle" /\ frame.saved = Native /\ frame.host = Native
      /\ frame.path = "plain" /\ frame.mode = "NONE" /\ frame.graph = NoGraph
      /\ frame.uniform = FALSE /\ frame.prefill = FALSE
      /\ frame.rows = <<>> /\ frame.metas = <<>> /\ frame.updates = <<>>
  BY <1>1 DEF Idle
<1>5. FlagsTyped BY <1>4 DEF FlagsTyped, Middle
<1>6. CapturesTyped BY <1>1, <1>2 DEF CapturesTyped
<1>7. RowsTyped(widths) /\ RowsTyped(splits) BY <1>1 DEF RowsTyped
<1>8. ProposalTyped BY <1>3, <1>4 DEF ProposalTyped
<1>9. ResultsTyped
  <2>1. NoGraph \in HostGraphs BY DEF NoGraph, Graph, HostGraphs, Absent
  <2>2. frame.metas \in Seq(Metadatas) BY <1>4
  <2> QED BY <1>4, <2>1, <2>2 DEF ResultsTyped
<1> QED BY <1>5, <1>6, <1>7, <1>8, <1>9, InitDraft DEF TypedInv

\* What captures record.
LEMMA CapturesKept ==
  ASSUME TypedInv, Next
  PROVE  CapturesTyped' /\ RowsTyped(widths)' /\ RowsTyped(splits)'
<1>0. /\ config \in Configs /\ CleanInv /\ Captures
      /\ DOMAIN capture = CaptureFields /\ DOMAIN shared = AttrFields
  BY DEF TypedInv, DraftInv, Captures, CleanInv, Shapes
<1>1. ASSUME NEW graph \in Keys(config), BeginCapture(graph)
      PROVE  CapturesTyped' /\ RowsTyped(widths)' /\ RowsTyped(splits)'
  <2>1. /\ UNCHANGED <<config, tables, widths, splits, frame>> /\ capture.running = NoGraph
        /\ capture'.saved = shared /\ capture.tried # Keys(config)
    BY <1>0, <1>1 DEF BeginCapture, CaptureFields
  <2>2. Keys(config)' = Keys(config) BY <2>1 DEF Keys
  <2>3. Same(shared, Native) BY <1>0, <2>1 DEF CleanInv, Between, Proposing
  <2>4. shared'.uniformLen \in {Absent} \cup config.lens
    <3>1. shared.uniformLen = Absent BY <2>3 DEF Same, SameCapture, Native
    <3>2. CASE graph.uniform
      <4>1. shared'.uniformLen = Width(graph) BY <1>0, <1>1, <3>2 DEF BeginCapture, AttrFields
      <4> QED BY <4>1, <3>2, <1>0, DescriptorFacts
    <3>3. CASE ~graph.uniform
      <4>1. shared'.uniformLen = shared.uniformLen
        BY <1>0, <1>1, <3>3 DEF BeginCapture, AttrFields
      <4> QED BY <4>1, <3>1
    <3> QED BY <3>2, <3>3
  <2> QED BY <2>1, <2>2, <2>3, <2>4 DEF TypedInv, CapturesTyped, RowsTyped, Same, SameSteering,
          SameFlags, SameCapture
<1>2. ASSUME EndCapture
      PROVE  CapturesTyped' /\ RowsTyped(widths)' /\ RowsTyped(splits)'
  <2> DEFINE ran == Dispatched(shared, capture.running.tokens, capture.running.uniform)
             gamma == Gamma(GraphLen(ran.graph))
             rows == CaptureRows(ran.graph, gamma)
  <2>1. /\ capture.running # NoGraph /\ config' = config /\ tables' = Recorded(ran.graph)
        /\ widths' = IF UnifiedPath(gamma) /\ rows # ran.graph.tokens
                     THEN With(widths, ran.graph.tokens, rows) ELSE widths
        /\ splits' = IF SplitPath(gamma) /\ rows # ran.graph.tokens
                     THEN With(splits, ran.graph.tokens, rows) ELSE splits
        /\ capture'.running = NoGraph /\ capture'.saved = capture.saved
    BY <1>0, <1>2 DEF EndCapture, CaptureFields
  <2>2. ran.graph = capture.running BY <1>0, <2>1, CaptureSelects
  <2> DEFINE graph == ran.graph
  <2>3. graph \in Keys(config) BY <1>0, <2>1, <2>2 DEF Captures
  <2>4. UnifiedPath(gamma) \/ SplitPath(gamma) => rows = graph.reqs BY DEF CaptureRows
  <2>5. graph.reqs \in 1..MaxSeqs BY <1>0, <2>3, DescriptorFacts
  <2>6. Keys(config)' = Keys(config) BY <2>1 DEF Keys
  <2> HIDE DEF ran, gamma, rows
  <2>7. \A map : RowsTyped(map) /\ rows \in 1..MaxSeqs
                     => RowsTyped(With(map, graph.tokens, rows))
    BY <2>3 DEF RowsTyped, With
  <2>8. RowsTyped(widths') /\ RowsTyped(splits')
    BY <2>1, <2>4, <2>5, <2>7 DEF TypedInv
  <2>9. \A key \in DOMAIN tables' :
            \E g \in Keys(config) : key \in {g.tokens, -(g.tokens + 1)}
    BY <2>1, <2>3 DEF Recorded, TypedInv, CapturesTyped
  <2>10. CapturesTyped'
    BY <2>1, <2>6, <2>9 DEF TypedInv, CapturesTyped, Same, SameSteering, SameFlags, SameCapture
  <2> QED BY <2>6, <2>8, <2>10 DEF RowsTyped
<1>3. CASE \/ UniformFrame \/ MixedFrame \/ Propose \/ (\E ready \in BOOLEAN : FirstPass(ready))
           \/ Dispatch \/ Pad \/ Metadata \/ Replay \/ Forward \/ Return \/ Raise \/ Leave
  <2>1. UNCHANGED <<config, tables, widths, splits, capture>>
    BY <1>3, HostFrameAlone DEF Propose, FirstPass, Dispatch, Pad, Metadata, Replay, Forward,
       Return, Raise, Leave
  <2>2. capture.running = NoGraph
    <3>1. CASE UniformFrame \/ MixedFrame BY <3>1, HostFrameAlone
    <3>2. CASE ~(UniformFrame \/ MixedFrame)
      <4>1. frame.stage # "idle"
        BY <1>3, <3>2 DEF Propose, FirstPass, Dispatch, Pad, Metadata, Replay, Forward, Return,
           Raise, Leave
      <4> QED BY <1>0, <4>1, NoProposalWhileCapturing
    <3> QED BY <3>1, <3>2
  <2>3. Keys(config)' = Keys(config) BY <2>1 DEF Keys
  <2> QED BY <2>1, <2>2, <2>3 DEF TypedInv, CapturesTyped, RowsTyped, Same, SameSteering,
          SameFlags, SameCapture
<1> QED BY <1>1, <1>2, <1>3 DEF Next

\* The flags a proposal sets.
LEMMA FlagsKept ==
  ASSUME TypedInv, Next
  PROVE  FlagsTyped'
<1>0. /\ config \in Configs /\ CleanInv /\ Batches /\ Steering
      /\ DOMAIN frame = FrameFields /\ DOMAIN shared = AttrFields
  BY DEF TypedInv, DraftInv, Captures, CleanInv, Shapes
<1>1. CASE Propose
  <2>1. Bound(shared) BY <1>0, <1>1 DEF Propose, CleanInv, Proposing
  <2>2. PICK path : /\ path \in {"merged", "force", "plain"}
                    /\ path = "merged" =>
                          shared' = [shared EXCEPT !.reqs = frame.batch, !.len = shared.runtime,
                                                   !.padding = TRUE]
                    /\ path = "force" =>
                          shared' = [shared EXCEPT !.reqs = frame.batch, !.len = shared.runtime,
                                                   !.padding = TRUE, !.piecewise = TRUE,
                                                   !.force = TRUE, !.runnable = "body"]
                    /\ path = "plain" =>
                          shared' = [shared EXCEPT !.dispatch = "nonuniform", !.piecewise = TRUE]
    BY <1>1 DEF Propose
  <2>3. /\ shared.dispatch = "host" /\ shared.padding = FALSE /\ shared.piecewise = FALSE
        /\ shared.force = FALSE /\ shared.runnable = "graph"
    BY <2>1 DEF Bound, SameFlags, Native
  <2>4. Flags(shared')
    <3>1. CASE path = "merged"
      <4>1. /\ shared'.dispatch = "host" /\ shared'.padding = TRUE /\ shared'.piecewise = FALSE
            /\ shared'.force = FALSE /\ shared'.runnable = "graph"
        BY <1>0, <2>2, <2>3, <3>1, ZenonT(60) DEF AttrFields
      <4> QED BY <4>1 DEF Flags
    <3>2. CASE path = "force"
      <4>1. /\ shared'.dispatch = "host" /\ shared'.padding = TRUE /\ shared'.piecewise = TRUE
            /\ shared'.force = TRUE /\ shared'.runnable = "body"
        BY <1>0, <2>2, <2>3, <3>2, ZenonT(60) DEF AttrFields
      <4> QED BY <4>1 DEF Flags
    <3>3. CASE path = "plain"
      <4>1. /\ shared'.dispatch = "nonuniform" /\ shared'.padding = FALSE
            /\ shared'.piecewise = TRUE /\ shared'.force = FALSE /\ shared'.runnable = "graph"
        BY <1>0, <2>2, <2>3, <3>3, ZenonT(60) DEF AttrFields
      <4> QED BY <4>1 DEF Flags
    <3> QED BY <2>2, <3>1, <3>2, <3>3
  <2> QED BY <2>4 DEF FlagsTyped, Flags
<1>2. CASE \/ (\E ready \in BOOLEAN : FirstPass(ready)) \/ Dispatch \/ Pad \/ Metadata
           \/ Replay \/ Forward
  <2>1. frame.stage \in Middle
    BY <1>2 DEF FirstPass, Dispatch, Pad, Metadata, Replay, Forward, Middle
  <2>2. /\ SameFlags(shared', shared) /\ shared'.dispatch = shared.dispatch
    <3>1. CASE \E ready \in BOOLEAN : FirstPass(ready)
      BY <1>0, <3>1, FirstPassFrame DEF Drops, AttrFields, SameFlags
    <3>2. CASE Dispatch
      <4>1. shared' = Remembered(shared, frame.tokens) BY <3>2 DEF Dispatch
      <4> QED BY <1>0, <4>1 DEF Remembered, AttrFields, SameFlags
    <3>3. CASE Pad \/ Metadata \/ Replay \/ Forward
      BY <3>3 DEF Pad, Metadata, Replay, Forward, SameFlags
    <3> QED BY <1>2, <3>1, <3>2, <3>3
  <2> QED BY <2>1, <2>2 DEF TypedInv, FlagsTyped, Flags, SameFlags
<1>3. CASE \/ (\E graph \in Keys(config) : BeginCapture(graph)) \/ EndCapture
           \/ UniformFrame \/ MixedFrame \/ Return \/ Raise \/ Leave
  <2>1. frame'.stage \in {"idle", "entered", "left"}
    <3>1. CASE (\E graph \in Keys(config) : BeginCapture(graph)) \/ EndCapture
      BY <3>1, CapturesWhileIdle DEF TypedInv
    <3>2. CASE UniformFrame \/ MixedFrame
      BY <3>2, HostFrameEnters DEF TypedInv
    <3>3. CASE Return \/ Raise BY <3>3, LeavingFrame DEF TypedInv
    <3>4. CASE Leave BY <3>4 DEF Leave, Idle
    <3> QED BY <1>3, <3>1, <3>2, <3>3, <3>4
  <2> QED BY <2>1 DEF FlagsTyped, Middle
<1> QED BY <1>1, <1>2, <1>3 DEF Next

\* The settings a proposal starts from and what it saved.
LEMMA SameProposal ==
  ASSUME ProposalTyped, config' = config, frame'.saved = frame.saved, frame'.host = frame.host,
         frame'.path = frame.path, frame'.uniform = frame.uniform,
         frame'.prefill = frame.prefill
  PROVE  ProposalTyped'
BY DEF ProposalTyped, AttributesOK

LEMMA ProposalKept ==
  ASSUME TypedInv, Next
  PROVE  ProposalTyped'
<1>0. /\ config \in Configs /\ CleanInv /\ ProposalTyped /\ DOMAIN frame = FrameFields
  BY DEF TypedInv, DraftInv, Captures, CleanInv, Shapes
<1>00. DOMAIN frame = FrameFields BY <1>0
<1>1. CASE (\E graph \in Keys(config) : BeginCapture(graph)) \/ EndCapture
  <2>1. frame' = frame BY <1>1, CapturesWhileIdle DEF TypedInv
  <2>2. config' = config
    <3>1. CASE \E graph \in Keys(config) : BeginCapture(graph)
      BY <3>1, Zenon DEF BeginCapture
    <3>2. CASE EndCapture BY <3>2 DEF EndCapture
    <3> QED BY <1>1, <3>1, <3>2
  <2> QED BY <1>0, <2>1, <2>2, SameProposal
<1>2. CASE UniformFrame \/ MixedFrame
  <2>1. PICK batch \in 1..MaxSeqs, len \in config.lens, tokens \in Nat, uniform \in BOOLEAN,
             prefill \in BOOLEAN : \E kept \in [1..batch -> 1..4] :
             /\ HostFrame(batch, len, kept, tokens, uniform, prefill)
             /\ tokens >= batch
             /\ uniform => tokens = batch * len
    BY <1>0, <1>2, HostBatch
  <2>2. PICK kept : HostFrame(batch, len, kept, tokens, uniform, prefill) BY <2>1
  <2> DEFINE starts == [row \in 0..batch |-> IF uniform THEN row * len
                                             ELSE (row * tokens) \div batch]
  <2>3. /\ config' = config
        /\ frame' = [frame EXCEPT !.stage = "entered", !.number = @ + 1,
                        !.batch = batch, !.len = len, !.kept = kept, !.tokens = tokens,
                        !.uniform = uniform, !.prefill = prefill, !.host = shared,
                        !.starts = starts]
    BY <2>2 DEF HostFrame
  <2> HIDE DEF starts
  <2>4. /\ frame'.saved = frame.saved /\ frame'.host = shared /\ frame'.path = frame.path
        /\ frame'.uniform = uniform /\ frame'.prefill = prefill
    BY <1>0, <2>3 DEF FrameFields
  <2>5. AttributesOK(shared) BY SharedTyped
  <2> QED BY <1>0, <2>3, <2>4, <2>5 DEF ProposalTyped, AttributesOK
<1>3. CASE Propose
  <2>1. PICK path : /\ path \in {"merged", "force", "plain"} /\ config' = config
                    /\ frame' = [frame EXCEPT !.stage = "inputs", !.path = path, !.saved = shared]
    BY <1>3 DEF Propose
  <2>2. /\ frame'.saved = shared /\ frame'.host = frame.host /\ frame'.path = path
        /\ frame'.uniform = frame.uniform /\ frame'.prefill = frame.prefill
    BY <1>0, <2>1 DEF FrameFields
  <2>3. AttributesOK(shared) BY SharedTyped
  <2> QED BY <1>0, <2>1, <2>2, <2>3 DEF ProposalTyped, AttributesOK
<1>4. CASE \/ (\E ready \in BOOLEAN : FirstPass(ready)) \/ Dispatch \/ Pad \/ Metadata
           \/ Replay \/ Forward \/ Return \/ Raise
  <2> DEFINE Kept == /\ config' = config /\ frame'.saved = frame.saved
                     /\ frame'.host = frame.host /\ frame'.path = frame.path
                     /\ frame'.uniform = frame.uniform /\ frame'.prefill = frame.prefill
  <2>1. ASSUME NEW ready \in BOOLEAN, FirstPass(ready) PROVE Kept
    <3>1. \/ frame' = [frame EXCEPT !.stage = "dispatch"]
          \/ frame' = [frame EXCEPT !.stage = "dispatch", !.tokens = Compacted,
                                    !.starts = KeptBefore]
      BY <2>1 DEF FirstPass
    <3> QED BY <1>0, <2>1, <3>1 DEF FirstPass, FrameFields
  <2>2. ASSUME Dispatch PROVE Kept
    <3>1. PICK chosen : frame' = [frame EXCEPT !.stage = "pad", !.mode = chosen.mode,
                                     !.graph = chosen.graph, !.rows = frame.starts]
      BY <2>2 DEF Dispatch
    <3>2. config' = config BY <2>2 DEF Dispatch
    <3> QED BY <1>00, <3>1, <3>2 DEF FrameFields
  <2>3. ASSUME Pad PROVE Kept
    <3>1. PICK rows : frame' = [frame EXCEPT !.stage = "metadata", !.rows = rows]
      BY <2>3 DEF Pad
    <3>2. config' = config BY <2>3 DEF Pad
    <3> QED BY <1>00, <3>1, <3>2 DEF FrameFields
  <2>4. ASSUME Metadata PROVE Kept
    <3>1. PICK metas : frame' = [frame EXCEPT !.stage = "run", !.step = 1, !.metas = metas]
      BY <2>4 DEF Metadata
    <3>2. config' = config BY <2>4 DEF Metadata
    <3> QED BY <1>00, <3>1, <3>2 DEF FrameFields
  <2>5. ASSUME Replay PROVE Kept
    <3>1. PICK updates : frame' = [frame EXCEPT !.stage = "ran", !.updates = updates]
      BY <2>5 DEF Replay
    <3>2. config' = config BY <2>5 DEF Replay
    <3> QED BY <1>00, <3>1, <3>2 DEF FrameFields
  <2>6. ASSUME Forward PROVE Kept
    <3>1. PICK stage, forwards :
            frame' = [frame EXCEPT !.stage = stage, !.step = @ + 1, !.forwards = forwards]
      BY <2>6 DEF Forward
    <3>2. config' = config BY <2>6 DEF Forward
    <3> QED BY <1>00, <3>1, <3>2 DEF FrameFields
  <2>7. ASSUME Return \/ Raise PROVE Kept
    <3>1. config' = config /\ frame' = [frame EXCEPT !.stage = "left"]
      BY <2>7 DEF Return, Raise
    <3> QED BY <1>00, <3>1 DEF FrameFields
  <2> QED BY <1>0, <1>4, <2>1, <2>2, <2>3, <2>4, <2>5, <2>6, <2>7, SameProposal
<1>5. CASE Leave
  <2>1. config' = config /\ frame' = Idle(frame.number) BY <1>5 DEF Leave
  <2>2. /\ frame'.saved = Native /\ frame'.host = Native /\ frame'.path = "plain"
        /\ frame'.uniform = FALSE /\ frame'.prefill = FALSE
    BY <2>1 DEF Idle
  <2>3. AttributesOK(Native)
    BY <1>0, NativeTyped DEF Same, SameSteering, SameFlags, SameCapture
  <2>4. AttributesOK(frame'.saved) /\ AttributesOK(frame'.host) BY <2>2, <2>3, Zenon
  <2> QED BY <2>1, <2>2, <2>4 DEF ProposalTyped, AttributesOK
<1> QED BY <1>1, <1>2, <1>3, <1>4, <1>5 DEF Next

\* What a proposal selects, pads, builds and applies.
LEMMA SameResults ==
  ASSUME ResultsTyped, config' = config, frame'.stage # "run",
         frame'.mode = frame.mode, frame'.graph = frame.graph, frame'.rows = frame.rows,
         frame'.metas = frame.metas, frame'.updates = frame.updates
  PROVE  ResultsTyped'
<1>1. Keys(config)' = Keys(config) BY DEF Keys
<1> QED BY <1>1 DEF ResultsTyped, HostGraphs, Metadatas

LEMMA DispatchTyped ==
  ASSUME TypedInv, Dispatch
  PROVE  ResultsTyped'
<1> DEFINE chosen == Dispatched(shared, frame.tokens, frame.uniform)
<1>0. /\ config \in Configs /\ CleanInv /\ Batches /\ Steering /\ ResultsTyped
  BY DEF TypedInv, DraftInv, Captures
<1>1. DOMAIN frame = FrameFields BY DEF TypedInv, DraftInv, CleanInv, Shapes
<1>2. /\ frame.stage = "dispatch" /\ config' = config
      /\ frame' = [frame EXCEPT !.stage = "pad", !.mode = chosen.mode, !.graph = chosen.graph,
                                !.rows = frame.starts]
  BY DEF Dispatch
<1>3. chosen.mode \in {"FULL", "PIECEWISE", "NONE"} BY DEF Dispatched, HostDispatch
<1> HIDE DEF chosen
<1>4. /\ frame'.stage = "pad" /\ frame'.mode = chosen.mode /\ frame'.graph = chosen.graph
      /\ frame'.rows = frame.starts /\ frame'.metas = frame.metas
      /\ frame'.updates = frame.updates /\ frame'.tokens = frame.tokens
  BY <1>1, <1>2 DEF FrameFields
<1>5. /\ frame.starts \in [0..frame.batch -> Nat] /\ frame.batch \in 1..MaxSeqs
      /\ frame.tokens \in Nat
  BY <1>0, <1>2 DEF Batches, Starts
<1>6. Keys(config)' = Keys(config) BY <1>2 DEF Keys
<1>7. frame'.graph \in Keys(config) \cup HostGraphs
  <2>1. Chosen' BY <1>0, DispatchChooses
  <2>2. CASE frame'.mode = "FULL" BY <1>4, <1>6, <2>1, <2>2 DEF Chosen, Covers, Late
  <2>3. CASE frame'.mode # "FULL"
    <3>1. frame'.graph = Graph(PiecewiseBucket(frame'.tokens), Absent, FALSE)
      BY <1>4, <2>1, <2>3 DEF Chosen, Late, PiecewiseBucket
    <3>2. PiecewiseBucket(frame'.tokens) \in Nat BY <1>4, <1>5, PiecewiseFacts
    <3> QED BY <3>1, <3>2 DEF HostGraphs, Graph
  <2> QED BY <2>2, <2>3
<1>8. \A row \in DOMAIN frame'.rows : row \in 0..MaxSeqs /\ frame'.rows[row] \in Nat
  BY <1>4, <1>5, DraftAssumption
<1> QED BY <1>0, <1>3, <1>4, <1>6, <1>7, <1>8 DEF ResultsTyped, HostGraphs, Metadatas

LEMMA PadTyped ==
  ASSUME TypedInv, Pad
  PROVE  ResultsTyped'
<1> DEFINE pads == shared.padding /\ frame.mode = "FULL"
           rows == IF pads THEN Spread(frame.starts, frame.batch, frame.graph.tokens,
                                       frame.graph.reqs)
                           ELSE frame.starts
<1>0. /\ config \in Configs /\ Batches /\ Chosen /\ ResultsTyped
      /\ MaxSeqs \in Nat
  BY DraftAssumption DEF TypedInv, DraftInv, Captures
<1>1. DOMAIN frame = FrameFields BY DEF TypedInv, DraftInv, CleanInv, Shapes
<1>2. /\ frame.stage = "pad" /\ config' = config
      /\ pads => frame.batch <= frame.graph.reqs /\ frame.tokens <= frame.graph.tokens
      /\ frame' = [frame EXCEPT !.stage = "metadata", !.rows = rows]
  BY DEF Pad
<1>3. /\ frame.batch \in 1..MaxSeqs /\ frame.tokens \in Nat
      /\ Starts(frame.starts, frame.batch, frame.tokens)
  BY <1>0, <1>2 DEF Batches
<1>4. \A row \in DOMAIN rows : row \in 0..MaxSeqs /\ rows[row] \in Nat
  <2>1. CASE pads
    <3>1. frame.graph \in Keys(config) BY <1>0, <1>2, <2>1 DEF Chosen, Covers, Late
    <3>2. frame.graph.tokens \in Nat /\ frame.graph.reqs \in 1..MaxSeqs
      BY <3>1, <1>0, DescriptorFacts
    <3>3. /\ frame.graph.reqs \in Nat /\ frame.batch \in Nat BY <3>2, <1>3, <1>0
    <3>4. DOMAIN rows = 0..frame.graph.reqs /\ \A row \in 0..frame.graph.reqs : rows[row] \in Nat
      BY <1>2, <1>3, <2>1, <3>2, <3>3, SpreadKeeps, SMTT(30)
    <3> QED BY <3>2, <3>4, <1>0
  <2>2. CASE ~pads
    <3>1. rows = frame.starts BY <2>2
    <3> QED BY <3>1, <1>0, <1>3 DEF Starts
  <2> QED BY <2>1, <2>2
<1> HIDE DEF rows
<1>5. /\ frame'.stage = "metadata" /\ frame'.rows = rows /\ frame'.mode = frame.mode
      /\ frame'.graph = frame.graph /\ frame'.metas = frame.metas
      /\ frame'.updates = frame.updates
  BY <1>1, <1>2 DEF FrameFields
<1>6. Keys(config)' = Keys(config) BY <1>2 DEF Keys
<1> QED BY <1>0, <1>4, <1>5, <1>6 DEF ResultsTyped, HostGraphs, Metadatas

LEMMA GraphTokens ==
  ASSUME TypedInv
  PROVE  frame.graph.tokens \in Nat /\ frame.graph.reqs \in Nat
<1>1. config \in Configs /\ MaxSeqs \in Nat
  BY DraftAssumption DEF TypedInv, DraftInv, Captures
<1>2. CASE frame.graph \in Keys(config) BY <1>1, <1>2, DescriptorFacts
<1>3. \A graph \in HostGraphs : graph.tokens \in Nat /\ graph.reqs = 0 BY DEF HostGraphs, Absent
<1> QED BY <1>2, <1>3 DEF TypedInv, ResultsTyped

LEMMA ContinuationTyped ==
  ASSUME TypedInv, frame.stage = "metadata"
  PROVE  ContinuationRows \in Nat
<1>0. config \in Configs /\ config.lens \subseteq 3..8 /\ MaxSeqs \in Nat
  BY ConfigFacts, DraftAssumption DEF TypedInv, DraftInv, Captures
<1>1. frame.batch \in Nat BY <1>0 DEF TypedInv, DraftInv, Batches
<1>2. frame.graph.tokens \in Nat BY GraphTokens
<1> DEFINE len == IF shared.capture # Absent THEN shared.capture ELSE shared.len
           chosen == Dispatched(shared, frame.batch, FALSE)
           graph == Selected(shared, frame.batch, FALSE)
<1>3. len \in {Absent} \cup config.lens BY SharedTyped DEF AttributesOK
<1>4. PiecewiseBucket(frame.batch) \in Nat BY <1>1, PiecewiseFacts
<1>5. chosen.graph.tokens \in Nat
  <2>1. chosen = IF graph # NoGraph THEN [mode |-> "FULL", graph |-> graph]
                 ELSE HostDispatch(frame.batch)
    BY DEF Dispatched
  <2>2. graph # NoGraph => graph.tokens \in Nat
    <3>1. CASE StashHit(shared, frame.batch)
      <4>1. PICK bucket \in config.firsts :
                shared.stash = <<frame.tokens, bucket, frame.batch>>
        BY <3>1 DEF TypedInv, DraftInv, Steering, Middle, StashHit
      <4>2. graph.tokens = bucket BY <3>1, <4>1 DEF Selected, Graph
      <4> QED BY <4>2, <1>0, ConfigFacts
    <3>2. CASE ~StashHit(shared, frame.batch)
      <4>1. graph = NoGraph BY <3>2 DEF Selected
      <4> QED BY <4>1
    <3> QED BY <3>1, <3>2
  <2>3. HostDispatch(frame.batch).graph.tokens \in Nat BY <1>4 DEF HostDispatch, Graph
  <2> HIDE DEF graph, chosen
  <2>4. CASE graph = NoGraph
    <3>1. chosen = HostDispatch(frame.batch) BY <2>1, <2>4
    <3> QED BY <3>1, <2>3, Zenon
  <2>5. CASE graph # NoGraph
    <3>1. chosen.graph = graph BY <2>1, <2>5
    <3> QED BY <3>1, <2>2, <2>5
  <2> QED BY <2>4, <2>5
<1> HIDE DEF len, chosen
<1>6. len # Absent => frame.graph.tokens \div len \in Nat
  <2>1. len # Absent => len \in Nat \ {0} BY <1>0, <1>3
  <2> QED BY <2>1, <1>2, Division
<1> QED BY <1>2, <1>4, <1>5, <1>6 DEF ContinuationRows, len, chosen

LEMMA MetadataTyped ==
  ASSUME TypedInv, Metadata
  PROVE  ResultsTyped'
<1> DEFINE gamma == Gamma(frame.len)
           Meta(step) == [step |-> step, rows |-> IF step = 1 THEN frame.graph.tokens
                                                  ELSE ContinuationRows]
           metas == [step \in 1..gamma |-> Meta(step)]
<1>0. config \in Configs /\ config.lens \subseteq 3..8 /\ ResultsTyped
  BY ConfigFacts DEF TypedInv, DraftInv, Captures
<1>1. DOMAIN frame = FrameFields BY DEF TypedInv, DraftInv, CleanInv, Shapes
<1>2. /\ frame.stage = "metadata" /\ config' = config
      /\ frame' = [frame EXCEPT !.stage = "run", !.step = 1, !.metas = metas]
  BY DEF Metadata
<1>3. gamma \in 1..6 BY <1>0, <1>2 DEF TypedInv, DraftInv, Batches, Gamma
<1>4. ContinuationRows \in Nat /\ frame.graph.tokens \in Nat
  BY <1>2, ContinuationTyped, GraphTokens
<1>5. \A step \in 1..gamma : Meta(step) \in Metadatas BY <1>3, <1>4 DEF Metadatas
<1> HIDE DEF Meta
<1>6. metas \in Seq(Metadatas) BY <1>3, <1>5
<1> HIDE DEF metas
<1>7. /\ frame'.stage = "run" /\ frame'.step = 1 /\ frame'.metas = metas
      /\ frame'.mode = frame.mode /\ frame'.graph = frame.graph /\ frame'.rows = frame.rows
      /\ frame'.updates = frame.updates /\ frame'.len = frame.len
  BY <1>1, <1>2 DEF FrameFields
<1>8. Keys(config)' = Keys(config) BY <1>2 DEF Keys
<1>9. frame'.step \in 1..Gamma(frame'.len) BY <1>3, <1>7
<1>10. Metadatas' = Metadatas /\ HostGraphs' = HostGraphs /\ Gamma(frame.len)' = Gamma(frame'.len)
  BY DEF Metadatas, HostGraphs, Gamma
<1> QED BY <1>0, <1>6, <1>7, <1>8, <1>9, <1>10 DEF ResultsTyped

LEMMA CompactTyped ==
  ASSUME NEW meta \in Metadatas, NEW rows \in Nat
  PROVE  Compact(meta, rows) \in Metadatas
<1>1. meta.rows \in Nat /\ meta.step \in 1..6 BY DEF Metadatas
<1>2. Min({meta.rows, rows}) \in Nat
  <2> DEFINE held == meta.rows
  <2>1. held \in Nat /\ held \in Int /\ rows \in Int BY <1>1
  <2> HIDE DEF held
  <2>2. Min({held, rows}) \in {held, rows} BY <2>1, LesserOfTwo
  <2>3. Min({held, rows}) \in Nat BY <2>1, <2>2
  <2> QED BY <2>3 DEF held
<1>3. Compact(meta, rows) = [meta EXCEPT !.rows = Min({meta.rows, rows})] BY DEF Compact
<1> QED BY <1>2, <1>3 DEF Metadatas

LEMMA ReplayTyped ==
  ASSUME TypedInv, Replay
  PROVE  ResultsTyped'
<1> DEFINE key == frame.graph.tokens
           metas == frame.metas
<1>0. /\ ResultsTyped /\ RowsTyped(widths) /\ RowsTyped(splits) /\ MaxSeqs \in Nat
  BY DraftAssumption DEF TypedInv
<1>1. DOMAIN frame = FrameFields BY DEF TypedInv, DraftInv, CleanInv, Shapes
<1>2. /\ config' = config /\ frame' = [frame EXCEPT !.stage = "ran", !.updates = Updates]
  BY DEF Replay
<1>3. metas \in Seq(Metadatas) BY <1>0 DEF ResultsTyped
<1>4. UnifiedRows \in Nat
  <2>1. \A tokens \in DOMAIN widths : widths[tokens] \in Nat BY <1>0 DEF RowsTyped
  <2>2. frame.graph.reqs \in Nat BY GraphTokens
  <2> QED BY <2>1, <2>2 DEF UnifiedRows, Absent
<1>5. \A k \in DOMAIN Updates : Updates[k] \in Seq(Metadatas)
  <2>1. CASE UnifiedRows # Absent /\ Len(metas) > 1
    <3> DEFINE Meta(step) == IF step = 1 THEN metas[1] ELSE Compact(metas[step], UnifiedRows)
               list == [step \in DOMAIN metas |-> Meta(step)]
    <3>1. Updates = [k \in {key} |-> list] BY <2>1, Zenon DEF Updates
    <3>2. \A step \in DOMAIN metas : Meta(step) \in Metadatas
      BY <1>3, <1>4, <2>1, CompactTyped
    <3> HIDE DEF Meta
    <3>3. list \in Seq(Metadatas) BY <1>3, <3>2
    <3> HIDE DEF list
    <3> QED BY <3>1, <3>3
  <2>2. CASE ~(UnifiedRows # Absent /\ Len(metas) > 1) /\ key \in DOMAIN splits /\ Len(metas) > 1
    <3> DEFINE first == [k \in {key} |-> <<metas[1]>>]
               second == <<Compact(metas[2], splits[key])>>
    <3>1. Updates = With(first, -(key + 1), second) BY <2>2, Zenon DEF Updates
    <3>2. metas[1] \in Metadatas /\ metas[2] \in Metadatas BY <1>3, <2>2
    <3>3. splits[key] \in Nat BY <1>0, <2>2 DEF RowsTyped
    <3>4. Compact(metas[2], splits[key]) \in Metadatas BY <3>2, <3>3, CompactTyped
    <3>5. <<metas[1]>> \in Seq(Metadatas) /\ second \in Seq(Metadatas) BY <3>2, <3>4
    <3> HIDE DEF second, metas
    <3>6. \A k \in DOMAIN first : first[k] \in Seq(Metadatas) BY <3>5
    <3> HIDE DEF first
    <3> QED BY <3>1, <3>5, <3>6 DEF With
  <2>3. CASE ~(UnifiedRows # Absent /\ Len(metas) > 1) /\ ~(key \in DOMAIN splits /\ Len(metas) > 1)
    <3>1. Updates = [k \in {key} |-> metas] BY <2>3, Zenon DEF Updates
    <3> HIDE DEF metas
    <3> QED BY <3>1, <1>3
  <2> QED BY <2>1, <2>2, <2>3
<1>6. /\ frame'.stage = "ran" /\ frame'.updates = Updates /\ frame'.mode = frame.mode
      /\ frame'.graph = frame.graph /\ frame'.rows = frame.rows /\ frame'.metas = frame.metas
  BY <1>1, <1>2 DEF FrameFields
<1>7. Keys(config)' = Keys(config) BY <1>2 DEF Keys
<1> QED BY <1>0, <1>5, <1>6, <1>7, Zenon DEF ResultsTyped, HostGraphs, Metadatas

\* No forward is counted beyond the drafts of the width.
LEMMA ForwardTyped ==
  ASSUME TypedInv, Forward
  PROVE  ResultsTyped'
<1> DEFINE stage == IF frame.step = Gamma(frame.len) THEN "ran" ELSE "run"
           forwards == Append(frame.forwards, ForwardOf(frame.step))
<1>0. config \in Configs /\ config.lens \subseteq 3..8 /\ ResultsTyped
  BY ConfigFacts DEF TypedInv, DraftInv, Captures
<1>1. DOMAIN frame = FrameFields BY DEF TypedInv, DraftInv, CleanInv, Shapes
<1>2. /\ frame.stage = "run" /\ config' = config
      /\ frame' = [frame EXCEPT !.stage = stage, !.step = @ + 1, !.forwards = forwards]
  BY DEF Forward
<1>3. frame.step \in 1..Gamma(frame.len) BY <1>0, <1>2 DEF ResultsTyped
<1>4. Gamma(frame.len) \in Int BY <1>0, <1>2 DEF TypedInv, DraftInv, Batches, Gamma
<1> HIDE DEF forwards
<1>5. /\ frame'.stage = stage /\ frame'.step = frame.step + 1 /\ frame'.len = frame.len
      /\ frame'.mode = frame.mode /\ frame'.graph = frame.graph /\ frame'.rows = frame.rows
      /\ frame'.metas = frame.metas /\ frame'.updates = frame.updates
  BY <1>1, <1>2 DEF FrameFields
<1>6. frame'.stage = "run" => frame'.step \in 1..Gamma(frame.len) BY <1>3, <1>4, <1>5
<1>7. /\ Keys(config)' = Keys(config) /\ Metadatas' = Metadatas /\ HostGraphs' = HostGraphs
      /\ Gamma(frame.len)' = Gamma(frame.len)
  BY <1>2, <1>5 DEF Keys, Metadatas, HostGraphs, Gamma
<1> HIDE DEF stage
<1> QED BY <1>0, <1>5, <1>6, <1>7 DEF ResultsTyped

LEMMA ResultsKept ==
  ASSUME TypedInv, Next
  PROVE  ResultsTyped'
<1>0. config \in Configs /\ CleanInv /\ ResultsTyped BY DEF TypedInv, DraftInv, Captures
<1>00. DOMAIN frame = FrameFields BY <1>0 DEF CleanInv, Shapes
<1> DEFINE Kept == /\ config' = config /\ frame'.stage # "run"
                   /\ frame'.mode = frame.mode /\ frame'.graph = frame.graph
                   /\ frame'.rows = frame.rows /\ frame'.metas = frame.metas
                   /\ frame'.updates = frame.updates
<1>1. ASSUME (\E graph \in Keys(config) : BeginCapture(graph)) \/ EndCapture PROVE Kept
  <2>1. frame' = frame /\ frame.stage = "idle" BY <1>1, CapturesWhileIdle DEF TypedInv
  <2>2. config' = config
    <3>1. CASE \E graph \in Keys(config) : BeginCapture(graph)
      BY <3>1, Zenon DEF BeginCapture
    <3>2. CASE EndCapture BY <3>2 DEF EndCapture
    <3> QED BY <1>1, <3>1, <3>2
  <2> QED BY <2>1, <2>2
<1>2. ASSUME UniformFrame \/ MixedFrame PROVE Kept
  <2>1. PICK batch, len, kept, tokens, uniform, prefill :
            HostFrame(batch, len, kept, tokens, uniform, prefill)
    BY <1>2 DEF UniformFrame, MixedFrame
  <2>2. PICK starts :
            frame' = [frame EXCEPT !.stage = "entered", !.number = @ + 1,
                        !.batch = batch, !.len = len, !.kept = kept, !.tokens = tokens,
                        !.uniform = uniform, !.prefill = prefill, !.host = shared,
                        !.starts = starts]
    BY <2>1 DEF HostFrame
  <2>3. config' = config BY <2>1 DEF HostFrame
  <2> QED BY <1>00, <2>2, <2>3 DEF FrameFields
<1>3. ASSUME Propose PROVE Kept
  <2>1. PICK path : frame' = [frame EXCEPT !.stage = "inputs", !.path = path, !.saved = shared]
    BY <1>3 DEF Propose
  <2>2. config' = config BY <1>3 DEF Propose
  <2> QED BY <1>00, <2>1, <2>2 DEF FrameFields
<1>4. ASSUME NEW ready \in BOOLEAN, FirstPass(ready) PROVE Kept
  <2>1. \/ frame' = [frame EXCEPT !.stage = "dispatch"]
        \/ frame' = [frame EXCEPT !.stage = "dispatch", !.tokens = Compacted,
                                  !.starts = KeptBefore]
    BY <1>4 DEF FirstPass
  <2>2. config' = config BY <1>4 DEF FirstPass
  <2> QED BY <1>00, <2>1, <2>2 DEF FrameFields
<1>5. ASSUME Return \/ Raise PROVE Kept
  <2>1. config' = config /\ frame' = [frame EXCEPT !.stage = "left"]
    BY <1>5 DEF Return, Raise
  <2> QED BY <1>00, <2>1 DEF FrameFields
<1>6. CASE Leave
  <2>1. config' = config /\ frame' = Idle(frame.number) BY <1>6 DEF Leave
  <2>2. /\ frame'.stage = "idle" /\ frame'.mode = "NONE" /\ frame'.graph = NoGraph
        /\ frame'.rows = <<>> /\ frame'.metas = <<>> /\ frame'.updates = <<>>
    BY <2>1 DEF Idle
  <2>3. NoGraph \in HostGraphs BY DEF NoGraph, Graph, HostGraphs, Absent
  <2>4. frame'.metas \in Seq(Metadatas) BY <2>2
  <2>5. /\ Keys(config)' = Keys(config) /\ Metadatas' = Metadatas /\ HostGraphs' = HostGraphs
    BY <2>1 DEF Keys, Metadatas, HostGraphs
  <2>6. \A row \in DOMAIN frame'.rows : row \in 0..MaxSeqs /\ frame'.rows[row] \in Nat
    BY <2>2
  <2>7. \A key \in DOMAIN frame'.updates : frame'.updates[key] \in Seq(Metadatas)
    BY <2>2
  <2> QED BY <2>2, <2>3, <2>4, <2>5, <2>6, <2>7 DEF ResultsTyped
<1>7. ASSUME Kept PROVE ResultsTyped' BY <1>0, <1>7, SameResults
<1> HIDE DEF Kept
<1> QED BY <1>1, <1>2, <1>3, <1>4, <1>5, <1>6, <1>7, DispatchTyped, PadTyped, MetadataTyped,
        ReplayTyped, ForwardTyped DEF Next

LEMMA NextTyped == ASSUME TypedInv, Next PROVE TypedInv'
<1>1. DraftInv' BY NextDraft DEF TypedInv
<1> QED BY <1>1, FlagsKept, CapturesKept, ProposalKept, ResultsKept DEF TypedInv

LEMMA StutterTyped == ASSUME TypedInv, UNCHANGED vars PROVE TypedInv'
<1>0. UNCHANGED <<config, tables, widths, splits, shared, capture, frame>> BY DEF vars
<1>1. DraftInv' BY StutterDraft DEF TypedInv
<1>2. Keys(config)' = Keys(config) BY <1>0 DEF Keys
<1>3. FlagsTyped' BY <1>0 DEF TypedInv, FlagsTyped, Flags
<1>4. CapturesTyped' BY <1>0, <1>2 DEF TypedInv, CapturesTyped, Same, SameSteering, SameFlags,
                            SameCapture
<1>5. RowsTyped(widths)' /\ RowsTyped(splits)' BY <1>0, <1>2 DEF TypedInv, RowsTyped
<1>6. ProposalTyped' BY <1>0, SameProposal DEF TypedInv
<1>7. ResultsTyped' BY <1>0, <1>2 DEF TypedInv, ResultsTyped, HostGraphs, Metadatas, Gamma
<1> QED BY <1>1, <1>3, <1>4, <1>5, <1>6, <1>7 DEF TypedInv

\* For any settings, sizes and number of proposals: the dispatcher's attributes
\* hold only what the host and the plugin put there, and outside a capture and a
\* proposal what the host left; tasks and compact rows are recorded for
\* descriptors of the configuration; and every field of a proposal, its padded
\* rows, metadata, updates and forwards with it, has its type, with no forward
\* beyond the width's (draft.py, warmup_and_capture, _propose, draft_propose).
THEOREM DraftTyped == Spec => []TypeOK
<1>1. Init => TypedInv BY InitTyped
<1>2. TypedInv /\ [Next]_vars => TypedInv' BY NextTyped, StutterTyped
<1> QED BY <1>1, <1>2, TypedIsTypeOK, PTL DEF Spec

\* For every batch, compacted or not, padding moves no real row's start, keeps
\* the starts in order and ends at the graph's last token (draft.py,
\* pad_query_start_loc_for_fia, compact_first_pass_inputs).
THEOREM PaddingHolds == Spec => []PaddingKeepsRows
<1>1. Init => DraftInv BY InitDraft
<1>2. DraftInv /\ [Next]_vars => DraftInv' BY NextDraft, StutterDraft
<1>3. DraftInv => PaddingKeepsRows BY DEF DraftInv
<1> QED BY <1>1, <1>2, <1>3, PTL DEF Spec

LEMMA ForwardsCovered ==
  ASSUME ForcedSizesCaptured, DraftInv, ForwardsCover, [Next]_vars
  PROVE  ForwardsCover'
<1>1. CASE Forward
  <2>1. /\ frame.stage = "run" /\ SameBatch
        /\ frame'.forwards = Append(frame.forwards, ForwardOf(frame.step))
    BY <1>1, ForwardFrame
  <2>2. /\ frame.forwards \in Seq([mode : {"outer", "PIECEWISE"}, rows : Nat])
        /\ frame.step = Len(frame.forwards) + 1
    BY <2>1 DEF DraftInv, Forwards
  <2>3. frame.step \in Nat \ {0} BY <2>2
  <2> DEFINE forwards == frame.forwards
             forward == ForwardOf(frame.step)
             S == [mode : {"outer", "PIECEWISE"}, rows : Nat]
  <2>4. forward \in S /\ ForwardCovers(forward, frame.step)
    BY <2>1, <2>3, ForwardOfCovers DEF DraftInv
  <2> HIDE DEF forward
  <2>5. ASSUME NEW step \in DOMAIN frame'.forwards
        PROVE  ForwardCovers(frame'.forwards[step], step)
    <3>1. frame'.forwards = Append(forwards, forward) BY <2>1 DEF forward
    <3>2. forwards \in Seq(S) /\ frame.step = Len(forwards) + 1 BY <2>2
    <3>3. \A k \in DOMAIN forwards : ForwardCovers(forwards[k], k) BY DEF ForwardsCover
    <3> HIDE DEF forwards, S
    <3>4. step \in 1..(Len(forwards) + 1) BY <3>1, <3>2, <2>4, <2>5
    <3>5. CASE step = Len(forwards) + 1
      <4>1. frame'.forwards[step] = forward BY <3>1, <3>2, <3>5, <2>4
      <4> QED BY <4>1, <3>2, <3>5, <2>4
    <3>6. CASE step # Len(forwards) + 1
      <4>1. step \in 1..Len(forwards) /\ Len(forwards) \in Nat BY <3>2, <3>4, <3>6
      <4>2. step \in DOMAIN forwards BY <3>2, <4>1
      <4>3. frame'.forwards[step] = forwards[step] BY <3>1, <3>2, <4>1, <2>4
      <4> QED BY <4>2, <4>3, <3>3
    <3> QED BY <3>5, <3>6
  <2> QED BY <2>1, <2>5 DEF ForwardsCover, ForwardCovers, RowsOf, SameBatch
<1>2. CASE (\E graph \in Keys(config) : BeginCapture(graph)) \/ EndCapture \/ UNCHANGED vars
  <2>1. frame' = frame BY <1>2 DEF BeginCapture, EndCapture, vars
  <2> QED BY <2>1 DEF ForwardsCover, ForwardCovers, RowsOf
<1>3. CASE Metadata \/ Replay
  <2>1. SameBatch /\ frame'.forwards = frame.forwards BY <1>3, MetadataFrame
  <2> QED BY <2>1 DEF ForwardsCover, ForwardCovers, RowsOf, SameBatch
<1>4. CASE Return \/ Raise
  <2>1. SameBatch /\ frame'.forwards = frame.forwards BY <1>4, LeavingFrame
  <2> QED BY <2>1 DEF ForwardsCover, ForwardCovers, RowsOf, SameBatch
<1>5. CASE \/ UniformFrame \/ MixedFrame \/ Propose \/ (\E ready \in BOOLEAN : FirstPass(ready))
           \/ Dispatch \/ Pad \/ Leave
  <2>1. frame'.stage \in {"idle", "entered", "inputs", "dispatch", "pad", "metadata"}
    <3>1. DOMAIN frame = FrameFields BY DEF DraftInv, CleanInv, Shapes
    <3>2. CASE UniformFrame \/ MixedFrame BY <3>2, HostFrameEnters
    <3>3. CASE Propose BY <3>1, <3>3 DEF Propose, FrameFields
    <3>4. CASE \E ready \in BOOLEAN : FirstPass(ready)
      <4>1. \/ \E tokens, starts : frame' = [frame EXCEPT !.stage = "dispatch", !.tokens = tokens,
                                                          !.starts = starts]
            \/ frame' = [frame EXCEPT !.stage = "dispatch"]
        BY <3>4 DEF FirstPass
      <4> QED BY <4>1, <3>1 DEF FrameFields
    <3>5. CASE Dispatch BY <3>1, <3>5 DEF Dispatch, FrameFields
    <3>6. CASE Pad BY <3>1, <3>6 DEF Pad, FrameFields
    <3>7. CASE Leave BY <3>7 DEF Leave, Idle
    <3> QED BY <1>5, <3>2, <3>3, <3>4, <3>5, <3>6, <3>7
  <2>2. DraftInv' BY NextDraft, StutterDraft
  <2>3. frame'.forwards = <<>> BY <2>1, <2>2 DEF DraftInv, Forwards
  <2> QED BY <2>3 DEF ForwardsCover
<1> QED BY <1>1, <1>2, <1>3, <1>4, <1>5 DEF Next

LEMMA DraftCovers == DraftInv /\ ForwardsCover => GraphCoversBatch
<1> SUFFICES ASSUME DraftInv, ForwardsCover PROVE GraphCoversBatch OBVIOUS
<1>1. ASSUME frame.stage \in {"pad", "metadata", "run", "ran"}, frame.mode = "FULL"
      PROVE  /\ frame.graph \in capture.done
             /\ frame.graph.reqs >= frame.batch /\ frame.graph.tokens >= frame.tokens
  <2>1. Covers(frame.graph) BY <1>1 DEF DraftInv, Chosen, Late
  <2>2. capture.running = NoGraph /\ capture.tried = Keys(config)
    BY <1>1 DEF DraftInv, CleanInv, Proposing
  <2>3. capture.done = Keys(config) BY <2>2 DEF DraftInv, Captures
  <2> QED BY <2>1, <2>3 DEF Covers
<1> QED BY <1>1 DEF GraphCoversBatch, ForwardsCover, ForwardCovers, RowsOf

\* A FULL proposal replays a captured graph that holds its requests and tokens,
\* and a piecewise forward has a captured size (draft.py, select_draft_graph,
\* _compact_piecewise_bucket).
THEOREM GraphsCover == ASSUME ForcedSizesCaptured PROVE Spec => []GraphCoversBatch
<1>1. Init => DraftInv /\ ForwardsCover
  <2>1. Init => frame.forwards = <<>> BY DEF Init, Idle
  <2> QED BY <2>1, InitDraft DEF ForwardsCover
<1>2. DraftInv /\ ForwardsCover /\ [Next]_vars => (DraftInv /\ ForwardsCover)'
  BY NextDraft, StutterDraft, ForwardsCovered
<1> QED BY <1>1, <1>2, DraftCovers, PTL DEF Spec

(***************************************************************************)
(* Replays: what a capture records.                                        *)
(***************************************************************************)
GraphGamma(graph) == Gamma(GraphLen(graph))

RecordedOnce ==
    \A key \in DOMAIN tables :
        \E graph \in capture.done : /\ key \in {graph.tokens, -(graph.tokens + 1)}
                                    /\ tables[key] = Tasks(graph, key)
RecordedWidths ==
    \A graph \in Keys(config) :
        /\ graph.tokens \in DOMAIN widths <=>
               /\ graph \in capture.done /\ UnifiedPath(GraphGamma(graph))
               /\ graph.reqs # graph.tokens
        /\ graph.tokens \in DOMAIN widths => widths[graph.tokens] = graph.reqs
RecordedSplits ==
    \A graph \in Keys(config) :
        /\ graph.tokens \in DOMAIN splits <=>
               /\ graph \in capture.done /\ SplitPath(GraphGamma(graph))
               /\ graph.reqs # graph.tokens
        /\ graph.tokens \in DOMAIN splits => splits[graph.tokens] = graph.reqs

\* The query length a FULL replay is steered with is its descriptor's.
Lengths ==
    /\ frame.stage \in Middle /\ frame.path = "force" => shared.runnable = "body"
    /\ frame.stage \in Late /\ frame.mode = "FULL" =>
           IF frame.graph.uniform THEN shared.len = frame.len
                                  ELSE ~config.runtime => shared.len = Absent

\* Rows of the continuation metadata of a FULL replay.
Divided(c, gamma) == c.merged \/ (gamma = 2 /\ c.precompact)
FullRows == IF frame.graph.uniform /\ Divided(config, Gamma(frame.len))
            THEN frame.graph.reqs ELSE frame.graph.tokens
FullMeta(step) == [step |-> step, rows |-> IF step = 1 THEN frame.graph.tokens ELSE FullRows]
Metas ==
    /\ frame.stage \notin {"ran", "left"} => frame.updates = <<>>
    /\ frame.stage = "run" /\ Replays =>
           frame.metas = [step \in 1..Gamma(frame.len) |-> FullMeta(step)]

Recordings == RecordedOnce /\ RecordedWidths /\ RecordedSplits

LEMMA KeyTokens ==
  ASSUME SwitchesAgree, config \in Configs,
         NEW graph \in Keys(config), NEW other \in Keys(config), graph.tokens = other.tokens
  PROVE  graph = other
BY DEF SwitchesAgree

LEMMA GammaOfGraph ==
  ASSUME config \in Configs, NEW graph \in Keys(config)
  PROVE  GraphGamma(graph) \in 1..6
<1>1. graph.uniform => Width(graph) \in 3..8 BY DescriptorFacts, ConfigFacts
<1> QED BY <1>1 DEF GraphGamma, Gamma, GraphLen

\* Which steps a descriptor's capture records under which list.
LEMMA TaskLists ==
  ASSUME config \in Configs, NEW graph \in Keys(config),
         NEW gamma, gamma = GraphGamma(graph)
  PROVE  /\ \A key : key \notin {graph.tokens, -(graph.tokens + 1)} => Tasks(graph, key) = <<>>
         /\ ~SplitPath(gamma) =>
                /\ DOMAIN Tasks(graph, graph.tokens) = 1..gamma
                /\ DOMAIN Tasks(graph, -(graph.tokens + 1)) = {}
         /\ SplitPath(gamma) =>
                /\ DOMAIN Tasks(graph, graph.tokens) = {1}
                /\ DOMAIN Tasks(graph, -(graph.tokens + 1)) = 1..(gamma - 1)
         /\ \A i \in DOMAIN Tasks(graph, graph.tokens) :
                Tasks(graph, graph.tokens)[i] =
                    [graph |-> graph, step |-> i,
                     rows |-> IF i = 1 THEN graph.tokens ELSE CaptureRows(graph, gamma)]
         /\ \A i \in DOMAIN Tasks(graph, -(graph.tokens + 1)) :
                Tasks(graph, -(graph.tokens + 1))[i] =
                    [graph |-> graph, step |-> i + 1, rows |-> CaptureRows(graph, gamma)]
<1> DEFINE First(key) == IF TaskKey(graph, gamma, 1) = key THEN 1 ELSE 2
           Last(key) == IF TaskKey(graph, gamma, 2) = key THEN gamma ELSE 1
           Task(step) == [graph |-> graph, step |-> step,
                          rows |-> IF step = 1 THEN graph.tokens ELSE CaptureRows(graph, gamma)]
           under == graph.tokens
           split == -(graph.tokens + 1)
<1>1. \A key : Tasks(graph, key)
                  = [i \in 1..(Last(key) - First(key) + 1) |-> Task(First(key) + i - 1)]
  BY DEF Tasks, GraphGamma
<1>2. gamma \in 1..6 /\ under \in Nat \ {0} BY GammaOfGraph, DescriptorFacts
<1>3. split \in Int /\ split # under BY <1>2
<1>4. /\ TaskKey(graph, gamma, 1) = under
      /\ TaskKey(graph, gamma, 2) = IF SplitPath(gamma) THEN split ELSE under
  BY DEF TaskKey
<1> HIDE DEF under, split
<1>5. First(under) = 1 /\ First(split) = 2 BY <1>3, <1>4
<1>6. /\ ~SplitPath(gamma) => Last(under) = gamma /\ Last(split) = 1
      /\ SplitPath(gamma) => Last(under) = 1 /\ Last(split) = gamma
  BY <1>3, <1>4
<1>7. \A key : key \notin {under, split} => First(key) = 2 /\ Last(key) = 1 BY <1>4
<1> HIDE DEF First, Last, Task
<1>8. ASSUME NEW key, key \notin {under, split} PROVE Tasks(graph, key) = <<>>
  <2>1. Last(key) - First(key) + 1 = 0 BY <1>7, <1>8
  <2> QED BY <2>1, <1>1
<1>9. /\ \A i \in DOMAIN Tasks(graph, under) : Tasks(graph, under)[i] = Task(i)
      /\ DOMAIN Tasks(graph, under) = 1..Last(under)
  <2>1. Tasks(graph, under) = [i \in 1..(Last(under) - 1 + 1) |-> Task(1 + i - 1)]
    BY <1>1, <1>5
  <2>2. Last(under) \in Int BY <1>2, <1>6
  <2>3. Last(under) - 1 + 1 = Last(under) BY <2>2
  <2>4. \A i \in 1..Last(under) : 1 + i - 1 = i BY <2>2
  <2> QED BY <2>1, <2>3, <2>4
<1>10. /\ \A i \in DOMAIN Tasks(graph, split) : Tasks(graph, split)[i] = Task(i + 1)
       /\ DOMAIN Tasks(graph, split) = 1..(Last(split) - 1)
  <2>1. Tasks(graph, split) = [i \in 1..(Last(split) - 2 + 1) |-> Task(2 + i - 1)]
    BY <1>1, <1>5
  <2>2. Last(split) \in Int BY <1>2, <1>6
  <2>3. Last(split) - 2 + 1 = Last(split) - 1 BY <2>2
  <2>4. \A i \in 1..(Last(split) - 1) : 2 + i - 1 = i + 1 BY <2>2
  <2> QED BY <2>1, <2>3, <2>4
<1>11. \A i \in DOMAIN Tasks(graph, split) : i + 1 # 1
  <2>1. Last(split) \in Int BY <1>2, <1>6
  <2> QED BY <2>1, <1>10
<1>12. 1..1 = {1} /\ 1..(1 - 1) = {} OBVIOUS
<1> QED BY <1>6, <1>8, <1>9, <1>10, <1>11, <1>12 DEF Task, under, split

LEMMA EndCaptureAppends ==
  ASSUME SwitchesAgree, DraftInv, EndCapture, RecordedOnce
  PROVE  RecordedOnce'
<1> DEFINE graph == capture.running
           ran == Dispatched(shared, capture.running.tokens, capture.running.uniform)
           own == {graph.tokens, -(graph.tokens + 1)}
           captured == capture'.done
<1>1. /\ capture.running # NoGraph /\ config' = config /\ tables' = Recorded(ran.graph)
      /\ capture' = [capture EXCEPT !.running = NoGraph, !.done = @ \cup {ran.graph}]
  BY DEF EndCapture
<1>2. ran = [mode |-> "FULL", graph |-> graph] BY <1>1, CaptureSelects DEF DraftInv
<1>3. DOMAIN capture = CaptureFields BY DEF DraftInv, CleanInv, Shapes
<1>4. /\ graph \in Keys(config) /\ config \in Configs /\ graph \notin capture.done
      /\ capture.done \subseteq Keys(config)
  BY <1>1 DEF DraftInv, Captures
<1> HIDE DEF ran
<1>5. captured = capture.done \cup {graph} /\ tables' = Recorded(graph)
  BY <1>1, <1>2, <1>3 DEF CaptureFields
<1>6. graph.tokens \in Nat \ {0} BY <1>4, DescriptorFacts
<1> HIDE DEF graph, captured
<1>7. ASSUME NEW key \in DOMAIN tables PROVE key \notin own
  <2>1. PICK other \in capture.done : key \in {other.tokens, -(other.tokens + 1)}
    BY <1>7 DEF RecordedOnce
  <2>2. other \in Keys(config) /\ other # graph BY <1>4
  <2>3. other.tokens \in Nat \ {0} BY <1>4, <2>2, DescriptorFacts
  <2>4. other.tokens # graph.tokens BY <1>4, <2>2, KeyTokens
  <2> QED BY <1>6, <2>1, <2>3, <2>4
<1>8. /\ DOMAIN tables' = DOMAIN tables \cup own
      /\ \A key \in DOMAIN tables' :
             tables'[key] = (IF key \in DOMAIN tables THEN tables[key] ELSE <<>>)
                                \o Tasks(graph, key)
  BY <1>5 DEF Recorded
<1>9. ASSUME NEW key \in DOMAIN tables'
      PROVE  \E other \in captured : /\ key \in {other.tokens, -(other.tokens + 1)}
                                     /\ tables'[key] = Tasks(other, key)
  <2>1. CASE key \in DOMAIN tables
    <3>1. Tasks(graph, key) = <<>> BY <2>1, <1>4, <1>7, TaskLists
    <3> DEFINE list == tables[key]
    <3>2. list \in Seq(TaskSet) BY <2>1 DEF DraftInv, RecordedTasks
    <3>3. tables'[key] = list \o <<>> BY <2>1, <1>8, <1>9, <3>1
    <3> HIDE DEF list
    <3>4. tables'[key] = list BY <3>2, <3>3
    <3> QED BY <2>1, <3>4, <1>5 DEF RecordedOnce, list
  <2>2. CASE key \notin DOMAIN tables
    <3> DEFINE new == Tasks(graph, key)
    <3>1. key \in own BY <2>2, <1>8, <1>9
    <3>2. new \in Seq(TaskSet) BY <1>4, TasksTyped
    <3>3. tables'[key] = <<>> \o new BY <2>2, <1>8, <1>9
    <3> HIDE DEF new
    <3>4. tables'[key] = new BY <3>2, <3>3
    <3> QED BY <3>1, <3>4, <1>5 DEF new
  <2> QED BY <2>1, <2>2
<1>10. \A other, key : Tasks(other, key)' = Tasks(other, key)
  BY <1>1 DEF Tasks, TaskKey, CaptureRows, SplitPath, UnifiedPath, SerialPath, GraphLen
<1> QED BY <1>9, <1>10 DEF RecordedOnce, captured

LEMMA EndCaptureWidths ==
  ASSUME SwitchesAgree, DraftInv, EndCapture, RecordedWidths, RecordedSplits
  PROVE  RecordedWidths' /\ RecordedSplits'
<1> DEFINE graph == capture.running
           ran == Dispatched(shared, capture.running.tokens, capture.running.uniform)
           gamma == GraphGamma(graph)
           rows == CaptureRows(graph, gamma)
           captured == capture'.done
<1>1. /\ capture.running # NoGraph /\ config' = config
      /\ capture' = [capture EXCEPT !.running = NoGraph, !.done = @ \cup {ran.graph}]
  BY DEF EndCapture
<1>2. ran = [mode |-> "FULL", graph |-> graph] BY <1>1, CaptureSelects DEF DraftInv
<1>3. ran.graph = graph BY <1>2
<1>4. /\ widths' = IF UnifiedPath(gamma) /\ rows # graph.tokens
                   THEN With(widths, graph.tokens, rows) ELSE widths
      /\ splits' = IF SplitPath(gamma) /\ rows # graph.tokens
                   THEN With(splits, graph.tokens, rows) ELSE splits
  BY <1>3, Zenon DEF EndCapture, GraphGamma
<1>5. DOMAIN capture = CaptureFields BY DEF DraftInv, CleanInv, Shapes
<1>6. /\ graph \in Keys(config) /\ config \in Configs /\ graph \notin capture.done
      /\ capture.done \subseteq Keys(config)
  BY <1>1 DEF DraftInv, Captures
<1> HIDE DEF ran
<1>7. captured = capture.done \cup {graph} BY <1>1, <1>3, <1>5 DEF CaptureFields
<1> HIDE DEF graph, captured
<1>8. UnifiedPath(gamma) \/ SplitPath(gamma) => rows = graph.reqs BY DEF CaptureRows
<1> HIDE DEF rows, gamma
<1>9. \A g : /\ UnifiedPath(GraphGamma(g))' <=> UnifiedPath(GraphGamma(g))
             /\ SplitPath(GraphGamma(g))' <=> SplitPath(GraphGamma(g))
  BY <1>1 DEF SplitPath, UnifiedPath, SerialPath, GraphGamma, GraphLen
<1>10. Keys(config)' = Keys(config) BY <1>1 DEF Keys
<1>11. ASSUME NEW other \in Keys(config), other # graph
       PROVE  /\ other.tokens # graph.tokens
              /\ other \in captured <=> other \in capture.done
  BY <1>6, <1>7, <1>11, KeyTokens
<1>12. ASSUME NEW other \in Keys(config)
       PROVE  /\ other.tokens \in DOMAIN widths' <=>
                     /\ other \in captured /\ UnifiedPath(GraphGamma(other))
                     /\ other.reqs # other.tokens
              /\ other.tokens \in DOMAIN widths' => widths'[other.tokens] = other.reqs
  <2>1. CASE other = graph
    <3>1. graph.tokens \notin DOMAIN widths BY <1>6 DEF RecordedWidths
    <3>2. CASE UnifiedPath(gamma) /\ rows # graph.tokens
      <4>1. widths' = With(widths, graph.tokens, rows) BY <3>2, <1>4
      <4>2. graph.tokens \in DOMAIN widths' /\ widths'[graph.tokens] = graph.reqs
        BY <4>1, <3>2, <1>8 DEF With
      <4> QED BY <2>1, <3>2, <4>2, <1>7, <1>8 DEF gamma
    <3>3. CASE ~(UnifiedPath(gamma) /\ rows # graph.tokens)
      <4>1. widths' = widths BY <3>3, <1>4
      <4> QED BY <2>1, <3>1, <3>3, <4>1, <1>7, <1>8 DEF gamma
    <3> QED BY <3>2, <3>3
  <2>2. CASE other # graph
    <3>1. /\ other.tokens \in DOMAIN widths' <=> other.tokens \in DOMAIN widths
          /\ other.tokens \in DOMAIN widths => widths'[other.tokens] = widths[other.tokens]
      <4>1. other.tokens # graph.tokens BY <2>2, <1>11
      <4>2. CASE widths' = With(widths, graph.tokens, rows) BY <4>1, <4>2 DEF With
      <4>3. CASE widths' = widths BY <4>3
      <4> QED BY <1>4, <4>2, <4>3
    <3> QED BY <2>2, <3>1, <1>11 DEF RecordedWidths
  <2> QED BY <2>1, <2>2
<1>13. ASSUME NEW other \in Keys(config)
       PROVE  /\ other.tokens \in DOMAIN splits' <=>
                     /\ other \in captured /\ SplitPath(GraphGamma(other))
                     /\ other.reqs # other.tokens
              /\ other.tokens \in DOMAIN splits' => splits'[other.tokens] = other.reqs
  <2>1. CASE other = graph
    <3>1. graph.tokens \notin DOMAIN splits BY <1>6 DEF RecordedSplits
    <3>2. CASE SplitPath(gamma) /\ rows # graph.tokens
      <4>1. splits' = With(splits, graph.tokens, rows) BY <3>2, <1>4
      <4>2. graph.tokens \in DOMAIN splits' /\ splits'[graph.tokens] = graph.reqs
        BY <4>1, <3>2, <1>8 DEF With
      <4> QED BY <2>1, <3>2, <4>2, <1>7, <1>8 DEF gamma
    <3>3. CASE ~(SplitPath(gamma) /\ rows # graph.tokens)
      <4>1. splits' = splits BY <3>3, <1>4
      <4> QED BY <2>1, <3>1, <3>3, <4>1, <1>7, <1>8 DEF gamma
    <3> QED BY <3>2, <3>3
  <2>2. CASE other # graph
    <3>1. /\ other.tokens \in DOMAIN splits' <=> other.tokens \in DOMAIN splits
          /\ other.tokens \in DOMAIN splits => splits'[other.tokens] = splits[other.tokens]
      <4>1. other.tokens # graph.tokens BY <2>2, <1>11
      <4>2. CASE splits' = With(splits, graph.tokens, rows) BY <4>1, <4>2 DEF With
      <4>3. CASE splits' = splits BY <4>3
      <4> QED BY <1>4, <4>2, <4>3
    <3> QED BY <2>2, <3>1, <1>11 DEF RecordedSplits
  <2> QED BY <2>1, <2>2
<1>14. RecordedWidths' BY <1>9, <1>10, <1>12 DEF RecordedWidths, captured
<1>15. RecordedSplits' BY <1>9, <1>10, <1>13 DEF RecordedSplits, captured
<1> QED BY <1>14, <1>15

LEMMA OtherRecordings ==
  ASSUME Recordings, UNCHANGED <<config, tables, widths, splits>>, capture'.done = capture.done
  PROVE  Recordings'
<1>1. Keys(config)' = Keys(config) BY DEF Keys
<1>2. \A g : /\ UnifiedPath(GraphGamma(g))' <=> UnifiedPath(GraphGamma(g))
             /\ SplitPath(GraphGamma(g))' <=> SplitPath(GraphGamma(g))
  BY DEF SplitPath, UnifiedPath, SerialPath, GraphGamma, GraphLen
<1>3. \A other, key : Tasks(other, key)' = Tasks(other, key)
  BY DEF Tasks, TaskKey, CaptureRows, SplitPath, UnifiedPath, SerialPath, GraphLen
<1>4. RecordedOnce' BY <1>3 DEF Recordings, RecordedOnce
<1>5. RecordedWidths' BY <1>1, <1>2 DEF Recordings, RecordedWidths
<1>6. RecordedSplits' BY <1>1, <1>2 DEF Recordings, RecordedSplits
<1> QED BY <1>4, <1>5, <1>6 DEF Recordings

(***************************************************************************)
(* Replays: what a proposal is steered with and builds.                    *)
(***************************************************************************)
\* What a FULL proposal's descriptor is, once it was chosen.
LEMMA FullFacts ==
  ASSUME DraftInv, frame.stage \in Late, frame.mode = "FULL"
  PROVE  /\ config \in Configs /\ frame.graph \in Keys(config)
         /\ frame.len \in config.lens /\ frame.len \in 3..8
         /\ frame.graph.tokens \in Nat \ {0} /\ frame.graph.reqs \in Nat \ {0}
         /\ frame.graph.tokens >= frame.graph.reqs
         /\ GraphGamma(frame.graph) = Gamma(frame.len)
         /\ frame.graph.uniform => /\ frame.graph.tokens = frame.graph.reqs * frame.len
                                   /\ frame.graph.tokens # frame.graph.reqs
         /\ ~frame.graph.uniform => /\ frame.len = 4 /\ frame.graph.reqs = MaxSeqs
                                    /\ frame.graph.tokens \in config.firsts
<1> DEFINE graph == frame.graph
<1>1. /\ config \in Configs /\ Covers(graph) /\ frame.len \in config.lens
      /\ frame.batch \in 1..MaxSeqs /\ frame.tokens \in Nat /\ frame.tokens >= frame.batch
  BY DEF DraftInv, Captures, Chosen, Late, Batches
<1>2. /\ graph \in Keys(config) /\ graph.tokens >= frame.tokens
      /\ graph.uniform => graph.tokens = graph.reqs * frame.len
      /\ ~graph.uniform => shared.stash # <<>>
  BY <1>1 DEF Covers
<1>3. /\ graph.tokens \in Nat \ {0} /\ graph.reqs \in 1..MaxSeqs
      /\ ~graph.uniform => graph.reqs = MaxSeqs /\ graph.tokens \in config.firsts
  BY <1>1, <1>2, DescriptorFacts
<1>4. frame.len \in 3..8 BY <1>1, ConfigFacts
<1> DEFINE reqs == graph.reqs
           tokens == graph.tokens
           len == frame.len
<1>5. reqs \in Nat \ {0} BY <1>3, DraftAssumption
<1>6. CASE graph.uniform
  <2>1. tokens = reqs * len BY <1>2, <1>6
  <2>2. reqs \in Nat \ {0} /\ len \in 3..8 BY <1>5, <1>4
  <2> HIDE DEF reqs, tokens, len
  <2>3. tokens > reqs
    <3>1. PICK k \in Nat : len = k + 2 /\ k >= 1
      <4>1. len - 2 \in Nat /\ len = (len - 2) + 2 /\ len - 2 >= 1 BY <2>2
      <4> QED BY <4>1
    <3>2. tokens = reqs * k + reqs + reqs BY <2>1, <2>2, <3>1
    <3>3. reqs * k \in Nat BY <2>2, <3>1, TimesNat
    <3> QED BY <2>2, <3>2, <3>3
  <2>4. tokens \div reqs = len BY <2>1, <2>2, ExactDivision
  <2>5. GraphGamma(graph) = Gamma(frame.len)
    BY <1>6, <2>4 DEF GraphGamma, GraphLen, Width, reqs, tokens, len
  <2> QED BY <1>1, <1>2, <1>3, <1>4, <1>5, <1>6, <2>3, <2>5 DEF reqs, tokens
<1>7. CASE ~graph.uniform
  <2>1. frame.batch = MaxSeqs /\ frame.len = 4
    BY <1>2, <1>7 DEF DraftInv, Steering, Late, Middle
  <2>2. GraphGamma(graph) = Gamma(frame.len)
    BY <1>7, <2>1 DEF GraphGamma, GraphLen
  <2>3. tokens >= reqs BY <1>1, <1>2, <1>3, <1>7, <2>1, DraftAssumption
  <2> QED BY <1>1, <1>2, <1>3, <1>4, <1>5, <1>7, <2>1, <2>2, <2>3
<1> QED BY <1>6, <1>7

\* The length the dispatch works with stays with the dispatcher.
LEMMA DispatchLengths ==
  ASSUME DraftInv, Lengths, Dispatch
  PROVE  Lengths'
<1> DEFINE chosen == Dispatched(shared, frame.tokens, frame.uniform)
           asked == frame.uniform /\ shared.dispatch = "host"
           graph == Selected(shared, frame.tokens, asked)
           len == QueryLen(shared, frame.tokens)
<1>1. /\ frame.stage = "dispatch" /\ frame'.stage = "pad" /\ SameBatch
      /\ frame'.mode = chosen.mode /\ frame'.graph = chosen.graph /\ frame'.path = frame.path
      /\ shared' = Remembered(shared, frame.tokens) /\ config' = config
  BY DispatchFrame DEF DraftInv
<1>2. /\ DOMAIN shared = AttrFields /\ shared.capture = Absent /\ config \in Configs
      /\ ~config.runtime => shared.len = Absent
  BY <1>1 DEF DraftInv, CleanInv, Shapes, Proposing, Middle, SameCapture, Native, Captures,
              Steering
<1>3. shared'.runnable = shared.runnable
  BY <1>1, <1>2 DEF Remembered, AttrFields
<1>4. CASE StashHit(shared, frame.tokens)
  <2>1. shared' = shared BY <1>1, <1>4 DEF Remembered
  <2>2. graph = Graph(shared.stash[2], shared.stash[3], FALSE) BY <1>4 DEF Selected
  <2> HIDE DEF graph
  <2>3. ~graph.uniform
    <3>1. \A a, b : ~Graph(a, b, FALSE).uniform BY Zenon DEF Graph
    <3> QED BY <2>2, <3>1, Zenon
  <2>4. frame'.mode = "FULL" => frame'.graph = graph
    <3>1. chosen = IF graph # NoGraph THEN [mode |-> "FULL", graph |-> graph]
                   ELSE HostDispatch(frame.tokens)
      BY DEF Dispatched, graph
    <3>2. HostDispatch(frame.tokens).mode # "FULL" BY DEF HostDispatch
    <3> QED BY <1>1, <3>1, <3>2
  <2> QED BY <1>1, <1>2, <1>3, <2>1, <2>3, <2>4 DEF Lengths, Late, Middle
<1>5. CASE ~StashHit(shared, frame.tokens)
  <2>1. ASSUME frame'.mode = "FULL"
        PROVE  frame'.graph.uniform /\ shared'.len = frame'.len
    <3> HIDE DEF graph
    <3>1. chosen = IF graph # NoGraph THEN [mode |-> "FULL", graph |-> graph]
                   ELSE HostDispatch(frame.tokens)
      BY DEF Dispatched, graph
    <3>2. HostDispatch(frame.tokens).mode # "FULL" BY DEF HostDispatch
    <3>3. graph # NoGraph /\ frame'.graph = graph
      <4> HIDE DEF chosen
      <4> QED BY <1>1, <2>1, <3>1, <3>2
    <3>4. /\ graph \in Keys(config) /\ Fits(graph, frame.tokens, len)
          /\ Steered(shared) /\ len \in config.lens
      BY <1>2, <1>5, <3>3, SelectedFits DEF graph
    <3>5. graph.uniform /\ graph.tokens = graph.reqs * len BY <3>4 DEF Fits
    <3>6. shared'.len = len
      BY <1>1, <1>2, <1>5, <3>4 DEF Remembered, AttrFields
    <3>7. Chosen' BY NextDraft DEF DraftInv, Next
    <3>8. Covers(frame.graph)' BY <1>1, <2>1, <3>7 DEF Chosen, Late
    <3>9. graph.tokens = graph.reqs * frame'.len BY <3>3, <3>5, <3>8 DEF Covers
    <3>10. graph.reqs \in Nat \ {0} /\ len \in Nat /\ frame'.len \in Nat
      <4>1. graph.reqs \in 1..MaxSeqs BY <1>2, <3>4, DescriptorFacts
      <4>2. frame'.len = frame.len /\ frame.len \in config.lens
        BY <1>1 DEF SameBatch, DraftInv, Batches
      <4> QED BY <4>1, <4>2, <1>2, <3>4, ConfigFacts, DraftAssumption
    <3>11. len = frame'.len
      <4>1. (graph.reqs * len) \div graph.reqs = len
        BY <3>10, ExactDivision
      <4>2. (graph.reqs * frame'.len) \div graph.reqs = frame'.len
        BY <3>10, ExactDivision
      <4> QED BY <4>1, <4>2, <3>5, <3>9
    <3> QED BY <3>3, <3>5, <3>6, <3>11
  <2> QED BY <1>1, <1>3, <2>1 DEF Lengths, Late, Middle
<1> QED BY <1>4, <1>5

LEMMA LengthsKept ==
  ASSUME DraftInv, Lengths, Next
  PROVE  Lengths'
<1>0. DOMAIN frame = FrameFields /\ DOMAIN shared = AttrFields
  BY DEF DraftInv, CleanInv, Shapes
<1>1. CASE \/ (\E graph \in Keys(config) : BeginCapture(graph)) \/ EndCapture
           \/ UniformFrame \/ MixedFrame \/ Return \/ Raise \/ Leave
  <2>1. frame'.stage \notin Middle
    <3>1. CASE (\E graph \in Keys(config) : BeginCapture(graph)) \/ EndCapture
      BY <3>1, CapturesWhileIdle DEF Middle
    <3>2. CASE UniformFrame \/ MixedFrame BY <3>2, HostFrameEnters DEF Middle
    <3>3. CASE Return \/ Raise BY <3>3, LeavingFrame DEF Middle
    <3>4. CASE Leave
      <4>1. frame'.stage = "idle" BY <3>4 DEF Leave, Idle
      <4> QED BY <4>1 DEF Middle
    <3> QED BY <1>1, <3>1, <3>2, <3>3, <3>4
  <2> QED BY <2>1 DEF Lengths, Late, Middle
<1>2. CASE Propose
  <2>1. PICK path : /\ path \in {"merged", "force", "plain"}
                    /\ frame' = [frame EXCEPT !.stage = "inputs", !.path = path, !.saved = shared]
                    /\ path = "merged" =>
                          shared' = [shared EXCEPT !.reqs = frame.batch, !.len = shared.runtime,
                                                   !.padding = TRUE]
                    /\ path = "force" =>
                          shared' = [shared EXCEPT !.reqs = frame.batch, !.len = shared.runtime,
                                                   !.padding = TRUE, !.piecewise = TRUE,
                                                   !.force = TRUE, !.runnable = "body"]
                    /\ path = "plain" =>
                          shared' = [shared EXCEPT !.dispatch = "nonuniform", !.piecewise = TRUE]
    BY <1>2 DEF Propose
  <2>2. frame'.stage = "inputs" /\ frame'.path = path BY <1>0, <2>1 DEF FrameFields
  <2>3. path = "force" => shared'.runnable = "body"
    <3>1. SUFFICES ASSUME path = "force" PROVE shared'.runnable = "body" OBVIOUS
    <3>2. shared' = [shared EXCEPT !.reqs = frame.batch, !.len = shared.runtime,
                                   !.padding = TRUE, !.piecewise = TRUE,
                                   !.force = TRUE, !.runnable = "body"]
      BY <2>1, <3>1
    <3> QED BY <1>0, <3>2 DEF AttrFields
  <2> QED BY <2>2, <2>3 DEF Lengths, Late
<1>3. CASE \E ready \in BOOLEAN : FirstPass(ready)
  <2>1. PICK ready \in BOOLEAN : FirstPass(ready) BY <1>3
  <2>2. /\ frame.stage = "inputs"
        /\ shared' = shared \/ \E stash : shared' = [shared EXCEPT !.stash = stash]
    BY <2>1 DEF FirstPass
  <2>3. frame'.stage = "dispatch" /\ frame'.path = frame.path
    BY <2>1, FirstPassFrame DEF DraftInv, Captures
  <2>4. shared'.runnable = shared.runnable BY <1>0, <2>2 DEF AttrFields
  <2> QED BY <2>2, <2>3, <2>4 DEF Lengths, Late, Middle
<1>4. CASE Dispatch BY <1>4, DispatchLengths
<1>5. CASE Pad \/ Metadata \/ Replay \/ Forward
  <2>1. /\ frame.stage \in Late /\ SameBatch
        /\ frame'.mode = frame.mode /\ frame'.graph = frame.graph /\ frame'.path = frame.path
        /\ UNCHANGED <<config, shared>>
    <3>1. CASE Pad BY <3>1, PadPads DEF DraftInv, Late
    <3>2. CASE Metadata \/ Replay BY <3>2, MetadataFrame DEF Late
    <3>3. CASE Forward BY <3>3, ForwardFrame DEF Late
    <3> QED BY <1>5, <3>1, <3>2, <3>3
  <2> QED BY <2>1 DEF Lengths, SameBatch, Late, Middle
<1> QED BY <1>1, <1>2, <1>3, <1>4, <1>5 DEF Next

\* The metadata built for a FULL replay.
LEMMA ContinuationOfFull ==
  ASSUME SwitchesAgree, DraftInv, Lengths, frame.stage = "metadata", Replays
  PROVE  ContinuationRows = FullRows
<1> DEFINE len == IF shared.capture # Absent THEN shared.capture ELSE shared.len
           graph == frame.graph
<1>1. /\ frame.mode = "FULL" /\ shared.runnable = "graph" /\ frame.stage \in Late
      /\ frame.stage \in Middle
  BY DEF Replays, Late, Middle
<1>2. ~(shared.piecewise /\ shared.force)
  <2>1. frame.path # "force" BY <1>1 DEF Lengths
  <2>2. shared.force = FALSE BY <1>1, <2>1 DEF DraftInv, CleanInv, Proposing
  <2> QED BY <2>2
<1>3. len = shared.len
  BY <1>1 DEF DraftInv, CleanInv, Proposing, SameCapture, Native
<1>4. /\ config \in Configs /\ graph \in Keys(config) /\ frame.len \in 3..8
      /\ graph.reqs \in Nat \ {0} /\ graph.tokens \in Nat \ {0}
      /\ graph.uniform => graph.tokens = graph.reqs * frame.len
      /\ ~graph.uniform => frame.len = 4 /\ graph.tokens \in config.firsts
  BY <1>1, FullFacts
<1>5. ContinuationRows = IF /\ Divided(config, Gamma(frame.len))
                            /\ shared.len # Absent /\ graph.tokens % shared.len = 0
                         THEN graph.tokens \div shared.len ELSE graph.tokens
  BY <1>1, <1>2, <1>3 DEF ContinuationRows, Divided
<1>6. CASE graph.uniform
  <2>1. shared.len = frame.len BY <1>1, <1>6 DEF Lengths
  <2>2. (graph.reqs * frame.len) \div frame.len = graph.reqs
        /\ (graph.reqs * frame.len) % frame.len = 0
    BY <1>4, ExactDivision
  <2>3. shared.len # Absent BY <2>1, <1>4 DEF Absent
  <2> QED BY <1>4, <1>5, <1>6, <2>1, <2>2, <2>3 DEF FullRows
<1>7. CASE ~graph.uniform
  <2>1. CASE ~config.runtime
    <3>1. shared.len = Absent BY <1>1, <1>7, <2>1 DEF Lengths
    <3> QED BY <1>5, <1>7, <3>1 DEF FullRows
  <2>2. CASE config.runtime
    <3>1. shared.len = 4 BY <1>1, <2>2 DEF DraftInv, Steering
    <3>2. config.merged \/ config.precompact => graph.tokens % 4 # 0
      BY <1>4, <1>7, <2>2 DEF SwitchesAgree
    <3> QED BY <1>5, <1>7, <3>1, <3>2 DEF FullRows, Divided
  <2> QED BY <2>1, <2>2
<1> QED BY <1>6, <1>7

LEMMA FullMetaKept ==
  ASSUME SameBatch, frame'.graph = frame.graph, config' = config
  PROVE  \A step : FullMeta(step)' = FullMeta(step)
BY DEF FullMeta, FullRows, Divided, Gamma, SameBatch

LEMMA MetasKept ==
  ASSUME SwitchesAgree, DraftInv, Lengths, Metas, Next
  PROVE  Metas'
<1>0. DOMAIN frame = FrameFields BY DEF DraftInv, CleanInv, Shapes
<1>1. CASE (\E graph \in Keys(config) : BeginCapture(graph)) \/ EndCapture
  BY <1>1, CapturesWhileIdle DEF Metas
<1>2. CASE UniformFrame \/ MixedFrame
  <2>1. frame.stage = "idle" /\ frame'.stage = "entered" /\ frame'.updates = frame.updates
    BY <1>2, HostFrameEnters
  <2> QED BY <2>1 DEF Metas
<1>3. CASE Propose
  <2>1. frame.stage = "entered" /\ frame'.stage = "inputs" /\ frame'.updates = frame.updates
    BY <1>0, <1>3 DEF Propose, FrameFields
  <2> QED BY <2>1 DEF Metas
<1>4. CASE \E ready \in BOOLEAN : FirstPass(ready)
  <2>1. /\ frame.stage = "inputs"
        /\ \/ \E tokens, starts : frame' = [frame EXCEPT !.stage = "dispatch",
                                                         !.tokens = tokens, !.starts = starts]
           \/ frame' = [frame EXCEPT !.stage = "dispatch"]
    BY <1>4 DEF FirstPass
  <2>2. frame'.stage = "dispatch" /\ frame'.updates = frame.updates
    BY <1>0, <2>1 DEF FrameFields
  <2> QED BY <2>1, <2>2 DEF Metas
<1>5. CASE Dispatch
  <2>1. frame.stage = "dispatch" /\ frame'.stage = "pad" /\ frame'.updates = frame.updates
    BY <1>0, <1>5 DEF Dispatch, FrameFields
  <2> QED BY <2>1 DEF Metas
<1>6. CASE Pad
  <2>1. frame.stage = "pad" /\ frame'.stage = "metadata" /\ frame'.updates = frame.updates
    BY <1>0, <1>6 DEF Pad, FrameFields
  <2> QED BY <2>1 DEF Metas
<1>7. CASE Metadata
  <2> DEFINE metas == [step \in 1..Gamma(frame.len) |->
                          [step |-> step, rows |-> IF step = 1 THEN frame.graph.tokens
                                                               ELSE ContinuationRows]]
  <2>1. /\ frame.stage = "metadata" /\ UNCHANGED <<config, shared>>
        /\ frame' = [frame EXCEPT !.stage = "run", !.step = 1, !.metas = metas]
    BY <1>7 DEF Metadata
  <2>2. Replays => metas = [step \in 1..Gamma(frame.len) |-> FullMeta(step)]
    BY <2>1, ContinuationOfFull DEF FullMeta
  <2> HIDE DEF metas
  <2>3. /\ frame'.stage = "run" /\ frame'.metas = metas /\ frame'.updates = frame.updates
        /\ frame'.mode = frame.mode /\ frame'.graph = frame.graph /\ SameBatch
    BY <1>0, <2>1 DEF FrameFields, SameBatch
  <2>4. (Replays' <=> Replays) /\ Gamma(frame.len)' = Gamma(frame.len)
    BY <2>1, <2>3 DEF Replays, SameBatch, Gamma
  <2>5. \A step : FullMeta(step)' = FullMeta(step) BY <2>1, <2>3, FullMetaKept
  <2> QED BY <2>1, <2>2, <2>3, <2>4, <2>5 DEF Metas
<1>8. CASE Replay
  <2>1. frame'.stage = "ran" BY <1>0, <1>8 DEF Replay, FrameFields
  <2> QED BY <2>1 DEF Metas
<1>9. CASE Forward
  <2>1. frame.stage = "run" /\ ~Replays /\ frame'.updates = frame.updates
        /\ shared' = shared /\ frame'.mode = frame.mode
    BY <1>0, <1>9 DEF Forward, FrameFields
  <2>2. ~Replays' BY <2>1 DEF Replays
  <2> QED BY <2>1, <2>2 DEF Metas
<1>10. CASE Return \/ Raise
  <2>1. frame'.stage = "left" BY <1>10, LeavingFrame
  <2> QED BY <2>1 DEF Metas
<1>11. CASE Leave
  <2>1. frame'.stage = "idle" /\ frame'.updates = <<>> BY <1>11 DEF Leave, Idle
  <2> QED BY <2>1 DEF Metas
<1> QED BY <1>1, <1>2, <1>3, <1>4, <1>5, <1>6, <1>7, <1>8, <1>9, <1>10, <1>11 DEF Next

(***************************************************************************)
(* Replays: what an update gives.                                          *)
(***************************************************************************)
LEMMA SwitchFacts ==
  ASSUME SwitchesAgree, config \in Configs, NEW gamma,
         \E len \in config.lens : gamma = Gamma(len)
  PROVE  /\ UpdatesCompact(config, gamma) => CapturesCompact(config, gamma)
         /\ config.serial /\ config.split /\ ~config.unified =>
                5 \notin config.lens /\ MaxSeqs \notin config.firsts
         /\ config.merged /\ ~config.serial => config.firsts \subseteq {MaxSeqs}
BY DEF SwitchesAgree

\* Replaying a graph updates the tasks its capture recorded.
LEMMA ReplayUpdates ==
  ASSUME SwitchesAgree, DraftInv, Lengths, Metas, Recordings, Replay,
         NEW graph, graph = frame.graph,
         NEW key \in {graph.tokens, -(graph.tokens + 1)},
         NEW i \in DOMAIN Tasks(graph, key),
         NEW task, task = Tasks(graph, key)[i]
  PROVE  /\ key \in DOMAIN Updates /\ i \in DOMAIN Updates[key]
         /\ Updates[key][i] = [step |-> task.step, rows |-> task.rows]
<1> DEFINE gamma == Gamma(frame.len)
           metas == frame.metas
           tokens == graph.tokens
           reqs == graph.reqs
           several == Len(metas) > 1
           captured == CaptureRows(graph, gamma)
<1>1. frame.stage = "run" /\ Replays /\ frame.mode = "FULL" /\ frame.stage \in Late
  BY DEF Replay, Replays, Late
<1>2. /\ config \in Configs /\ graph \in Keys(config)
      /\ frame.len \in config.lens /\ frame.len \in 3..8
      /\ tokens \in Nat \ {0} /\ reqs \in Nat \ {0} /\ tokens >= reqs
      /\ GraphGamma(graph) = gamma
      /\ graph.uniform => tokens = reqs * frame.len /\ tokens # reqs
      /\ ~graph.uniform => frame.len = 4 /\ reqs = MaxSeqs /\ tokens \in config.firsts
  BY <1>1, FullFacts
<1>3. gamma \in 1..6 /\ (gamma = 2 <=> frame.len = 4) /\ (gamma = 3 <=> frame.len = 5)
  BY <1>2 DEF Gamma
<1>4. metas = [step \in 1..gamma |-> FullMeta(step)] BY <1>1 DEF Metas
<1>5. Len(metas) = gamma /\ DOMAIN metas = 1..gamma
  <2> HIDE DEF metas, gamma
  <2> QED BY <1>3, <1>4
<1>6. several <=> gamma # 1 BY <1>3, <1>5
<1>7. graph \in capture.done
  <2>1. capture.running = NoGraph /\ capture.tried = Keys(config)
    BY <1>1 DEF DraftInv, CleanInv, Proposing
  <2> QED BY <1>2, <2>1 DEF DraftInv, Captures
<1>8. /\ tokens \in DOMAIN widths <=> UnifiedPath(gamma) /\ reqs # tokens
      /\ tokens \in DOMAIN widths => widths[tokens] = reqs
      /\ tokens \in DOMAIN splits <=> SplitPath(gamma) /\ reqs # tokens
      /\ tokens \in DOMAIN splits => splits[tokens] = reqs
  BY <1>2, <1>7 DEF Recordings, RecordedWidths, RecordedSplits
<1>9. /\ UpdatesCompact(config, gamma) => CapturesCompact(config, gamma)
      /\ config.serial /\ config.split /\ ~config.unified =>
             frame.len # 5 /\ MaxSeqs \notin config.firsts
      /\ config.merged /\ ~config.serial => config.firsts \subseteq {MaxSeqs}
  BY <1>2, SwitchFacts
<1>10. /\ SerialPath(gamma) <=> config.serial /\ gamma \in {2, 3}
       /\ UnifiedPath(gamma) <=> SerialPath(gamma) /\ config.unified
       /\ SplitPath(gamma) <=> SerialPath(gamma) /\ config.split /\ ~config.unified
  BY DEF SerialPath, UnifiedPath, SplitPath
<1>11. captured = IF UnifiedPath(gamma) \/ SplitPath(gamma) \/ (config.merged /\ ~SerialPath(gamma))
                  THEN reqs ELSE tokens
  BY DEF CaptureRows
<1>12. /\ ~SplitPath(gamma) =>
              DOMAIN Tasks(graph, tokens) = 1..gamma /\ DOMAIN Tasks(graph, -(tokens + 1)) = {}
       /\ SplitPath(gamma) =>
              /\ DOMAIN Tasks(graph, tokens) = {1}
              /\ DOMAIN Tasks(graph, -(tokens + 1)) = 1..(gamma - 1)
       /\ \A n \in DOMAIN Tasks(graph, tokens) :
              Tasks(graph, tokens)[n] =
                  [graph |-> graph, step |-> n, rows |-> IF n = 1 THEN tokens ELSE captured]
       /\ \A n \in DOMAIN Tasks(graph, -(tokens + 1)) :
              Tasks(graph, -(tokens + 1))[n] = [graph |-> graph, step |-> n + 1, rows |-> captured]
  <2> HIDE DEF gamma
  <2> QED BY <1>2, TaskLists
<1>13. UnifiedRows = IF gamma = 2 /\ config.unified /\ graph.uniform THEN reqs
                     ELSE IF UnifiedPath(gamma) /\ reqs # tokens THEN reqs ELSE Absent
  <2>1. gamma = 2 /\ graph.uniform => tokens = reqs * 4 BY <1>2, <1>3
  <2> HIDE DEF gamma, tokens, reqs
  <2>2. UnifiedRows = IF gamma = 2 /\ config.unified /\ graph.uniform /\ tokens = reqs * 4
                      THEN reqs
                      ELSE IF tokens \in DOMAIN widths THEN widths[tokens] ELSE Absent
    BY DEF UnifiedRows, gamma, tokens, reqs
  <2> QED BY <2>1, <2>2, <1>8
<1> DEFINE rows == FullRows
<1>14. rows = IF graph.uniform /\ (config.merged \/ (gamma = 2 /\ config.precompact))
              THEN reqs ELSE tokens
  BY DEF FullRows, Divided
<1>15. /\ metas[1] = [step |-> 1, rows |-> tokens]
       /\ \A step \in 2..gamma : metas[step] = [step |-> step, rows |-> rows]
  <2>1. metas[1] = FullMeta(1) /\ \A step \in 2..gamma : metas[step] = FullMeta(step)
    <3> HIDE DEF metas, gamma
    <3> QED BY <1>3, <1>4
  <2>2. \A step \in 2..gamma : step # 1 BY <1>3
  <2> QED BY <2>1, <2>2 DEF FullMeta
<1>16. \A step \in 2..gamma : Compact(metas[step], reqs) = [step |-> step, rows |-> reqs]
  <2>1. rows \in {reqs, tokens} BY <1>14
  <2> HIDE DEF rows, reqs, tokens, metas, gamma
  <2>2. Min({rows, reqs}) = reqs
    <3>1. rows \in Int /\ reqs \in Int /\ reqs <= rows BY <1>2, <2>1
    <3>2. Min({rows, reqs}) = IF rows <= reqs THEN rows ELSE reqs BY <3>1, LesserOfTwo
    <3> QED BY <3>1, <3>2
  <2>3. ASSUME NEW step \in 2..gamma
        PROVE  Compact(metas[step], reqs) = [step |-> step, rows |-> reqs]
    <3>1. metas[step] = [step |-> step, rows |-> rows] BY <1>15
    <3>2. Compact(metas[step], reqs) = [metas[step] EXCEPT !.rows = Min({rows, reqs})]
      BY <3>1 DEF Compact
    <3> QED BY <3>1, <3>2, <2>2
  <2> QED BY <2>3
\* The update's lists.
<1>17. Updates = IF UnifiedRows # Absent /\ several
                 THEN [k \in {tokens} |-> [step \in DOMAIN metas |->
                          IF step = 1 THEN metas[1] ELSE Compact(metas[step], UnifiedRows)]]
                 ELSE IF tokens \in DOMAIN splits /\ several
                 THEN With([k \in {tokens} |-> <<metas[1]>>], -(tokens + 1),
                           <<Compact(metas[2], splits[tokens])>>)
                 ELSE [k \in {tokens} |-> metas]
  BY DEF Updates
<1>18. CASE gamma = 1
  <2>1. Updates = [k \in {tokens} |-> metas] BY <1>6, <1>17, <1>18
  <2>2. ~SplitPath(gamma) BY <1>10, <1>18
  <2>3. key = tokens /\ i = 1 BY <1>12, <1>18, <2>2
  <2>4. task = [graph |-> graph, step |-> 1, rows |-> tokens] BY <1>12, <2>3
  <2> HIDE DEF metas, tokens
  <2>5. key \in DOMAIN Updates /\ Updates[key] = metas BY <2>1, <2>3
  <2>6. i \in DOMAIN metas /\ metas[i] = [step |-> 1, rows |-> tokens]
    BY <1>3, <1>5, <1>15, <2>3
  <2> QED BY <2>4, <2>5, <2>6
<1>19. CASE gamma # 1 /\ UnifiedRows # Absent
  <2>1. UnifiedRows = reqs BY <1>13, <1>19
  <2>2. config.unified BY <1>10, <1>13, <1>19
  <2>3. ~SplitPath(gamma) BY <1>10, <2>2
  <2>4. captured = reqs
    <3>1. CASE UnifiedPath(gamma) BY <3>1, <1>11
    <3>2. CASE ~UnifiedPath(gamma)
      <4>1. gamma = 2 BY <1>13, <1>19, <3>2
      <4>2. ~SerialPath(gamma) BY <1>10, <2>2, <3>2
      <4>3. ~config.serial BY <1>10, <4>1, <4>2
      <4>4. CapturesCompact(config, gamma) BY <1>9, <2>2, <4>1 DEF UpdatesCompact
      <4>5. config.merged BY <4>3, <4>4 DEF CapturesCompact
      <4> QED BY <1>11, <4>2, <4>5
    <3> QED BY <3>1, <3>2
  <2>5. key = tokens /\ i \in 1..gamma BY <1>12, <2>3
  <2>6. task = [graph |-> graph, step |-> i, rows |-> IF i = 1 THEN tokens ELSE reqs]
    BY <1>12, <2>4, <2>5
  <2> DEFINE list == [step \in DOMAIN metas |->
                         IF step = 1 THEN metas[1] ELSE Compact(metas[step], UnifiedRows)]
  <2>7. Updates = [k \in {tokens} |-> list] BY <1>6, <1>17, <1>19
  <2>8. /\ i \in DOMAIN list
        /\ list[i] = [step |-> i, rows |-> IF i = 1 THEN tokens ELSE reqs]
    <3>1. i \in DOMAIN list BY <1>5, <2>5
    <3>2. CASE i = 1 BY <3>1, <3>2, <1>15
    <3>3. CASE i # 1
      <4>1. i \in 2..gamma BY <1>3, <2>5, <3>3
      <4>2. list[i] = Compact(metas[i], reqs) BY <3>1, <3>3, <2>1
      <4> QED BY <4>1, <4>2, <3>1, <3>3, <1>16
    <3> QED BY <3>2, <3>3
  <2> HIDE DEF list
  <2>9. key \in DOMAIN Updates /\ Updates[key] = list BY <2>5, <2>7
  <2>10. task.step = i /\ task.rows = IF i = 1 THEN tokens ELSE reqs BY <2>6
  <2> QED BY <2>8, <2>9, <2>10
<1>20. CASE gamma # 1 /\ UnifiedRows = Absent /\ SplitPath(gamma)
  <2>1. config.serial /\ config.split /\ ~config.unified /\ gamma \in {2, 3}
    BY <1>10, <1>20
  <2>2. gamma = 2 BY <1>3, <1>9, <2>1
  <2>3. reqs # tokens BY <1>2, <1>9, <2>1
  <2>4. tokens \in DOMAIN splits /\ splits[tokens] = reqs BY <1>8, <1>20, <2>3
  <2>5. captured = reqs BY <1>11, <1>20
  <2>6. Compact(metas[2], splits[tokens]) = [step |-> 2, rows |-> reqs]
    <3>1. 2 \in 2..gamma BY <2>2
    <3> QED BY <3>1, <2>4, <1>16
  <2> DEFINE first == [step |-> 1, rows |-> tokens]
             second == [step |-> 2, rows |-> reqs]
  <2>7. Updates = With([k \in {tokens} |-> <<first>>], -(tokens + 1), <<second>>)
    <3>1. Updates = With([k \in {tokens} |-> <<metas[1]>>], -(tokens + 1),
                         <<Compact(metas[2], splits[tokens])>>)
      BY <1>6, <1>17, <1>20, <2>4
    <3> QED BY <3>1, <2>6, <1>15
  <2>8. tokens # -(tokens + 1) BY <1>2
  <2>9. /\ DOMAIN Updates = {tokens, -(tokens + 1)}
        /\ Updates[tokens] = <<first>> /\ Updates[-(tokens + 1)] = <<second>>
    <3> HIDE DEF first, second, tokens
    <3> QED BY <2>7, <2>8 DEF With
  <2>10. CASE key = tokens
    <3>1. i = 1 BY <1>12, <1>20, <2>10
    <3>2. task = [graph |-> graph, step |-> 1, rows |-> tokens]
      <4>1. 1 \in DOMAIN Tasks(graph, tokens) /\ task = Tasks(graph, tokens)[1]
        BY <2>10, <3>1
      <4> HIDE DEF tokens, captured, gamma
      <4> QED BY <4>1, <1>12
    <3>3. task.step = 1 /\ task.rows = tokens BY <3>2
    <3> HIDE DEF tokens
    <3> QED BY <2>9, <2>10, <3>1, <3>3
  <2>11. CASE key = -(tokens + 1)
    <3>1. i = 1 BY <1>12, <1>20, <2>2, <2>11
    <3>2. task = [graph |-> graph, step |-> 1 + 1, rows |-> reqs]
      <4>1. /\ 1 \in DOMAIN Tasks(graph, -(tokens + 1))
            /\ task = Tasks(graph, -(tokens + 1))[1]
        BY <2>11, <3>1
      <4> HIDE DEF tokens, captured, gamma, reqs
      <4> QED BY <4>1, <1>12, <2>5
    <3>3. task.step = 2 /\ task.rows = reqs BY <3>2
    <3> HIDE DEF tokens
    <3> QED BY <2>9, <2>11, <3>1, <3>3
  <2> QED BY <2>10, <2>11
<1>21. CASE gamma # 1 /\ UnifiedRows = Absent /\ ~SplitPath(gamma)
  <2>1. tokens \notin DOMAIN splits BY <1>8, <1>21
  <2>2. Updates = [k \in {tokens} |-> metas] BY <1>17, <1>21, <2>1
  <2>3. key = tokens /\ i \in 1..gamma BY <1>12, <1>21
  <2>4. reqs # Absent BY <1>2 DEF Absent
  <2>5. /\ ~(gamma = 2 /\ config.unified /\ graph.uniform)
        /\ UnifiedPath(gamma) => reqs = tokens
    BY <1>13, <1>21, <2>4
  <2>6. rows = captured
    <3>1. CASE graph.uniform /\ (config.merged \/ (gamma = 2 /\ config.precompact))
      <4>1. CapturesCompact(config, gamma) BY <1>9, <3>1 DEF UpdatesCompact
      <4>2. ~UnifiedPath(gamma) BY <1>2, <2>5, <3>1
      <4>3. ~SerialPath(gamma) BY <1>10, <1>21, <4>1, <4>2 DEF CapturesCompact
      <4>4. config.merged BY <1>10, <4>1, <4>3 DEF CapturesCompact
      <4> QED BY <1>11, <1>14, <3>1, <4>3, <4>4
    <3>2. CASE graph.uniform /\ ~(config.merged \/ (gamma = 2 /\ config.precompact))
      <4>1. ~UnifiedPath(gamma) BY <1>2, <2>5, <3>2
      <4> QED BY <1>11, <1>14, <1>21, <3>2, <4>1
    <3>3. CASE ~graph.uniform
      <4>1. rows = tokens BY <1>14, <3>3
      <4>2. gamma = 2 /\ reqs = MaxSeqs /\ tokens \in config.firsts BY <1>2, <1>3, <3>3
      <4>3. CASE config.merged /\ ~SerialPath(gamma)
        <5>1. ~config.serial BY <1>10, <4>2, <4>3
        <5>2. tokens = reqs BY <1>9, <4>2, <4>3, <5>1
        <5> QED BY <1>11, <4>1, <5>2
      <4>4. CASE ~(config.merged /\ ~SerialPath(gamma))
        BY <1>11, <1>21, <2>5, <4>1, <4>4
      <4> QED BY <4>3, <4>4
    <3> QED BY <3>1, <3>2, <3>3
  <2>7. /\ task.step = i
        /\ task.rows = IF i = 1 THEN tokens ELSE captured
    <3>1. task = [graph |-> graph, step |-> i, rows |-> IF i = 1 THEN tokens ELSE captured]
      BY <1>12, <2>3
    <3> QED BY <3>1
  <2>8. i \in DOMAIN metas /\ metas[i] = [step |-> i, rows |-> IF i = 1 THEN tokens ELSE rows]
    <3>1. CASE i = 1 BY <3>1, <1>3, <1>5, <1>15
    <3>2. CASE i # 1
      <4>1. i \in 2..gamma BY <1>3, <2>3, <3>2
      <4> QED BY <4>1, <3>2, <1>5, <1>15, <2>3
    <3> QED BY <3>1, <3>2
  <2> HIDE DEF metas, tokens
  <2>9. key \in DOMAIN Updates /\ Updates[key] = metas BY <2>2, <2>3
  <2> QED BY <2>6, <2>7, <2>8, <2>9
<1> QED BY <1>18, <1>19, <1>20, <1>21

ReplayInv == DraftInv /\ Recordings /\ Lengths /\ Metas /\ ReplayUpdated

LEMMA InitReplay == Init => ReplayInv
<1> SUFFICES ASSUME Init PROVE ReplayInv OBVIOUS
<1>1. /\ frame.stage = "idle" /\ frame.updates = <<>> /\ config \in Configs
      /\ tables = <<>> /\ widths = <<>> /\ splits = <<>> /\ capture.done = {}
  BY DEF Init, Idle
<1>2. Lengths /\ Metas /\ ReplayUpdated
  BY <1>1 DEF Lengths, Metas, ReplayUpdated, Middle, Late
<1>3. Recordings BY <1>1 DEF Recordings, RecordedOnce, RecordedWidths, RecordedSplits
<1> QED BY <1>2, <1>3, InitDraft DEF ReplayInv

LEMMA RecordingsKept ==
  ASSUME SwitchesAgree, DraftInv, Recordings, Next
  PROVE  Recordings'
<1>0. DOMAIN capture = CaptureFields BY DEF DraftInv, CleanInv, Shapes
<1>1. CASE EndCapture
  <2>1. RecordedOnce' BY <1>1, EndCaptureAppends DEF Recordings
  <2>2. RecordedWidths' /\ RecordedSplits' BY <1>1, EndCaptureWidths DEF Recordings
  <2> QED BY <2>1, <2>2 DEF Recordings
<1>2. CASE \E graph \in Keys(config) : BeginCapture(graph)
  <2>1. /\ UNCHANGED <<config, tables, widths, splits>>
        /\ \E graph, saved, tried :
               capture' = [capture EXCEPT !.running = graph, !.tried = tried, !.saved = saved]
    BY <1>2 DEF BeginCapture
  <2>2. capture'.done = capture.done BY <1>0, <2>1 DEF CaptureFields
  <2> QED BY <2>1, <2>2, OtherRecordings
<1>3. CASE \/ UniformFrame \/ MixedFrame \/ Propose \/ (\E ready \in BOOLEAN : FirstPass(ready))
           \/ Dispatch \/ Pad \/ Metadata \/ Replay \/ Forward \/ Return \/ Raise \/ Leave
  <2>1. UNCHANGED <<config, tables, widths, splits, capture>>
    BY <1>3 DEF UniformFrame, MixedFrame, HostFrame, Propose, FirstPass, Dispatch, Pad,
       Metadata, Replay, Forward, Return, Raise, Leave
  <2> QED BY <2>1, OtherRecordings
<1> QED BY <1>1, <1>2, <1>3 DEF Next

LEMMA ReplayKept ==
  ASSUME SwitchesAgree, ReplayInv, Next
  PROVE  ReplayUpdated'
<1>0. DOMAIN frame = FrameFields BY DEF ReplayInv, DraftInv, CleanInv, Shapes
<1>1. CASE Replay
  <2>1. /\ frame' = [frame EXCEPT !.stage = "ran", !.updates = Updates]
        /\ tables' = tables
    BY <1>1 DEF Replay
  <2>2. frame'.updates = Updates /\ frame'.graph = frame.graph
    BY <1>0, <2>1 DEF FrameFields
  <2>3. ASSUME NEW key \in DOMAIN tables, NEW i \in DOMAIN tables[key],
               tables[key][i].graph = frame.graph
        PROVE  /\ key \in DOMAIN Updates /\ i \in DOMAIN Updates[key]
               /\ Updates[key][i] = [step |-> tables[key][i].step, rows |-> tables[key][i].rows]
    <3>1. PICK graph \in capture.done : /\ key \in {graph.tokens, -(graph.tokens + 1)}
                                        /\ tables[key] = Tasks(graph, key)
      BY <2>3 DEF ReplayInv, Recordings, RecordedOnce
    <3>2. tables[key][i].graph = graph
      <4>1. Tasks(graph, key)[i].graph = graph BY <2>3, <3>1 DEF Tasks
      <4> QED BY <3>1, <4>1
    <3>3. graph = frame.graph BY <2>3, <3>2
    <3> QED BY <1>1, <2>3, <3>1, <3>3, ReplayUpdates DEF ReplayInv
  <2> QED BY <2>1, <2>2, <2>3 DEF ReplayUpdated
<1>2. CASE Forward
  <2>1. frame'.updates = frame.updates /\ frame.stage = "run"
    BY <1>0, <1>2 DEF Forward, FrameFields
  <2>2. frame'.updates = <<>> BY <2>1 DEF ReplayInv, Metas
  <2> QED BY <2>2 DEF ReplayUpdated
<1>3. CASE ~Replay /\ ~Forward
  <2>1. frame'.stage # "ran"
    <3>1. CASE (\E graph \in Keys(config) : BeginCapture(graph)) \/ EndCapture
      BY <3>1, CapturesWhileIdle DEF ReplayInv
    <3>2. CASE UniformFrame \/ MixedFrame BY <3>2, HostFrameEnters DEF ReplayInv
    <3>3. CASE Propose BY <1>0, <3>3 DEF Propose, FrameFields
    <3>4. CASE \E ready \in BOOLEAN : FirstPass(ready)
      BY <3>4, FirstPassFrame DEF ReplayInv, DraftInv, Captures
    <3>5. CASE Dispatch BY <1>0, <3>5 DEF Dispatch, FrameFields
    <3>6. CASE Pad BY <1>0, <3>6 DEF Pad, FrameFields
    <3>7. CASE Metadata BY <1>0, <3>7 DEF Metadata, FrameFields
    <3>8. CASE Return \/ Raise BY <3>8, LeavingFrame DEF ReplayInv
    <3>9. CASE Leave BY <3>9 DEF Leave, Idle
    <3> QED BY <1>3, <3>1, <3>2, <3>3, <3>4, <3>5, <3>6, <3>7, <3>8, <3>9 DEF Next
  <2> QED BY <2>1 DEF ReplayUpdated
<1> QED BY <1>1, <1>2, <1>3

LEMMA StutterReplay == ASSUME ReplayInv, UNCHANGED vars PROVE ReplayInv'
<1>0. UNCHANGED <<config, tables, widths, splits, shared, capture, frame>> BY DEF vars
<1>1. DraftInv' BY StutterDraft DEF ReplayInv
<1>2. Recordings' BY <1>0, OtherRecordings DEF ReplayInv
<1>3. Lengths' BY <1>0 DEF ReplayInv, Lengths
<1>4. \A step : FullMeta(step)' = FullMeta(step) BY <1>0, FullMetaKept DEF SameBatch
<1>5. (Replays' <=> Replays) /\ Gamma(frame.len)' = Gamma(frame.len)
  BY <1>0 DEF Replays, Gamma
<1>6. Metas' BY <1>0, <1>4, <1>5 DEF ReplayInv, Metas
<1>7. ReplayUpdated' BY <1>0 DEF ReplayInv, ReplayUpdated
<1> QED BY <1>1, <1>2, <1>3, <1>6, <1>7 DEF ReplayInv

\* Where the switches agree, a replay's update gives every task its capture
\* recorded its own step's metadata, with the rows it was captured with
\* (draft.py, run_serial_compact_without_hidden_copies, draft_full_graph_update).
THEOREM ReplaysUpdate == ASSUME SwitchesAgree PROVE Spec => []ReplayUpdated
<1>1. Init => ReplayInv BY InitReplay
<1>2. ReplayInv /\ [Next]_vars => ReplayInv'
  <2>1. ASSUME ReplayInv, Next PROVE ReplayInv'
    BY <2>1, NextDraft, RecordingsKept, LengthsKept, MetasKept, ReplayKept DEF ReplayInv
  <2> QED BY <2>1, StutterReplay
<1>3. ReplayInv => ReplayUpdated BY DEF ReplayInv
<1> QED BY <1>1, <1>2, <1>3, PTL DEF Spec
=============================================================================
