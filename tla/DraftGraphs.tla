----------------------------- MODULE DraftGraphs -----------------------------
(***************************************************************************)
(* The serial Draft model's FULL graphs (backends/draft.py): the           *)
(* descriptors the plugin adds to the host's dispatcher, their capture,    *)
(* and one proposal at a time choosing a descriptor, padding the batch to  *)
(* it, compacting the continuation steps to one row per request, updating  *)
(* the graph's recorded attention tasks and replaying it.                  *)
(*                                                                         *)
(* Target and Draft share one dispatcher.  A proposal steers it through    *)
(* attributes it sets on entry and puts back on every way out; the         *)
(* variable shared holds them together with the proposer's and runner's    *)
(* own flags.  A captured graph records one task per step (one layer) in   *)
(* tables keyed by token count alone, so the key, the width and the order  *)
(* of what an update applies must be those of the capture.                 *)
(***************************************************************************)
EXTENDS Integers, Sequences, FiniteSetsExt

CONSTANTS
    MaxSeqs,       \* scheduler max_num_seqs
    ExtraBuckets,  \* VSPEC_DRAFT_REQUEST_BUCKETS
    HostSizes,     \* the host's PIECEWISE capture sizes
    Configs,       \* the settings explored, see ConfigType
    MaxFrames      \* bound: proposals

ASSUME DraftAssumption ==
    /\ MaxSeqs \in Nat \ {0}
    /\ ExtraBuckets \subseteq 1..MaxSeqs
    /\ HostSizes \subseteq Nat \ {0}
    /\ MaxFrames \in Nat

\* lens: continuation query lengths; firsts: compact first-pass buckets, only
\* for gamma 2; limit: batch up to which merged FULL is used; the rest are the
\* environment switches, and runtime says the adaptive runtime drives the
\* gamma-2 width.
ConfigType ==
    [lens : (SUBSET (3..8)) \ {{}}, firsts : SUBSET (Nat \ {0}),
     limit : 0..MaxSeqs, serial : BOOLEAN, split : BOOLEAN, unified : BOOLEAN,
     merged : BOOLEAN, precompact : BOOLEAN, force : BOOLEAN, runtime : BOOLEAN]

ASSUME ConfigAssumption ==
    \A c \in Configs :
        /\ c \in ConfigType
        /\ c.firsts # {} => /\ c.lens = {4}
                            /\ \A bucket \in c.firsts : bucket < MaxSeqs * 4
        /\ c.runtime => c.lens = {4}
        /\ ~(c.force /\ c.merged)

VARIABLES
    config,   \* the chosen settings
    tables,   \* draft graph parameters: list key -> tasks recorded there
    widths,   \* _vspec_gamma2_unified_compact_num_tokens: tokens -> rows
    splits,   \* _vspec_gamma2_compact_num_tokens: tokens -> rows
    shared,   \* dispatcher, runner and proposer attributes
    capture,  \* descriptors tried and captured, the one in progress, what it saved
    frame     \* the proposal in progress, or the last one

vars == <<config, tables, widths, splits, shared, capture, frame>>

Absent == 0
Graph(tokens, reqs, uniform) == [tokens |-> tokens, reqs |-> reqs, uniform |-> uniform]
NoGraph == Graph(0, 0, FALSE)

\* The attributes between proposals: len is _vspec_active_uniform_query_len,
\* runtime _vspec_runtime_draft_query_len, reqs _vspec_active_num_reqs, capture
\* _vspec_capture_uniform_query_len and stash _vspec_compact_first_pass.
Native == [reqs |-> Absent, len |-> Absent, runtime |-> Absent, capture |-> Absent,
           stash |-> <<>>, dispatch |-> "host", uniformLen |-> Absent, padding |-> FALSE,
           piecewise |-> FALSE, force |-> FALSE, runnable |-> "graph"]

\* Powers of two below the batch limit, the limit, and the configured sizes.
Buckets == {size \in 1..MaxSeqs : size = MaxSeqs \/ \E k \in 0..MaxSeqs : size = 2 ^ k}
              \cup ExtraBuckets

Keys(c) == {Graph(reqs * len, reqs, TRUE) : reqs \in Buckets, len \in c.lens}
              \cup {Graph(bucket, MaxSeqs, FALSE) : bucket \in c.firsts}
Width(graph) == graph.tokens \div graph.reqs

\* Mutant: a derived length is used whether or not it was captured.
QueryLenUnchecked(s, tokens) ==
    IF s.capture # Absent THEN s.capture
    ELSE IF s.len # Absent THEN s.len
    ELSE IF s.reqs > 0 /\ tokens % s.reqs = 0 THEN tokens \div s.reqs ELSE Absent

(***************************************************************************)
(* Dispatch.                                                               *)
(***************************************************************************)
QueryLen(s, tokens) ==
    IF s.capture # Absent THEN s.capture
    ELSE IF s.len # Absent THEN s.len
    ELSE IF s.reqs > 0 /\ tokens % s.reqs = 0 /\ tokens \div s.reqs \in config.lens
         THEN tokens \div s.reqs ELSE Absent

StashHit(s, tokens) == s.stash # <<>> /\ tokens \in {s.stash[1], s.stash[2]}
Steered(s) == s.reqs # Absent \/ s.capture # Absent

\* Mutant: a graph one request short is taken.
FitsShort(graph, tokens, len) ==
    /\ graph.uniform
    /\ graph.reqs + 1 >= tokens \div len
    /\ graph.tokens = graph.reqs * len

Fits(graph, tokens, len) ==
    /\ graph.uniform
    /\ graph.reqs >= tokens \div len
    /\ graph.tokens = graph.reqs * len

Selected(s, tokens, uniform) ==
    LET len == QueryLen(s, tokens)
        fitting == {graph \in Keys(config) : Fits(graph, tokens, len)}
    IN  IF StashHit(s, tokens) THEN Graph(s.stash[2], s.stash[3], FALSE)
        ELSE IF /\ Steered(s) /\ uniform
                /\ len \in config.lens /\ tokens % len = 0
                /\ fitting # {}
             THEN CHOOSE graph \in fitting :
                      \A other \in fitting : graph.tokens <= other.tokens
             ELSE NoGraph

\* The selection remembers the length it derived, even when it then declines.
Remembered(s, tokens) ==
    IF StashHit(s, tokens) \/ ~Steered(s) \/ s.capture # Absent THEN s
    ELSE [s EXCEPT !.len = QueryLen(s, tokens)]

PiecewiseBucket(tokens) ==
    LET sizes == {size \in HostSizes : size >= tokens}
    IN  IF sizes = {} THEN tokens ELSE Min(sizes)

HostDispatch(tokens) ==
    [mode |-> IF \E size \in HostSizes : size >= tokens THEN "PIECEWISE" ELSE "NONE",
     graph |-> Graph(PiecewiseBucket(tokens), Absent, FALSE)]

Dispatched(s, tokens, uniform) ==
    LET graph == Selected(s, tokens, uniform /\ s.dispatch = "host")
    IN  IF graph # NoGraph THEN [mode |-> "FULL", graph |-> graph]
        ELSE HostDispatch(tokens)

(***************************************************************************)
(* Capture.                                                                *)
(***************************************************************************)
Gamma(len) == len - 2
GraphLen(graph) == IF graph.uniform THEN Width(graph) ELSE 4

\* The serial path without hidden-state copies.
SerialPath(gamma) == config.serial /\ gamma \in {2, 3}
UnifiedPath(gamma) == SerialPath(gamma) /\ config.unified
SplitPath(gamma) == SerialPath(gamma) /\ config.split /\ ~config.unified

\* Continuation rows and the list their tasks go to while graph is captured.
CaptureRows(graph, gamma) ==
    IF UnifiedPath(gamma) \/ SplitPath(gamma) \/ (config.merged /\ ~SerialPath(gamma))
    THEN graph.reqs ELSE graph.tokens
TaskKey(graph, gamma, step) ==
    IF step > 1 /\ SplitPath(gamma) THEN -(graph.tokens + 1) ELSE graph.tokens

\* One list gets the first step, one the continuations; they may be the same.
Tasks(graph, key) ==
    LET gamma == Gamma(GraphLen(graph))
        first == IF TaskKey(graph, gamma, 1) = key THEN 1 ELSE 2
        last == IF TaskKey(graph, gamma, 2) = key THEN gamma ELSE 1
        Task(step) == [graph |-> graph, step |-> step,
                       rows |-> IF step = 1 THEN graph.tokens ELSE CaptureRows(graph, gamma)]
    IN  [i \in 1..(last - first + 1) |-> Task(first + i - 1)]

Recorded(graph) ==
    [key \in DOMAIN tables \cup {graph.tokens, -(graph.tokens + 1)} |->
        (IF key \in DOMAIN tables THEN tables[key] ELSE <<>>) \o Tasks(graph, key)]

With(map, key, value) ==
    [k \in DOMAIN map \cup {key} |-> IF k = key THEN value ELSE map[k]]

\* _warmup_and_capture points the dispatcher at the descriptor ...
BeginCapture(graph) ==
    /\ capture.running = NoGraph
    /\ graph \in Keys(config) \ capture.tried
    /\ capture' = [capture EXCEPT !.running = graph, !.tried = @ \cup {graph}, !.saved = shared]
    /\ shared' = IF graph.uniform
                 THEN [shared EXCEPT !.uniformLen = Width(graph), !.capture = Width(graph)]
                 ELSE [shared EXCEPT !.stash = <<graph.tokens, graph.tokens, graph.reqs>>]
    /\ UNCHANGED <<config, tables, widths, splits, frame>>

\* ... the host's dummy run captures what its dispatch selects, and the
\* dispatcher is put back.
EndCapture ==
    LET ran == Dispatched(shared, capture.running.tokens, capture.running.uniform)
        graph == ran.graph
        gamma == Gamma(GraphLen(graph))
        rows == CaptureRows(graph, gamma)
        compact == rows # graph.tokens
    IN  /\ capture.running # NoGraph
        /\ ran.mode = "FULL"
        /\ tables' = Recorded(graph)
        /\ widths' = IF UnifiedPath(gamma) /\ compact
                     THEN With(widths, graph.tokens, rows) ELSE widths
        /\ splits' = IF SplitPath(gamma) /\ compact
                     THEN With(splits, graph.tokens, rows) ELSE splits
        /\ capture' = [capture EXCEPT !.running = NoGraph, !.done = @ \cup {graph}]
        /\ shared' = IF capture.running.uniform
                     THEN [shared EXCEPT !.uniformLen = capture.saved.uniformLen,
                                         !.capture = capture.saved.capture]
                     ELSE [shared EXCEPT !.stash = capture.saved.stash]
        /\ UNCHANGED <<config, frame>>

(***************************************************************************)
(* One proposal.                                                           *)
(***************************************************************************)
Serving == capture.running = NoGraph /\ capture.tried = Keys(config)
Running == frame.stage \notin {"idle", "left"}
Merged(batch) == batch <= config.limit

\* The host has a batch to draft for: a uniform decode batch, whose accepted
\* counts give the rows worth keeping, or one with other query lengths.  The
\* adaptive runtime binds the gamma-2 width around the proposal.
HostFrame(batch, len, kept, tokens, uniform, prefill) ==
    /\ Serving /\ frame.stage = "idle" /\ frame.number < MaxFrames
    /\ frame' = [frame EXCEPT !.stage = "entered", !.number = @ + 1,
                    !.batch = batch, !.len = len, !.kept = kept, !.tokens = tokens,
                    !.uniform = uniform, !.prefill = prefill, !.host = shared,
                    !.starts = [row \in 0..batch |-> IF uniform THEN row * len
                                                     ELSE (row * tokens) \div batch]]
    /\ shared' = IF config.runtime THEN [shared EXCEPT !.len = 4, !.runtime = 4] ELSE shared
    /\ UNCHANGED <<config, tables, widths, splits, capture>>

\* _propose saves the attributes and sets those of its path.
Propose ==
    LET path == IF ~Merged(frame.batch) THEN "plain"
                ELSE IF config.force /\ ~frame.prefill THEN "force" ELSE "merged"
        steered == [shared EXCEPT !.reqs = frame.batch, !.len = shared.runtime,
                                  !.padding = TRUE]
    IN  /\ frame.stage = "entered"
        /\ frame' = [frame EXCEPT !.stage = "inputs", !.path = path, !.saved = shared]
        /\ shared' = CASE path = "merged" -> steered
                       [] path = "force" -> [steered EXCEPT !.piecewise = TRUE, !.force = TRUE,
                                                            !.runnable = "body"]
                       [] path = "plain" -> [shared EXCEPT !.dispatch = "nonuniform",
                                                           !.piecewise = TRUE]
        /\ UNCHANGED <<config, tables, widths, splits, capture>>

\* Where each request starts once only its accepted rows are kept.
KeptBefore ==
    LET start[row \in 0..frame.batch] ==
            IF row = 0 THEN 0 ELSE start[row - 1] + frame.kept[row]
    IN  start
Compacted == KeptBefore[frame.batch]

\* set_inputs_first_pass drops the rejected rows when the counts have arrived
\* (ready) and a captured bucket is smaller than the whole batch.
FirstPass(ready) ==
    LET buckets == {bucket \in config.firsts : bucket >= Compacted /\ bucket < frame.tokens}
        compacts == /\ ready /\ ~frame.prefill
                    /\ frame.len = 4 /\ frame.batch = MaxSeqs
                    /\ frame.tokens = frame.batch * frame.len
                    /\ buckets # {}
    IN  /\ frame.stage = "inputs"
        /\ ready \/ config.firsts # {}
        /\ IF compacts
           THEN /\ frame' = [frame EXCEPT !.stage = "dispatch", !.tokens = Compacted,
                                !.starts = KeptBefore]
                /\ shared' = [shared EXCEPT !.stash = <<Compacted, Min(buckets), frame.batch>>]
           ELSE /\ frame' = [frame EXCEPT !.stage = "dispatch"]
                /\ UNCHANGED shared
        /\ UNCHANGED <<config, tables, widths, splits, capture>>

Dispatch ==
    LET chosen == Dispatched(shared, frame.tokens, frame.uniform)
    IN  /\ frame.stage = "dispatch"
        /\ frame' = [frame EXCEPT !.stage = "pad", !.mode = chosen.mode, !.graph = chosen.graph,
                                  !.rows = frame.starts]
        /\ shared' = Remembered(shared, frame.tokens)
        /\ UNCHANGED <<config, tables, widths, splits, capture>>

\* Mutant: the tokens left are divided among all the rows.
SpreadOverAll(starts, batch, tokens, reqs) ==
    LET left == tokens - starts[batch]
        Dummy(row) == starts[batch] + (row - batch) * (left \div reqs)
    IN  IF reqs = batch THEN [starts EXCEPT ![batch] = tokens]
        ELSE [row \in 0..reqs |-> IF row <= batch THEN starts[row] ELSE Dummy(row)]

\* The dummy rows share the tokens the batch leaves; with none, the last real
\* row takes them.
Spread(starts, batch, tokens, reqs) ==
    LET left == tokens - starts[batch]
        dummies == reqs - batch
        Dummy(row) == starts[batch] + (row - batch) * (left \div dummies)
                          + Min({row - batch, left % dummies})
    IN  IF dummies = 0 THEN [starts EXCEPT ![batch] = tokens]
        ELSE [row \in 0..reqs |-> IF row <= batch THEN starts[row] ELSE Dummy(row)]

\* _pad_query_start_loc_for_fia; a descriptor too small for the batch raises.
Pad ==
    LET pads == shared.padding /\ frame.mode = "FULL"
    IN  /\ frame.stage = "pad"
        /\ pads => frame.batch <= frame.graph.reqs /\ frame.tokens <= frame.graph.tokens
        /\ frame' = [frame EXCEPT !.stage = "metadata",
                        !.rows = IF pads THEN Spread(frame.starts, frame.batch,
                                                     frame.graph.tokens, frame.graph.reqs)
                                 ELSE frame.starts]
        /\ UNCHANGED <<config, tables, widths, splits, shared, capture>>

\* attn_update: rows of the attention metadata of the continuation steps.
ContinuationRows ==
    LET len == IF shared.capture # Absent THEN shared.capture ELSE shared.len
        precompacts == config.merged \/ (config.precompact /\ Gamma(frame.len) = 2)
    IN  IF shared.piecewise /\ shared.force THEN PiecewiseBucket(frame.batch)
        ELSE IF shared.piecewise /\ frame.mode = "PIECEWISE"
             THEN Dispatched(shared, frame.batch, FALSE).graph.tokens
        ELSE IF /\ precompacts /\ frame.mode = "FULL"
                /\ len # Absent /\ frame.graph.tokens % len = 0
             THEN frame.graph.tokens \div len
        ELSE frame.graph.tokens

Metadata ==
    /\ frame.stage = "metadata"
    /\ frame' = [frame EXCEPT !.stage = "run", !.step = 1,
                    !.metas = [step \in 1..Gamma(frame.len) |->
                                  [step |-> step, rows |-> IF step = 1 THEN frame.graph.tokens
                                                           ELSE ContinuationRows]]]
    /\ UNCHANGED <<config, tables, widths, splits, shared, capture>>

Replays == frame.mode = "FULL" /\ shared.runnable = "graph"

\* _compact_draft_metadata: a slice, so never more rows than there are.
Compact(meta, rows) == [meta EXCEPT !.rows = Min({@, rows})]

\* Mutant: the rows of the batch rather than of the graph.
UnifiedRowsOfBatch == IF config.unified THEN frame.batch ELSE Absent

\* The rows the unified path compacts its continuations to: the descriptor's
\* for a uniform gamma-2 graph, else those last captured under its token count.
UnifiedRows ==
    LET gamma == Gamma(frame.len)
        graph == frame.graph
    IN  IF gamma = 2 /\ config.unified /\ graph.uniform /\ graph.tokens = graph.reqs * 4
        THEN graph.reqs
        ELSE IF graph.tokens \in DOMAIN widths THEN widths[graph.tokens] ELSE Absent

\* _update_full_graph_params: which metadata goes to which task list.
Updates ==
    LET key == frame.graph.tokens
        metas == frame.metas
        several == Len(metas) > 1
    IN  IF UnifiedRows # Absent /\ several
        THEN [k \in {key} |-> [step \in DOMAIN metas |->
                 IF step = 1 THEN metas[1] ELSE Compact(metas[step], UnifiedRows)]]
        ELSE IF key \in DOMAIN splits /\ several
        THEN With([k \in {key} |-> <<metas[1]>>], -(key + 1), <<Compact(metas[2], splits[key])>>)
        ELSE [k \in {key} |-> metas]

Replay ==
    /\ frame.stage = "run" /\ Replays
    /\ frame' = [frame EXCEPT !.stage = "ran", !.updates = Updates]
    /\ UNCHANGED <<config, tables, widths, splits, shared, capture>>

\* A forward outside a FULL graph: its rows, and the mode the piecewise wrapper
\* gives it (outer: it is left as dispatched).
ForwardOf(step) ==
    LET gamma == Gamma(frame.len)
        compact == UnifiedPath(gamma) \/ SplitPath(gamma)
        forced == shared.force /\ frame.mode = "FULL"
        rows == IF step = 1 THEN frame.graph.tokens ELSE frame.batch
        chosen == Dispatched(shared, rows, FALSE)
    IN  IF SerialPath(gamma)
        THEN [mode |-> "outer",
              rows |-> IF step = 1 \/ ~compact THEN frame.graph.tokens
                       ELSE IF frame.graph.reqs # Absent THEN frame.graph.reqs
                       ELSE frame.batch]
        ELSE IF ~shared.piecewise
        THEN [mode |-> "outer", rows |-> frame.graph.tokens]
        ELSE IF step = 1 /\ ~forced THEN [mode |-> "outer", rows |-> rows]
        ELSE IF forced THEN [mode |-> "PIECEWISE", rows |-> PiecewiseBucket(rows)]
        ELSE IF chosen.mode # "PIECEWISE" THEN [mode |-> "outer", rows |-> rows]
        ELSE [mode |-> "PIECEWISE", rows |-> chosen.graph.tokens]

Forward ==
    /\ frame.stage = "run" /\ ~Replays
    /\ frame' = [frame EXCEPT !.stage = IF frame.step = Gamma(frame.len) THEN "ran" ELSE "run",
                    !.step = @ + 1,
                    !.forwards = Append(@, ForwardOf(frame.step))]
    /\ UNCHANGED <<config, tables, widths, splits, shared, capture>>

\* Mutant: the first-pass stash is left behind.
RestoredButStash(s, saved, path) ==
    LET steering == [s EXCEPT !.dispatch = saved.dispatch, !.len = saved.len, !.reqs = saved.reqs]
    IN  CASE path = "merged" -> [steering EXCEPT !.padding = saved.padding]
          [] path = "force" -> [steering EXCEPT !.padding = saved.padding,
                                    !.runnable = saved.runnable,
                                    !.piecewise = FALSE, !.force = FALSE]
          [] path = "plain" -> [steering EXCEPT !.piecewise = FALSE]

\* Every way out of _propose restores what it set.
Restored(s, saved, path) ==
    LET steering == [s EXCEPT !.dispatch = saved.dispatch, !.len = saved.len,
                              !.reqs = saved.reqs, !.stash = saved.stash]
    IN  CASE path = "merged" -> [steering EXCEPT !.padding = saved.padding]
          [] path = "force" -> [steering EXCEPT !.padding = saved.padding,
                                    !.runnable = saved.runnable,
                                    !.piecewise = FALSE, !.force = FALSE]
          [] path = "plain" -> [steering EXCEPT !.piecewise = FALSE]

Return ==
    /\ frame.stage = "ran"
    /\ frame' = [frame EXCEPT !.stage = "left"]
    /\ shared' = Restored(shared, frame.saved, frame.path)
    /\ UNCHANGED <<config, tables, widths, splits, capture>>

Raise ==
    /\ frame.stage \in {"inputs", "dispatch", "pad", "metadata", "run"}
    /\ frame' = [frame EXCEPT !.stage = "left"]
    /\ shared' = Restored(shared, frame.saved, frame.path)
    /\ UNCHANGED <<config, tables, widths, splits, capture>>

Idle(number) ==
    [stage |-> "idle", number |-> number, batch |-> 0, len |-> 4, kept |-> <<>>, tokens |-> 0,
     uniform |-> FALSE, prefill |-> FALSE, starts |-> <<>>, rows |-> <<>>, path |-> "plain",
     mode |-> "NONE", graph |-> NoGraph, metas |-> <<>>, step |-> 0, updates |-> <<>>,
     forwards |-> <<>>, saved |-> Native, host |-> Native]

\* The runtime's width binding ends with the proposal.
Leave ==
    /\ frame.stage = "left"
    /\ frame' = Idle(frame.number)
    /\ shared' = IF config.runtime
                 THEN [shared EXCEPT !.len = frame.host.len, !.runtime = frame.host.runtime]
                 ELSE shared
    /\ UNCHANGED <<config, tables, widths, splits, capture>>

Init ==
    /\ config \in Configs
    /\ tables = <<>> /\ widths = <<>> /\ splits = <<>>
    /\ shared = Native
    /\ capture = [running |-> NoGraph, tried |-> {}, done |-> {}, saved |-> Native]
    /\ frame = Idle(0)

Accepted(batch) ==
    IF config.firsts # {} /\ batch = MaxSeqs THEN [1..batch -> 1..4]
    ELSE {[row \in 1..batch |-> 1]}

UniformFrame ==
    \E batch \in 1..MaxSeqs, len \in config.lens :
        \E kept \in Accepted(batch) : HostFrame(batch, len, kept, batch * len, TRUE, FALSE)

MixedFrame ==
    \E batch \in 1..MaxSeqs, len \in config.lens, prefill \in BOOLEAN :
        \E tokens \in batch..(batch * len) :
            HostFrame(batch, len, [row \in 1..batch |-> 1], tokens, FALSE, prefill)

Next ==
    \/ \E graph \in Keys(config) : BeginCapture(graph)
    \/ EndCapture
    \/ UniformFrame
    \/ MixedFrame
    \/ Propose
    \/ \E ready \in BOOLEAN : FirstPass(ready)
    \/ Dispatch
    \/ Pad
    \/ Metadata
    \/ Replay
    \/ Forward
    \/ Return
    \/ Raise
    \/ Leave

Spec == Init /\ [][Next]_vars

(***************************************************************************)
(* Properties.                                                             *)
(***************************************************************************)

AttributesOK(s) ==
    /\ s.reqs \in 0..MaxSeqs /\ s.runtime \in {Absent, 4}
    /\ {s.len, s.capture, s.uniformLen} \subseteq {Absent} \cup config.lens
    /\ s.stash \in Seq(Nat) /\ Len(s.stash) \in {0, 3}
    /\ s.dispatch \in {"host", "nonuniform"} /\ s.runnable \in {"graph", "body"}
    /\ {s.padding, s.piecewise, s.force} \subseteq BOOLEAN

\* Task lists lie under the two keys of a descriptor, and a token count kept
\* with compact rows is a descriptor's.
CaptureOK ==
    /\ capture.running \in Keys(config) \cup {NoGraph} /\ capture.done \subseteq capture.tried
    /\ capture.tried \subseteq Keys(config) /\ AttributesOK(capture.saved)
    /\ \A key \in DOMAIN tables :
           /\ \E graph \in Keys(config) : key \in {graph.tokens, -(graph.tokens + 1)}
           /\ \A i \in DOMAIN tables[key] :
                  /\ tables[key][i].graph \in Keys(config)
                  /\ tables[key][i].step \in Nat \ {0} /\ tables[key][i].rows \in Nat \ {0}
    /\ \A tokens \in DOMAIN widths :
           /\ \E graph \in Keys(config) : tokens = graph.tokens
           /\ widths[tokens] \in 1..MaxSeqs
    /\ \A tokens \in DOMAIN splits :
           /\ \E graph \in Keys(config) : tokens = graph.tokens
           /\ splits[tokens] \in 1..MaxSeqs

Metadatas == [step : 1..6, rows : Nat]
FrameOK ==
    /\ frame.stage \in {"idle", "entered", "inputs", "dispatch", "pad", "metadata",
                        "run", "ran", "left"}
    /\ frame.number \in 0..MaxFrames
    /\ AttributesOK(frame.saved) /\ AttributesOK(frame.host)
    /\ frame.path \in {"merged", "force", "plain"} /\ frame.mode \in {"FULL", "PIECEWISE", "NONE"}
    /\ frame.graph \in Keys(config) \cup [tokens : Nat, reqs : {Absent}, uniform : {FALSE}]
    /\ {frame.uniform, frame.prefill} \subseteq BOOLEAN
    /\ frame.stage # "idle" =>
           /\ frame.batch \in 1..MaxSeqs /\ frame.len \in config.lens
           /\ frame.kept \in [1..frame.batch -> 1..4]
           /\ frame.tokens \in Nat /\ frame.tokens >= frame.batch
           /\ frame.starts \in [0..frame.batch -> Nat]
           /\ frame.starts[frame.batch] = frame.tokens
    /\ \A row \in DOMAIN frame.rows : row \in 0..MaxSeqs /\ frame.rows[row] \in Nat
    /\ frame.stage = "run" => frame.step \in 1..Gamma(frame.len)
    /\ frame.metas \in Seq(Metadatas)
    /\ \A key \in DOMAIN frame.updates : frame.updates[key] \in Seq(Metadatas)
    /\ frame.forwards \in Seq([mode : {"outer", "PIECEWISE"}, rows : Nat])

\* Outside a capture and a proposal every attribute is the host's; around
\* _propose only the runtime's width binding is there.
SteeredInside ==
    /\ capture.running # NoGraph => frame.stage = "idle"
    /\ capture.running = NoGraph /\ frame.stage \in {"idle", "entered", "left"} =>
           \A a \in DOMAIN Native :
               \/ shared[a] = Native[a]
               \/ frame.stage # "idle" /\ config.runtime /\ a \in {"len", "runtime"}

\* The attributes, the tables and rows captures record and every field of a
\* proposal hold what the host and the plugin may put in them, and the
\* dispatcher is steered only during a capture or a proposal.
TypeOK ==
    /\ config \in Configs
    /\ AttributesOK(shared)
    /\ CaptureOK
    /\ FrameOK
    /\ SteeredInside

\* Between captures and proposals the shared dispatcher selects no Draft
\* graph for a Target batch of any size, pads nothing and runs nothing
\* piecewise, whichever path the last proposal took and wherever it raised
\* (draft.py, restore_dispatcher and the finally blocks of draft_propose and
\* warmup_and_capture).
TargetUnsteered ==
    (capture.running = NoGraph /\ frame.stage = "idle") =>
        /\ \A tokens \in 1..(MaxSeqs * 8), uniform \in BOOLEAN :
               Selected(shared, tokens, uniform) = NoGraph
        /\ shared.dispatch = "host" /\ shared.runnable = "graph"
        /\ ~shared.padding /\ ~shared.piecewise /\ ~shared.force

\* A proposal that runs FULL uses a captured graph with a row for every request
\* and a slot for every token, and every forward outside a graph has as many
\* rows as the batch needs and, piecewise, a captured size (draft.py,
\* _select_draft_continuation_graph, compact_first_pass_inputs).
GraphCoversBatch ==
    /\ frame.stage \in {"pad", "metadata", "run", "ran"} /\ frame.mode = "FULL" =>
           /\ frame.graph \in capture.done
           /\ frame.graph.reqs >= frame.batch /\ frame.graph.tokens >= frame.tokens
    /\ \A step \in DOMAIN frame.forwards :
           /\ frame.forwards[step].rows >= IF step = 1 THEN frame.tokens ELSE frame.batch
           /\ frame.forwards[step].mode = "PIECEWISE" => frame.forwards[step].rows \in HostSizes

\* Padding moves the start of no real request, so its sampled rows stay where
\* the compaction put them; row starts never fall, and a padded batch ends
\* exactly at the graph's last token (draft.py, pad_query_start_loc_for_fia,
\* compact_first_pass_inputs).
PaddingKeepsRows ==
    frame.stage \in {"metadata", "run", "ran"} =>
        /\ \A row \in 0..(frame.batch - 1) : frame.rows[row] = frame.starts[row]
        /\ \A row \in DOMAIN frame.rows \ {0} : frame.rows[row] >= frame.rows[row - 1]
        /\ shared.padding /\ frame.mode = "FULL" =>
               /\ DOMAIN frame.rows = 0..frame.graph.reqs
               /\ frame.rows[frame.graph.reqs] = frame.graph.tokens

\* Before a replay every task the capture recorded for that graph is updated,
\* with its own step's metadata, of exactly the rows it was captured with
\* (draft.py, run_serial_compact_without_hidden_copies, draft_full_graph_update).
ReplayUpdated ==
    frame.stage = "ran" /\ frame.updates # <<>> =>
        \A key \in DOMAIN tables : \A i \in DOMAIN tables[key] :
            tables[key][i].graph = frame.graph =>
                /\ key \in DOMAIN frame.updates /\ i \in DOMAIN frame.updates[key]
                /\ frame.updates[key][i] = [step |-> tables[key][i].step,
                                            rows |-> tables[key][i].rows]

(***************************************************************************)
(* Conditions on the settings.  Padding and steering need none;            *)
(* GraphCoversBatch needs the first, ReplayUpdated the second.             *)
(***************************************************************************)
\* Where continuations are forced piecewise, the host captured a size for
\* every FULL descriptor.
ForcedSizesCaptured ==
    \A c \in Configs : c.force =>
        \A graph \in Keys(c) : \E size \in HostSizes : size >= graph.tokens

\* Whether a graph's continuations are captured with a row per request, and
\* whether an update gives them so many.
CapturesCompact(c, gamma) ==
    IF c.serial /\ gamma \in {2, 3} THEN c.unified \/ c.split ELSE c.merged
UpdatesCompact(c, gamma) == c.merged \/ (gamma = 2 /\ (c.precompact \/ c.unified))

\* The switches agree: what an update compacts was captured compact, the two
\* lists of the split path hold two steps, a compact first pass is captured by
\* the path that replays it, its metadata is not divided by the query length,
\* and no two descriptors share the token count their tasks are kept under.
SwitchesAgree ==
    \A c \in Configs :
        /\ \A len \in c.lens :
               UpdatesCompact(c, Gamma(len)) => CapturesCompact(c, Gamma(len))
        /\ c.serial /\ c.split /\ ~c.unified => 5 \notin c.lens /\ MaxSeqs \notin c.firsts
        /\ c.merged /\ ~c.serial => c.firsts \subseteq {MaxSeqs}
        /\ c.runtime /\ (c.merged \/ c.precompact) =>
               \A bucket \in c.firsts : bucket % 4 # 0
        /\ \A graph, other \in Keys(c) : graph.tokens = other.tokens => graph = other
=============================================================================
