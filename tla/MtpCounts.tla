------------------------------- MODULE MtpCounts -------------------------------
(* Accepted-token counts of asynchronous hybrid MTP kept on the device        *)
(* (backends/mtp.py, _patch_async_mtp_device_counts).                         *)
(*                                                                            *)
(* The recurrent state of a row starts where its request's last verification  *)
(* ended, so every frame needs, per row, how many tokens the request's        *)
(* previous frame accepted.  The host code waits for that number to arrive on *)
(* the CPU; the patch lets the device map the counts of the last batch to the *)
(* rows of the next one, and a phase on the runner decides which of the       *)
(* host's copies of the CPU counts still take place.  The actors are the host *)
(* thread, its stream, and the copy that publishes the counts of a frame.     *)
EXTENDS Integers, Sequences, FiniteSets, SequencesExt

CONSTANTS
    Requests,   \* requests that may be in a batch
    Width,      \* most tokens a frame accepts per request (num_spec_tokens + 1)
    MaxSteps    \* bound on the frames of a behaviour

ASSUME MtpAssumption ==
    /\ IsFiniteSet(Requests) /\ Width \in Nat \ {0} /\ MaxSteps \in Nat

Rows == 1..Cardinality(Requests)
Counts == 1..Width
Batches == UNION {{b \in [1..n -> Requests] : IsInjective(b)} : n \in Rows}
None == 0

VARIABLES
    phase,     \* _vspec_mtp_device_count_phase
    pc,        \* where execute_model is
    bound,     \* ctx.is_initialized: the post-processing context exists
    step,      \* frames launched
    batch,     \* requests of the frame being prepared, by row
    last,      \* requests of the last launched frame (prev_req_id_to_index)
    moved,     \* requests whose state changes blocks before this frame
    bias,      \* counts that placed the state copies of those requests
    cpu,       \* input_batch.num_accepted_tokens_cpu
    stream,    \* the model stream: enqueued operations
    previous,  \* prev_positions on the device
    counts,    \* num_accepted_tokens on the device
    out,       \* ctx.num_accepted_tokens_out, by row of the last finished frame
    unposted,  \* counts computed by frames and not yet published
    posted,    \* frames whose num_accepted_tokens_event has been reached
    accepted   \* history: what each request's last frame really accepted

host == <<phase, pc, bound, step, batch, last, moved, bias>>
device == <<previous, counts, out, unposted, posted, accepted>>
vars == <<host, cpu, stream, device>>

AllOnes == [i \in Rows |-> 1]

Init ==
    /\ phase = "idle" /\ pc = "idle" /\ bound \in BOOLEAN
    /\ step = 0 /\ batch = <<>> /\ last = <<>> /\ moved = {} /\ bias = AllOnes
    /\ cpu = AllOnes /\ stream = <<>>
    /\ previous = [i \in Rows |-> None] /\ counts = AllOnes /\ out = AllOnes
    /\ unposted = <<>> /\ posted = 0
    /\ accepted = [r \in Requests |-> 1]

--------------------------------------------------------------------------------
(* prev_positions: the row a request had in the last frame.                   *)
Position(b, i) == IF \E j \in DOMAIN last : last[j] = b[i]
                  THEN CHOOSE j \in DOMAIN last : last[j] = b[i] ELSE None
Positions(b) == [i \in Rows |-> IF i \in DOMAIN b THEN Position(b, i) ELSE None]

(* _remap_accepted_tokens_on_device, and the host's remap of the CPU counts:  *)
(* a row takes the count of its request's row in the last frame, new rows and *)
(* the rows beyond the batch take 1.                                          *)
RemapClamped(source, positions, n) ==
    [i \in Rows |-> IF i <= n THEN source[IF positions[i] = None THEN 1 ELSE positions[i]] ELSE 1]
Remap(source, positions, n) ==
    [i \in Rows |-> IF i <= n /\ positions[i] # None THEN source[positions[i]] ELSE 1]

Enqueue(ops) == stream' = stream \o ops

(* A new batch is on its way: requests joined, left or changed rows.          *)
NextBatch(b) ==
    /\ pc = "idle" /\ step < MaxSteps /\ step <= posted + 1
    /\ b \in Batches
    /\ batch' = b
    /\ pc' = "prepared"

(* prepare_inputs with a context: the positions go to the device, the stream  *)
(* waits for the counts of the last frame and maps them; the host goes on.    *)
PrepareOnDevice(b) ==
    /\ NextBatch(b) /\ bound
    /\ Enqueue(<<[op |-> "positions", value |-> Positions(b)],
                 [op |-> "await", step |-> step],
                 [op |-> "remap", rows |-> Len(b)]>>)
    /\ phase' = "mapped"
    /\ UNCHANGED <<bound, step, last, moved, bias, cpu, device>>

(* prepare_inputs before the context is initialized: the host waits for the   *)
(* event, maps the CPU counts and copies them.                                *)
PrepareOnHost(b) ==
    /\ NextBatch(b) /\ ~bound
    /\ posted = step
    /\ cpu' = Remap(cpu, Positions(b), Len(b))
    /\ Enqueue(<<[op |-> "copy", value |-> cpu']>>)
    /\ phase' = "fallback"
    /\ UNCHANGED <<bound, step, last, moved, bias, device>>

(* The original preprocess_mamba: the states that change blocks are copied    *)
(* from the place the CPU count says, and those requests start again at 1.    *)
MoveStates(m, source) ==
    /\ moved' = m
    /\ bias' = source
    /\ cpu' = [i \in Rows |-> IF i \in DOMAIN batch /\ batch[i] \in m THEN 1 ELSE source[i]]

(* preprocess_mamba while the counts are on the device.  Without a state      *)
(* transition nothing reads the CPU counts.  With one, the device counts are  *)
(* brought back, which waits for the whole stream.                            *)
PreprocessMapped ==
    /\ pc = "prepared" /\ phase = "mapped"
    /\ phase' = "preprocessed"
    /\ MoveStates({}, cpu)
    /\ pc' = "preprocessed"
    /\ UNCHANGED <<bound, step, batch, last, stream, device>>

PreprocessTransitionAtOnce ==
    /\ pc = "prepared" /\ phase = "mapped"
    /\ \E m \in SUBSET ToSet(batch) \ {{}} :
         MoveStates(m, [i \in Rows |-> IF i \in DOMAIN batch THEN counts[i] ELSE cpu[i]])
    /\ phase' = "fallback"
    /\ pc' = "preprocessed"
    /\ UNCHANGED <<bound, step, batch, last, stream, device>>
PreprocessTransition ==
    /\ pc = "prepared" /\ phase = "mapped"
    /\ stream = <<>>
    /\ \E m \in SUBSET ToSet(batch) \ {{}} :
         MoveStates(m, [i \in Rows |-> IF i \in DOMAIN batch THEN counts[i] ELSE cpu[i]])
    /\ phase' = "fallback"
    /\ pc' = "preprocessed"
    /\ UNCHANGED <<bound, step, batch, last, stream, device>>

PreprocessOnHost ==
    /\ pc = "prepared" /\ phase = "fallback"
    /\ \E m \in SUBSET ToSet(batch) : MoveStates(m, cpu)
    /\ pc' = "preprocessed"
    /\ UNCHANGED <<phase, bound, step, batch, last, stream, device>>

(* The copy_to_gpu that follows preprocessing: skipped once when the device   *)
(* already has the counts.                                                    *)
SecondCopy == IF phase = "preprocessed" THEN <<>> ELSE <<[op |-> "copy", value |-> cpu]>>

(* The frame is launched; the context exists from the first one on.           *)
Launch ==
    /\ pc = "preprocessed"
    /\ Enqueue(SecondCopy \o <<[op |-> "model", batch |-> batch, last |-> last,
                                moved |-> moved, bias |-> bias]>>)
    /\ phase' = IF phase = "preprocessed" THEN "idle" ELSE phase
    /\ step' = step + 1 /\ last' = batch /\ bound' = TRUE
    /\ pc' = "idle" /\ moved' = {} /\ bias' = AllOnes /\ batch' = <<>>
    /\ UNCHANGED <<cpu, device>>

--------------------------------------------------------------------------------
(* The stream runs its operations in order.                                   *)
Runs(o) == /\ stream # <<>> /\ Head(stream).op = o
           /\ stream' = Tail(stream)
           /\ UNCHANGED <<host, cpu>>

StorePositions ==
    /\ Runs("positions")
    /\ previous' = Head(stream).value
    /\ UNCHANGED <<counts, out, unposted, posted, accepted>>
AwaitCounts ==
    /\ Runs("await") /\ Head(stream).step <= posted
    /\ UNCHANGED device
RemapCounts ==
    /\ Runs("remap")
    /\ counts' = Remap(out, previous, Head(stream).rows)
    /\ UNCHANGED <<previous, out, unposted, posted, accepted>>
CopyCounts ==
    /\ Runs("copy")
    /\ counts' = Head(stream).value
    /\ UNCHANGED <<previous, out, unposted, posted, accepted>>

(* A frame verifies its drafts; any number of them may be accepted.           *)
RunModel ==
    /\ Runs("model")
    /\ LET b == Head(stream).batch IN
       \E a \in [DOMAIN b -> Counts] :
         /\ accepted' = [r \in Requests |-> IF \E i \in DOMAIN b : b[i] = r
                                            THEN a[CHOOSE i \in DOMAIN b : b[i] = r] ELSE accepted[r]]
         /\ unposted' = Append(unposted, [i \in Rows |-> IF i \in DOMAIN b THEN a[i] ELSE 1])
    /\ UNCHANGED <<previous, counts, out, posted>>

(* Post-processing stores the counts of the oldest such frame on the device,  *)
(* copies them to the CPU and records the event.                              *)
Publish ==
    /\ unposted # <<>>
    /\ out' = Head(unposted) /\ cpu' = Head(unposted)
    /\ unposted' = Tail(unposted) /\ posted' = posted + 1
    /\ UNCHANGED <<host, stream, previous, counts, accepted>>

Next ==
    \/ \E b \in Batches : PrepareOnDevice(b) \/ PrepareOnHost(b)
    \/ PreprocessMapped \/ PreprocessTransition \/ PreprocessOnHost
    \/ Launch
    \/ StorePositions \/ AwaitCounts \/ RemapCounts \/ CopyCounts \/ RunModel
    \/ Publish

Spec == Init /\ [][Next]_vars

--------------------------------------------------------------------------------
(* What a frame must start from.                                              *)
Due(o, r) == IF r \in ToSet(o.last) THEN accepted[r] ELSE 1

(* When a frame runs, every row holds the count its own request's last frame  *)
(* accepted, or 1 if the request was not in that frame or its state has just  *)
(* been moved: however rows are permuted between frames, and whichever of the *)
(* two paths brought the counts there.                                        *)
CountsOfOwnRequest ==
    stream # <<>> /\ Head(stream).op = "model" =>
        LET o == Head(stream) IN
        \A i \in DOMAIN o.batch :
            counts[i] = IF o.batch[i] \in o.moved THEN 1 ELSE Due(o, o.batch[i])

(* A recurrent state that changes blocks is copied from where its request's   *)
(* last accepted token left it, also when the counts had to come back from    *)
(* the device for that.                                                       *)
MovesFromOwnState ==
    stream # <<>> /\ Head(stream).op = "model" =>
        LET o == Head(stream) IN
        \A i \in DOMAIN o.batch : o.batch[i] \in o.moved => o.bias[i] = Due(o, o.batch[i])
================================================================================
