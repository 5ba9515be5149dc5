------------------------------ MODULE GraphUpdate ------------------------------
(* Rebinding of captured attention tasks around graph replays                 *)
(* (backends/draft_parallel_update.py, eagle_parallel_update.py,              *)
(* eagle_graph.py).                                                           *)
(*                                                                            *)
(* A captured FULL graph waits at every attention node for an event.  The    *)
(* host first enqueues the replay and then issues the update that gives each  *)
(* node its parameters for this step and records its event.  vSpec spreads    *)
(* the update over a pool of threads, one stream each, and may leave the jobs *)
(* running while the host goes on ("defer", "pipeline").  The actors are the  *)
(* host thread, the pool threads and the streams of the device.               *)
EXTENDS Integers, Sequences, FiniteSets, FiniteSetsExt

CONSTANTS
    Deployments,   \* settings and environment, see DeploymentType
    Entries,       \* captured sizes (num_tokens)
    MaxReplays,    \* bound on the replays of a behaviour
    MaxFailures    \* bound on the raising binding calls of a behaviour

Roles == {"target", "draft"}

(* workers and target_workers, the DEFER and PIPELINED environment variables  *)
(* of each role, the prefix of the pipeline, whether the event ordering of    *)
(* eagle_graph.py is installed, the attention tasks captured per size and the *)
(* sizes whose tasks and metadata the plan supports (dense, causal, no C8).   *)
DeploymentType == [layers : [Entries -> Nat \ {0}], dense : SUBSET Entries, workers : [Roles -> Nat], mode : [Roles -> {"join", "defer", "pipeline"}],
                   prefix : [Roles -> Int], ordered : BOOLEAN]

ASSUME DeploymentAssumption ==
    /\ Deployments # {} /\ IsFiniteSet(Deployments) /\ Deployments \subseteq DeploymentType
    /\ Entries # {} /\ IsFiniteSet(Entries)
    /\ MaxReplays \in Nat /\ MaxFailures \in Nat

VARIABLES
    dep,        \* the deployment
    host,       \* where the host thread is, and the replay it serves
    count,      \* replays launched so far; the number of a replay is its step
    jobs,       \* calls of update_one_stream that nobody has joined yet
    pending,    \* _ParallelUpdateState.pending, as the steps' job sets
    last,       \* number behind _last_replay_done_event of each wrapper (0: None)
    dependency, \* number behind _pending_update_dependency_event (0: None)
    queue,      \* the streams: operations enqueued and not yet run
    param,      \* step whose parameters each captured node holds
    flag,       \* is the node's event recorded and not yet consumed
    passed,     \* gates (step numbers) reached by their update stream
    finished    \* replays that ran to their end

Layers == dep.layers
MaxLayers == Max({d.layers[e] : d \in Deployments, e \in Entries})
MaxWorkers == Max({d.workers[r] : d \in Deployments, r \in Roles})
Nodes == Roles \X Entries \X (1..MaxLayers)

vars == <<dep, host, count, jobs, pending, last, dependency, queue, param, flag,
          passed, finished>>
device == <<queue, param, flag, passed, finished>>

(* One state serves both roles when their worker counts agree.                *)
StateOf(r) == IF dep.workers["target"] = dep.workers["draft"] THEN "draft" ELSE r
HasState(r) == dep.workers[r] > 1
UpdateStream(r) == <<r, 0>>
PoolStream(r, k) == <<StateOf(r), k>>
Compute == <<"compute", 0>>
Streams == {Compute} \cup (Roles \X (0..MaxWorkers))

Idle == [pc |-> "idle", role |-> "target", entry |-> CHOOSE e \in Entries : TRUE, step |-> 0]

Init ==
    /\ dep \in Deployments
    /\ host = Idle /\ count = 0
    /\ jobs = {} /\ pending = [r \in Roles |-> {}]
    /\ last = [r \in Roles |-> 0] /\ dependency = [r \in Roles |-> 0]
    /\ queue = [s \in Streams |-> <<>>]
    /\ param = [v \in Nodes |-> 0] /\ flag = [v \in Nodes |-> FALSE]
    /\ passed = {} /\ finished = {}

--------------------------------------------------------------------------------
(* The plan of an update: which thread binds which captured tasks.            *)

Tasks(e) == [i \in 1..Layers[e] |-> i]
LeastOf(a, b) == IF a <= b THEN a ELSE b
MostOf(a, b) == IF a >= b THEN a ELSE b

(* descriptors[offset::workers]: every worker-th task, dealt like cards.      *)
ChunkShifted(e, w, k) == [n \in 1..((Layers[e] - k) \div w) |-> k + n * w]
Chunk(e, w, k) == [n \in 1..((Layers[e] - k) \div w + 1) |-> k + (n - 1) * w]

(* _pipeline_descriptors: the first tasks stay with the caller, the tail is   *)
(* cut into contiguous chunks of equal size.                                  *)
PrefixSize(e, p) == LeastOf(MostOf(p, 1), Layers[e])
TailChunk(e, w, p, k) ==
    LET tail == SubSeq(Tasks(e), PrefixSize(e, p) + 1, Layers[e])
        size == MostOf(1, (Len(tail) + w - 1) \div w)
    IN  SubSeq(tail, (k - 1) * size + 1, LeastOf(k * size, Len(tail)))

Job(s, todo, by) == [stream |-> s, role |-> host.role, entry |-> host.entry,
                     step |-> host.step, todo |-> todo, at |-> "gate", by |-> by]

(* What a dispatch starts: jobs of the pool, and in two of the three modes    *)
(* one on the calling thread.                                                 *)
JoinJobsOneMore(r, e, w) ==
    {Job(PoolStream(r, k), Chunk(e, w, k), IF k = 1 THEN "caller" ELSE "pool") : k \in 1..(w + 1)}
JoinJobs(r, e, w) ==
    {Job(PoolStream(r, k), Chunk(e, w, k), IF k = 1 THEN "caller" ELSE "pool") : k \in 1..w}
DeferJobs(r, e, w) == {Job(PoolStream(r, k), Chunk(e, w, k), "pool") : k \in 1..w}
PipelineJobs(r, e, w, p) ==
    {Job(UpdateStream(r), SubSeq(Tasks(e), 1, PrefixSize(e, p)), "caller")}
      \cup {Job(PoolStream(r, k), TailChunk(e, w, p, k), "pool") : k \in 1..w}
Dispatched(r, e) ==
    LET w == dep.workers[r]
        all == CASE dep.mode[r] = "join" -> JoinJobs(r, e, w)
                 [] dep.mode[r] = "defer" -> DeferJobs(r, e, w)
                 [] dep.mode[r] = "pipeline" -> PipelineJobs(r, e, w, dep.prefix[r])
    IN  {j \in all : j.todo # <<>>}

(* A pool is used for an entry only if it has work for every worker and every *)
(* task normalizes to a descriptor.                                           *)
Planned(r, e) == HasState(r) /\ Layers[e] >= dep.workers[r] /\ e \in dep.dense

Over(j) == j.at \in {"done", "failed"}
Mine == {j \in jobs : j.step = host.step}
PendingJobs(r) == {j \in jobs : j.step \in pending[StateOf(r)] /\ j.by = "pool"}

(* wait_pending: every future is joined in turn, the first error is raised.   *)
Retired(r) == {j \in PendingJobs(r) : Over(j)}
JoinedBeforeReplay(r) == host.pc = "retire" \/ \A j \in PendingJobs(r) : Over(j)
Joined(r) == \A j \in PendingJobs(r) : Over(j)
JoinFails(r) == \E j \in PendingJobs(r) : j.at = "failed"
Forgotten(r) == [pending EXCEPT ![StateOf(r)] = {}]

--------------------------------------------------------------------------------
(* The host thread.                                                           *)

Raise == /\ host' = [host EXCEPT !.pc = "raised"]
         /\ UNCHANGED <<dep, count, jobs, last, dependency, device>>

(* Before a replay, ACLGraphWrapper.__call__ drains the device, unless the    *)
(* event ordering turned enable_enpu on for this call.                        *)
Synchronized == dep.ordered \/ \A s \in Streams : queue[s] = <<>>

Waits(r) == HasState(r) /\ dep.mode[r] = "defer"

(* graph_call of both patches: a deferred update is joined, the replay is     *)
(* enqueued, and the dependency of the coming update is the wrapper's         *)
(* previous replay.                                                           *)
Launch(r, e) ==
    /\ host.pc = "idle" /\ count < MaxReplays
    /\ Waits(r) => Joined(r) /\ ~JoinFails(r)
    /\ Synchronized
    /\ count' = count + 1
    /\ host' = [pc |-> "update", role |-> r, entry |-> e, step |-> count + 1]
    /\ queue' = [queue EXCEPT ![Compute] = Append(@,
                   [op |-> "replay", role |-> r, entry |-> e, step |-> count + 1,
                    node |-> 1, reads |-> FALSE])]
    /\ dependency' = [dependency EXCEPT ![r] = IF dep.ordered THEN last[r] ELSE 0]
    /\ last' = [last EXCEPT ![r] = IF dep.ordered THEN count + 1 ELSE 0]
    /\ pending' = IF Waits(r) THEN Forgotten(r) ELSE pending
    /\ jobs' = IF Waits(r) THEN jobs \ Retired(r) ELSE jobs
    /\ UNCHANGED <<dep, param, flag, passed, finished>>

LaunchRaises(r) ==
    /\ host.pc = "idle" /\ count < MaxReplays
    /\ Waits(r) /\ JoinFails(r)
    /\ Raise /\ pending' = Forgotten(r)

(* wait_for_prior_replay_before_update: the event is taken and cleared.       *)
EnterUpdate ==
    /\ host.pc = "update"
    /\ LET r == host.role IN
       /\ queue' = IF dependency[r] = 0 THEN queue
                   ELSE [queue EXCEPT ![UpdateStream(r)] =
                           Append(@, [op |-> "replayed", step |-> dependency[r]])]
       /\ dependency' = [dependency EXCEPT ![r] = 0]
    /\ host' = [host EXCEPT !.pc = "retire"]
    /\ UNCHANGED <<dep, count, jobs, pending, last, param, flag, passed, finished>>

(* The host's own update: all tasks in order on the update stream.            *)
HostUpdate(r, e) ==
    [queue EXCEPT ![UpdateStream(r)] =
        @ \o [i \in 1..Layers[e] |-> [op |-> "bind", node |-> <<r, e, i>>, step |-> host.step]]]

(* update_graph_params without a pool, or without a plan for this entry: what *)
(* is pending is joined, then the host's code runs.                           *)
FallBack ==
    /\ host.pc = "retire"
    /\ LET r == host.role e == host.entry IN
       /\ ~Planned(r, e)
       /\ HasState(r) => Joined(r) /\ ~JoinFails(r)
       /\ queue' = HostUpdate(r, e)
       /\ pending' = IF HasState(r) THEN Forgotten(r) ELSE pending
       /\ jobs' = IF HasState(r) THEN jobs \ Retired(r) ELSE jobs
    /\ host' = [host EXCEPT !.pc = "idle"]
    /\ UNCHANGED <<dep, count, last, dependency, param, flag, passed, finished>>

(* dispatch_updates and dispatch_pipelined_updates up to the submitted jobs:  *)
(* a gate is recorded on the update stream for all of them to wait for.       *)
Dispatch ==
    /\ host.pc = "retire"
    /\ LET r == host.role e == host.entry IN
       /\ Planned(r, e)
       /\ Joined(r) /\ ~JoinFails(r)
       /\ queue' = [queue EXCEPT ![UpdateStream(r)] =
                      Append(@, [op |-> "gate", step |-> host.step])]
       /\ jobs' = (jobs \ Retired(r)) \cup Dispatched(r, e)
       /\ pending' = [pending EXCEPT ![StateOf(r)] =
                        IF dep.mode[r] = "defer" THEN {host.step} ELSE {}]
       /\ host' = [host EXCEPT !.pc = IF dep.mode[r] = "defer" THEN "idle" ELSE "call"]
    /\ UNCHANGED <<dep, count, last, dependency, param, flag, passed, finished>>

RetireRaises ==
    /\ host.pc = "retire" /\ HasState(host.role)
    /\ JoinFails(host.role)
    /\ Raise /\ pending' = Forgotten(host.role)

(* The caller has finished its own job.  A plain dispatch joins all others    *)
(* and then raises the first error; a pipeline leaves them pending, or joins  *)
(* them when its own part failed.                                             *)
Own == {j \in Mine : j.by = "caller"}
CallSucceedsAlone ==
    /\ host.pc = "call"
    /\ \A j \in Own : j.at = "done"
    /\ \A j \in Mine : Over(j)
    /\ jobs' = {j \in jobs : j \in Mine => j.at # "done"}
    /\ host' = [host EXCEPT !.pc = "idle"]
    /\ UNCHANGED <<dep, count, pending, last, dependency, device>>
CallSucceeds ==
    /\ host.pc = "call"
    /\ \A j \in Own : j.at = "done"
    /\ IF dep.mode[host.role] = "pipeline"
       THEN /\ jobs' = jobs \ Own
            /\ pending' = [pending EXCEPT ![StateOf(host.role)] = {host.step}]
       ELSE /\ \A j \in Mine : j.at = "done"
            /\ jobs' = {j \in jobs : j \in Mine => j.at # "done"}
            /\ pending' = pending
    /\ host' = [host EXCEPT !.pc = "idle"]
    /\ UNCHANGED <<dep, count, last, dependency, device>>
CallRaises ==
    /\ host.pc = "call"
    /\ \A j \in Mine : Over(j)
    /\ \E j \in (IF dep.mode[host.role] = "pipeline" THEN Own ELSE Mine) : j.at = "failed"
    /\ Raise /\ UNCHANGED pending

--------------------------------------------------------------------------------
(* update_one_stream, on a pool thread or on the caller.                      *)

Enqueue(s, o) == queue' = [queue EXCEPT ![s] = Append(@, o)]
Becomes(j, k) == jobs' = (jobs \ {j}) \cup {k}
HostUnchanged == UNCHANGED <<dep, host, count, pending, last, dependency>>

WaitGateNot(j) ==
    /\ j.at = "gate"
    /\ Becomes(j, [j EXCEPT !.at = "free"])
    /\ HostUnchanged /\ UNCHANGED device
WaitGate(j) ==
    /\ j.at = "gate"
    /\ Enqueue(j.stream, [op |-> "passed", step |-> j.step])
    /\ Becomes(j, [j EXCEPT !.at = "free"])
    /\ HostUnchanged /\ UNCHANGED <<param, flag, passed, finished>>

(* graph_task_update_begin ... graph_task_update_end, event.record            *)
Rebind(j) ==
    /\ j.at = "free"
    /\ Enqueue(j.stream, [op |-> "bind", node |-> <<j.role, j.entry, Head(j.todo)>>,
                          step |-> j.step])
    /\ Becomes(j, [j EXCEPT !.at = IF Len(j.todo) = 1 THEN "done" ELSE "free",
                            !.todo = Tail(@)])
    /\ HostUnchanged /\ UNCHANGED <<param, flag, passed, finished>>

(* The attention call or the metadata lookup raises inside the brackets.      *)
Fail(j) ==
    /\ j.at = "free"
    /\ Cardinality({k \in jobs : k.at = "failed"}) < MaxFailures
    /\ Becomes(j, [j EXCEPT !.at = "failed"])
    /\ HostUnchanged /\ UNCHANGED device

Works(j) == WaitGate(j) \/ Rebind(j)

--------------------------------------------------------------------------------
(* The device: every stream runs its operations in order.                     *)

Popped(s) == [queue EXCEPT ![s] = Tail(@)]

Bind(s, o) ==
    /\ o.op = "bind"
    /\ param' = [param EXCEPT ![o.node] = o.step]
    /\ flag' = [flag EXCEPT ![o.node] = TRUE]
    /\ queue' = Popped(s)
    /\ UNCHANGED <<passed, finished>>

RecordGate(s, o) ==
    /\ o.op = "gate"
    /\ passed' = passed \cup {o.step}
    /\ queue' = Popped(s)
    /\ UNCHANGED <<param, flag, finished>>

AwaitEvent(s, o) ==
    /\ \/ o.op = "passed" /\ o.step \in passed
       \/ o.op = "replayed" /\ o.step \in finished
    /\ queue' = Popped(s)
    /\ UNCHANGED <<param, flag, passed, finished>>

(* A captured node: wait for its event and reset it, then run the attention   *)
(* with the parameters bound at that moment.                                  *)
Consume(s, o) ==
    /\ o.op = "replay" /\ ~o.reads
    /\ flag[<<o.role, o.entry, o.node>>]
    /\ flag' = [flag EXCEPT ![<<o.role, o.entry, o.node>>] = FALSE]
    /\ queue' = [queue EXCEPT ![s][1] = [o EXCEPT !.reads = TRUE]]
    /\ UNCHANGED <<param, passed, finished>>
Attend(s, o) ==
    /\ o.op = "replay" /\ o.reads
    /\ IF o.node = Layers[o.entry]
       THEN queue' = Popped(s) /\ finished' = finished \cup {o.step}
       ELSE /\ queue' = [queue EXCEPT ![s][1] = [o EXCEPT !.reads = FALSE, !.node = @ + 1]]
            /\ UNCHANGED finished
    /\ UNCHANGED <<param, flag, passed>>

DeviceStep(s) ==
    /\ queue[s] # <<>>
    /\ LET o == Head(queue[s]) IN
         \/ Bind(s, o) \/ RecordGate(s, o) \/ AwaitEvent(s, o) \/ Consume(s, o) \/ Attend(s, o)
    /\ HostUnchanged /\ UNCHANGED jobs

--------------------------------------------------------------------------------
HostContinues == EnterUpdate \/ FallBack \/ Dispatch \/ RetireRaises \/ CallSucceeds \/ CallRaises

Next == \/ \E r \in Roles : LaunchRaises(r) \/ \E e \in Entries : Launch(r, e)
        \/ HostContinues
        \/ \E j \in jobs : Works(j) \/ Fail(j)
        \/ \E s \in Streams : DeviceStep(s)

(* Threads that are runnable run, the device serves every stream; nothing     *)
(* makes the host launch another replay.                                      *)
Fairness ==
    /\ WF_vars(HostContinues)
    /\ WF_vars(\E j \in jobs : Works(j))
    /\ WF_vars(\E s \in Streams : DeviceStep(s))

Spec == Init /\ [][Next]_vars /\ Fairness

--------------------------------------------------------------------------------
(* The variables hold what the code keeps in them: steps that were launched,  *)
(* jobs on the streams of their pool, queues of known operations.                         *)
TypeOK ==
    /\ dep \in Deployments /\ count \in 0..MaxReplays
    /\ host.pc \in {"idle", "update", "retire", "call", "raised"}
    /\ host.role \in Roles /\ host.entry \in Entries /\ host.step \in 0..count
    /\ \A j \in jobs : /\ j.stream \in Streams /\ j.stream[2] <= dep.workers[j.role]
                      /\ j.step \in 1..count /\ Len(j.todo) <= MaxLayers
    /\ \A r \in Roles : pending[r] \subseteq 1..count /\ last[r] \in 0..count
    /\ \A v \in Nodes : param[v] \in 0..count
    /\ finished \subseteq 1..count /\ passed \subseteq 1..count

(* Every attention task of a replay runs with the parameters of its own step: *)
(* no update of a later step overtakes the replay and none of its own comes   *)
(* late, although replay, gate and bindings run on different streams.         *)
ReplayReadsItsUpdate ==
    \A s \in Streams : queue[s] # <<>> =>
        LET o == Head(queue[s]) IN
        o.op = "replay" /\ o.reads => param[<<o.role, o.entry, o.node>>] = o.step

(* Between graph_task_update_begin and _end a stream belongs to one thread:   *)
(* two dispatches never have unfinished jobs on one stream, also when both    *)
(* roles share the pool.                                                      *)
StreamExclusive ==
    \A j, k \in jobs : j # k /\ ~Over(j) /\ ~Over(k) => j.stream # k.stream

(* A binding that failed is reported before the graph that needs it next is   *)
(* launched again; only a pipeline's tail may be reported one launch later.   *)
FailureReported ==
    [][count' > count =>
         \A j \in jobs : j.at = "failed" /\ j.role = host'.role => dep.mode[j.role] = "pipeline"]_vars

(* Unless a binding fails, every launched replay comes to its end: no node    *)
(* waits for an event that nobody records, and no two actors wait for each    *)
(* other.                                                                     *)
ReplaysFinish ==
    \A k \in 1..MaxReplays :
        count >= k ~> (k \in finished \/ \E j \in jobs : j.at = "failed")
================================================================================
