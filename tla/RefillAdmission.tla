---------------------------- MODULE RefillAdmission ----------------------------
(* Admission control for continuously batched decoding (adaptive/refill.py).  *)
(*                                                                            *)
(* Before the host schedules, the controller decides whether waiting requests *)
(* may enter free slots or whether the running ones take another step alone.  *)
(* It learns the goodput of both actions for each state (running requests,    *)
(* gamma) from the cadence of completed frames, which in asynchronous mode    *)
(* come back after later decisions were made.  Goodputs are abstract: a       *)
(* comparison of scores may have either outcome.                              *)
EXTENDS Integers, Sequences

CONSTANTS
    Capacity,      \* max_num_running_reqs
    Gammas,        \* widths the gamma controller may be at
    Configs,       \* settings of the controller, see ConfigType
    MaxRequests,   \* bound on the requests in the engine
    MaxInflight    \* frames scheduled and not yet completed (1: synchronous)

(* HUST_VSPEC_REFILL_MAX_HOLDS (0: no guard) and _COHORT_GATED                *)
ConfigType == [holds : Nat, gated : BOOLEAN]

ASSUME RefillAssumption ==
    /\ Capacity \in Nat \ {0} /\ MaxRequests \in Nat /\ MaxInflight \in Nat \ {0}
    /\ Gammas \subseteq Nat /\ Gammas # {} /\ Configs \subseteq ConfigType

Keys == (0..Capacity) \X Gammas
(* States in which there is something to decide; the rewards of the others    *)
(* only enter the scores, which are abstract.                                 *)
ChoiceKeys == (1..(Capacity - 1)) \X Gammas
Actions == {"hold", "admit"}

VARIABLES
    config,     \* settings of this process
    running,    \* len(running) + num_waiting_for_streaming_input
    fresh,      \* waiting requests that never ran
    preempted,  \* waiting requests that ran before
    pc,         \* "idle", or "decided" between choose and the host's schedule
    call,       \* state (running count, current_gamma) of the decision, and the decision
    limit,      \* max_num_running_reqs as the host sees it
    measured,   \* states whose hold reward has an observation
    holds,      \* _consecutive_holds
    inflight,   \* vspec_refill_feedback of frames that have not completed
    denied,     \* history: per state, the guard's denials since waiting requests were last let in,
                \* counted up to one above the guard's bound
    entered     \* history: did the last schedule take in a waiting request

vars == <<config, running, fresh, preempted, pc, call, limit, measured, holds,
          inflight, denied, entered>>
requests == <<running, fresh, preempted>>
learned == <<measured, holds>>

Waiting == fresh + preempted
LeastOf(a, b) == IF a <= b THEN a ELSE b
TargetCount == LeastOf(Capacity, running + Waiting)

NoCall == [key |-> <<0, CHOOSE g \in Gammas : TRUE>>, admit |-> TRUE]

Init ==
    /\ config \in Configs
    /\ running = 0 /\ fresh = 0 /\ preempted = 0
    /\ pc = "idle" /\ call = NoCall /\ limit = Capacity
    /\ measured = {} /\ holds = [k \in ChoiceKeys |-> 0]
    /\ inflight = <<>>
    /\ denied = [k \in ChoiceKeys |-> 0] /\ entered = FALSE

--------------------------------------------------------------------------------
(* OnlineRefillController.choose                                              *)

NoRefillChoice == Waiting = 0 \/ TargetCount <= running

(* The decision and what becomes of the state's hold counter.                 *)
Admits(k) == [admit |-> TRUE, count |-> [holds EXCEPT ![k] = 0]]
HoldsInOneState(k) ==
    [admit |-> FALSE, count |-> [j \in ChoiceKeys |-> IF j = k THEN holds[k] + 1 ELSE 0]]
Holds(k) == [admit |-> FALSE, count |-> [holds EXCEPT ![k] = @ + 1]]

GuardFiresLate(k) == config.holds > 0 /\ holds[k] > config.holds
GuardFires(k) == config.holds > 0 /\ holds[k] >= config.holds

Decisions(k) ==
    IF NoRefillChoice \/ running = 0 THEN {[admit |-> TRUE, count |-> holds]}
    ELSE IF config.gated THEN {[admit |-> FALSE, count |-> holds]}
    ELSE IF GuardFires(k) THEN {Admits(k)}
    ELSE IF k \notin measured THEN {Holds(k)}
    ELSE {Admits(k), Holds(k)}

(* The gamma controller may have moved since the last call.  A denial counts  *)
(* only when somebody could have entered.                                     *)
Choose ==
    /\ pc = "idle" /\ Len(inflight) < MaxInflight
    /\ running + Waiting > 0
    /\ \E g \in Gammas : LET k == <<running, g>> IN
       \E d \in Decisions(k) :
         /\ call' = [key |-> k, admit |-> d.admit]
         /\ holds' = d.count
         /\ limit' = IF d.admit THEN Capacity ELSE running
         /\ denied' = IF d.admit THEN [j \in ChoiceKeys |-> 0]
                    ELSE IF config.gated THEN denied
                    ELSE [denied EXCEPT ![k] = LeastOf(@, config.holds) + 1]
    /\ pc' = "decided"
    /\ UNCHANGED <<config, requests, measured, inflight, entered>>

--------------------------------------------------------------------------------
(* The host's schedule() under that limit, and the rest of the hook: the      *)
(* limit is put back and a frame with tokens gets its feedback record.        *)

ScheduledUnderLimit(new, tokens) ==
    /\ pc = "decided" /\ pc' = "idle"
    /\ call' = NoCall
    /\ inflight' = IF ~tokens THEN inflight
                   ELSE Append(inflight, [key |-> call.key,
                                          action |-> IF call.admit /\ new > 0 THEN "admit" ELSE "hold"])
    /\ UNCHANGED <<config, limit, learned, denied>>
Scheduled(new, tokens) ==
    /\ pc = "decided" /\ pc' = "idle"
    /\ limit' = Capacity /\ call' = NoCall
    /\ inflight' = IF ~tokens THEN inflight
                   ELSE Append(inflight, [key |-> call.key,
                                          action |-> IF call.admit /\ new > 0 THEN "admit" ELSE "hold"])
    /\ UNCHANGED <<config, learned, denied>>

(* The host takes new requests and preempted ones into slots below the limit. *)
HostAdmits ==
    /\ \E new \in 0..fresh, old \in 0..preempted :
         /\ new + old > 0 /\ running + new + old <= limit
         /\ Scheduled(new, TRUE)
         /\ running' = running + new + old
         /\ fresh' = fresh - new /\ preempted' = preempted - old
    /\ entered' = TRUE

(* It admits nobody (no KV blocks, no token budget); with frames in flight it *)
(* may find nothing to run at all.                                            *)
HostRuns ==
    /\ \E tokens \in BOOLEAN :
         /\ tokens => running > 0
         /\ running > 0 /\ inflight = <<>> => tokens
         /\ Scheduled(0, tokens)
    /\ entered' = FALSE
    /\ UNCHANGED requests

HostPreempts ==
    /\ running > 1
    /\ Scheduled(0, TRUE)
    /\ running' = running - 1 /\ preempted' = preempted + 1
    /\ entered' = FALSE
    /\ UNCHANGED fresh

(* observe_step for the oldest frame: a reward for the state it was scheduled *)
(* in, unless its latency is unusable.  Some of its requests may be finished. *)
Complete(finished) ==
    /\ pc = "idle" /\ inflight # <<>> /\ finished <= running
    /\ LET f == Head(inflight) IN
       \E usable \in BOOLEAN :
         measured' = IF usable /\ f.action = "hold" /\ f.key \in ChoiceKeys THEN measured \cup {f.key} ELSE measured
    /\ inflight' = Tail(inflight)
    /\ running' = running - finished
    /\ UNCHANGED <<config, fresh, preempted, pc, call, limit, holds, denied, entered>>

--------------------------------------------------------------------------------
(* What happens between the calls.                                            *)

Arrive ==
    /\ pc = "idle" /\ running + Waiting < MaxRequests
    /\ fresh' = fresh + 1
    /\ UNCHANGED <<config, running, preempted, pc, call, limit, learned, inflight, denied, entered>>

Abort ==
    /\ pc = "idle"
    /\ \/ running > 0 /\ running' = running - 1 /\ UNCHANGED <<fresh, preempted>>
       \/ fresh > 0 /\ fresh' = fresh - 1 /\ UNCHANGED <<running, preempted>>
       \/ preempted > 0 /\ preempted' = preempted - 1 /\ UNCHANGED <<running, fresh>>
    /\ UNCHANGED <<config, pc, call, limit, learned, inflight, denied, entered>>

HostSchedules == HostAdmits \/ HostRuns \/ HostPreempts
Finishes == \E f \in 1..Capacity : Complete(f)

Next == \/ Choose \/ HostSchedules
        \/ \E f \in 0..Capacity : Complete(f)
        \/ Arrive \/ Abort

(* The engine loop calls schedule() and completes its frames; a host that is  *)
(* offered a free slot again and again takes somebody in.  Running requests   *)
(* are assumed to end only where someone waits for that: in a full engine and *)
(* under cohort gating.  Nothing is assumed of the scores or of gamma.        *)
Fairness ==
    /\ WF_vars(Choose) /\ WF_vars(HostSchedules)
    /\ WF_vars(\E f \in 0..Capacity : Complete(f))
    /\ SF_vars(HostAdmits) /\ SF_vars((running = Capacity \/ config.gated) /\ Finishes)

Spec == Init /\ [][Next]_vars /\ Fairness

--------------------------------------------------------------------------------
(* Counts within the engine's bounds; the host is never given a limit below   *)
(* what is running, and outside schedule() the limit is the configured one.   *)
TypeOK ==
    /\ config \in Configs
    /\ running \in 0..Capacity /\ fresh \in Nat /\ preempted \in Nat
    /\ pc \in {"idle", "decided"}
    /\ call \in [key : Keys, admit : BOOLEAN] /\ limit \in running..Capacity
    /\ pc = "idle" => limit = Capacity
    /\ measured \subseteq ChoiceKeys /\ holds \in [ChoiceKeys -> Nat]
    /\ inflight \in Seq([key : Keys, action : Actions])
    /\ denied \in [ChoiceKeys -> Nat] /\ entered \in BOOLEAN

(* The starvation guard counts per state and forgets only when it lets        *)
(* requests in: however the batch size and gamma wander, and however late the *)
(* feedback comes, no state denies more than max_consecutive_holds times      *)
(* before some waiting request is allowed in.                                 *)
DenialsBounded ==
    config.holds > 0 /\ ~config.gated => \A k \in ChoiceKeys : denied[k] <= config.holds

(* With a guard, or with cohort gating, waiting requests keep being taken in, *)
(* whatever the scores say and however often gamma changes.                   *)
WaitingServed == config.holds > 0 \/ config.gated => []<>(Waiting = 0 \/ entered)
================================================================================
