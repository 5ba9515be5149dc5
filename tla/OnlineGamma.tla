----------------------------- MODULE OnlineGamma -----------------------------
(***************************************************************************)
(* OnlineGammaController (adaptive/online.py): per batch bucket, one arm     *)
(* for every candidate width, a cold-start sweep over the arms, priors       *)
(* seeded from the next fuller bucket, and UCB once the sweep is over.       *)
(*                                                                         *)
(* Rewards are real numbers the properties do not look at.  Wherever the     *)
(* code compares rewards (the preferred measured arm, a probe that is        *)
(* clearly worse, a modelled gain, a UCB score) the model may take any       *)
(* outcome; how many rewards an arm has is exact up to the largest count     *)
(* the code compares it with.                                                *)
(***************************************************************************)
EXTENDS Integers, FiniteSets, FiniteSetsExt

CONSTANTS
  Method,          \* draft_model, eagle, eagle3 or mtp
  MinGamma, MaxGamma,
  MaxStep,         \* max_gamma_step
  MaxNumSeqs,      \* max_num_seqs, the requests of a batch
  Budget,          \* max_num_batched_tokens
  Async,           \* adaptive_async
  ControlInterval, Window, WarmupSamples,
  ReturnIncumbent, \* warmup_return is incumbent
  Batches          \* batch sizes the scheduler may report

None == -1

\* candidate_gammas.
Stride == IF Method = "mtp" THEN 2 ELSE 1
Gammas == {g \in MinGamma .. MaxGamma : (g - MinGamma) % Stride = 0}

\* inflight_warmup_padding.
Padding == IF Async THEN 1 ELSE 0

\* The checks of __init__ and those of the launcher on MTP widths.
ASSUME CandidateAssumption ==
  /\ Method \in {"draft_model", "eagle", "eagle3", "mtp"}
  /\ MinGamma \in Nat /\ MaxGamma \in Nat /\ MinGamma <= MaxGamma
  /\ MaxStep \in Nat \ {0} /\ (MinGamma < MaxGamma => MaxStep >= Stride)
  /\ Method = "mtp" => MinGamma >= 2 /\ MinGamma % 2 = 0 /\ MaxGamma % 2 = 0
  /\ Async \in BOOLEAN /\ ReturnIncumbent \in BOOLEAN

ASSUME WindowAssumption ==
  /\ ControlInterval \in Nat \ {0} /\ Window \in Nat \ {0}
  /\ WarmupSamples \in Nat \ {0}

\* _adaptive_graph_batch_limit: with EAGLE3 every width below the anchor's lower
\* neighbour gets half the rows of the width above it; width 0 is not limited.
BatchLimit(g) ==
  LET floor == Max({1, Min({MaxGamma, 5}) - 1})
  IN  IF Method # "eagle3" \/ g = 0 \/ g >= floor THEN MaxNumSeqs
      ELSE Max({1, MaxNumSeqs \div 2 ^ (floor - g)})

\* candidate_is_feasible, for every batch.
Feasible ==
  [batch \in 1 .. MaxNumSeqs |->
     {g \in Gammas : batch <= BatchLimit(g) /\ batch * (g + 1) <= Budget}]

\* choose raises when no candidate fits, so the scheduler reports no such batch.
ASSUME BatchAssumption ==
  /\ MaxNumSeqs \in Nat \ {0} /\ Budget \in Nat \ {0}
  /\ Batches \subseteq 1 .. MaxNumSeqs
  /\ \A b \in Batches : Feasible[b] # {}

Distance(x, y) == IF x >= y THEN x - y ELSE y - x

\* min(S, key = (|g - x|, -g)): the nearest member, the larger one on a tie.
Nearest ==
  [S \in (SUBSET Gammas) \ {{}} |-> [x \in 0 .. MaxGamma |->
     CHOOSE g \in S : \A h \in S : \/ Distance(g, x) < Distance(h, x)
                                   \/ Distance(g, x) = Distance(h, x) /\ g >= h]]

\* _online_initial_gamma.
Initial ==
  LET inRange(x) == Min({MaxGamma, Max({MinGamma, x})})
  IN  IF Method = "draft_model" /\ MinGamma <= 2 /\ 2 <= MaxGamma THEN 2
      ELSE IF Method = "eagle3" THEN inRange(5)
      ELSE IF Method = "mtp" THEN inRange(4) - (inRange(4) % 2)
      ELSE None
HasInitial == Initial # None

\* anchor_gamma: the initial width, or else the middle of the candidates.
Anchor == IF HasInitial THEN Initial ELSE Nearest[Gammas][(MinGamma + MaxGamma + 1) \div 2]

\* deferred_exploration_observations.
SafeObservations == IF MinGamma = 0 /\ MaxGamma >= 4 THEN 8 * Window ELSE 0

\* Mutant: one less than MaxStep upwards.
ClippedShort(current, target, F) ==
  LET lower == Max({Min(F), current - MaxStep})
      upper == Min({Max(F), current + MaxStep - 1})
  IN  Min({Max({target, lower}), upper})

\* _step_toward: the target clipped to MaxStep around the current width and to
\* the feasible range, then the candidate nearest to that.
Clipped(current, target, F) ==
  LET lower == Max({Min(F), current - MaxStep})
      upper == Min({Max(F), current + MaxStep})
  IN  Min({Max({target, lower}), upper})

\* Mutant: a step goes all the way.
StepTowardUnclipped(current, target, F) == Nearest[F][target]

StepToward(current, target, F) == Nearest[F][Clipped(current, target, F)]

\* batch_bucket: the next power of two.
Bucket(batch) ==
  CHOOSE k \in {2 ^ e : e \in 0 .. batch} :
    batch <= k /\ \A j \in {2 ^ e : e \in 0 .. batch} : batch <= j => k <= j
Keys == {Bucket(b) : b \in Batches}

\* The largest counts the code compares with something.
ObsBound   == Max({Window, WarmupSamples, SafeObservations})
SchedBound == Max({ControlInterval, WarmupSamples + Padding})
Sat(n, bound) == IF n < bound THEN n + 1 ELSE bound

VARIABLES
  gamma,    \* current_gamma
  active,   \* _active_bucket_key
  burn,     \* _burn_in_remaining
  stamped,  \* _last_completion_ms is set
  buckets   \* _buckets

ctlVars == <<gamma, active, burn, stamped, buckets>>

\* A fresh _BatchBucket.  heard stands for selected_at_observations: the
\* selected arm has a reward newer than its selection.  deferred stands for
\* frontier_deferred_at_observations and reval for
\* anchor_revalidation_at_observations: the anchor then and its rewards since.
NewBucket ==
  [obs |-> [g \in Gammas |-> 0], launched |-> {}, selected |-> None,
   heard |-> FALSE, sched |-> 0, returned |-> FALSE, wtarget |-> None,
   boot |-> None, seeded |-> FALSE, deferred |-> FALSE, reval |-> <<>>]
Absent == <<>>     \* no bucket under this key yet

\* effective_observations: rewards of its own and the weight of its prior.
Ready(B, g)    == B.seeded \/ B.obs[g] >= WarmupSamples
Observed(B, g) == B.seeded \/ B.obs[g] > 0

CtlInit ==
  /\ gamma = IF HasInitial \/ SafeObservations > 0 THEN Anchor ELSE MaxGamma
  /\ active = None
  /\ burn = WarmupSamples
  /\ stamped = FALSE
  /\ buckets = [k \in Keys |-> Absent]

-----------------------------------------------------------------------------
(* _bucket: a call creates the bucket, and seeds it or seeds it again.      *)

SourceOf(k) ==     \* arms the next fuller bucket ran and has rewards for
  IF 2 * k \in Keys /\ buckets[2 * k] # Absent
  THEN LET S == buckets[2 * k] IN {g \in S.launched : Observed(S, g)}
  ELSE {}

SweepComplete(S) == S.returned /\ (S.launched = Gammas \/ S.deferred)

SeedsNow(B) ==
  IF B.seeded THEN ~B.returned /\ B.launched # Gammas ELSE TRUE

Seeded(B, S, target) ==
  LET done == SweepComplete(S)
  IN  [B EXCEPT !.seeded = TRUE, !.boot = target,
                !.launched = IF done THEN Gammas ELSE @,
                !.returned = @ \/ done]

\* What the bucket under key k may be once a call has looked it up.
Opened(k) ==
  LET B == IF buckets[k] = Absent THEN NewBucket ELSE buckets[k]
  IN  IF SeedsNow(B) /\ SourceOf(k) # {}
      THEN {Seeded(B, buckets[2 * k], t) : t \in SourceOf(k)}
      ELSE {B}

-----------------------------------------------------------------------------
(* Feedback: complete_step and discard_step_feedback.                        *)

Recorded(B, g) ==
  [B EXCEPT !.obs[g] = Sat(@, ObsBound),
            !.heard = @ \/ g = B.selected,
            !.reval = IF @ # <<>> /\ @[1] = g THEN <<g, Sat(@[2], Window)>> ELSE @]

\* Mutant: the burn-in counts on below zero.
CompleteStepBelowZero(g, batch) ==
  /\ stamped' = TRUE
  /\ burn' = IF stamped THEN burn - 1 ELSE burn
  /\ IF stamped /\ burn <= 0
     THEN \E B \in Opened(Bucket(batch)) :
            buckets' = [buckets EXCEPT ![Bucket(batch)] = Recorded(B, g)]
     ELSE UNCHANGED buckets
  /\ UNCHANGED <<gamma, active>>

CompleteStep(g, batch) ==
  /\ stamped' = TRUE
  /\ burn' = IF stamped /\ burn > 0 THEN burn - 1 ELSE burn
  /\ IF stamped /\ burn = 0
     THEN \E B \in Opened(Bucket(batch)) :
            buckets' = [buckets EXCEPT ![Bucket(batch)] = Recorded(B, g)]
     ELSE UNCHANGED buckets
  /\ UNCHANGED <<gamma, active>>

DiscardStep ==
  /\ stamped' = TRUE
  /\ UNCHANGED <<gamma, active, burn, buckets>>

-----------------------------------------------------------------------------
(* force: the width is set whatever the arms say.                            *)

ForceWidth(g, batch) ==
  /\ \E B \in Opened(Bucket(batch)) : buckets' = [buckets EXCEPT ![Bucket(batch)] = B]
  /\ gamma' = g
  /\ UNCHANGED <<active, burn, stamped>>

-----------------------------------------------------------------------------
(* choose.  One operator per way the method returns; B is the bucket as the *)
(* method finds it there, F the feasible widths.  A case is reached only    *)
(* when the ones above it did not return.                                    *)

Return(batch, B, g) ==
  /\ buckets' = [buckets EXCEPT ![Bucket(batch)] = B]
  /\ gamma' = g
  /\ active' = Bucket(batch)
  /\ UNCHANGED <<burn, stamped>>

\* _activate_bucket_gamma.
Activated(B, g) == [B EXCEPT !.selected = g, !.heard = FALSE, !.sched = 1]
Counted(B)      == [B EXCEPT !.sched = Sat(@, SchedBound)]

\* Move towards a width, or count one more step when it is reached.
MoveOrWait(batch, B, F, target) ==
  LET g == StepToward(gamma, target, F)
  IN  Return(batch, IF g = gamma THEN Counted(B) ELSE Activated(B, g), g)

MeasuredArms(B, F) == {g \in F : g \in B.launched /\ Ready(B, g)}

\* A changed bucket resumes the width it was seeded with, its preferred
\* measured arm, or the anchor.
ResumeTargets(B, F) ==
  IF B.boot \in F THEN {B.boot}
  ELSE IF MeasuredArms(B, F) # {} THEN MeasuredArms(B, F)
  ELSE {Nearest[F][Anchor]}

Resume(batch, B, F, target) ==
  LET g == StepToward(gamma, target, F)
  IN  Return(batch, [Activated(B, g) EXCEPT !.boot = IF g = target THEN None ELSE target], g)

BurnsIn(B, F) ==
  /\ SafeObservations > 0
  /\ B.launched \subseteq {Nearest[F][Anchor]}
  /\ B.obs[Nearest[F][Anchor]] < SafeObservations

SafeBurnIn(batch, B, F) ==
  LET g == StepToward(gamma, Nearest[F][Anchor], F)
  IN  Return(batch, [Activated(B, g) EXCEPT !.launched = @ \cup {g}], g)

Travels(target, F) == target # None /\ gamma # Nearest[F][target]

Transfer(batch, B, F) ==
  LET target == Nearest[F][B.boot]
      g == StepToward(gamma, target, F)
  IN  Return(batch, [Activated(B, g) EXCEPT !.boot = IF g = target THEN None ELSE @], g)

WarmupStep(batch, B, F) ==
  LET target == Nearest[F][B.wtarget]
      g == StepToward(gamma, target, F)
  IN  Return(batch, [Activated(B, g) EXCEPT !.wtarget = IF g = target THEN None ELSE @], g)

\* Mutant: the residence window starts over on every decision.
SettledAnew(B) ==
  [B EXCEPT !.boot = None, !.wtarget = None, !.selected = gamma, !.heard = FALSE,
            !.sched = 0]

\* No target left to travel to; the bucket follows the controller's width.
Settled(B) ==
  LET C == [B EXCEPT !.boot = None, !.wtarget = None]
  IN  IF B.selected = gamma THEN C
      ELSE [C EXCEPT !.selected = gamma, !.heard = FALSE, !.sched = 0]

\* Mutant: no padding for the transition frame.
RequiredUnpadded(B) == IF gamma \in B.launched THEN ControlInterval ELSE WarmupSamples
Required(B) == IF gamma \in B.launched THEN ControlInterval ELSE WarmupSamples + Padding

InWindow(B) == B.sched < Required(B)

Resides(batch, B) == Return(batch, Counted(B), gamma)

\* The window is over: the arm counts as launched.
Launched(B) == [B EXCEPT !.launched = @ \cup {gamma}]

AwaitsAnchor(B, F) == HasInitial /\ ~Ready(B, Nearest[F][Anchor])

\* Launched arms without feedback; a measured arm may show some to be clearly
\* worse, and then they need no more.
PendingProbes(B, F) ==
  LET all == {g \in B.launched : ~Ready(B, g)}
      worse == IF \E g \in F : Ready(B, g) THEN {g \in all : B.obs[g] > 0} ELSE {}
  IN  {all \ w : w \in SUBSET worse}

ProbeTargets(B, F) ==
  LET measured == {g \in F : Ready(B, g)}
  IN  IF measured # {} THEN measured ELSE {Nearest[F][Anchor]}

-----------------------------------------------------------------------------
(* Cold start with an initial width: probe outward from measured arms.      *)

Unlaunched(B, F) == F \ B.launched

\* The next candidate on the anchor's side.
Boundary(g, anchor) ==
  LET side == {h \in Gammas : IF g > anchor THEN h < g ELSE h > g}
  IN  IF side = {} THEN None ELSE Nearest[side][g]

\* Mutant: every unlaunched arm may be probed.
SupportableAnywhere(B, F) ==
  IF B.obs[Nearest[F][Anchor]] < Window THEN {} ELSE Unlaunched(B, F)

\* Unlaunched arms whose boundary is measured; which of them promise a gain is
\* up to the rewards.
Supportable(B, F) ==
  LET anchor == Nearest[F][Anchor]
  IN  IF B.obs[anchor] < Window THEN {}
      ELSE {g \in Unlaunched(B, F) : Boundary(g, anchor) \in MeasuredArms(B, F)}

\* The anchor has fewer than Window rewards since the revalidation began; when
\* the feasible anchor is another arm by now, the difference may be anything.
Revalidates(B, anchor) ==
  IF B.reval = <<>> THEN {FALSE}
  ELSE IF B.reval[1] = anchor THEN {B.reval[2] < Window} ELSE BOOLEAN

Warmup(batch, B, F, targets) ==
  LET target == Nearest[targets][gamma]
      g == StepToward(gamma, target, F)
  IN  Return(batch, [Activated(B, g) EXCEPT !.wtarget = IF g = target THEN @ ELSE target], g)

\* The anchor's rewards are refreshed after a detour.
ReturnToAnchor(batch, B, F) ==
  LET g == StepToward(gamma, Nearest[F][Anchor], F)
  IN  Return(batch, Activated(B, g), g)

\* No probe promises a gain: stay at the anchor.
HoldModel(batch, B) ==
  Return(batch, Activated([B EXCEPT !.returned = TRUE], gamma), gamma)

FrontierReturn(batch, B, F, best) ==
  LET g == StepToward(gamma, best, F)
  IN  Return(batch, [Activated(B, g) EXCEPT !.sched = ControlInterval], g)

\* C is the bucket after the anchor's revalidation.
FrontierFrom(batch, B, C, F, anchor) ==
  \E best \in MeasuredArms(B, F), short \in Revalidates(B, anchor) :
    IF B.reval # <<>> /\ gamma # anchor THEN ReturnToAnchor(batch, B, F)
    ELSE IF short THEN Resides(batch, B)
    ELSE IF Ready(C, gamma) /\ gamma # best THEN FrontierReturn(batch, C, F, best)
    ELSE \E supported \in SUBSET Supportable(C, F) :
           IF supported # {}
           THEN Warmup(batch, [C EXCEPT !.deferred = FALSE], F, supported)
           ELSE IF gamma # anchor
           THEN ReturnToAnchor(batch, [C EXCEPT !.deferred = TRUE,
                                                !.reval = <<anchor, 0>>], F)
           ELSE HoldModel(batch, [C EXCEPT !.deferred = TRUE])

Frontier(batch, B, F) ==
  \E anchor \in {Nearest[F][Anchor]}, C \in {[B EXCEPT !.reval = <<>>]} :
    FrontierFrom(batch, B, C, F, anchor)

-----------------------------------------------------------------------------
(* Every feasible arm is launched: wait for the rewards, return to the best *)
(* arm once, then UCB.                                                       *)

Awaited(B, F) == {g \in F \cap B.launched : ~Ready(B, g)}

\* Python's round of half the sum: halves go to the even neighbour.
RoundedMiddle(F) ==
  LET s == Min(F) + Max(F)
  IN  IF s % 2 = 0 \/ (s \div 2) % 2 = 0 THEN s \div 2 ELSE s \div 2 + 1

\* A near tie between the best arm and the configured one may go either way.
Incumbents(B, F) ==
  LET configured == Nearest[F][Anchor]
  IN  IF ReturnIncumbent THEN {configured}
      ELSE {configured} \cup {g \in F : Observed(B, g)}

WarmupReturn(batch, B, F, incumbent) ==
  LET g == StepToward(gamma, incumbent, F)
  IN  Return(batch, [Activated(B, g) EXCEPT !.returned = (g = incumbent)], g)

Ucb(batch, B, F) ==
  IF ~B.heard THEN Resides(batch, B)
  ELSE \/ Return(batch, Activated(B, gamma), gamma)
       \/ \E best \in {g \in F : Observed(B, g)} \ {gamma} :
            LET g == StepToward(gamma, best, F)
            IN  Return(batch, Activated(B, g), g)

Steady(batch, B, F) ==
  IF Awaited(B, F) # {}
  THEN MoveOrWait(batch, B, F, Nearest[F][RoundedMiddle(F)])
  ELSE IF B.returned THEN Ucb(batch, B, F)
  ELSE \E incumbent \in Incumbents(B, F) :
         IF gamma # incumbent THEN WarmupReturn(batch, B, F, incumbent)
         ELSE Ucb(batch, [B EXCEPT !.returned = TRUE], F)

\* The window at the current width is over.
Decide(batch, B, F) ==
  LET Explore ==
        IF Unlaunched(B, F) = {} THEN Steady(batch, B, F)
        ELSE IF HasInitial /\ MeasuredArms(B, F) # {} THEN Frontier(batch, B, F)
        ELSE Warmup(batch, B, F, Unlaunched(B, F))
  IN  IF AwaitsAnchor(B, F)
      THEN MoveOrWait(batch, B, F, Nearest[F][Anchor])
      ELSE IF ~HasInitial THEN Explore
      ELSE \E pending \in PendingProbes(B, F) :
             IF pending # {}
             THEN \E target \in ProbeTargets(B, F) :
                    MoveOrWait(batch, B, F, target)
             ELSE Explore

Continue(batch, B, F) ==
  IF BurnsIn(B, F) THEN SafeBurnIn(batch, B, F)
  ELSE IF Travels(B.boot, F) THEN Transfer(batch, B, F)
  ELSE IF Travels(B.wtarget, F) THEN WarmupStep(batch, [B EXCEPT !.boot = None], F)
  ELSE \E C \in {Settled(B)} :
         IF InWindow(C) THEN Resides(batch, C)
         ELSE \E L \in {Launched(C)} : Decide(batch, L, F)

\* Mutant: the current width is not checked against the batch.
ChooseUnchecked(batch) ==
  \E B \in Opened(Bucket(batch)) : Continue(batch, B, Feasible[batch])

Choose(batch) ==
  LET F == Feasible[batch]
      k == Bucket(batch)
  IN  IF gamma \notin F THEN ForceWidth(Max(F), batch)
      ELSE \E B \in Opened(k) :
             IF active \notin {None, k} /\ HasInitial
             THEN \E target \in ResumeTargets(B, F) :
                    IF gamma # target THEN Resume(batch, B, F, target)
                    ELSE Continue(batch, B, F)
             ELSE Continue(batch, B, F)
=============================================================================
