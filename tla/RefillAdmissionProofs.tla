------------------------ MODULE RefillAdmissionProofs ------------------------
(* Proofs about RefillAdmission: the types, and the starvation guard's bound. *)
EXTENDS RefillAdmission, TLAPS

LEMMA KeyTypes == /\ Keys = (0..Capacity) \X Gammas /\ ChoiceKeys \subseteq Keys
                  /\ NoCall \in [key : Keys, admit : BOOLEAN]
<1>1. PICK g \in Gammas : g = CHOOSE h \in Gammas : TRUE BY RefillAssumption
<1> QED BY <1>1, RefillAssumption DEF Keys, ChoiceKeys, NoCall

LEMMA WaitingNat == ASSUME TypeOK PROVE Waiting \in Nat /\ TargetCount <= Capacity
  BY RefillAssumption DEF TypeOK, Waiting, TargetCount, LeastOf

LEMMA HostTyped ==
  ASSUME TypeOK, HostSchedules
  PROVE  TypeOK'
<1> USE RefillAssumption
<1>0. running \in 0..Capacity /\ fresh \in Nat /\ preempted \in Nat /\ limit \in running..Capacity
  BY DEF TypeOK
<1>1. PICK new \in Nat, tokens \in BOOLEAN : Scheduled(new, tokens)
  <2>1. CASE HostAdmits
    <3>1. PICK new \in 0..fresh : Scheduled(new, TRUE) BY <2>1 DEF HostAdmits
    <3>2. new \in Nat BY <1>0
    <3> QED BY <3>1, <3>2
  <2>2. CASE HostRuns
    <3>1. PICK tokens \in BOOLEAN : Scheduled(0, tokens) BY <2>2 DEF HostRuns
    <3> QED BY <3>1
  <2>3. CASE HostPreempts BY <2>3 DEF HostPreempts
  <2> QED BY <2>1, <2>2, <2>3 DEF HostSchedules
<1>2. /\ pc = "decided" /\ pc' = "idle" /\ limit' = Capacity /\ call' = NoCall
      /\ UNCHANGED <<config, learned, denied>>
  BY <1>1 DEF Scheduled
<1>3. inflight' \in Seq([key : Keys, action : Actions])
  <2>1. [key |-> call.key, action |-> IF call.admit /\ new > 0 THEN "admit" ELSE "hold"]
            \in [key : Keys, action : Actions]
    BY DEF TypeOK, Actions
  <2>2. inflight \in Seq([key : Keys, action : Actions]) BY DEF TypeOK
  <2>3. CASE ~tokens BY <1>1, <2>2, <2>3 DEF Scheduled
  <2>4. CASE tokens
    <3>1. inflight' = Append(inflight, [key |-> call.key,
                               action |-> IF call.admit /\ new > 0 THEN "admit" ELSE "hold"])
      BY <1>1, <2>4 DEF Scheduled
    <3> QED BY <2>1, <2>2, <3>1
  <2> QED BY <2>3, <2>4
<1>4. running' \in 0..Capacity /\ fresh' \in Nat /\ preempted' \in Nat /\ entered' \in BOOLEAN
  <2>1. CASE HostAdmits
    <3>1. PICK n \in 0..fresh, o \in 0..preempted :
              /\ running + n + o <= limit
              /\ running' = running + n + o /\ fresh' = fresh - n /\ preempted' = preempted - o
      BY <2>1 DEF HostAdmits
    <3>2. entered' = TRUE BY <2>1 DEF HostAdmits
    <3> QED BY <1>0, <3>1, <3>2
  <2>2. CASE HostRuns
    <3>1. requests' = requests /\ entered' = FALSE BY <2>2 DEF HostRuns
    <3>2. running' = running /\ fresh' = fresh /\ preempted' = preempted
      BY <3>1 DEF requests
    <3> QED BY <3>1, <3>2, <1>0
  <2>3. CASE HostPreempts
    <3>1. entered' \in BOOLEAN BY <2>3 DEF HostPreempts
    <3>2. running > 1 /\ running' = running - 1 /\ preempted' = preempted + 1 /\ fresh' = fresh
      BY <2>3 DEF HostPreempts
    <3> QED BY <1>0, <3>1, <3>2
  <2> QED BY <2>1, <2>2, <2>3 DEF HostSchedules
<1> QED BY <1>2, <1>3, <1>4, KeyTypes DEF TypeOK, learned

LEMMA ChooseTyped == ASSUME TypeOK, Choose PROVE TypeOK'
<1> USE RefillAssumption
<1>1. PICK g \in Gammas :
        \E d \in Decisions(<<running, g>>) :
          /\ call' = [key |-> <<running, g>>, admit |-> d.admit]
          /\ holds' = d.count
          /\ limit' = IF d.admit THEN Capacity ELSE running
          /\ denied' = IF d.admit THEN [j \in ChoiceKeys |-> 0]
                    ELSE IF config.gated THEN denied
                    ELSE [denied EXCEPT ![<<running, g>>] = LeastOf(@, config.holds) + 1]
  BY DEF Choose
<1> DEFINE k == <<running, g>>
<1>2. \A d \in Decisions(k) : d.admit \in BOOLEAN /\ d.count \in [ChoiceKeys -> Nat]
  <2>1. holds \in [ChoiceKeys -> Nat] BY DEF TypeOK
  <2> DEFINE more == holds[k] + 1
  <2>2. /\ [holds EXCEPT ![k] = 0] \in [ChoiceKeys -> Nat]
        /\ [holds EXCEPT ![k] = more] \in [ChoiceKeys -> Nat]
    <3>1. k \in ChoiceKeys => more \in Nat BY <2>1
    <3> HIDE DEF more, k
    <3> QED BY <2>1, <3>1
  <2>3. ASSUME NEW d \in Decisions(k)
        PROVE  d \in {[admit |-> TRUE, count |-> holds], [admit |-> FALSE, count |-> holds],
                      Admits(k), Holds(k)}
    BY Zenon DEF Decisions
  <2> HIDE DEF k
  <2>4. /\ Admits(k) = [admit |-> TRUE, count |-> [holds EXCEPT ![k] = 0]]
        /\ Holds(k) = [admit |-> FALSE, count |-> [holds EXCEPT ![k] = more]]
    BY DEF Admits, Holds
  <2> HIDE DEF more
  <2>5. ASSUME NEW d \in Decisions(k)
        PROVE  d.admit \in BOOLEAN /\ d.count \in [ChoiceKeys -> Nat]
    <3>1. CASE d = [admit |-> TRUE, count |-> holds] BY <3>1, <2>1
    <3>4. CASE d = [admit |-> FALSE, count |-> holds] BY <3>4, <2>1
    <3>2. CASE d = Admits(k) BY <3>2, <2>2, <2>4
    <3>3. CASE d = Holds(k) BY <3>3, <2>2, <2>4
    <3> QED BY <2>3, <3>1, <3>2, <3>3, <3>4
  <2> QED BY <2>5 DEF k
<1>3. config.holds \in Nat BY DEF TypeOK, ConfigType
<1>4. k \in Keys BY DEF TypeOK, Keys
<1>5. denied' \in [ChoiceKeys -> Nat]
  <2>0. denied \in [ChoiceKeys -> Nat] BY DEF TypeOK
  <2>1. [denied EXCEPT ![k] = LeastOf(@, config.holds) + 1] \in [ChoiceKeys -> Nat]
    <3> DEFINE more == LeastOf(denied[k], config.holds) + 1
    <3>1. k \in ChoiceKeys => more \in Nat BY <1>3, <2>0 DEF LeastOf
    <3> HIDE DEF more
    <3>2. [denied EXCEPT ![k] = more] \in [ChoiceKeys -> Nat] BY <2>0, <3>1
    <3> QED BY <3>2 DEF more
  <2> QED BY <1>1, <2>1 DEF TypeOK
<1>6. call' \in [key : Keys, admit : BOOLEAN] /\ limit' \in running..Capacity
      /\ holds' \in [ChoiceKeys -> Nat]
  <2>1. PICK d \in Decisions(k) :
          /\ call' = [key |-> k, admit |-> d.admit]
          /\ holds' = d.count
          /\ limit' = IF d.admit THEN Capacity ELSE running
    BY <1>1
  <2>2. running \in 0..Capacity BY DEF TypeOK
  <2> HIDE DEF k
  <2>3. call' \in [key : Keys, admit : BOOLEAN] BY <2>1, <1>2, <1>4
  <2> QED BY <2>1, <2>2, <2>3, <1>2
<1> QED BY <1>5, <1>6 DEF TypeOK, Choose, requests

LEMMA CompleteTyped ==
  ASSUME TypeOK, NEW finished \in 0..Capacity, Complete(finished) PROVE TypeOK'
<1>1. inflight' \in Seq([key : Keys, action : Actions]) BY DEF TypeOK, Complete
<1>2. measured' \subseteq ChoiceKeys BY DEF TypeOK, Complete
<1>3. running' \in 0..Capacity BY RefillAssumption DEF TypeOK, Complete
<1>4. limit \in running'..Capacity BY <1>3, RefillAssumption DEF TypeOK, Complete
<1> QED BY <1>1, <1>2, <1>3, <1>4 DEF TypeOK, Complete

LEMMA OtherTyped == ASSUME TypeOK, Arrive \/ Abort PROVE TypeOK'
  BY RefillAssumption DEF TypeOK, Arrive, Abort, learned

\* Counts stay within the engine's bounds and the host is never given a limit
\* below what is running (refill.py, choose and the schedule hook).
THEOREM RefillTyped == Spec => []TypeOK
<1>1. Init => TypeOK
  <2> SUFFICES ASSUME Init PROVE TypeOK OBVIOUS
  <2>1. <<>> \in Seq([key : Keys, action : Actions]) OBVIOUS
  <2>2. [j \in ChoiceKeys |-> 0] \in [ChoiceKeys -> Nat] OBVIOUS
  <2>3. running \in 0..Capacity /\ fresh \in Nat /\ preempted \in Nat /\ limit \in running..Capacity
    BY RefillAssumption DEF Init
  <2>4. holds \in [ChoiceKeys -> Nat] /\ denied \in [ChoiceKeys -> Nat]
    BY <2>2 DEF Init
  <2> QED BY <2>1, <2>3, <2>4, KeyTypes DEF Init, TypeOK
<1>2. TypeOK /\ [Next]_vars => TypeOK'
  <2> SUFFICES ASSUME TypeOK, [Next]_vars PROVE TypeOK' OBVIOUS
  <2>1. CASE UNCHANGED vars BY <2>1 DEF vars, TypeOK
  <2> QED BY <2>1, ChooseTyped, HostTyped, CompleteTyped, OtherTyped DEF Next
<1> QED BY <1>1, <1>2, PTL DEF Spec

\* What the guard needs: a state's denials since the last admission never exceed
\* its counter, which only an admission resets, and the counter stops at the
\* guard's limit.
GuardInv ==
  config.holds > 0 /\ ~config.gated =>
    \A k \in ChoiceKeys : denied[k] <= holds[k] /\ holds[k] <= config.holds

LEMMA ChooseGuarded ==
  ASSUME TypeOK, GuardInv, Choose, config.holds > 0, ~config.gated
  PROVE  \A k \in ChoiceKeys : denied'[k] <= holds'[k] /\ holds'[k] <= config.holds
<1>0. PICK g \in Gammas : \E d \in Decisions(<<running, g>>) :
          /\ holds' = d.count
          /\ denied' = IF d.admit THEN [j \in ChoiceKeys |-> 0]
                    ELSE IF config.gated THEN denied
                    ELSE [denied EXCEPT ![<<running, g>>] = LeastOf(@, config.holds) + 1]
  BY DEF Choose
<1>1. PICK d \in Decisions(<<running, g>>) :
          /\ holds' = d.count
          /\ denied' = IF d.admit THEN [j \in ChoiceKeys |-> 0]
                    ELSE IF config.gated THEN denied
                    ELSE [denied EXCEPT ![<<running, g>>] = LeastOf(@, config.holds) + 1]
  BY <1>0
<1> DEFINE k == <<running, g>>
<1>2. config.holds \in Nat BY RefillAssumption DEF TypeOK, ConfigType
<1>3. CASE d = [admit |-> TRUE, count |-> holds]
  BY <1>1, <1>2, <1>3 DEF TypeOK, GuardInv
<1>4. CASE d = Admits(k)
  BY <1>1, <1>2, <1>4 DEF TypeOK, GuardInv, Admits
<1>5. CASE d = Holds(k) /\ ~GuardFires(k)
  <2>1. /\ holds' = [holds EXCEPT ![k] = @ + 1]
        /\ denied' = [denied EXCEPT ![k] = LeastOf(@, config.holds) + 1]
    BY <1>1, <1>5 DEF Holds
  <2>2. k \in ChoiceKeys => holds[k] < config.holds
    BY <1>2, <1>5 DEF GuardFires, TypeOK
  <2>3. holds \in [ChoiceKeys -> Nat] /\ denied \in [ChoiceKeys -> Nat] BY DEF TypeOK
  <2> DEFINE more == LeastOf(denied[k], config.holds) + 1
  <2>4. k \in ChoiceKeys => more <= holds[k] + 1 /\ holds[k] + 1 <= config.holds
    BY <1>2, <2>2, <2>3 DEF LeastOf, GuardInv
  <2>5. denied' = [denied EXCEPT ![k] = more] BY <2>1
  <2> HIDE DEF more, k
  <2>6. ASSUME NEW j \in ChoiceKeys PROVE denied'[j] <= holds'[j] /\ holds'[j] <= config.holds
    <3>1. CASE j = k BY <3>1, <2>1, <2>3, <2>4, <2>5
    <3>2. CASE j # k BY <3>2, <2>1, <2>3, <2>5 DEF GuardInv
    <3> QED BY <3>1, <3>2
  <2> QED BY <2>6
<1> QED BY <1>1, <1>3, <1>4, <1>5 DEF Decisions

\* However the batch size and gamma wander between the states and however late
\* the rewards come back, no state denies waiting requests more often than
\* max_consecutive_holds before some are let in (refill.py, choose).
THEOREM GuardBoundsDenials == Spec => []DenialsBounded
<1>1. Init => GuardInv
  BY RefillAssumption DEF Init, GuardInv, ConfigType
<1>2. TypeOK /\ GuardInv /\ [Next]_vars => GuardInv'
  <2> SUFFICES ASSUME TypeOK, GuardInv, [Next]_vars PROVE GuardInv' OBVIOUS
  <2>1. CASE Choose
    BY <2>1, ChooseGuarded DEF GuardInv, Choose
  <2>2. CASE UNCHANGED <<config, holds, denied>>
    BY <2>2 DEF GuardInv
  <2> QED
    BY <2>1, <2>2 DEF Next, HostSchedules, HostAdmits, HostRuns, HostPreempts, Scheduled,
       learned, Complete, Arrive, Abort, vars
<1>3. TypeOK /\ GuardInv => DenialsBounded
  BY RefillAssumption DEF GuardInv, DenialsBounded, TypeOK, ConfigType
<1> QED BY <1>1, <1>2, <1>3, RefillTyped, PTL DEF Spec
=============================================================================
