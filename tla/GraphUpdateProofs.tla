--------------------------- MODULE GraphUpdateProofs ---------------------------
(* Rebinding around graph replays: TLAPS proofs about GraphUpdate for every   *)
(* finite set of deployments and of captured sizes, and any number of         *)
(* replays and failures.                                                      *)
EXTENDS GraphUpdate, FiniteSetTheorems, SequenceTheorems, WellFoundedInduction, TLAPS

--------------------------------------------------------------------------------
(* Bounds of finite sets of naturals, and the division of the tasks.          *)

(* A non-empty set of naturals has a least member.                            *)
LEMMA LeastMember ==
    ASSUME NEW S \in SUBSET Nat, S # {}
    PROVE  \E y \in S : \A x \in S : y <= x
<1>1. PICK y \in S : \A x \in S : ~(<<x, y>> \in OpToRel(<, Nat))
  BY NatLessThanWellFounded, WFMin
<1>2. ASSUME NEW x \in S PROVE y <= x
  <2>1. ~(x < y)
    BY <1>1 DEF OpToRel
  <2>2. QED
    BY <2>1
<1>3. QED
  BY <1>2

(* A finite set of naturals is bounded: of the subsets that are not, one of   *)
(* least size would be bounded without one of its members.                    *)
LEMMA FiniteIsBounded ==
    ASSUME NEW S \in SUBSET Nat, IsFiniteSet(S)
    PROVE  \E n \in Nat : \A x \in S : x <= n
<1> DEFINE Unbounded == {U \in SUBSET S : ~\E n \in Nat : \A x \in U : x <= n}
           Sizes == {Cardinality(U) : U \in Unbounded}
<1>1. \A U \in SUBSET S : IsFiniteSet(U) /\ Cardinality(U) \in Nat
  BY FS_Subset, FS_CardinalityType
<1>2. SUFFICES ASSUME S \in Unbounded PROVE FALSE
  OBVIOUS
<1>3. Sizes \in SUBSET Nat /\ Sizes # {}
  BY <1>1, <1>2
<1>4. PICK c \in Sizes : \A x \in Sizes : c <= x
  BY <1>3, LeastMember
<1>5. PICK U \in Unbounded : Cardinality(U) = c
  BY <1>4
<1>6. U # {}
  BY <1>5
<1>7. PICK y \in U : TRUE
  BY <1>6
<1>8. U \ {y} \in SUBSET S /\ Cardinality(U \ {y}) = c - 1 /\ c \in Nat
  BY <1>1, <1>5, <1>7, FS_RemoveElement
<1>9. U \ {y} \notin Unbounded
  BY <1>4, <1>8
<1>10. PICK n \in Nat : \A x \in U \ {y} : x <= n
  BY <1>8, <1>9
<1>11. y \in Nat
  BY <1>5, <1>7
<1>12. \A x \in U : x <= n + y
  <2>1. ASSUME NEW x \in U PROVE x <= n + y
    <3>1. x \in Nat /\ (x = y \/ x <= n)
      BY <1>5, <1>10
    <3>2. QED
      BY <1>10, <1>11, <3>1
  <2>2. QED
    BY <2>1
<1>13. n + y \in Nat
  BY <1>10, <1>11
<1>14. QED
  BY <1>5, <1>12, <1>13

(* So it has a greatest member.                                               *)
LEMMA MaxOfFinite ==
    ASSUME NEW S \in SUBSET Nat, IsFiniteSet(S), S # {}
    PROVE  Max(S) \in S /\ \A x \in S : x <= Max(S)
<1>1. PICK n \in Nat : \A x \in S : x <= n
  BY FiniteIsBounded
<1> DEFINE gaps == {n - x : x \in S}
<1>2. gaps \in SUBSET Nat /\ gaps # {}
  <2>1. \A x \in S : n - x \in Nat
    BY <1>1
  <2>2. QED
    BY <2>1
<1>3. PICK d \in gaps : \A g \in gaps : d <= g
  BY <1>2, LeastMember
<1>4. PICK m \in S : d = n - m
  OBVIOUS
<1>5. ASSUME NEW x \in S PROVE x <= m
  <2>1. n - m <= n - x
    BY <1>3, <1>4
  <2>2. x \in Nat /\ m \in Nat
    OBVIOUS
  <2>3. QED
    BY <2>1, <2>2
<1>6. QED
  BY <1>4, <1>5 DEF Max

(* The values of a table with finitely many places have a greatest one.       *)
LEMMA MaxOfTable ==
    ASSUME NEW P, IsFiniteSet(P), P # {}, NEW f \in [P -> Nat],
           NEW T, T = {f[p] : p \in P}
    PROVE  Max(T) \in T /\ \A x \in T : x <= Max(T)
<1>1. T \in SUBSET Nat /\ T # {}
  OBVIOUS
<1>2. f \in Surjection(P, T)
  BY DEF Surjection
<1>3. IsFiniteSet(T)
  BY <1>2, FS_Surjection
<1>4. QED
  BY <1>1, <1>3, MaxOfFinite

(* The roles are finitely many.                                               *)
LEMMA RolesAreTwo == IsFiniteSet(Roles) /\ Roles # {}
<1>1. Roles = {"target"} \cup {"draft"}
  BY DEF Roles
<1>2. QED
  BY <1>1, FS_Singleton, FS_Union

(* The largest counts a deployment has.                                       *)
LEMMA MaxLayersFacts ==
    /\ MaxLayers \in Nat \ {0}
    /\ \A d \in Deployments : \A e \in Entries : d.layers[e] \in 1..MaxLayers
<1> DEFINE L == {d.layers[e] : d \in Deployments, e \in Entries}
           f == [p \in Deployments \X Entries |-> p[1].layers[p[2]]]
<1>1. \A d \in Deployments : d.layers \in [Entries -> Nat \ {0}]
  BY DeploymentAssumption DEF DeploymentType
<1>2. \A x : x \in L <=> \E d \in Deployments, e \in Entries : x = d.layers[e]
  OBVIOUS
<1>3. f \in [Deployments \X Entries -> Nat]
  BY <1>1
<1>4. \A p \in Deployments \X Entries : f[p] = p[1].layers[p[2]]
  OBVIOUS
<1>5. MaxLayers = Max(L)
  BY DEF MaxLayers
<1> HIDE DEF L, f
<1>6. \A x : x \in L <=> \E p \in Deployments \X Entries : x = f[p]
  <2>1. ASSUME NEW x \in L PROVE \E p \in Deployments \X Entries : x = f[p]
    <3>1. PICK d \in Deployments, e \in Entries : x = d.layers[e]
      BY <1>2
    <3>2. <<d, e>> \in Deployments \X Entries /\ f[<<d, e>>] = d.layers[e]
      BY <1>4
    <3>3. QED
      BY <3>1, <3>2
  <2>2. ASSUME NEW p \in Deployments \X Entries PROVE f[p] \in L
    <3>1. p[1] \in Deployments /\ p[2] \in Entries /\ f[p] = p[1].layers[p[2]]
      BY <1>4
    <3>2. QED
      BY <1>2, <3>1
  <2>3. QED
    BY <2>1, <2>2
<1>7. Max(L) \in L /\ \A x \in L : x <= Max(L)
  <2>1. IsFiniteSet(Deployments) /\ IsFiniteSet(Entries) /\ Deployments # {} /\ Entries # {}
    BY DeploymentAssumption
  <2>2. QED
    <3>1. IsFiniteSet(Deployments \X Entries)
      BY <2>1, FS_Product
    <3>2. Deployments \X Entries # {}
      <4>1. PICK d \in Deployments, e \in Entries : TRUE
        BY <2>1
      <4>2. <<d, e>> \in Deployments \X Entries
        OBVIOUS
      <4>3. QED
        BY <4>2
    <3>3. L = {f[p] : p \in Deployments \X Entries}
      BY <1>6
    <3>4. QED
      BY ONLY <1>3, <3>1, <3>2, <3>3, MaxOfTable
<1>8. \A d \in Deployments : \A e \in Entries : d.layers[e] \in L
  BY <1>2
<1>9. \A x \in L : x \in Nat \ {0}
  BY <1>1, <1>2
<1>10. MaxLayers \in L /\ \A x \in L : x <= MaxLayers
  BY <1>5, <1>7
<1>11. QED
  BY <1>8, <1>9, <1>10

(* The same for the workers of a role.                                        *)
LEMMA MaxWorkersFacts ==
    /\ MaxWorkers \in Nat
    /\ \A d \in Deployments : \A r \in Roles : d.workers[r] \in 0..MaxWorkers
<1> DEFINE W == {d.workers[r] : d \in Deployments, r \in Roles}
           f == [p \in Deployments \X Roles |-> p[1].workers[p[2]]]
<1>1. \A d \in Deployments : d.workers \in [Roles -> Nat]
  BY DeploymentAssumption DEF DeploymentType
<1>2. \A x : x \in W <=> \E d \in Deployments, r \in Roles : x = d.workers[r]
  OBVIOUS
<1>3. f \in [Deployments \X Roles -> Nat]
  BY <1>1
<1>4. \A p \in Deployments \X Roles : f[p] = p[1].workers[p[2]]
  OBVIOUS
<1>5. MaxWorkers = Max(W)
  BY DEF MaxWorkers
<1> HIDE DEF W, f
<1>6. \A x : x \in W <=> \E p \in Deployments \X Roles : x = f[p]
  <2>1. ASSUME NEW x \in W PROVE \E p \in Deployments \X Roles : x = f[p]
    <3>1. PICK d \in Deployments, r \in Roles : x = d.workers[r]
      BY <1>2
    <3>2. <<d, r>> \in Deployments \X Roles /\ f[<<d, r>>] = d.workers[r]
      BY <1>4
    <3>3. QED
      BY <3>1, <3>2
  <2>2. ASSUME NEW p \in Deployments \X Roles PROVE f[p] \in W
    <3>1. p[1] \in Deployments /\ p[2] \in Roles /\ f[p] = p[1].workers[p[2]]
      BY <1>4
    <3>2. QED
      BY <1>2, <3>1
  <2>3. QED
    BY <2>1, <2>2
<1>7. Max(W) \in W /\ \A x \in W : x <= Max(W)
  <2>1. IsFiniteSet(Deployments) /\ IsFiniteSet(Roles) /\ Deployments # {} /\ Roles # {}
    BY DeploymentAssumption, RolesAreTwo
  <2>2. QED
    <3>1. IsFiniteSet(Deployments \X Roles)
      BY <2>1, FS_Product
    <3>2. Deployments \X Roles # {}
      <4>1. PICK d \in Deployments, e \in Roles : TRUE
        BY <2>1
      <4>2. <<d, e>> \in Deployments \X Roles
        OBVIOUS
      <4>3. QED
        BY <4>2
    <3>3. W = {f[p] : p \in Deployments \X Roles}
      BY <1>6
    <3>4. QED
      BY ONLY <1>3, <3>1, <3>2, <3>3, MaxOfTable
<1>8. \A d \in Deployments : \A r \in Roles : d.workers[r] \in W
  BY <1>2
<1>9. \A x \in W : x \in Nat
  BY <1>1, <1>2
<1>10. MaxWorkers \in W /\ \A x \in W : x <= MaxWorkers
  BY <1>5, <1>7
<1>11. QED
  BY <1>8, <1>9, <1>10

(* A quotient counts whole parts.                                             *)
LEMMA QuotientFits ==
    ASSUME NEW a \in Nat, NEW w \in Nat \ {0}, NEW q \in Nat, q <= a \div w
    PROVE  q * w <= a
<1>1. a \div w \in Nat /\ w * (a \div w) <= a
  OBVIOUS
<1>2. q * w <= (a \div w) * w
  BY <1>1
<1>3. QED
  BY <1>1, <1>2

(* And it is no larger than what is divided.                                  *)
LEMMA QuotientSmaller ==
    ASSUME NEW a \in Nat, NEW w \in Nat \ {0}
    PROVE  a \div w \in Nat /\ a \div w <= a
OBVIOUS

--------------------------------------------------------------------------------
(* The types of the state, the steps it names and the shapes of jobs and      *)
(* replays: more than TypeOK says, because parameters and flags come out of   *)
(* the queues and the queues out of the jobs.                                 *)
Updates == Streams \ {Compute}
Steps == Nat \ {0}
HostType == [pc : {"idle", "update", "retire", "call", "raised"},
             role : Roles, entry : Entries, step : Nat]
JobType == [stream : Updates, role : Roles, entry : Entries, step : Steps, todo : Seq(1..MaxLayers),
            at : {"gate", "free", "done", "failed"}, by : {"pool", "caller"}]
BindOp == [op : {"bind"}, node : Nodes, step : Steps]
UpdateOp == BindOp \cup [op : {"gate", "passed", "replayed"}, step : Steps]
ReplayOp == [op : {"replay"}, role : Roles, entry : Entries, step : Steps,
             node : 1..MaxLayers, reads : BOOLEAN]

OpsOf(s) == IF s = Compute THEN ReplayOp ELSE UpdateOp
QueuesTyped(q) ==
    /\ q \in [Streams -> Seq(UpdateOp) \cup Seq(ReplayOp)]
    /\ \A s \in Streams : q[s] \in Seq(OpsOf(s))

Typed ==
    /\ dep \in Deployments /\ count \in 0..MaxReplays
    /\ host \in HostType /\ jobs \in SUBSET JobType
    /\ pending \in [Roles -> SUBSET Steps]
    /\ last \in [Roles -> Nat] /\ dependency \in [Roles -> Nat]
    /\ QueuesTyped(queue)
    /\ param \in [Nodes -> Nat] /\ flag \in [Nodes -> BOOLEAN]
    /\ passed \in SUBSET Steps /\ finished \in SUBSET Steps

HostLaunched == /\ host.step <= count
                /\ host.pc \in {"update", "retire", "call"} => host.step = count /\ count > 0
JobsLaunched == \A j \in jobs : j.step <= count
HandlesLaunched == \A r \in Roles : /\ \A k \in pending[r] : k <= count
                                    /\ last[r] <= count /\ dependency[r] <= count
QueueLaunched(q, c) == \A s \in Streams : \A n \in 1..Len(q[s]) : q[s][n].step <= c
DeviceLaunched == /\ \A v \in Nodes : param[v] <= count
                  /\ \A k \in passed \cup finished : k <= count
JobShape(j) == /\ j.stream[2] <= dep.workers[j.role] /\ Len(j.todo) <= MaxLayers
               /\ ~Over(j) => j.todo # <<>>
JobShapes == \A j \in jobs : JobShape(j)
ReplayShapes(q) == \A p \in 1..Len(q[Compute]) :
                      q[Compute][p].node <= Layers[q[Compute][p].entry]

TypeInv == /\ Typed /\ HostLaunched /\ JobsLaunched /\ HandlesLaunched
           /\ QueueLaunched(queue, count) /\ DeviceLaunched /\ JobShapes /\ ReplayShapes(queue)

(* The invariant says all that TypeOK does.                                   *)
LEMMA TypeInvImplies == TypeInv => TypeOK
<1> SUFFICES ASSUME TypeInv PROVE TypeOK
  OBVIOUS
<1>1. /\ dep \in Deployments /\ count \in 0..MaxReplays /\ MaxReplays \in Nat
      /\ host.pc \in {"idle", "update", "retire", "call", "raised"}
      /\ host.role \in Roles /\ host.entry \in Entries /\ host.step \in 0..count
  BY DeploymentAssumption DEF TypeInv, Typed, HostType, HostLaunched
<1>2. ASSUME NEW j \in jobs
      PROVE  /\ j.stream \in Streams /\ j.stream[2] <= dep.workers[j.role]
             /\ j.step \in 1..count /\ Len(j.todo) <= MaxLayers
  <2>1. j \in JobType /\ JobShape(j) /\ j.step <= count
    BY DEF TypeInv, Typed, JobShapes, JobsLaunched
  <2>2. QED
    BY <1>1, <2>1 DEF JobType, JobShape, Updates, Steps
<1>3. ASSUME NEW r \in Roles PROVE pending[r] \subseteq 1..count /\ last[r] \in 0..count
  <2>1. pending[r] \in SUBSET Steps /\ last[r] \in Nat /\ last[r] <= count
        /\ \A k \in pending[r] : k <= count
    BY DEF TypeInv, Typed, HandlesLaunched
  <2>2. QED
    BY <1>1, <2>1 DEF Steps
<1>4. \A v \in Nodes : param[v] \in 0..count
  BY <1>1 DEF TypeInv, Typed, DeviceLaunched
<1>5. finished \subseteq 1..count /\ passed \subseteq 1..count
  BY <1>1 DEF TypeInv, Typed, DeviceLaunched, Steps
<1>6. QED
  BY <1>1, <1>2, <1>3, <1>4, <1>5 DEF TypeOK

(* The streams, and those of a pool.                                          *)
LEMMA StreamFacts ==
    /\ Compute \in Streams /\ Compute \notin Updates
    /\ \A s \in Updates : s \in Streams /\ s \in Roles \X (0..MaxWorkers)
    /\ \A s \in Roles \X (0..MaxWorkers) : s \in Updates
    /\ \A s \in Streams : s = Compute \/ s \in Updates
BY MaxWorkersFacts DEF Streams, Updates, Compute, Roles

(* A count of workers, and the streams that its threads use.                  *)
LEMMA PoolFacts ==
    ASSUME TypeInv, NEW r \in Roles
    PROVE  /\ dep.workers[r] \in 0..MaxWorkers /\ StateOf(r) \in Roles
           /\ UpdateStream(r) \in Updates
           /\ \A k \in 1..dep.workers[r] : PoolStream(r, k) \in Updates
<1>1. dep \in Deployments /\ MaxWorkers \in Nat /\ dep.workers[r] \in 0..MaxWorkers
  BY MaxWorkersFacts DEF TypeInv, Typed
<1>2. StateOf(r) \in Roles
  BY DEF StateOf, Roles
<1>3. UpdateStream(r) \in Roles \X (0..MaxWorkers)
  BY <1>1 DEF UpdateStream
<1>4. \A k \in 1..dep.workers[r] : PoolStream(r, k) \in Roles \X (0..MaxWorkers)
  BY <1>1, <1>2 DEF PoolStream
<1>5. QED
  BY <1>1, <1>2, <1>3, <1>4, StreamFacts

(* The number of tasks captured for a size.                                   *)
LEMMA LayerFacts ==
    ASSUME TypeInv
    PROVE  \A e \in Entries : Layers[e] \in 1..MaxLayers /\ MaxLayers \in Nat
BY MaxLayersFacts DEF TypeInv, Typed, Layers

--------------------------------------------------------------------------------
(* The plan of an update: the parts of the captured tasks are disjoint.       *)

(* Strides do not meet: a row and a place in it are known from their sum.     *)
LEMMA StridesSeparate ==
    ASSUME NEW w \in Nat \ {0}, NEW a \in 1..w, NEW b \in 1..w, NEW m \in Nat, NEW n \in Nat,
           a + m * w = b + n * w
    PROVE  a = b /\ m = n
<1>1. ASSUME NEW d \in Nat \ {0} PROVE d * w >= w
  <2>1. d * w = (d - 1) * w + w /\ (d - 1) * w >= 0
    OBVIOUS
  <2>2. QED
    BY <2>1
<1>2. ~(m < n)
  <2>1. ASSUME m < n PROVE FALSE
    <3>1. (n - m) * w = a - b
      BY <2>1
    <3>2. n - m \in Nat \ {0}
      BY <2>1
    <3>3. (n - m) * w >= w
      BY <1>1, <3>2
    <3>4. QED
      BY <3>1, <3>3
  <2>2. QED
    BY <2>1
<1>3. ~(n < m)
  <2>1. ASSUME n < m PROVE FALSE
    <3>1. (m - n) * w = b - a
      BY <2>1
    <3>2. m - n \in Nat \ {0}
      BY <2>1
    <3>3. (m - n) * w >= w
      BY <1>1, <3>2
    <3>4. QED
      BY <3>1, <3>3
  <2>2. QED
    BY <2>1
<1>4. m = n
  BY <1>2, <1>3
<1>5. QED
  BY <1>4

(* A task list that names distinct tasks of a size.                           *)
TaskList(e, s) == /\ s \in Seq(1..Layers[e]) /\ Len(s) <= Layers[e]
                  /\ \A m, n \in 1..Len(s) : s[m] = s[n] => m = n
Apart(s, t) == \A m \in 1..Len(s), n \in 1..Len(t) : s[m] # t[n]

(* What Chunk deals to worker k.                                              *)
LEMMA ChunkElements ==
    ASSUME NEW e \in Entries, Layers[e] \in Nat \ {0}, NEW w \in Nat \ {0}, w <= Layers[e],
           NEW k \in 1..w
    PROVE  /\ Chunk(e, w, k) \in Seq(1..Layers[e]) /\ Len(Chunk(e, w, k)) <= Layers[e]
           /\ \A n \in 1..Len(Chunk(e, w, k)) : Chunk(e, w, k)[n] = k + (n - 1) * w
<1> DEFINE L == Layers[e]
           q == (L - k) \div w
<1>1. L - k \in Nat /\ k \in Nat /\ k >= 1
  OBVIOUS
<1>2. q \in Nat /\ q <= L - k
  BY <1>1, QuotientSmaller
<1>3. ASSUME NEW n \in 1..(q + 1) PROVE k + (n - 1) * w \in 1..L
  <2>1. n - 1 \in Nat /\ n - 1 <= q
    BY <1>2
  <2>2. (n - 1) * w <= L - k
    BY <1>1, <2>1, QuotientFits
  <2>3. (n - 1) * w \in Nat
    BY <2>1
  <2>4. QED
    BY <1>1, <2>2, <2>3
<1>4. Chunk(e, w, k) = [n \in 1..(q + 1) |-> k + (n - 1) * w]
  BY DEF Chunk
<1> HIDE DEF q
<1>5. Chunk(e, w, k) \in [1..(q + 1) -> 1..L] /\ q + 1 \in Nat /\ q + 1 <= L
  <2>1. q + 1 \in Nat /\ q + 1 <= L
    BY <1>1, <1>2
  <2>2. QED
    BY <1>3, <1>4, <2>1
<1>6. Chunk(e, w, k) \in Seq(1..L) /\ Len(Chunk(e, w, k)) = q + 1
  BY <1>5
<1>7. QED
  BY <1>4, <1>5, <1>6

(* Dealt tasks are distinct, and no two workers get the same one.             *)
LEMMA ChunksApart ==
    ASSUME NEW e \in Entries, Layers[e] \in Nat \ {0}, NEW w \in Nat \ {0}, w <= Layers[e],
           NEW k \in 1..w
    PROVE  /\ TaskList(e, Chunk(e, w, k))
           /\ \A i \in 1..w : i # k => Apart(Chunk(e, w, k), Chunk(e, w, i))
<1>1. ASSUME NEW i \in 1..w, NEW m \in 1..Len(Chunk(e, w, k)), NEW n \in 1..Len(Chunk(e, w, i)),
             Chunk(e, w, k)[m] = Chunk(e, w, i)[n]
      PROVE  i = k /\ m = n
  <2>1. Chunk(e, w, k)[m] = k + (m - 1) * w /\ Chunk(e, w, i)[n] = i + (n - 1) * w
    BY ChunkElements
  <2>2. Len(Chunk(e, w, k)) \in Nat /\ Len(Chunk(e, w, i)) \in Nat
    BY ChunkElements
  <2>3. m - 1 \in Nat /\ n - 1 \in Nat
    BY <2>2
  <2>4. k = i /\ m - 1 = n - 1
    <3>1. k + (m - 1) * w = i + (n - 1) * w
      BY <1>1, <2>1
    <3>2. w \in Nat \ {0} /\ k \in 1..w /\ i \in 1..w
      OBVIOUS
    <3>3. QED
      BY ONLY <2>3, <3>1, <3>2, StridesSeparate
  <2>5. QED
    BY <2>2, <2>4
<1>2. QED
  BY <1>1, ChunkElements DEF TaskList, Apart

(* A stretch of the captured tasks.                                           *)
LEMMA TasksFrom ==
    ASSUME NEW e \in Entries, Layers[e] \in Nat \ {0}, NEW a \in Nat \ {0}, NEW b \in Nat,
           b <= Layers[e]
    PROVE  /\ SubSeq(Tasks(e), a, b) \in Seq(1..Layers[e])
           /\ Len(SubSeq(Tasks(e), a, b)) = IF a <= b THEN b - a + 1 ELSE 0
           /\ \A n \in 1..Len(SubSeq(Tasks(e), a, b)) : SubSeq(Tasks(e), a, b)[n] = a + n - 1
<1>1. Tasks(e) \in Seq(1..Layers[e]) /\ Len(Tasks(e)) = Layers[e]
      /\ \A n \in 1..Layers[e] : Tasks(e)[n] = n
  BY DEF Tasks
<1> DEFINE s == Tasks(e)
<1> HIDE DEF s
<1>2. /\ s \in Seq(1..Layers[e]) /\ Len(s) = Layers[e]
      /\ \A n \in 1..Layers[e] : s[n] = n
  BY <1>1 DEF s
<1>3. \A i \in a..b : i \in 1..Len(s)
  BY <1>2
<1>4. /\ SubSeq(s, a, b) \in Seq(1..Layers[e])
      /\ Len(SubSeq(s, a, b)) = IF a <= b THEN b - a + 1 ELSE 0
      /\ \A i \in 1..(b - a + 1) : SubSeq(s, a, b)[i] = s[a + i - 1]
  <2>1. \A i \in a..b : s[i] \in 1..Layers[e]
    BY <1>2, <1>3
  <2>2. QED
    BY <2>1, SubSeqProperties
<1>5. QED
  BY <1>2, <1>4 DEF s

(* What stays with the caller of a pipeline.                                  *)
LEMMA PrefixTasks ==
    ASSUME NEW e \in Entries, Layers[e] \in Nat \ {0}, NEW p \in Int
    PROVE  /\ PrefixSize(e, p) \in 1..Layers[e]
           /\ TaskList(e, SubSeq(Tasks(e), 1, PrefixSize(e, p)))
           /\ \A n \in 1..Len(SubSeq(Tasks(e), 1, PrefixSize(e, p))) :
                 SubSeq(Tasks(e), 1, PrefixSize(e, p))[n] <= PrefixSize(e, p)
<1>1. PrefixSize(e, p) \in 1..Layers[e]
  BY DEF PrefixSize, LeastOf, MostOf
<1> DEFINE b == PrefixSize(e, p)
           t == SubSeq(Tasks(e), 1, b)
<1> HIDE DEF b, t
<1>2. t \in Seq(1..Layers[e]) /\ Len(t) = b /\ \A n \in 1..Len(t) : t[n] = n
  <2>1. /\ t \in Seq(1..Layers[e]) /\ Len(t) = IF 1 <= b THEN b - 1 + 1 ELSE 0
        /\ \A n \in 1..Len(t) : t[n] = 1 + n - 1
    <3>1. b \in Nat /\ b <= Layers[e] /\ 1 \in Nat \ {0}
      BY <1>1 DEF b
    <3>2. QED
      BY <3>1, TasksFrom, ZenonT(60) DEF t
  <2>2. QED
    BY <1>1, <2>1 DEF b
<1>3. b \in 1..Layers[e]
  BY <1>1 DEF b
<1>4. TaskList(e, t) /\ \A n \in 1..Len(t) : t[n] <= b
  BY <1>2, <1>3 DEF TaskList
<1>5. QED
  BY <1>3, <1>4 DEF b, t

(* What TailChunk cuts for worker k: every part has the same size.            *)
TailSize(e, w, p) == MostOf(1, (Layers[e] - PrefixSize(e, p) + w - 1) \div w)
LEMMA TailElements ==
    ASSUME NEW e \in Entries, Layers[e] \in Nat \ {0}, NEW w \in Nat \ {0}, NEW p \in Int,
           NEW k \in 1..w
    PROVE  /\ TailChunk(e, w, p, k) \in Seq(1..Layers[e])
           /\ Len(TailChunk(e, w, p, k)) <= Layers[e]
           /\ TailSize(e, w, p) \in Nat \ {0}
           /\ \A n \in 1..Len(TailChunk(e, w, p, k)) :
                 /\ n <= TailSize(e, w, p)
                 /\ TailChunk(e, w, p, k)[n] = PrefixSize(e, p) + (n + (k - 1) * TailSize(e, w, p))
<1> DEFINE L == Layers[e]
           P == PrefixSize(e, p)
           t == SubSeq(Tasks(e), P + 1, L)
           z == TailSize(e, w, p)
           a == (k - 1) * z
           b == LeastOf(k * z, L - P)
           c == TailChunk(e, w, p, k)
<1>1. P \in 1..L /\ L \in Nat /\ w \in Nat \ {0} /\ k \in Nat \ {0}
  BY PrefixTasks
<1>2. t \in Seq(1..L) /\ Len(t) = L - P /\ \A n \in 1..Len(t) : t[n] = P + n
  <2>1. P + 1 \in Nat \ {0} /\ L <= L
    BY <1>1
  <2>2. /\ t \in Seq(1..L) /\ Len(t) = IF P + 1 <= L THEN L - (P + 1) + 1 ELSE 0
        /\ \A n \in 1..Len(t) : t[n] = (P + 1) + n - 1
    BY <2>1, <1>1, TasksFrom, ZenonT(60)
  <2>3. QED
    BY <1>1, <2>2
<1>3. z \in Nat \ {0}
  <2>1. L - P + w - 1 \in Nat
    BY <1>1
  <2>2. (L - P + w - 1) \div w \in Nat
    BY <2>1, QuotientSmaller
  <2>3. QED
    BY <2>2 DEF MostOf, TailSize
<1>4. c = SubSeq(t, a + 1, b)
  BY <1>2 DEF TailChunk, TailSize
<1>5. a \in Nat /\ k * z = a + z /\ b \in Nat /\ b <= L - P /\ b <= a + z
  <2>1. k - 1 \in Nat
    BY <1>1
  <2>2. a \in Nat
    BY <1>3, <2>1
  <2>3. k * z = a + z
    BY <1>1, <1>3
  <2>4. QED
    BY <1>1, <1>3, <2>2, <2>3 DEF LeastOf
<1> HIDE DEF L, P, t, z, a, b, c
<1>6. \A i \in (a + 1)..b : t[i] \in 1..L
  <2>1. ASSUME NEW i \in (a + 1)..b PROVE t[i] \in 1..L
    <3>1. i \in 1..Len(t) /\ t[i] = P + i
      BY <1>2, <1>5
    <3>2. P + i \in 1..L
      BY <1>1, <1>2, <3>1
    <3>3. QED
      BY <3>1, <3>2
  <2>2. QED
    BY <2>1
<1>7. /\ c \in Seq(1..L) /\ Len(c) = IF a + 1 <= b THEN b - (a + 1) + 1 ELSE 0
      /\ \A i \in 1..(b - (a + 1) + 1) : c[i] = t[(a + 1) + i - 1]
  BY <1>4, <1>5, <1>6, SubSeqProperties
<1>8. Len(c) <= L
  BY <1>1, <1>5, <1>7
<1>9. ASSUME NEW n \in 1..Len(c) PROVE n <= z /\ c[n] = P + (n + a)
  <2>1. a + 1 <= b /\ n \in 1..(b - a)
    BY <1>5, <1>7
  <2>2. n <= z
    BY <1>3, <1>5, <2>1
  <2>3. c[n] = t[(a + 1) + n - 1] /\ (a + 1) + n - 1 = a + n
    BY <1>5, <1>7, <2>1
  <2>4. a + n \in 1..Len(t)
    BY <1>2, <1>5, <2>1
  <2>5. t[a + n] = P + (a + n)
    BY <1>2, <2>4
  <2>6. QED
    BY <1>1, <1>5, <2>2, <2>3, <2>5
<1>10. QED
  BY <1>3, <1>7, <1>8, <1>9 DEF L, P, z, a, c

(* The tail's parts are disjoint, and disjoint from what the caller keeps.    *)
LEMMA TailsApart ==
    ASSUME NEW e \in Entries, Layers[e] \in Nat \ {0}, NEW w \in Nat \ {0}, NEW p \in Int,
           NEW k \in 1..w
    PROVE  /\ TaskList(e, TailChunk(e, w, p, k))
           /\ \A i \in 1..w : i # k => Apart(TailChunk(e, w, p, k), TailChunk(e, w, p, i))
           /\ Apart(TailChunk(e, w, p, k), SubSeq(Tasks(e), 1, PrefixSize(e, p)))
           /\ Apart(SubSeq(Tasks(e), 1, PrefixSize(e, p)), TailChunk(e, w, p, k))
<1> DEFINE P == PrefixSize(e, p)
           z == TailSize(e, w, p)
           c(i) == TailChunk(e, w, p, i)
           s == SubSeq(Tasks(e), 1, P)
<1>1. P \in Nat /\ \A n \in 1..Len(s) : s[n] <= P /\ s[n] \in Nat
  <2>1. /\ P \in 1..Layers[e] /\ s \in Seq(1..Layers[e])
        /\ \A n \in 1..Len(s) : s[n] <= P
    BY PrefixTasks DEF TaskList
  <2> HIDE DEF s, P
  <2>2. QED
    BY <2>1
<1>2. \A i \in 1..w : c(i) \in Seq(1..Layers[e]) /\ z \in Nat \ {0} /\ Len(c(i)) \in Nat /\ Len(c(i)) <= Layers[e]
  BY TailElements
<1>3. \A i \in 1..w : \A n \in 1..Len(c(i)) : n \in 1..z /\ c(i)[n] = P + (n + (i - 1) * z)
  BY <1>2, TailElements
<1> HIDE DEF P, z, c, s
<1>4. ASSUME NEW i \in 1..w, NEW m \in 1..Len(c(k)), NEW n \in 1..Len(c(i)), c(k)[m] = c(i)[n]
      PROVE  i = k /\ m = n
  <2>1. /\ m \in 1..z /\ n \in 1..z /\ c(k)[m] = P + (m + (k - 1) * z)
        /\ c(i)[n] = P + (n + (i - 1) * z) /\ z \in Nat \ {0}
    BY <1>2, <1>3
  <2>2. k - 1 \in Nat /\ i - 1 \in Nat /\ (k - 1) * z \in Nat /\ (i - 1) * z \in Nat
    BY <2>1
  <2>3. m + (k - 1) * z = n + (i - 1) * z
    <3> DEFINE u == (k - 1) * z
               v == (i - 1) * z
    <3>1. u \in Nat /\ v \in Nat /\ c(k)[m] = P + (m + u) /\ c(i)[n] = P + (n + v)
      BY <2>1, <2>2
    <3> HIDE DEF u, v
    <3>2. P + (m + u) = P + (n + v)
      BY ONLY <1>4, <3>1
    <3>3. m \in Nat /\ n \in Nat /\ P \in Nat
      BY <1>1, <2>1
    <3>4. m + u = n + v
      BY ONLY <3>1, <3>2, <3>3
    <3>5. QED
      BY <3>4 DEF u, v
  <2>4. m = n /\ k - 1 = i - 1
    BY ONLY <2>1, <2>2, <2>3, StridesSeparate
  <2>5. QED
    BY <2>4
<1>5. ASSUME NEW m \in 1..Len(c(k)), NEW n \in 1..Len(s) PROVE c(k)[m] # s[n]
  <2>1. m \in 1..z /\ c(k)[m] = P + (m + (k - 1) * z) /\ z \in Nat \ {0}
    BY <1>2, <1>3
  <2>2. k - 1 \in Nat /\ (k - 1) * z \in Nat
    BY <2>1
  <2>3. c(k)[m] > P
    <3> DEFINE u == (k - 1) * z
    <3>1. u \in Nat /\ c(k)[m] = P + (m + u)
      BY <2>1, <2>2
    <3> HIDE DEF u
    <3>2. QED
      BY <1>1, <2>1, <3>1
  <2>4. QED
    BY <1>1, <2>3
<1>6. TaskList(e, c(k))
  BY <1>2, <1>4 DEF TaskList
<1>7. \A i \in 1..w : i # k => Apart(c(k), c(i))
  BY <1>4 DEF Apart
<1>8. Apart(c(k), s) /\ Apart(s, c(k))
  BY <1>5 DEF Apart
<1>9. QED
  BY <1>6, <1>7, <1>8 DEF c, s, P

(* The job that a plan gives to worker k; worker 0 is a pipeline's caller.    *)
Part(r, e, k) ==
    LET w == dep.workers[r] p == dep.prefix[r] IN
    IF k = 0 THEN Job(UpdateStream(r), SubSeq(Tasks(e), 1, PrefixSize(e, p)), "caller")
    ELSE IF dep.mode[r] = "pipeline" THEN Job(PoolStream(r, k), TailChunk(e, w, p, k), "pool")
    ELSE Job(PoolStream(r, k), Chunk(e, w, k), IF k = 1 /\ dep.mode[r] = "join" THEN "caller" ELSE "pool")

(* What a dispatch starts are parts of its plan that have tasks.              *)
LEMMA DispatchedParts ==
    ASSUME TypeInv, NEW r \in Roles, NEW e, NEW j \in Dispatched(r, e)
    PROVE  /\ j.todo # <<>>
           /\ \E k \in 0..dep.workers[r] : /\ j = Part(r, e, k)
                                           /\ k = 0 => dep.mode[r] = "pipeline"
<1> DEFINE w == dep.workers[r] p == dep.prefix[r]
<1>1. w \in Nat /\ dep.mode[r] \in {"join", "defer", "pipeline"}
  BY DeploymentAssumption, PoolFacts DEF TypeInv, Typed, DeploymentType
<1>2. j.todo # <<>>
  BY DEF Dispatched
<1>3. CASE dep.mode[r] = "join"
  <2>1. j \in JoinJobs(r, e, w)
    BY <1>3 DEF Dispatched
  <2>2. PICK k \in 1..w : j = Job(PoolStream(r, k), Chunk(e, w, k), IF k = 1 THEN "caller" ELSE "pool")
    BY <2>1 DEF JoinJobs
  <2>3. k \in 0..w /\ k # 0
    BY <1>1
  <2>4. j = Part(r, e, k)
    BY <1>3, <2>2, <2>3 DEF Part
  <2>5. QED
    BY <1>2, <2>3, <2>4
<1>4. CASE dep.mode[r] = "defer"
  <2>1. j \in DeferJobs(r, e, w)
    BY <1>4 DEF Dispatched
  <2>2. PICK k \in 1..w : j = Job(PoolStream(r, k), Chunk(e, w, k), "pool")
    BY <2>1 DEF DeferJobs
  <2>3. k \in 0..w /\ k # 0
    BY <1>1
  <2>4. j = Part(r, e, k)
    BY <1>4, <2>2, <2>3 DEF Part
  <2>5. QED
    BY <1>2, <2>3, <2>4
<1>5. CASE dep.mode[r] = "pipeline"
  <2>1. j \in PipelineJobs(r, e, w, p)
    BY <1>5 DEF Dispatched
  <2>2. CASE j = Job(UpdateStream(r), SubSeq(Tasks(e), 1, PrefixSize(e, p)), "caller")
    <3>1. j = Part(r, e, 0) /\ 0 \in 0..w
      BY <1>1, <2>2 DEF Part
    <3>2. QED
      BY <1>2, <1>5, <3>1
  <2>3. CASE \E k \in 1..w : j = Job(PoolStream(r, k), TailChunk(e, w, p, k), "pool")
    <3>1. PICK k \in 1..w : j = Job(PoolStream(r, k), TailChunk(e, w, p, k), "pool")
      BY <2>3
    <3>2. k \in 0..w /\ k # 0
      BY <1>1
    <3>3. j = Part(r, e, k)
      BY <1>5, <3>1, <3>2 DEF Part
    <3>4. QED
      BY <1>2, <1>5, <3>2, <3>3
  <2>4. QED
    BY <2>1, <2>2, <2>3 DEF PipelineJobs
<1>6. QED
  BY <1>1, <1>3, <1>4, <1>5

(* A part is a job of its worker's stream, with distinct tasks.               *)
LEMMA PartFacts ==
    ASSUME TypeInv, host.pc = "retire", NEW r, r = host.role, NEW e, e = host.entry, Planned(r, e),
           NEW k \in 0..dep.workers[r]
    PROVE  /\ Part(r, e, k) \in JobType /\ TaskList(e, Part(r, e, k).todo)
           /\ Part(r, e, k).stream = IF k = 0 THEN UpdateStream(r) ELSE PoolStream(r, k)
           /\ Part(r, e, k).role = r /\ Part(r, e, k).entry = e /\ Part(r, e, k).step = host.step
           /\ Part(r, e, k).at = "gate"
           /\ Part(r, e, k).by = IF k = 0 \/ (k = 1 /\ dep.mode[r] = "join") THEN "caller" ELSE "pool"
<1> DEFINE w == dep.workers[r] p == dep.prefix[r]
<1>1. /\ r \in Roles /\ e \in Entries /\ host.step \in Steps
  BY DEF TypeInv, Typed, HostType, HostLaunched, Steps
<1>2. w \in Nat \ {0} /\ w <= Layers[e] /\ p \in Int /\ dep.mode[r] \in {"join", "defer", "pipeline"}
  <2>1. w \in Nat /\ dep \in DeploymentType
    BY <1>1, DeploymentAssumption, PoolFacts DEF TypeInv, Typed
  <2>2. QED
    BY <1>1, <2>1 DEF Planned, HasState, DeploymentType
<1>3. Layers[e] \in 1..MaxLayers /\ MaxLayers \in Nat /\ Layers[e] \in Nat \ {0}
  BY <1>1, LayerFacts
<1>4. ASSUME NEW s \in Updates, NEW t, TaskList(e, t), NEW by \in {"pool", "caller"}
      PROVE  /\ Job(s, t, by) \in JobType /\ Job(s, t, by).todo = t /\ Job(s, t, by).stream = s
             /\ Job(s, t, by).role = r /\ Job(s, t, by).entry = e
             /\ Job(s, t, by).step = host.step /\ Job(s, t, by).at = "gate" /\ Job(s, t, by).by = by
  <2>1. t \in Seq(1..MaxLayers)
    BY <1>3, <1>4 DEF TaskList
  <2>2. QED
    BY <1>1, <1>4, <2>1 DEF Job, JobType
<1>5. CASE k = 0
  <2>1. TaskList(e, SubSeq(Tasks(e), 1, PrefixSize(e, p))) /\ UpdateStream(r) \in Updates
    BY <1>1, <1>2, <1>3, PrefixTasks, PoolFacts
  <2>2. Part(r, e, k) = Job(UpdateStream(r), SubSeq(Tasks(e), 1, PrefixSize(e, p)), "caller")
    BY <1>5 DEF Part
  <2>3. QED
    BY <1>4, <1>5, <2>1, <2>2
<1>6. CASE k # 0 /\ dep.mode[r] = "pipeline"
  <2>1. k \in 1..w
    BY <1>2, <1>6
  <2>2. TaskList(e, TailChunk(e, w, p, k)) /\ PoolStream(r, k) \in Updates
    BY <1>1, <1>2, <1>3, <2>1, TailsApart, PoolFacts
  <2>3. Part(r, e, k) = Job(PoolStream(r, k), TailChunk(e, w, p, k), "pool")
    BY <1>6 DEF Part
  <2>4. QED
    BY <1>4, <1>6, <2>2, <2>3
<1>7. CASE k # 0 /\ dep.mode[r] # "pipeline"
  <2> DEFINE by == IF k = 1 /\ dep.mode[r] = "join" THEN "caller" ELSE "pool"
  <2>1. k \in 1..w /\ by \in {"pool", "caller"}
    BY <1>2, <1>7
  <2>2. TaskList(e, Chunk(e, w, k)) /\ PoolStream(r, k) \in Updates
    BY <1>1, <1>2, <1>3, <2>1, ChunksApart, PoolFacts
  <2>3. Part(r, e, k) = Job(PoolStream(r, k), Chunk(e, w, k), by)
    BY <1>7 DEF Part
  <2>4. QED
    BY <1>4, <1>7, <2>1, <2>2, <2>3
<1>8. QED
  BY <1>5, <1>6, <1>7

(* Two parts of one plan share no task.                                       *)
LEMMA PartsApart ==
    ASSUME TypeInv, host.pc = "retire", NEW r, r = host.role, NEW e, e = host.entry, Planned(r, e),
           NEW i \in 0..dep.workers[r], NEW k \in 0..dep.workers[r], i # k,
           i = 0 \/ k = 0 => dep.mode[r] = "pipeline"
    PROVE  Apart(Part(r, e, i).todo, Part(r, e, k).todo)
<1> DEFINE w == dep.workers[r] p == dep.prefix[r]
           s == SubSeq(Tasks(e), 1, PrefixSize(e, p))
<1>1. r \in Roles /\ e \in Entries
  BY DEF TypeInv, Typed, HostType
<1>2. w \in Nat \ {0} /\ w <= Layers[e] /\ p \in Int
  <2>1. w \in Nat /\ dep \in DeploymentType
    BY <1>1, DeploymentAssumption, PoolFacts DEF TypeInv, Typed
  <2>2. QED
    BY <1>1, <2>1 DEF Planned, HasState, DeploymentType
<1>3. Layers[e] \in Nat \ {0}
  BY <1>1, LayerFacts
<1>4. CASE dep.mode[r] = "pipeline"
  <2>1. \A n \in 0..w : Part(r, e, n).todo = IF n = 0 THEN s ELSE TailChunk(e, w, p, n)
    BY <1>4 DEF Part, Job
  <2>2. CASE i = 0
    <3>1. k \in 1..w
      BY <1>2, <2>2
    <3>2. Apart(s, TailChunk(e, w, p, k))
      BY <1>1, <1>2, <1>3, <3>1, TailsApart
    <3>3. QED
      BY <2>1, <2>2, <3>1, <3>2
  <2>3. CASE k = 0
    <3>1. i \in 1..w
      BY <1>2, <2>3
    <3>2. Apart(TailChunk(e, w, p, i), s)
      BY <1>1, <1>2, <1>3, <3>1, TailsApart
    <3>3. QED
      BY <2>1, <2>3, <3>1, <3>2
  <2>4. CASE i # 0 /\ k # 0
    <3>1. i \in 1..w /\ k \in 1..w
      BY <1>2, <2>4
    <3>2. Apart(TailChunk(e, w, p, i), TailChunk(e, w, p, k))
      BY <1>1, <1>2, <1>3, <3>1, TailsApart
    <3>3. QED
      BY <2>1, <2>4, <3>1, <3>2
  <2>5. QED
    BY <2>2, <2>3, <2>4
<1>5. CASE dep.mode[r] # "pipeline"
  <2>1. i \in 1..w /\ k \in 1..w
    BY <1>2, <1>5
  <2>2. Part(r, e, i).todo = Chunk(e, w, i) /\ Part(r, e, k).todo = Chunk(e, w, k)
    BY <1>5, <2>1 DEF Part, Job
  <2>3. Apart(Chunk(e, w, i), Chunk(e, w, k))
    BY <1>1, <1>2, <1>3, <2>1, ChunksApart
  <2>4. QED
    BY <2>2, <2>3
<1>6. QED
  BY <1>4, <1>5

(* A job is one of a thread of the pool, or the caller's own.                 *)
OnPool(j) == j.stream[1] = StateOf(j.role) /\ j.stream[2] \in 1..MaxWorkers
OnUpdate(j) == j.stream = UpdateStream(j.role)

(* All that the invariants need to know of the jobs a dispatch starts.        *)
LEMMA DispatchedFacts ==
    ASSUME TypeInv, host.pc = "retire", NEW r, r = host.role, NEW e, e = host.entry, Planned(r, e)
    PROVE  /\ \A j \in Dispatched(r, e) :
                 /\ j \in JobType /\ TaskList(e, j.todo) /\ j.todo # <<>>
                 /\ j.stream[2] <= dep.workers[r]
                 /\ j.role = r /\ j.entry = e /\ j.step = host.step /\ j.at = "gate"
                 /\ OnPool(j) \/ (j.by = "caller" /\ OnUpdate(j))
                 /\ j.by = "caller" => dep.mode[r] # "defer"
           /\ \A i, j \in Dispatched(r, e) : i # j => i.stream # j.stream /\ Apart(i.todo, j.todo)
<1> DEFINE w == dep.workers[r]
<1>1. r \in Roles /\ e \in Entries
  BY DEF TypeInv, Typed, HostType
<1>2. w \in 0..MaxWorkers /\ MaxWorkers \in Nat
  BY <1>1, PoolFacts, MaxWorkersFacts
<1>3. ASSUME NEW j \in Dispatched(r, e)
      PROVE  /\ j \in JobType /\ TaskList(e, j.todo) /\ j.todo # <<>>
             /\ j.stream[2] <= dep.workers[r]
             /\ j.role = r /\ j.entry = e /\ j.step = host.step /\ j.at = "gate"
             /\ OnPool(j) \/ (j.by = "caller" /\ OnUpdate(j))
             /\ j.by = "caller" => dep.mode[r] # "defer"
  <2>1. j.todo # <<>>
    BY <1>1, DispatchedParts
  <2>2. PICK k \in 0..w : j = Part(r, e, k) /\ (k = 0 => dep.mode[r] = "pipeline")
    BY <1>1, DispatchedParts
  <2>3. /\ j \in JobType /\ TaskList(e, j.todo)
        /\ j.stream = IF k = 0 THEN UpdateStream(r) ELSE PoolStream(r, k)
        /\ j.role = r /\ j.entry = e /\ j.step = host.step
        /\ j.at = "gate"
        /\ j.by = IF k = 0 \/ (k = 1 /\ dep.mode[r] = "join") THEN "caller" ELSE "pool"
    BY <2>2, PartFacts
  <2>4. j.stream[2] = k
    BY <2>3 DEF UpdateStream, PoolStream
  <2>5. OnPool(j) \/ (j.by = "caller" /\ OnUpdate(j))
    <3>1. CASE k = 0
      BY <2>3, <3>1 DEF OnUpdate
    <3>2. CASE k # 0
      <4>1. k \in 1..MaxWorkers
        BY <1>2, <3>2
      <4>2. j.stream = <<StateOf(j.role), k>>
        BY <2>3, <3>2 DEF PoolStream
      <4>3. QED
        BY <4>1, <4>2 DEF OnPool
    <3>3. QED
      BY <3>1, <3>2
  <2>6. j.by = "caller" => dep.mode[r] # "defer"
    BY <2>2, <2>3
  <2>7. QED
    BY <1>2, <2>1, <2>3, <2>4, <2>5, <2>6
<1>4. ASSUME NEW i \in Dispatched(r, e), NEW j \in Dispatched(r, e), i # j
      PROVE  i.stream # j.stream /\ Apart(i.todo, j.todo)
  <2>1. PICK m \in 0..w : i = Part(r, e, m) /\ (m = 0 => dep.mode[r] = "pipeline")
    BY <1>1, DispatchedParts
  <2>2. PICK n \in 0..w : j = Part(r, e, n) /\ (n = 0 => dep.mode[r] = "pipeline")
    BY <1>1, DispatchedParts
  <2>3. m # n
    BY <1>4, <2>1, <2>2
  <2>4. Apart(i.todo, j.todo)
    BY <2>1, <2>2, <2>3, PartsApart
  <2>5. i.stream[2] = m /\ j.stream[2] = n
    <3>1. i.stream = IF m = 0 THEN UpdateStream(r) ELSE PoolStream(r, m)
      BY <2>1, PartFacts
    <3>2. j.stream = IF n = 0 THEN UpdateStream(r) ELSE PoolStream(r, n)
      BY <2>2, PartFacts
    <3>3. QED
      BY <3>1, <3>2 DEF UpdateStream, PoolStream
  <2>6. QED
    BY <2>3, <2>4, <2>5
<1>5. QED
  BY <1>3, <1>4

--------------------------------------------------------------------------------
(* The queues.                                                                *)

(* A place of a longer sequence is an old one or the new one.                 *)
LEMMA AppendPlaces ==
    ASSUME NEW S, NEW s \in Seq(S), NEW x \in S
    PROVE  /\ Append(s, x) \in Seq(S) /\ Len(Append(s, x)) = Len(s) + 1 /\ Len(s) \in Nat
           /\ \A n \in 1..Len(s) : Append(s, x)[n] = s[n]
           /\ Append(s, x)[Len(s) + 1] = x
OBVIOUS

(* What is left of a sequence without its head.                               *)
LEMMA TailPlaces ==
    ASSUME NEW S, NEW s \in Seq(S), s # <<>>
    PROVE  /\ Tail(s) \in Seq(S) /\ Len(Tail(s)) = Len(s) - 1 /\ Len(s) \in Nat \ {0}
           /\ \A n \in 1..Len(Tail(s)) : Tail(s)[n] = s[n + 1] /\ n + 1 \in 1..Len(s)
           /\ Head(s) = s[1] /\ Head(s) \in S /\ 1 \in 1..Len(s)
OBVIOUS

(* Joined sequences.                                                          *)
LEMMA JoinPlaces ==
    ASSUME NEW S, NEW s \in Seq(S), NEW t \in Seq(S)
    PROVE  /\ s \o t \in Seq(S) /\ Len(s \o t) = Len(s) + Len(t) /\ Len(s) \in Nat /\ Len(t) \in Nat
           /\ \A n \in 1..Len(s) : (s \o t)[n] = s[n]
           /\ \A n \in 1..Len(t) : (s \o t)[Len(s) + n] = t[n]
<1>1. /\ s \o t \in Seq(S) /\ Len(s \o t) = Len(s) + Len(t) /\ Len(s) \in Nat /\ Len(t) \in Nat
      /\ \A n \in 1..(Len(s) + Len(t)) : (s \o t)[n] = IF n <= Len(s) THEN s[n] ELSE t[n - Len(s)]
  BY ConcatProperties
<1>2. ASSUME NEW n \in 1..Len(s) PROVE (s \o t)[n] = s[n]
  BY <1>1
<1>3. ASSUME NEW n \in 1..Len(t) PROVE (s \o t)[Len(s) + n] = t[n]
  <2>1. Len(s) + n \in 1..(Len(s) + Len(t)) /\ ~(Len(s) + n <= Len(s)) /\ (Len(s) + n) - Len(s) = n
    BY <1>1
  <2>2. QED
    BY <1>1, <2>1
<1>4. QED
  BY <1>1, <1>2, <1>3

(* One stream is given another sequence of operations.                        *)
Put(q, s, z) == [q EXCEPT ![s] = z]
LEMMA QueuePut ==
    ASSUME NEW q, QueuesTyped(q), NEW s \in Streams, NEW z,
           z \in Seq(OpsOf(s))
    PROVE  /\ QueuesTyped(Put(q, s, z)) /\ Put(q, s, z)[s] = z
           /\ \A t \in Streams : t # s => Put(q, s, z)[t] = q[t]
<1> DEFINE p == Put(q, s, z)
<1>1. q \in [Streams -> Seq(UpdateOp) \cup Seq(ReplayOp)]
  BY DEF QueuesTyped
<1>2. p[s] = z /\ \A t \in Streams : t # s => p[t] = q[t]
  BY <1>1 DEF Put
<1>3. p \in [Streams -> Seq(UpdateOp) \cup Seq(ReplayOp)]
  <2>1. z \in Seq(UpdateOp) \cup Seq(ReplayOp)
    BY DEF OpsOf
  <2>2. QED
    BY <1>1, <2>1 DEF Put
<1> HIDE DEF p
<1>4. \A t \in Streams : p[t] \in Seq(OpsOf(t))
  BY <1>2 DEF QueuesTyped
<1>5. QueuesTyped(p)
  BY <1>3, <1>4 DEF QueuesTyped
<1>6. QED
  BY <1>2, <1>5 DEF p

(* An operation of a launched step is enqueued on an update stream.           *)
Enq(q, s, o) == [q EXCEPT ![s] = Append(@, o)]
LEMMA Enqueued ==
    ASSUME NEW q, QueuesTyped(q), NEW s \in Updates, NEW o \in UpdateOp,
           NEW p, p = Enq(q, s, o)
    PROVE  /\ QueuesTyped(p) /\ p[s] = Append(q[s], o) /\ p[Compute] = q[Compute]
           /\ \A t \in Streams : t # s => p[t] = q[t]
           /\ \A c \in Nat : QueueLaunched(q, c) /\ o.step <= c => QueueLaunched(p, c)
<1>1. s \in Streams /\ s # Compute /\ Compute \in Streams /\ q[s] \in Seq(UpdateOp)
  BY StreamFacts DEF QueuesTyped, OpsOf
<1>2. Append(q[s], o) \in Seq(UpdateOp)
  BY <1>1, AppendPlaces
<1> DEFINE y == Append(q[s], o)
<1>3. y \in Seq(OpsOf(s)) /\ p = Put(q, s, y)
  BY <1>1, <1>2 DEF OpsOf, Put, Enq
<1> HIDE DEF y
<1>4. QueuesTyped(p) /\ p[s] = Append(q[s], o) /\ \A t \in Streams : t # s => p[t] = q[t]
  <2>1. s \in Streams
    BY <1>1
  <2>2. QueuesTyped(p) /\ p[s] = y /\ \A t \in Streams : t # s => p[t] = q[t]
    BY <1>3, <2>1, QueuePut
  <2>3. QED
    BY <2>2 DEF y
<1>5. ASSUME NEW c \in Nat, QueueLaunched(q, c), o.step <= c,
             NEW t \in Streams, NEW n \in 1..Len(p[t])
      PROVE  p[t][n].step <= c
  <2>1. CASE t # s
    BY <1>4, <1>5, <2>1 DEF QueueLaunched
  <2>2. CASE t = s
    <3>1. n \in 1..(Len(q[s]) + 1) /\ Len(q[s]) \in Nat
      BY <1>1, <1>4, <1>5, <2>2, AppendPlaces
    <3>2. CASE n = Len(q[s]) + 1
      BY <1>1, <1>4, <1>5, <2>2, <3>2, AppendPlaces
    <3>3. CASE n # Len(q[s]) + 1
      <4>1. n \in 1..Len(q[s]) /\ p[t][n] = q[s][n]
        BY <1>1, <1>4, <2>2, <3>1, <3>3, AppendPlaces
      <4>2. QED
        BY <1>1, <1>5, <4>1 DEF QueueLaunched
    <3>4. QED
      BY <3>2, <3>3
  <2>3. QED
    BY <2>1, <2>2
<1>6. QED
  BY <1>1, <1>4, <1>5 DEF QueueLaunched

(* All bindings of one update are enqueued by the host.                       *)
StepsUpTo(z, c) == \A n \in 1..Len(z) : z[n].step <= c
EnqAll(q, s, z) == [q EXCEPT ![s] = @ \o z]
LEMMA EnqueuedAll ==
    ASSUME NEW q, QueuesTyped(q), NEW s \in Updates, NEW z \in Seq(UpdateOp),
           NEW p, p = EnqAll(q, s, z)
    PROVE  /\ QueuesTyped(p) /\ p[s] = q[s] \o z /\ p[Compute] = q[Compute]
           /\ \A t \in Streams : t # s => p[t] = q[t]
           /\ \A c \in Nat : QueueLaunched(q, c) /\ StepsUpTo(z, c) => QueueLaunched(p, c)
<1>1. s \in Streams /\ s # Compute /\ Compute \in Streams /\ q[s] \in Seq(UpdateOp)
  BY StreamFacts DEF QueuesTyped, OpsOf
<1>2. q[s] \o z \in Seq(UpdateOp)
  BY <1>1, JoinPlaces
<1> DEFINE y == q[s] \o z
<1>3. y \in Seq(OpsOf(s)) /\ p = Put(q, s, y)
  BY <1>1, <1>2 DEF OpsOf, Put, EnqAll
<1> HIDE DEF y
<1>4. QueuesTyped(p) /\ p[s] = q[s] \o z /\ \A t \in Streams : t # s => p[t] = q[t]
  <2>1. s \in Streams
    BY <1>1
  <2>2. QueuesTyped(p) /\ p[s] = y /\ \A t \in Streams : t # s => p[t] = q[t]
    BY <1>3, <2>1, QueuePut
  <2>3. QED
    BY <2>2 DEF y
<1>5. ASSUME NEW c \in Nat, QueueLaunched(q, c), StepsUpTo(z, c),
             NEW t \in Streams, NEW n \in 1..Len(p[t])
      PROVE  p[t][n].step <= c
  <2>1. CASE t # s
    BY <1>4, <1>5, <2>1 DEF QueueLaunched
  <2>2. CASE t = s
    <3>1. n \in 1..(Len(q[s]) + Len(z)) /\ Len(q[s]) \in Nat /\ Len(z) \in Nat
      BY <1>1, <1>4, <1>5, <2>2, JoinPlaces
    <3>2. CASE n <= Len(q[s])
      <4>1. n \in 1..Len(q[s]) /\ p[t][n] = q[s][n]
        BY <1>1, <1>4, <2>2, <3>1, <3>2, JoinPlaces
      <4>2. QED
        BY <1>1, <1>5, <4>1 DEF QueueLaunched
    <3>3. CASE n > Len(q[s])
      <4> DEFINE i == n - Len(q[s])
      <4>1. i \in 1..Len(z) /\ n = Len(q[s]) + i
        BY <3>1, <3>3
      <4> HIDE DEF i
      <4>2. p[t][n] = z[i]
        BY <1>1, <1>4, <2>2, <4>1, JoinPlaces
      <4>3. QED
        BY <1>5, <4>1, <4>2 DEF StepsUpTo
    <3>4. QED
      BY <3>1, <3>2, <3>3
  <2>3. QED
    BY <2>1, <2>2
<1>6. QED
  BY <1>1, <1>4, <1>5 DEF QueueLaunched

(* A stream runs the operation at its head.                                   *)
Deq(q, s) == [q EXCEPT ![s] = Tail(@)]
LEMMA Dequeued ==
    ASSUME NEW q, QueuesTyped(q), NEW s \in Streams, q[s] # <<>>,
           NEW p, p = Deq(q, s)
    PROVE  /\ QueuesTyped(p) /\ p[s] = Tail(q[s])
           /\ \A t \in Streams : t # s => p[t] = q[t]
           /\ \A c \in Nat : QueueLaunched(q, c) => QueueLaunched(p, c)
<1>1. q[s] \in Seq(OpsOf(s))
  BY DEF QueuesTyped
<1>2. Tail(q[s]) \in Seq(OpsOf(s))
  BY <1>1, TailPlaces
<1>3. QueuesTyped(p) /\ p[s] = Tail(q[s]) /\ \A t \in Streams : t # s => p[t] = q[t]
  <2> DEFINE y == Tail(q[s])
  <2>1. y \in Seq(OpsOf(s)) /\ p = Put(q, s, y)
    BY <1>2 DEF Put, Deq
  <2> HIDE DEF y
  <2>2. QueuesTyped(p) /\ p[s] = y /\ \A t \in Streams : t # s => p[t] = q[t]
    BY <2>1, QueuePut
  <2>3. QED
    BY <2>2 DEF y
<1>4. ASSUME NEW c \in Nat, QueueLaunched(q, c), NEW t \in Streams, NEW n \in 1..Len(p[t])
      PROVE  p[t][n].step <= c
  <2>1. CASE t # s
    BY <1>3, <1>4, <2>1 DEF QueueLaunched
  <2>2. CASE t = s
    <3>1. p[t][n] = q[s][n + 1] /\ n + 1 \in 1..Len(q[s])
      <4>1. q[s] # <<>>
        OBVIOUS
      <4>2. \A i \in 1..Len(Tail(q[s])) : Tail(q[s])[i] = q[s][i + 1] /\ i + 1 \in 1..Len(q[s])
        BY ONLY <1>1, <4>1, TailPlaces
      <4>3. p[t] = Tail(q[s])
        BY <1>3, <2>2
      <4>4. QED
        BY <1>4, <4>2, <4>3
    <3>2. QED
      BY <1>4, <3>1 DEF QueueLaunched
  <2>3. QED
    BY <2>1, <2>2
<1>5. QED
  BY <1>3, <1>4 DEF QueueLaunched

(* The head of a stream, by the kind of the stream.                           *)
LEMMA HeadOp ==
    ASSUME TypeInv, NEW s \in Streams, queue[s] # <<>>
    PROVE  /\ Head(queue[s]) = queue[s][1] /\ 1 \in 1..Len(queue[s])
           /\ Head(queue[s]) \in UpdateOp \cup ReplayOp
           /\ Head(queue[s]) \in ReplayOp <=> s = Compute
           /\ Head(queue[s]) \in UpdateOp <=> s # Compute
           /\ Head(queue[s]).step <= count
<1>1. queue[s] \in Seq(OpsOf(s))
  BY DEF TypeInv, Typed, QueuesTyped
<1>2. Head(queue[s]) = queue[s][1] /\ Head(queue[s]) \in OpsOf(s) /\ 1 \in 1..Len(queue[s])
  BY <1>1, TailPlaces
<1>3. \A o \in UpdateOp : o.op # "replay"
  BY DEF UpdateOp, BindOp
<1>4. \A o \in ReplayOp : o.op = "replay"
  BY DEF ReplayOp
<1>5. QED
  BY <1>2, <1>3, <1>4 DEF TypeInv, QueueLaunched, OpsOf

--------------------------------------------------------------------------------
(* Every step keeps the types.                                                *)

(* A host that gives up, or a call that leaves its tail running, changes only *)
(* its own record, the jobs it has joined and the handles it keeps.           *)
LEMMA HostStepTyped ==
    ASSUME TypeInv, UNCHANGED <<dep, count, last, dependency, device>>,
           host' \in HostType, host'.step = host.step,
           host'.pc \in {"update", "retire", "call"} => host.pc \in {"update", "retire", "call"},
           jobs' \in SUBSET jobs, pending' \in [Roles -> SUBSET Steps],
           \A r \in Roles : \A k \in pending'[r] : k <= count
    PROVE  TypeInv'
<1>1. /\ dep' = dep /\ count' = count /\ last' = last /\ dependency' = dependency /\ queue' = queue
      /\ param' = param /\ flag' = flag /\ passed' = passed /\ finished' = finished
  BY DEF device
<1>2. Typed'
  BY <1>1 DEF TypeInv, Typed
<1>3. HostLaunched'
  BY <1>1 DEF TypeInv, HostLaunched
<1>4. JobsLaunched' /\ JobShapes'
  BY <1>1 DEF TypeInv, JobsLaunched, JobShapes, JobShape
<1>5. HandlesLaunched'
  BY <1>1 DEF TypeInv, HandlesLaunched
<1>6. QueueLaunched(queue, count)' /\ DeviceLaunched' /\ ReplayShapes(queue)'
  BY <1>1 DEF TypeInv, QueueLaunched, DeviceLaunched, ReplayShapes, Layers
<1>7. QED
  BY <1>2, <1>3, <1>4, <1>5, <1>6 DEF TypeInv

(* What a state keeps when its handles are dropped.                           *)
LEMMA ForgottenFacts ==
    ASSUME TypeInv, NEW r \in Roles
    PROVE  /\ Forgotten(r) \in [Roles -> SUBSET Steps]
           /\ Forgotten(r)[StateOf(r)] = {}
           /\ \A x \in Roles : x # StateOf(r) => Forgotten(r)[x] = pending[x]
           /\ \A x \in Roles : \A k \in Forgotten(r)[x] : k \in pending[x] /\ k <= count
<1>1. StateOf(r) \in Roles /\ pending \in [Roles -> SUBSET Steps]
  BY DEF StateOf, Roles, TypeInv, Typed
<1>2. Forgotten(r) \in [Roles -> SUBSET Steps] /\ Forgotten(r)[StateOf(r)] = {}
  BY <1>1 DEF Forgotten
<1>3. \A x \in Roles : x # StateOf(r) => Forgotten(r)[x] = pending[x]
  BY <1>1 DEF Forgotten
<1>4. QED
  BY <1>2, <1>3 DEF TypeInv, HandlesLaunched

(* An error that is raised only moves the host and forgets what was pending.  *)
LEMMA RaiseTyped ==
    ASSUME TypeInv, Raise, NEW r \in Roles, pending' = Forgotten(r) \/ pending' = pending
    PROVE  TypeInv'
<1>1. /\ host' \in HostType /\ host'.step = host.step /\ host'.pc = "raised"
      /\ UNCHANGED <<dep, count, last, dependency, device>> /\ jobs' = jobs
  BY DEF Raise, TypeInv, Typed, HostType
<1>2. pending' \in [Roles -> SUBSET Steps] /\ \A x \in Roles : \A k \in pending'[x] : k <= count
  <2>1. CASE pending' = Forgotten(r)
    BY <2>1, ForgottenFacts
  <2>2. CASE pending' = pending
    BY <2>2 DEF TypeInv, Typed, HandlesLaunched
  <2>3. QED
    BY <2>1, <2>2
<1>3. QED
  BY <1>1, <1>2, HostStepTyped

(* The caller returns from a dispatch with its own jobs done.                 *)
LEMMA CallSucceedsTyped ==
    ASSUME TypeInv, CallSucceeds
    PROVE  TypeInv'
<1>1. /\ host' \in HostType /\ host'.step = host.step /\ host'.pc = "idle"
      /\ UNCHANGED <<dep, count, last, dependency, device>>
  BY DEF CallSucceeds, TypeInv, Typed, HostType
<1>2. jobs' \in SUBSET jobs
  BY DEF CallSucceeds
<1>3. host.role \in Roles /\ StateOf(host.role) \in Roles /\ host.step \in Steps /\ host.step <= count
  BY DEF TypeInv, Typed, HostType, HostLaunched, CallSucceeds, Steps, StateOf, Roles
<1>4. pending' \in [Roles -> SUBSET Steps] /\ \A x \in Roles : \A k \in pending'[x] : k <= count
  <2>1. \/ pending' = pending
        \/ pending' = [pending EXCEPT ![StateOf(host.role)] = {host.step}]
    BY DEF CallSucceeds
  <2>2. QED
    BY <1>3, <2>1 DEF TypeInv, Typed, HandlesLaunched
<1>5. QED
  BY <1>1, <1>2, <1>4, HostStepTyped

(* A replay is appended to the compute stream.                                *)
ReplayOf(r, e, k) == [op |-> "replay", role |-> r, entry |-> e, step |-> k, node |-> 1, reads |-> FALSE]
LEMMA LaunchQueue ==
    ASSUME TypeInv, NEW r \in Roles, NEW e \in Entries, Launch(r, e)
    PROVE  /\ QueuesTyped(queue')
           /\ queue'[Compute] = Append(queue[Compute], ReplayOf(r, e, count + 1))
           /\ ReplayOf(r, e, count + 1) \in ReplayOp
           /\ \A t \in Streams : t # Compute => queue'[t] = queue[t]
<1> DEFINE o == ReplayOf(r, e, count + 1)
           z == Append(queue[Compute], o)
<1>1. o \in ReplayOp
  BY MaxLayersFacts DEF ReplayOp, ReplayOf, TypeInv, Typed, Steps
<1>2. queue[Compute] \in Seq(ReplayOp) /\ QueuesTyped(queue)
  BY StreamFacts DEF TypeInv, Typed, QueuesTyped, OpsOf
<1>3. z \in Seq(ReplayOp)
  BY <1>1, <1>2, AppendPlaces
<1>4. z \in Seq(OpsOf(Compute)) /\ queue' = Put(queue, Compute, z)
  BY <1>3 DEF OpsOf, Put, Launch, ReplayOf
<1> HIDE DEF z
<1>5. /\ QueuesTyped(queue') /\ queue'[Compute] = z
      /\ \A t \in Streams : t # Compute => queue'[t] = queue[t]
  BY <1>2, <1>4, StreamFacts, QueuePut
<1>6. QED
  BY <1>1, <1>5 DEF z

(* graph_call: the launched step is the new count, and one replay more waits. *)
LEMMA LaunchTyped ==
    ASSUME TypeInv, NEW r \in Roles, NEW e \in Entries, Launch(r, e)
    PROVE  TypeInv'
<1>1. /\ dep' = dep /\ count' = count + 1 /\ count \in Nat /\ count + 1 \in 0..MaxReplays
      /\ host' = [pc |-> "update", role |-> r, entry |-> e, step |-> count + 1]
      /\ param' = param /\ flag' = flag /\ passed' = passed /\ finished' = finished
  BY DeploymentAssumption DEF Launch, TypeInv, Typed
<1>2. jobs' \in SUBSET jobs /\ (pending' = pending \/ pending' = Forgotten(r))
  BY DEF Launch
<1>3. pending' \in [Roles -> SUBSET Steps] /\ \A x \in Roles : \A k \in pending'[x] : k \in pending[x]
  BY <1>2, ForgottenFacts DEF TypeInv, Typed
<1>4. /\ last' \in [Roles -> Nat] /\ dependency' \in [Roles -> Nat]
      /\ \A x \in Roles : last'[x] <= count + 1 /\ dependency'[x] <= count + 1
  <2>1. /\ last \in [Roles -> Nat] /\ dependency \in [Roles -> Nat]
        /\ \A x \in Roles : last[x] <= count /\ dependency[x] <= count
    BY DEF TypeInv, Typed, HandlesLaunched
  <2>2. /\ dependency' = [dependency EXCEPT ![r] = IF dep.ordered THEN last[r] ELSE 0]
        /\ last' = [last EXCEPT ![r] = IF dep.ordered THEN count + 1 ELSE 0]
    BY DEF Launch
  <2>3. QED
    BY <1>1, <2>1, <2>2
<1>5. Typed'
  <2>1. host' \in HostType /\ count' \in 0..MaxReplays
    BY <1>1 DEF HostType
  <2>2. QueuesTyped(queue')
    BY LaunchQueue
  <2>3. dep' \in Deployments /\ jobs' \in SUBSET JobType
    BY <1>1, <1>2 DEF TypeInv, Typed
  <2>4. /\ param' \in [Nodes -> Nat] /\ flag' \in [Nodes -> BOOLEAN]
        /\ passed' \in SUBSET Steps /\ finished' \in SUBSET Steps
    BY <1>1 DEF TypeInv, Typed
  <2>5. QED
    BY <1>3, <1>4, <2>1, <2>2, <2>3, <2>4 DEF Typed
<1>6. HostLaunched'
  BY <1>1 DEF HostLaunched
<1>7. JobsLaunched' /\ JobShapes'
  <2>1. \A j \in jobs' : j.step <= count /\ JobShape(j) /\ j.step \in Nat
    BY <1>2 DEF TypeInv, Typed, JobsLaunched, JobShapes, JobType, Steps
  <2>2. QED
    BY <1>1, <2>1 DEF JobsLaunched, JobShapes, JobShape
<1>8. HandlesLaunched'
  <2>1. \A x \in Roles : \A k \in pending[x] : k \in Nat /\ k <= count
    BY DEF TypeInv, Typed, HandlesLaunched, Steps
  <2>2. QED
    BY <1>1, <1>3, <1>4, <2>1 DEF HandlesLaunched
<1>9. DeviceLaunched'
  <2>1. /\ \A v \in Nodes : param[v] \in Nat /\ param[v] <= count
        /\ \A k \in passed \cup finished : k \in Nat /\ k <= count
    BY DEF TypeInv, Typed, DeviceLaunched, Steps
  <2>2. QED
    BY <1>1, <2>1 DEF DeviceLaunched
<1> DEFINE o == ReplayOf(r, e, count + 1)
           old == queue[Compute]
           new == queue'[Compute]
<1>10. /\ new = Append(old, o) /\ old \in Seq(ReplayOp) /\ o \in ReplayOp
       /\ Len(new) = Len(old) + 1 /\ Len(old) \in Nat /\ new[Len(old) + 1] = o
       /\ \A n \in 1..Len(old) : new[n] = old[n]
  <2>1. new = Append(old, o) /\ old \in Seq(ReplayOp) /\ o \in ReplayOp
    BY LaunchQueue, StreamFacts DEF TypeInv, Typed, QueuesTyped, OpsOf
  <2>2. QED
    BY <2>1, AppendPlaces
<1>11. QueueLaunched(queue, count)'
  <2>1. ASSUME NEW s \in Streams, NEW n \in 1..Len(queue'[s]) PROVE queue'[s][n].step <= count + 1
    <3>1. \A i \in 1..Len(queue[s]) : queue[s][i].step <= count /\ queue[s][i].step \in Nat
      <4>1. queue[s] \in Seq(OpsOf(s))
        BY DEF TypeInv, Typed, QueuesTyped
      <4>2. \A i \in 1..Len(queue[s]) : queue[s][i] \in OpsOf(s)
        BY <4>1
      <4>3. \A x \in OpsOf(s) : x.step \in Nat
        BY DEF OpsOf, UpdateOp, BindOp, ReplayOp, Steps
      <4>4. QED
        BY <4>2, <4>3 DEF TypeInv, QueueLaunched
    <3>2. CASE s # Compute
      BY <1>1, <2>1, <3>1, <3>2, LaunchQueue
    <3>3. CASE s = Compute /\ n = Len(old) + 1
      BY <1>1, <1>10, <3>3 DEF ReplayOf
    <3>4. CASE s = Compute /\ n # Len(old) + 1
      <4>1. n \in 1..Len(old)
        BY <1>10, <2>1, <3>4
      <4>2. queue'[s][n] = queue[s][n]
        BY <1>10, <3>4, <4>1
      <4>3. queue[s][n].step <= count /\ queue[s][n].step \in Nat
        BY <3>1, <3>4, <4>1
      <4>4. count \in Nat
        BY <1>1 DEF TypeInv, Typed
      <4>5. QED
        BY <4>2, <4>3, <4>4
    <3>5. QED
      BY <3>2, <3>3, <3>4
  <2>2. QED
    BY <1>1, <2>1 DEF QueueLaunched
<1>12. ReplayShapes(queue)'
  <2>1. ASSUME NEW p \in 1..Len(new) PROVE new[p].node <= Layers[new[p].entry]
    <3>1. CASE p = Len(old) + 1
      <4>1. Layers[e] \in 1..MaxLayers /\ new[p].node = 1 /\ new[p].entry = e /\ MaxLayers \in Nat
        BY <1>10, <3>1, LayerFacts DEF ReplayOf
      <4>2. QED
        BY <4>1
    <3>2. CASE p # Len(old) + 1
      <4>1. p \in 1..Len(old)
        BY <1>10, <3>2
      <4>2. QED
        BY <1>10, <4>1 DEF TypeInv, ReplayShapes
    <3>3. QED
      BY <3>1, <3>2
  <2>2. QED
    BY <1>1, <2>1 DEF ReplayShapes, Layers
<1>13. QED
  BY <1>1, <1>5, <1>6, <1>7, <1>8, <1>9, <1>11, <1>12 DEF TypeInv

(* A step that works on update streams and on jobs.                           *)
LEMMA UpdateStepTyped ==
    ASSUME TypeInv, UNCHANGED <<dep, count, last, param, flag, passed, finished>>,
           host' \in HostType, host'.step = host.step,
           host'.pc \in {"update", "retire", "call"} => host.pc \in {"update", "retire", "call"},
           jobs' \in SUBSET JobType, \A j \in jobs' : j.step <= count /\ JobShape(j),
           pending' \in [Roles -> SUBSET Steps],
           \A r \in Roles : \A k \in pending'[r] : k <= count,
           dependency' \in [Roles -> Nat], \A r \in Roles : dependency'[r] <= count,
           QueuesTyped(queue'), QueueLaunched(queue', count), queue'[Compute] = queue[Compute]
    PROVE  TypeInv'
<1>1. /\ dep' = dep /\ count' = count /\ last' = last
      /\ param' = param /\ flag' = flag /\ passed' = passed /\ finished' = finished
  OBVIOUS
<1>2. Typed'
  BY <1>1 DEF TypeInv, Typed
<1>3. HostLaunched'
  BY <1>1 DEF TypeInv, HostLaunched
<1>4. JobsLaunched' /\ JobShapes'
  BY <1>1 DEF JobsLaunched, JobShapes, JobShape
<1>5. HandlesLaunched'
  BY <1>1 DEF TypeInv, HandlesLaunched
<1>6. QueueLaunched(queue, count)' /\ DeviceLaunched' /\ ReplayShapes(queue)'
  BY <1>1 DEF TypeInv, QueueLaunched, DeviceLaunched, ReplayShapes, Layers
<1>7. QED
  BY <1>2, <1>3, <1>4, <1>5, <1>6 DEF TypeInv

(* What the jobs are before the step.                                         *)
LEMMA JobFacts ==
    ASSUME TypeInv
    PROVE  /\ jobs \in SUBSET JobType
           /\ \A j \in jobs : j.step <= count /\ JobShape(j)
BY DEF TypeInv, Typed, JobsLaunched, JobShapes

(* wait_for_prior_replay_before_update.                                       *)
LEMMA EnterUpdateTyped ==
    ASSUME TypeInv, EnterUpdate
    PROVE  TypeInv'
<1> DEFINE r == host.role
           o == [op |-> "replayed", step |-> dependency[r]]
<1>1. r \in Roles /\ UpdateStream(r) \in Updates /\ QueuesTyped(queue)
      /\ QueueLaunched(queue, count) /\ count \in Nat
  BY PoolFacts DEF TypeInv, Typed, HostType
<1>2. dependency[r] \in Nat /\ dependency[r] <= count
  BY <1>1 DEF TypeInv, Typed, HandlesLaunched
<1>3. QueuesTyped(queue') /\ QueueLaunched(queue', count) /\ queue'[Compute] = queue[Compute]
  <2>1. CASE dependency[r] = 0
    <3>1. queue' = queue
      BY <2>1 DEF EnterUpdate
    <3>2. QED
      BY <1>1, <3>1
  <2>2. CASE dependency[r] # 0
    <3>1. queue' = Enq(queue, UpdateStream(r), o)
      BY <2>2 DEF EnterUpdate, Enq
    <3>2. o \in UpdateOp /\ o.step <= count
      BY <1>2, <2>2 DEF UpdateOp, Steps
    <3> HIDE DEF o
    <3>3. QED
      BY <1>1, <3>1, <3>2, Enqueued
  <2>3. QED
    BY <2>1, <2>2
<1>4. /\ UNCHANGED <<dep, count, last, param, flag, passed, finished>>
      /\ jobs' = jobs /\ pending' = pending
      /\ host' = [host EXCEPT !.pc = "retire"] /\ host.pc = "update"
      /\ dependency' = [dependency EXCEPT ![r] = 0]
  BY DEF EnterUpdate
<1>5. /\ dependency' \in [Roles -> Nat] /\ \A x \in Roles : dependency'[x] <= count
      /\ pending' \in [Roles -> SUBSET Steps] /\ \A x \in Roles : \A k \in pending'[x] : k <= count
  BY <1>1, <1>4 DEF TypeInv, Typed, HandlesLaunched
<1>6. host' \in HostType /\ host'.step = host.step
  BY <1>4 DEF TypeInv, Typed, HostType
<1>7. QED
  BY <1>3, <1>4, <1>5, <1>6, JobFacts, UpdateStepTyped

(* The bindings that the host enqueues itself.                                *)
Binds(r, e, k) == [i \in 1..Layers[e] |-> [op |-> "bind", node |-> <<r, e, i>>, step |-> k]]
LEMMA BindsFacts ==
    ASSUME TypeInv, NEW r \in Roles, NEW e \in Entries, NEW k \in Steps
    PROVE  /\ Binds(r, e, k) \in Seq(UpdateOp) /\ Len(Binds(r, e, k)) = Layers[e]
           /\ \A n \in 1..Layers[e] : Binds(r, e, k)[n] = [op |-> "bind", node |-> <<r, e, n>>, step |-> k]
<1>1. Layers[e] \in 1..MaxLayers /\ MaxLayers \in Nat
  BY LayerFacts
<1>2. ASSUME NEW n \in 1..Layers[e]
      PROVE  [op |-> "bind", node |-> <<r, e, n>>, step |-> k] \in UpdateOp
  <2>1. <<r, e, n>> \in Nodes
    BY <1>1 DEF Nodes
  <2>2. QED
    BY <2>1 DEF UpdateOp, BindOp
<1>3. QED
  BY <1>1, <1>2 DEF Binds

(* What the host's own update enqueues.                                       *)
LEMMA FallBackQueue ==
    ASSUME TypeInv, FallBack
    PROVE  /\ host.role \in Roles /\ host.entry \in Entries /\ host.step \in Steps /\ host.step <= count
           /\ UpdateStream(host.role) \in Updates
           /\ queue' = EnqAll(queue, UpdateStream(host.role), Binds(host.role, host.entry, host.step))
           /\ Binds(host.role, host.entry, host.step) \in Seq(UpdateOp)
           /\ QueuesTyped(queue') /\ QueueLaunched(queue', count) /\ queue'[Compute] = queue[Compute]
<1> DEFINE r == host.role
           z == Binds(host.role, host.entry, host.step)
<1>1. /\ r \in Roles /\ host.entry \in Entries /\ host.step \in Steps /\ host.step <= count
  BY DEF TypeInv, Typed, HostType, HostLaunched, FallBack, Steps
<1>2. UpdateStream(r) \in Updates /\ QueuesTyped(queue) /\ QueueLaunched(queue, count) /\ count \in Nat
  BY <1>1, PoolFacts DEF TypeInv, Typed
<1>3. queue' = EnqAll(queue, UpdateStream(r), z)
  BY DEF FallBack, HostUpdate, EnqAll, Binds
<1>4. z \in Seq(UpdateOp) /\ StepsUpTo(z, count)
  <2>1. /\ z \in Seq(UpdateOp) /\ Len(z) = Layers[host.entry]
        /\ \A n \in 1..Layers[host.entry] :
             z[n] = [op |-> "bind", node |-> <<r, host.entry, n>>, step |-> host.step]
    BY <1>1, BindsFacts
  <2> HIDE DEF z
  <2>2. ASSUME NEW n \in 1..Len(z) PROVE z[n].step = host.step
    <3>1. n \in 1..Layers[host.entry]
      BY <2>1
    <3>2. z[n] = [op |-> "bind", node |-> <<r, host.entry, n>>, step |-> host.step]
      BY <2>1, <3>1
    <3>3. QED
      BY <3>2
  <2>3. QED
    BY <1>1, <2>1, <2>2 DEF StepsUpTo
<1> HIDE DEF z
<1>5. QueuesTyped(queue') /\ QueueLaunched(queue', count) /\ queue'[Compute] = queue[Compute]
  BY <1>2, <1>3, <1>4, EnqueuedAll
<1>6. QED
  BY <1>1, <1>2, <1>3, <1>4, <1>5 DEF z

(* The host's own update.                                                     *)
LEMMA FallBackTyped ==
    ASSUME TypeInv, FallBack
    PROVE  TypeInv'
<1> DEFINE r == host.role
<1>1. r \in Roles /\ QueuesTyped(queue') /\ QueueLaunched(queue', count)
      /\ queue'[Compute] = queue[Compute]
  BY FallBackQueue
<1>2. /\ UNCHANGED <<dep, count, last, param, flag, passed, finished>> /\ dependency' = dependency
      /\ pending' = pending \/ pending' = Forgotten(r)
      /\ host' = [host EXCEPT !.pc = "idle"]
  BY DEF FallBack
<1>3. jobs' \in SUBSET jobs
  BY DEF FallBack
<1>4. /\ pending' \in [Roles -> SUBSET Steps] /\ \A x \in Roles : \A k \in pending'[x] : k <= count
      /\ dependency' \in [Roles -> Nat] /\ \A x \in Roles : dependency'[x] <= count
  BY <1>1, <1>2, ForgottenFacts DEF TypeInv, Typed, HandlesLaunched
<1>5. host' \in HostType /\ host'.step = host.step /\ host'.pc = "idle"
  BY <1>2 DEF TypeInv, Typed, HostType
<1>6. QED
  BY <1>1, <1>2, <1>3, <1>4, <1>5, JobFacts, UpdateStepTyped

(* What a dispatch enqueues and what it leaves of the jobs.                   *)
LEMMA DispatchQueue ==
    ASSUME TypeInv, Dispatch
    PROVE  /\ host.role \in Roles /\ host.entry \in Entries /\ host.step \in Steps /\ host.step <= count
           /\ UpdateStream(host.role) \in Updates
           /\ [op |-> "gate", step |-> host.step] \in UpdateOp
           /\ queue' = Enq(queue, UpdateStream(host.role), [op |-> "gate", step |-> host.step])
           /\ QueuesTyped(queue') /\ QueueLaunched(queue', count) /\ queue'[Compute] = queue[Compute]
<1> DEFINE r == host.role
           o == [op |-> "gate", step |-> host.step]
<1>1. /\ r \in Roles /\ host.entry \in Entries /\ host.step \in Steps /\ host.step <= count
  BY DEF TypeInv, Typed, HostType, HostLaunched, Dispatch, Steps
<1>2. UpdateStream(r) \in Updates /\ QueuesTyped(queue) /\ QueueLaunched(queue, count) /\ count \in Nat
  BY <1>1, PoolFacts DEF TypeInv, Typed
<1>3. queue' = Enq(queue, UpdateStream(r), o)
  BY DEF Dispatch, Enq
<1>4. o \in UpdateOp /\ o.step <= count
  BY <1>1 DEF UpdateOp
<1> HIDE DEF o
<1>5. QueuesTyped(queue') /\ QueueLaunched(queue', count) /\ queue'[Compute] = queue[Compute]
  BY <1>2, <1>3, <1>4, Enqueued
<1>6. QED
  BY <1>1, <1>2, <1>3, <1>4, <1>5 DEF o

(* dispatch_updates and dispatch_pipelined_updates.                           *)
LEMMA DispatchTyped ==
    ASSUME TypeInv, Dispatch
    PROVE  TypeInv'
<1> DEFINE r == host.role e == host.entry
<1>1. r \in Roles /\ e \in Entries /\ host.step \in Steps /\ host.step <= count /\ QueuesTyped(queue')
      /\ QueueLaunched(queue', count) /\ queue'[Compute] = queue[Compute]
  BY DispatchQueue
<1>2. /\ UNCHANGED <<dep, count, last, param, flag, passed, finished>> /\ dependency' = dependency
      /\ pending' = [pending EXCEPT ![StateOf(r)] = IF dep.mode[r] = "defer" THEN {host.step} ELSE {}]
      /\ host' = [host EXCEPT !.pc = IF dep.mode[r] = "defer" THEN "idle" ELSE "call"]
      /\ jobs' = (jobs \ Retired(r)) \cup Dispatched(r, e) /\ host.pc = "retire" /\ Planned(r, e)
  BY DEF Dispatch
<1>3. jobs' \in SUBSET JobType /\ \A j \in jobs' : j.step <= count /\ JobShape(j)
  <2>1. ASSUME NEW j \in Dispatched(r, e) PROVE j \in JobType /\ j.step <= count /\ JobShape(j)
    <3>1. /\ j \in JobType /\ TaskList(e, j.todo) /\ j.todo # <<>> /\ j.role = r /\ j.step = host.step
          /\ j.stream[2] <= dep.workers[r]
      BY <1>2, DispatchedFacts
    <3>2. Len(j.todo) \in Nat /\ Len(j.todo) <= Layers[e] /\ Layers[e] \in 1..MaxLayers /\ MaxLayers \in Nat
      BY <1>1, <3>1, LayerFacts DEF TaskList
    <3>3. QED
      BY <1>1, <3>1, <3>2 DEF JobShape
  <2>2. QED
    BY <1>2, <2>1, JobFacts
<1>4. StateOf(r) \in Roles
  BY <1>1, PoolFacts
<1>5. /\ pending' \in [Roles -> SUBSET Steps] /\ \A x \in Roles : \A k \in pending'[x] : k <= count
      /\ dependency' \in [Roles -> Nat] /\ \A x \in Roles : dependency'[x] <= count
  BY <1>1, <1>2, <1>4 DEF TypeInv, Typed, HandlesLaunched
<1>6. host' \in HostType /\ host'.step = host.step
  BY <1>2 DEF TypeInv, Typed, HostType
<1>7. QED
  BY <1>1, <1>2, <1>3, <1>5, <1>6, UpdateStepTyped

(* A job takes a step: it replaces itself and may enqueue one operation.      *)
LEMMA JobStepTyped ==
    ASSUME TypeInv, NEW j \in jobs, NEW k \in JobType, Becomes(j, k), k.step = j.step, JobShape(k),
           HostUnchanged, UNCHANGED <<param, flag, passed, finished>>,
           \/ queue' = queue
           \/ \E o \in UpdateOp : queue' = Enq(queue, j.stream, o) /\ o.step = j.step
    PROVE  TypeInv'
<1>1. j \in JobType /\ j.step <= count /\ j.stream \in Updates /\ count \in Nat
  BY JobFacts DEF JobType, TypeInv, Typed
<1>2. QueuesTyped(queue') /\ QueueLaunched(queue', count) /\ queue'[Compute] = queue[Compute]
  <2>1. QueuesTyped(queue) /\ QueueLaunched(queue, count)
    BY DEF TypeInv, Typed
  <2>2. CASE queue' = queue
    BY <2>1, <2>2
  <2>3. CASE \E o \in UpdateOp : queue' = Enq(queue, j.stream, o) /\ o.step = j.step
    <3>1. PICK o \in UpdateOp : queue' = Enq(queue, j.stream, o) /\ o.step = j.step
      BY <2>3
    <3>2. QED
      BY <1>1, <2>1, <3>1, Enqueued
  <2>4. QED
    BY <2>2, <2>3
<1>3. jobs' \in SUBSET JobType /\ \A i \in jobs' : i.step <= count /\ JobShape(i)
  <2>1. jobs' = (jobs \ {j}) \cup {k}
    BY DEF Becomes
  <2>2. QED
    BY <1>1, <2>1, JobFacts
<1>4. /\ dep' = dep /\ host' = host /\ count' = count /\ pending' = pending
      /\ last' = last /\ dependency' = dependency
  BY DEF HostUnchanged
<1>5. /\ host' \in HostType /\ host'.step = host.step
      /\ pending' \in [Roles -> SUBSET Steps] /\ \A x \in Roles : \A i \in pending'[x] : i <= count
      /\ dependency' \in [Roles -> Nat] /\ \A x \in Roles : dependency'[x] <= count
  BY <1>4 DEF TypeInv, Typed, HandlesLaunched
<1>6. QED
  BY <1>2, <1>3, <1>4, <1>5, UpdateStepTyped

(* What a working job is, and what it becomes.                                *)
LEMMA WorkingFacts ==
    ASSUME TypeInv, NEW j \in jobs
    PROVE  /\ j \in JobType /\ j.stream \in Updates /\ j.stream \in Streams /\ j.role \in Roles
           /\ j.entry \in Entries /\ j.step \in Steps /\ j.step <= count
           /\ j.todo \in Seq(1..MaxLayers) /\ Len(j.todo) \in Nat
           /\ j.at \in {"gate", "free", "done", "failed"} /\ j.by \in {"pool", "caller"}
           /\ (j.at \in {"gate", "free"}) <=> ~Over(j)
           /\ ~Over(j) => /\ j.todo # <<>> /\ Len(j.todo) >= 1 /\ Tail(j.todo) \in Seq(1..MaxLayers)
                          /\ Len(Tail(j.todo)) = Len(j.todo) - 1 /\ Head(j.todo) = j.todo[1]
                          /\ <<j.role, j.entry, Head(j.todo)>> \in Nodes
<1>1. j \in JobType /\ j.step <= count /\ JobShape(j)
  BY JobFacts
<1>2. /\ j.stream \in Updates /\ j.role \in Roles /\ j.entry \in Entries /\ j.step \in Steps
      /\ j.todo \in Seq(1..MaxLayers) /\ j.at \in {"gate", "free", "done", "failed"}
      /\ j.by \in {"pool", "caller"}
  BY <1>1 DEF JobType
<1>3. j.stream \in Streams /\ Len(j.todo) \in Nat
  BY <1>2, StreamFacts
<1>4. (j.at \in {"gate", "free"}) <=> ~Over(j)
  BY <1>2 DEF Over
<1>5. ASSUME ~Over(j)
      PROVE  /\ j.todo # <<>> /\ Len(j.todo) >= 1 /\ Tail(j.todo) \in Seq(1..MaxLayers)
             /\ Len(Tail(j.todo)) = Len(j.todo) - 1 /\ Head(j.todo) = j.todo[1]
             /\ <<j.role, j.entry, Head(j.todo)>> \in Nodes
  <2>1. j.todo # <<>>
    BY <1>1, <1>5 DEF JobShape
  <2>2. /\ Tail(j.todo) \in Seq(1..MaxLayers) /\ Len(Tail(j.todo)) = Len(j.todo) - 1
        /\ Len(j.todo) \in Nat \ {0} /\ Head(j.todo) = j.todo[1] /\ Head(j.todo) \in 1..MaxLayers
    BY <1>2, <2>1, TailPlaces
  <2>3. QED
    BY <1>2, <2>1, <2>2 DEF Nodes
<1>6. QED
  BY <1>1, <1>2, <1>3, <1>4, <1>5

(* The bindings a job enqueues, as it leaves them.                            *)
BindOf(j) == [op |-> "bind", node |-> <<j.role, j.entry, Head(j.todo)>>, step |-> j.step]
Freed(j) == [j EXCEPT !.at = "free"]
Rebound(j) == [j EXCEPT !.at = IF Len(j.todo) = 1 THEN "done" ELSE "free", !.todo = Tail(j.todo)]
LEMMA JobBecomes ==
    ASSUME TypeInv, NEW j \in jobs, ~Over(j)
    PROVE  /\ Freed(j) \in JobType /\ JobShape(Freed(j)) /\ ~Over(Freed(j))
           /\ Rebound(j) \in JobType /\ JobShape(Rebound(j))
           /\ [j EXCEPT !.at = "failed"] \in JobType /\ JobShape([j EXCEPT !.at = "failed"])
           /\ [op |-> "passed", step |-> j.step] \in UpdateOp /\ BindOf(j) \in UpdateOp
<1>1. JobShape(j)
  BY JobFacts
<1>2. Freed(j) \in JobType /\ JobShape(Freed(j)) /\ ~Over(Freed(j))
  BY <1>1, WorkingFacts DEF Freed, JobType, JobShape, Over
<1>3. [j EXCEPT !.at = "failed"] \in JobType /\ JobShape([j EXCEPT !.at = "failed"])
  BY <1>1, WorkingFacts DEF JobType, JobShape, Over
<1>4. [op |-> "passed", step |-> j.step] \in UpdateOp
  BY WorkingFacts DEF UpdateOp
<1>5. BindOf(j) \in UpdateOp
  BY WorkingFacts DEF UpdateOp, BindOp, BindOf
<1>6. Rebound(j) \in JobType /\ JobShape(Rebound(j))
  <2>1. Rebound(j) \in JobType
    BY WorkingFacts DEF Rebound, JobType
  <2>2. /\ Rebound(j).stream = j.stream /\ Rebound(j).role = j.role /\ Rebound(j).todo = Tail(j.todo)
        /\ Rebound(j).at = IF Len(j.todo) = 1 THEN "done" ELSE "free"
    BY WorkingFacts DEF Rebound, JobType
  <2>3. Len(Tail(j.todo)) <= MaxLayers
    BY <1>1, MaxLayersFacts, WorkingFacts DEF JobShape
  <2>4. ~Over(Rebound(j)) => Tail(j.todo) # <<>>
    <3>1. Len(j.todo) # 1 => Len(Tail(j.todo)) # 0
      <4>1. Len(Tail(j.todo)) = Len(j.todo) - 1 /\ Len(j.todo) \in Nat
        BY WorkingFacts
      <4>2. QED
        BY ONLY <4>1
    <3>2. ~Over(Rebound(j)) => Len(j.todo) # 1
      BY <2>2 DEF Over
    <3>3. QED
      BY <3>1, <3>2
  <2>5. QED
    BY <1>1, <2>1, <2>2, <2>3, <2>4 DEF JobShape
<1>7. QED
  BY <1>2, <1>3, <1>4, <1>5, <1>6

(* The two ways a job goes on, by these names.                                *)
LEMMA WorksIs ==
    ASSUME TypeInv, NEW j \in jobs, Works(j)
    PROVE  /\ ~Over(j) /\ HostUnchanged /\ UNCHANGED <<param, flag, passed, finished>>
           /\ \/ /\ j.at = "gate" /\ Becomes(j, Freed(j))
                 /\ queue' = Enq(queue, j.stream, [op |-> "passed", step |-> j.step])
              \/ /\ j.at = "free" /\ Becomes(j, Rebound(j))
                 /\ queue' = Enq(queue, j.stream, BindOf(j))
<1>1. CASE WaitGate(j)
  BY <1>1 DEF WaitGate, Enqueue, Enq, Freed, Over
<1>2. CASE Rebind(j)
  BY <1>2 DEF Rebind, Enqueue, Enq, Rebound, BindOf, Over
<1>3. QED
  BY <1>1, <1>2 DEF Works

(* update_one_stream: the wait for the gate and the calls that bind.          *)
LEMMA WorksTyped ==
    ASSUME TypeInv, NEW j \in jobs, Works(j)
    PROVE  TypeInv'
<1>1. ~Over(j) /\ HostUnchanged /\ UNCHANGED <<param, flag, passed, finished>>
  BY WorksIs
<1>2. CASE Becomes(j, Freed(j)) /\ queue' = Enq(queue, j.stream, [op |-> "passed", step |-> j.step])
  <2>1. Freed(j) \in JobType /\ JobShape(Freed(j)) /\ [op |-> "passed", step |-> j.step] \in UpdateOp
    BY <1>1, JobBecomes
  <2>2. Freed(j).step = j.step
    BY DEF Freed, JobType, TypeInv, Typed
  <2>3. \E o \in UpdateOp : queue' = Enq(queue, j.stream, o) /\ o.step = j.step
    BY <1>2, <2>1
  <2>4. QED
    BY <1>1, <1>2, <2>1, <2>2, <2>3, JobStepTyped
<1>3. CASE Becomes(j, Rebound(j)) /\ queue' = Enq(queue, j.stream, BindOf(j))
  <2>1. Rebound(j) \in JobType /\ JobShape(Rebound(j)) /\ BindOf(j) \in UpdateOp
    BY <1>1, JobBecomes
  <2>2. Rebound(j).step = j.step /\ BindOf(j).step = j.step
    BY DEF Rebound, BindOf, JobType, TypeInv, Typed
  <2>3. \E o \in UpdateOp : queue' = Enq(queue, j.stream, o) /\ o.step = j.step
    BY <1>3, <2>1, <2>2
  <2>4. QED
    BY <1>1, <1>3, <2>1, <2>2, <2>3, JobStepTyped
<1>4. QED
  BY <1>2, <1>3, WorksIs

(* A binding call that raises.                                                *)
LEMMA FailTyped ==
    ASSUME TypeInv, NEW j \in jobs, Fail(j)
    PROVE  TypeInv'
<1> DEFINE k == [j EXCEPT !.at = "failed"]
<1>1. ~Over(j) /\ Becomes(j, k) /\ HostUnchanged /\ UNCHANGED <<param, flag, passed, finished>>
      /\ queue' = queue
  BY DEF Fail, Over, device
<1>2. k \in JobType /\ JobShape(k)
  BY <1>1, JobBecomes
<1>3. k.step = j.step
  BY DEF JobType, TypeInv, Typed
<1> HIDE DEF k
<1>4. QED
  BY <1>1, <1>2, <1>3, JobStepTyped

(* The device takes a step: nothing of the host or of the jobs changes.       *)
LEMMA DeviceStepTyped ==
    ASSUME TypeInv, HostUnchanged, UNCHANGED jobs,
           QueuesTyped(queue'), QueueLaunched(queue', count), ReplayShapes(queue'),
           param' \in [Nodes -> Nat], \A v \in Nodes : param'[v] <= count,
           flag' \in [Nodes -> BOOLEAN], passed' \in SUBSET Steps, finished' \in SUBSET Steps,
           \A k \in passed' \cup finished' : k <= count
    PROVE  TypeInv'
<1>1. /\ dep' = dep /\ host' = host /\ count' = count /\ pending' = pending /\ jobs' = jobs
      /\ last' = last /\ dependency' = dependency
  BY DEF HostUnchanged
<1>2. Typed'
  BY <1>1 DEF TypeInv, Typed
<1>3. HostLaunched' /\ HandlesLaunched' /\ JobsLaunched'
  BY <1>1 DEF TypeInv, HostLaunched, HandlesLaunched, JobsLaunched
<1>4. JobShapes'
  BY <1>1 DEF TypeInv, JobShapes, JobShape
<1>5. QueueLaunched(queue, count)' /\ ReplayShapes(queue)'
  BY <1>1 DEF QueueLaunched, ReplayShapes, Layers
<1>6. DeviceLaunched'
  BY <1>1 DEF DeviceLaunched
<1>7. QED
  BY <1>2, <1>3, <1>4, <1>5, <1>6 DEF TypeInv

(* The device as the invariant describes it.                                  *)
LEMMA DeviceFacts ==
    ASSUME TypeInv
    PROVE  /\ QueuesTyped(queue) /\ QueueLaunched(queue, count) /\ ReplayShapes(queue)
           /\ param \in [Nodes -> Nat] /\ flag \in [Nodes -> BOOLEAN] /\ count \in Nat
           /\ \A v \in Nodes : param[v] <= count
           /\ passed \in SUBSET Steps /\ finished \in SUBSET Steps
           /\ \A k \in passed \cup finished : k <= count
           /\ queue[Compute] \in Seq(ReplayOp) /\ \A s \in Updates : queue[s] \in Seq(UpdateOp)
BY StreamFacts DEF TypeInv, Typed, DeviceLaunched, QueuesTyped, OpsOf

(* A stream that loses its head keeps the shapes of the replays.              *)
LEMMA PoppedShapes ==
    ASSUME TypeInv, NEW s \in Streams, queue[s] # <<>>
    PROVE  /\ Popped(s) = Deq(queue, s)
           /\ QueuesTyped(Popped(s)) /\ QueueLaunched(Popped(s), count) /\ ReplayShapes(Popped(s))
<1>1. Popped(s) = Deq(queue, s)
  BY DEF Popped, Deq
<1> DEFINE p == Popped(s)
<1> HIDE DEF p
<1>2. /\ QueuesTyped(p) /\ p[s] = Tail(queue[s]) /\ \A t \in Streams : t # s => p[t] = queue[t]
      /\ QueueLaunched(p, count)
  BY <1>1, DeviceFacts, Dequeued DEF p
<1>3. ReplayShapes(p)
  <2>1. CASE s # Compute
    BY <1>2, <2>1, StreamFacts, DeviceFacts DEF ReplayShapes
  <2>2. CASE s = Compute
    <3>1. /\ Len(p[Compute]) = Len(queue[Compute]) - 1
          /\ \A n \in 1..Len(p[Compute]) : p[Compute][n] = queue[Compute][n + 1] /\ n + 1 \in 1..Len(queue[Compute])
      <4> DEFINE z == queue[Compute]
      <4>1. z \in Seq(ReplayOp) /\ z # <<>> /\ p[Compute] = Tail(z)
        BY <1>2, <2>2, DeviceFacts
      <4> HIDE DEF z
      <4>2. /\ Len(Tail(z)) = Len(z) - 1
            /\ \A n \in 1..Len(Tail(z)) : Tail(z)[n] = z[n + 1] /\ n + 1 \in 1..Len(z)
        BY ONLY <4>1, TailPlaces
      <4>3. QED
        BY <4>1, <4>2 DEF z
    <3>2. QED
      BY <3>1, DeviceFacts DEF ReplayShapes
  <2>3. QED
    BY <2>1, <2>2
<1>4. QED
  BY <1>1, <1>2, <1>3 DEF p

(* A stream's head is changed in place.                                       *)
WithHead(q, s, o) == [q EXCEPT ![s] = [q[s] EXCEPT ![1] = o]]
LEMMA HeadChanged ==
    ASSUME NEW q, QueuesTyped(q), NEW s \in Streams, q[s] # <<>>, NEW o \in OpsOf(s),
           NEW p, p = WithHead(q, s, o)
    PROVE  /\ QueuesTyped(p) /\ Len(p[s]) = Len(q[s]) /\ Len(q[s]) \in Nat /\ p[s][1] = o
           /\ 1 \in 1..Len(q[s])
           /\ \A n \in 1..Len(q[s]) : n # 1 => p[s][n] = q[s][n]
           /\ \A t \in Streams : t # s => p[t] = q[t]
           /\ \A c \in Nat : QueueLaunched(q, c) /\ o.step <= c => QueueLaunched(p, c)
<1> DEFINE z == [q[s] EXCEPT ![1] = o]
<1>1. q[s] \in Seq(OpsOf(s)) /\ 1 \in 1..Len(q[s]) /\ Len(q[s]) \in Nat
  <2>1. q[s] \in Seq(OpsOf(s))
    BY DEF QueuesTyped
  <2>2. QED
    BY <2>1, TailPlaces
<1>2. /\ z \in Seq(OpsOf(s)) /\ Len(z) = Len(q[s]) /\ z[1] = o
      /\ \A n \in 1..Len(q[s]) : n # 1 => z[n] = q[s][n]
  BY <1>1, ExceptSeq
<1>3. p = Put(q, s, z)
  BY DEF Put, WithHead
<1> HIDE DEF z
<1>4. QueuesTyped(p) /\ p[s] = z /\ \A t \in Streams : t # s => p[t] = q[t]
  BY <1>2, <1>3, QueuePut
<1>5. ASSUME NEW c \in Nat, QueueLaunched(q, c), o.step <= c, NEW t \in Streams, NEW n \in 1..Len(p[t])
      PROVE  p[t][n].step <= c
  <2>1. CASE t # s
    BY <1>4, <1>5, <2>1 DEF QueueLaunched
  <2>2. CASE t = s
    BY <1>2, <1>4, <1>5, <2>2 DEF QueueLaunched
  <2>3. QED
    BY <2>1, <2>2
<1>6. QED
  BY <1>1, <1>2, <1>4, <1>5 DEF QueueLaunched

(* The compute stream's head after a wait, and after an attention that is not *)
(* the last.                                                                  *)
Reads(o) == [o EXCEPT !.reads = TRUE]
NextNode(o) == [o EXCEPT !.reads = FALSE, !.node = o.node + 1]
LEMMA ReplayHead ==
    ASSUME TypeInv, queue[Compute] # <<>>, NEW o, o = Head(queue[Compute])
    PROVE  /\ o \in ReplayOp /\ o = queue[Compute][1] /\ 1 \in 1..Len(queue[Compute])
           /\ o.role \in Roles /\ o.entry \in Entries /\ o.step \in Steps /\ o.step <= count
           /\ o.node \in Nat \ {0} /\ o.node <= Layers[o.entry] /\ Layers[o.entry] \in 1..MaxLayers
           /\ <<o.role, o.entry, o.node>> \in Nodes /\ MaxLayers \in Nat
           /\ Reads(o) \in ReplayOp
           /\ o.node # Layers[o.entry] => NextNode(o) \in ReplayOp /\ o.node + 1 <= Layers[o.entry]
<1>1. o \in ReplayOp /\ o = queue[Compute][1] /\ 1 \in 1..Len(queue[Compute]) /\ o.step <= count
  BY HeadOp, StreamFacts
<1>2. /\ o.role \in Roles /\ o.entry \in Entries /\ o.step \in Steps /\ o.node \in 1..MaxLayers
  BY <1>1 DEF ReplayOp
<1>3. Layers[o.entry] \in 1..MaxLayers /\ MaxLayers \in Nat /\ o.node <= Layers[o.entry]
  BY <1>1, <1>2, LayerFacts, DeviceFacts DEF ReplayShapes
<1>4. <<o.role, o.entry, o.node>> \in Nodes
  BY <1>2 DEF Nodes
<1>5. Reads(o) \in ReplayOp
  BY <1>1 DEF ReplayOp, Reads
<1>6. o.node # Layers[o.entry] => NextNode(o) \in ReplayOp /\ o.node + 1 <= Layers[o.entry]
  <2>1. o.node # Layers[o.entry] => o.node + 1 \in 1..MaxLayers /\ o.node + 1 <= Layers[o.entry]
    BY <1>2, <1>3
  <2>2. QED
    BY <1>1, <2>1 DEF ReplayOp, NextNode
<1>7. QED
  BY <1>1, <1>2, <1>3, <1>4, <1>5, <1>6

(* The compute stream with another head.                                      *)
LEMMA ReplayHeadChanged ==
    ASSUME TypeInv, queue[Compute] # <<>>, NEW o \in ReplayOp, o.step <= count,
           o.node <= Layers[o.entry], NEW p, p = WithHead(queue, Compute, o)
    PROVE  QueuesTyped(p) /\ QueueLaunched(p, count) /\ ReplayShapes(p)
<1>1. o \in OpsOf(Compute) /\ Compute \in Streams
  BY StreamFacts DEF OpsOf
<1>2. /\ QueuesTyped(p) /\ Len(p[Compute]) = Len(queue[Compute]) /\ p[Compute][1] = o
      /\ \A n \in 1..Len(queue[Compute]) : n # 1 => p[Compute][n] = queue[Compute][n]
      /\ QueueLaunched(p, count)
  BY <1>1, DeviceFacts, HeadChanged
<1>3. ReplayShapes(p)
  BY <1>2, DeviceFacts DEF ReplayShapes
<1>4. QED
  BY <1>2, <1>3

(* The five operations of the device, with the streams they run on.           *)
LEMMA BindFacts ==
    ASSUME TypeInv, NEW s \in Streams, queue[s] # <<>>, NEW o, o = Head(queue[s]), Bind(s, o)
    PROVE  /\ s \in Updates /\ o \in UpdateOp /\ o.op = "bind" /\ o.node \in Nodes /\ o.step \in Steps
           /\ o = queue[s][1] /\ 1 \in 1..Len(queue[s]) /\ o.step <= count
           /\ queue' = Deq(queue, s) /\ queue' = Popped(s)
           /\ param' = [param EXCEPT ![o.node] = o.step] /\ flag' = [flag EXCEPT ![o.node] = TRUE]
           /\ passed' = passed /\ finished' = finished
<1>1. o.op = "bind" /\ queue' = Popped(s)
  BY DEF Bind
<1>2. /\ param' = [param EXCEPT ![o.node] = o.step] /\ flag' = [flag EXCEPT ![o.node] = TRUE]
      /\ passed' = passed /\ finished' = finished
  BY DEF Bind
<1>3. o \in UpdateOp \cup ReplayOp /\ o = queue[s][1] /\ 1 \in 1..Len(queue[s]) /\ o.step <= count
      /\ (o \in ReplayOp <=> s = Compute)
  BY HeadOp
<1>4. \A x \in ReplayOp : x.op # "bind"
  BY DEF ReplayOp
<1>5. o \in UpdateOp /\ s \in Updates
  BY <1>1, <1>3, <1>4, StreamFacts
<1>6. o.node \in Nodes /\ o.step \in Steps
  BY <1>1, <1>5 DEF UpdateOp, BindOp
<1>7. QED
  BY <1>1, <1>2, <1>3, <1>5, <1>6, PoppedShapes

(* Gates and waits are found on update streams only.                          *)
LEMMA OtherUpdateOp ==
    ASSUME TypeInv, NEW s \in Streams, queue[s] # <<>>, NEW o, o = Head(queue[s]),
           o.op \in {"gate", "passed", "replayed"}
    PROVE  /\ s \in Updates /\ o \in UpdateOp /\ o.step \in Steps /\ o.step <= count
           /\ o = queue[s][1] /\ 1 \in 1..Len(queue[s])
<1>1. o \in UpdateOp \cup ReplayOp /\ o = queue[s][1] /\ 1 \in 1..Len(queue[s]) /\ o.step <= count
      /\ (o \in ReplayOp <=> s = Compute)
  BY HeadOp
<1>2. \A x \in ReplayOp : x.op = "replay"
  BY DEF ReplayOp
<1>3. o \in UpdateOp /\ s \in Updates
  BY <1>1, <1>2, StreamFacts
<1>4. o.step \in Steps
  BY <1>3 DEF UpdateOp, BindOp
<1>5. QED
  BY <1>1, <1>3, <1>4

(* A node's wait and its attention run on the compute stream.                 *)
LEMMA ReplayStream ==
    ASSUME TypeInv, NEW s \in Streams, queue[s] # <<>>, NEW o, o = Head(queue[s]), o.op = "replay"
    PROVE  s = Compute
<1>1. o \in UpdateOp \cup ReplayOp /\ (o \in UpdateOp <=> s # Compute)
  BY HeadOp
<1>2. \A x \in UpdateOp : x.op # "replay"
  BY DEF UpdateOp, BindOp
<1>3. QED
  BY <1>1, <1>2

(* What a node that takes its event does to the device.                       *)
LEMMA ConsumeIs ==
    ASSUME TypeInv, NEW s \in Streams, queue[s] # <<>>, NEW o, o = Head(queue[s]), Consume(s, o)
    PROVE  /\ s = Compute /\ ~o.reads /\ flag[<<o.role, o.entry, o.node>>]
           /\ flag' = [flag EXCEPT ![<<o.role, o.entry, o.node>>] = FALSE]
           /\ queue' = WithHead(queue, Compute, Reads(o))
           /\ param' = param /\ passed' = passed /\ finished' = finished
<1>1. s = Compute
  BY ReplayStream DEF Consume
<1>2. o = queue[Compute][1] /\ 1 \in 1..Len(queue[Compute]) /\ queue[Compute] \in Seq(ReplayOp)
  BY <1>1, ReplayHead, DeviceFacts
<1>3. queue' = WithHead(queue, Compute, Reads(o))
  BY <1>1, <1>2 DEF Consume, WithHead, Reads
<1>4. QED
  BY <1>1, <1>3 DEF Consume

(* What an attention call does to the device.                                 *)
LEMMA AttendIs ==
    ASSUME TypeInv, NEW s \in Streams, queue[s] # <<>>, NEW o, o = Head(queue[s]), Attend(s, o)
    PROVE  /\ s = Compute /\ o.reads
           /\ param' = param /\ flag' = flag /\ passed' = passed
           /\ \/ /\ o.node = Layers[o.entry] /\ queue' = Popped(Compute)
                 /\ finished' = finished \cup {o.step}
              \/ /\ o.node # Layers[o.entry] /\ queue' = WithHead(queue, Compute, NextNode(o))
                 /\ finished' = finished
<1>1. s = Compute /\ o.reads /\ param' = param /\ flag' = flag /\ passed' = passed
  BY ReplayStream DEF Attend
<1>2. o = queue[Compute][1] /\ 1 \in 1..Len(queue[Compute]) /\ queue[Compute] \in Seq(ReplayOp)
      /\ o \in ReplayOp
  BY <1>1, ReplayHead, DeviceFacts
<1>3. CASE o.node = Layers[o.entry]
  BY <1>1, <1>3 DEF Attend
<1>4. CASE o.node # Layers[o.entry]
  <2>1. finished' = finished
    BY <1>4 DEF Attend
  <2>2. queue' = WithHead(queue, Compute, NextNode(o))
    BY <1>1, <1>2, <1>4 DEF Attend, WithHead, NextNode
  <2>3. QED
    BY <1>1, <1>4, <2>1, <2>2
<1>5. QED
  BY <1>3, <1>4

(* Every step of the device.                                                  *)
LEMMA DeviceTyped ==
    ASSUME TypeInv, NEW s \in Streams, DeviceStep(s)
    PROVE  TypeInv'
<1>1. HostUnchanged /\ UNCHANGED jobs /\ queue[s] # <<>>
  BY DEF DeviceStep
<1> DEFINE o == Head(queue[s])
<1> HIDE DEF o
<1>2. Bind(s, o) \/ RecordGate(s, o) \/ AwaitEvent(s, o) \/ Consume(s, o) \/ Attend(s, o)
  BY DEF DeviceStep, o
<1>3. QueuesTyped(Popped(s)) /\ QueueLaunched(Popped(s), count) /\ ReplayShapes(Popped(s))
  BY <1>1, PoppedShapes
<1>4. CASE Bind(s, o)
  <2>1. /\ o.node \in Nodes /\ o.step \in Steps /\ o.step <= count
        /\ queue' = Popped(s)
        /\ param' = [param EXCEPT ![o.node] = o.step] /\ flag' = [flag EXCEPT ![o.node] = TRUE]
        /\ passed' = passed /\ finished' = finished
    BY <1>1, <1>4, BindFacts DEF o
  <2>2. param' \in [Nodes -> Nat] /\ flag' \in [Nodes -> BOOLEAN] /\ \A v \in Nodes : param'[v] <= count
    BY <2>1, DeviceFacts DEF Steps
  <2>3. QED
    BY <1>1, <1>3, <2>1, <2>2, DeviceFacts, DeviceStepTyped
<1>5. CASE RecordGate(s, o)
  <2>1. /\ queue' = Popped(s) /\ param' = param /\ flag' = flag /\ finished' = finished
        /\ passed' = passed \cup {o.step} /\ o.op = "gate"
    BY <1>5 DEF RecordGate
  <2>2. o.step \in Steps /\ o.step <= count
    BY <1>1, <2>1, OtherUpdateOp DEF o
  <2>3. passed' \in SUBSET Steps /\ \A k \in passed' \cup finished' : k <= count
    BY <2>1, <2>2, DeviceFacts
  <2>4. QED
    BY <1>1, <1>3, <2>1, <2>3, DeviceFacts, DeviceStepTyped
<1>6. CASE AwaitEvent(s, o)
  <2>1. /\ queue' = Popped(s) /\ param' = param /\ flag' = flag /\ finished' = finished
        /\ passed' = passed
    BY <1>6 DEF AwaitEvent
  <2>2. QED
    BY <1>1, <1>3, <2>1, DeviceFacts, DeviceStepTyped
<1>7. CASE Consume(s, o)
  <2>1. /\ s = Compute /\ queue' = WithHead(queue, Compute, Reads(o))
        /\ flag' = [flag EXCEPT ![<<o.role, o.entry, o.node>>] = FALSE]
        /\ param' = param /\ passed' = passed /\ finished' = finished
    BY <1>1, <1>7, ConsumeIs DEF o
  <2>2. /\ o \in ReplayOp /\ Reads(o) \in ReplayOp /\ o.step <= count /\ o.node <= Layers[o.entry]
    BY <1>1, <2>1, ReplayHead DEF o
  <2>3. Reads(o).step = o.step /\ Reads(o).node = o.node /\ Reads(o).entry = o.entry
    BY <2>2 DEF Reads, ReplayOp
  <2>4. QueuesTyped(queue') /\ QueueLaunched(queue', count) /\ ReplayShapes(queue')
    <3> DEFINE h == Reads(o)
    <3>1. h \in ReplayOp /\ h.step <= count /\ h.node <= Layers[h.entry] /\ queue[Compute] # <<>>
          /\ queue' = WithHead(queue, Compute, h)
      BY <1>1, <2>1, <2>2, <2>3
    <3> HIDE DEF h
    <3>2. QED
      BY <3>1, ReplayHeadChanged
  <2>5. flag' \in [Nodes -> BOOLEAN]
    BY <2>1, DeviceFacts
  <2>6. QED
    BY <1>1, <2>1, <2>4, <2>5, DeviceFacts, DeviceStepTyped
<1>8. CASE Attend(s, o)
  <2>1. /\ s = Compute /\ param' = param /\ flag' = flag /\ passed' = passed
        /\ \/ /\ queue' = Popped(Compute) /\ finished' = finished \cup {o.step}
           \/ /\ o.node # Layers[o.entry] /\ queue' = WithHead(queue, Compute, NextNode(o))
              /\ finished' = finished
    BY <1>1, <1>8, AttendIs DEF o
  <2>2. /\ o \in ReplayOp /\ o.step \in Steps /\ o.step <= count
        /\ o.node # Layers[o.entry] => NextNode(o) \in ReplayOp /\ o.node + 1 <= Layers[o.entry]
    BY <1>1, <2>1, ReplayHead DEF o
  <2>3. finished' \in SUBSET Steps /\ \A k \in passed' \cup finished' : k <= count
    BY <2>1, <2>2, DeviceFacts
  <2>4. QueuesTyped(queue') /\ QueueLaunched(queue', count) /\ ReplayShapes(queue')
    <3>1. CASE queue' = Popped(Compute)
      BY <1>3, <2>1, <3>1
    <3>2. CASE o.node # Layers[o.entry] /\ queue' = WithHead(queue, Compute, NextNode(o))
      <4> DEFINE h == NextNode(o)
      <4>1. h.step = o.step /\ h.node = o.node + 1 /\ h.entry = o.entry
        BY <2>2 DEF NextNode, ReplayOp
      <4>2. h \in ReplayOp /\ h.step <= count /\ h.node <= Layers[h.entry] /\ queue[Compute] # <<>>
            /\ queue' = WithHead(queue, Compute, h)
        BY <1>1, <2>1, <2>2, <3>2, <4>1
      <4> HIDE DEF h
      <4>3. QED
        BY <4>2, ReplayHeadChanged
    <3>3. QED
      BY <2>1, <3>1, <3>2
  <2>5. QED
    BY <1>1, <2>1, <2>3, <2>4, DeviceFacts, DeviceStepTyped
<1>9. QED
  BY <1>2, <1>4, <1>5, <1>6, <1>7, <1>8

(* The initial state has the types.                                           *)
LEMMA InitTyped == Init => TypeInv
<1> SUFFICES ASSUME Init PROVE TypeInv
  OBVIOUS
<1>1. /\ dep \in Deployments /\ host = Idle /\ count = 0 /\ jobs = {}
      /\ pending = [r \in Roles |-> {}] /\ last = [r \in Roles |-> 0] /\ dependency = [r \in Roles |-> 0]
      /\ queue = [s \in Streams |-> <<>>] /\ passed = {} /\ finished = {}
      /\ param = [v \in Nodes |-> 0] /\ flag = [v \in Nodes |-> FALSE]
  BY DEF Init
<1>2. host \in HostType /\ host.pc = "idle" /\ host.step = 0
  BY <1>1, DeploymentAssumption DEF Idle, HostType, Roles
<1>3. QueuesTyped(queue) /\ \A s \in Streams : Len(queue[s]) = 0
  BY <1>1 DEF QueuesTyped
<1>4. Typed
  BY <1>1, <1>2, <1>3, DeploymentAssumption DEF Typed
<1>5. HostLaunched /\ JobsLaunched /\ HandlesLaunched /\ DeviceLaunched /\ JobShapes
  BY <1>1, <1>2 DEF HostLaunched, JobsLaunched, HandlesLaunched, DeviceLaunched, JobShapes
<1>6. QueueLaunched(queue, count) /\ ReplayShapes(queue)
  BY <1>3, StreamFacts DEF QueueLaunched, ReplayShapes
<1>7. QED
  BY <1>4, <1>5, <1>6 DEF TypeInv

(* A step that changes nothing.                                               *)
LEMMA StutterTyped ==
    ASSUME TypeInv, UNCHANGED vars
    PROVE  TypeInv'
<1>1. /\ dep' = dep /\ host' = host /\ count' = count /\ jobs' = jobs /\ pending' = pending
      /\ last' = last /\ dependency' = dependency /\ queue' = queue
      /\ param' = param /\ flag' = flag /\ passed' = passed /\ finished' = finished
  BY DEF vars
<1>2. Typed'
  BY <1>1 DEF TypeInv, Typed
<1>3. HostLaunched' /\ JobsLaunched' /\ HandlesLaunched' /\ DeviceLaunched'
  BY <1>1 DEF TypeInv, HostLaunched, JobsLaunched, HandlesLaunched, DeviceLaunched
<1>4. JobShapes' /\ QueueLaunched(queue, count)' /\ ReplayShapes(queue)'
  BY <1>1 DEF TypeInv, JobShapes, JobShape, QueueLaunched, ReplayShapes, Layers
<1>5. QED
  BY <1>2, <1>3, <1>4 DEF TypeInv

(* Every step keeps the types.                                                *)
LEMMA NextTyped == TypeInv /\ [Next]_vars => TypeInv'
<1> SUFFICES ASSUME TypeInv, [Next]_vars PROVE TypeInv'
  OBVIOUS
<1>1. ASSUME NEW r \in Roles, LaunchRaises(r) PROVE TypeInv'
  BY <1>1, RaiseTyped DEF LaunchRaises
<1>2. ASSUME NEW r \in Roles, NEW e \in Entries, Launch(r, e) PROVE TypeInv'
  BY <1>2, LaunchTyped
<1>3. host.role \in Roles
  BY DEF TypeInv, Typed, HostType
<1>4. CASE HostContinues
  <2>1. CASE EnterUpdate
    BY <2>1, EnterUpdateTyped
  <2>2. CASE FallBack
    BY <2>2, FallBackTyped
  <2>3. CASE Dispatch
    BY <2>3, DispatchTyped
  <2>4. CASE RetireRaises
    BY <1>3, <2>4, RaiseTyped DEF RetireRaises
  <2>5. CASE CallSucceeds
    BY <2>5, CallSucceedsTyped
  <2>6. CASE CallRaises
    BY <1>3, <2>6, RaiseTyped DEF CallRaises
  <2>7. QED
    BY <1>4, <2>1, <2>2, <2>3, <2>4, <2>5, <2>6 DEF HostContinues
<1>5. ASSUME NEW j \in jobs, Works(j) \/ Fail(j) PROVE TypeInv'
  BY <1>5, WorksTyped, FailTyped
<1>6. ASSUME NEW s \in Streams, DeviceStep(s) PROVE TypeInv'
  BY <1>6, DeviceTyped
<1>7. CASE UNCHANGED vars
  BY <1>7, StutterTyped
<1>8. QED
  BY <1>1, <1>2, <1>4, <1>5, <1>6, <1>7 DEF Next

(* The types hold in every reachable state.                                   *)
LEMMA TypeInvHolds == Spec => []TypeInv
<1>1. Init /\ [][Next]_vars => []TypeInv
  BY InitTyped, NextTyped, PTL
<1>2. QED
  BY <1>1, PTL DEF Spec

(* Type correctness for every set of deployments: jobs run on the streams of  *)
(* their pool with a bounded task list, and every step number anywhere in the *)
(* state is that of a launched replay.                                        *)
THEOREM TypesHold == Spec => []TypeOK
BY TypeInvHolds, TypeInvImplies, PTL

--------------------------------------------------------------------------------
(* Who answers for a job.  A job that is not done belongs to the call the     *)
(* host is in, or is one of the pool's whose handle the state of its role     *)
(* keeps, unless the host has given up; so joining a role's handles leaves    *)
(* its streams free.                                                          *)
AccountedJob(j) ==
    \/ host.pc = "raised"
    \/ host.pc = "call" /\ j.step = host.step /\ j.role = host.role
    \/ /\ j.by = "pool" /\ j.step \in pending[StateOf(j.role)]
       /\ HasState(j.role) /\ dep.mode[j.role] # "join"
Accounted == \A j \in jobs : j.at # "done" => AccountedJob(j)
CallAlone == host.pc = "call" => pending[StateOf(host.role)] = {} /\ HasState(host.role)
JobStreams == \A j \in jobs : OnPool(j) \/ (j.by = "caller" /\ OnUpdate(j))
JobsInv == Accounted /\ CallAlone /\ JobStreams /\ StreamExclusive

(* The fields a job never changes.                                            *)
SameJob(j, k) == /\ k.stream = j.stream /\ k.role = j.role /\ k.entry = j.entry
                 /\ k.step = j.step /\ k.by = j.by

(* Once a role's handles are joined without an error, a job that is not done  *)
(* is another state's.                                                        *)
LEMMA JoinedLeavesOthers ==
    ASSUME TypeInv, JobsInv, host.pc \in {"idle", "update", "retire"}, NEW r \in Roles,
           Joined(r), ~JoinFails(r), NEW j \in jobs, j.at # "done"
    PROVE  /\ j.by = "pool" /\ j.step \in pending[StateOf(j.role)] /\ HasState(j.role)
           /\ dep.mode[j.role] # "join" /\ StateOf(j.role) # StateOf(r)
           /\ StateOf(j.role) \in Roles /\ j.stream[1] = StateOf(j.role) /\ j.stream[2] \in 1..MaxWorkers
<1>1. /\ j.by = "pool" /\ j.step \in pending[StateOf(j.role)] /\ HasState(j.role)
      /\ dep.mode[j.role] # "join"
  BY DEF JobsInv, Accounted, AccountedJob
<1>2. j.role \in Roles
  BY WorkingFacts
<1>3. StateOf(j.role) \in Roles
  BY <1>2, PoolFacts
<1>4. ASSUME StateOf(j.role) = StateOf(r) PROVE FALSE
  <2>1. j \in PendingJobs(r)
    BY <1>1, <1>4 DEF PendingJobs
  <2>2. Over(j)
    BY <2>1 DEF Joined
  <2>3. j.at = "failed"
    BY <2>2 DEF Over
  <2>4. QED
    BY <2>1, <2>3 DEF JoinFails
<1>5. OnPool(j)
  BY <1>1 DEF JobsInv, JobStreams
<1>6. QED
  BY <1>1, <1>3, <1>4, <1>5 DEF OnPool

(* The host drops some jobs, moves on, and maybe forgets what it joined.      *)
LEMMA JoinKeepsJobs ==
    ASSUME TypeInv, JobsInv, dep' = dep, jobs' \in SUBSET jobs, NEW r \in Roles,
           host.pc \in {"idle", "update", "retire"}, host'.pc \in {"idle", "update", "retire"},
           \/ pending' = pending
           \/ pending' = Forgotten(r) /\ Joined(r) /\ ~JoinFails(r)
    PROVE  JobsInv'
<1>1. \A x : StateOf(x)' = StateOf(x) /\ HasState(x)' = HasState(x) /\ UpdateStream(x)' = UpdateStream(x)
  BY DEF StateOf, HasState, UpdateStream
<1>2. ASSUME NEW j \in jobs', j.at # "done" PROVE AccountedJob(j)'
  <2>1. j \in jobs
    OBVIOUS
  <2>2. /\ j.by = "pool" /\ j.step \in pending[StateOf(j.role)]
        /\ HasState(j.role) /\ dep.mode[j.role] # "join"
    BY <1>2, <2>1 DEF JobsInv, Accounted, AccountedJob
  <2>3. CASE pending' = pending
    BY <1>1, <2>2, <2>3 DEF AccountedJob
  <2>4. CASE pending' = Forgotten(r) /\ Joined(r) /\ ~JoinFails(r)
    <3>1. StateOf(j.role) # StateOf(r) /\ StateOf(j.role) \in Roles
      BY <1>2, <2>1, <2>4, JoinedLeavesOthers
    <3>2. pending'[StateOf(j.role)] = pending[StateOf(j.role)]
      BY <2>4, <3>1, ForgottenFacts
    <3>3. QED
      BY <1>1, <2>2, <3>2 DEF AccountedJob
  <2>5. QED
    BY <2>3, <2>4
<1>3. Accounted'
  BY <1>2 DEF Accounted
<1>4. CallAlone'
  BY DEF CallAlone
<1>5. JobStreams'
  BY <1>1 DEF JobsInv, JobStreams, OnPool, OnUpdate
<1>6. StreamExclusive'
  BY DEF JobsInv, StreamExclusive, Over
<1>7. QED
  BY <1>3, <1>4, <1>5, <1>6 DEF JobsInv

(* A host that has raised leaves nothing to account for.                      *)
LEMMA RaiseKeepsJobs ==
    ASSUME TypeInv, JobsInv, Raise
    PROVE  JobsInv'
<1>1. dep' = dep /\ jobs' = jobs /\ host'.pc = "raised"
  BY DEF Raise, TypeInv, Typed, HostType
<1>2. \A x : StateOf(x)' = StateOf(x) /\ UpdateStream(x)' = UpdateStream(x)
  BY <1>1 DEF StateOf, UpdateStream
<1>3. Accounted' /\ CallAlone'
  BY <1>1 DEF Accounted, AccountedJob, CallAlone
<1>4. JobStreams' /\ StreamExclusive'
  BY <1>1, <1>2 DEF JobsInv, JobStreams, OnPool, OnUpdate, StreamExclusive, Over
<1>5. QED
  BY <1>3, <1>4 DEF JobsInv

(* One job takes a step.                                                      *)
LEMMA JobStepKeepsJobs ==
    ASSUME TypeInv, JobsInv, HostUnchanged, NEW j \in jobs, NEW k, Becomes(j, k), SameJob(j, k), ~Over(j)
    PROVE  JobsInv'
<1>1. dep' = dep /\ host' = host /\ pending' = pending /\ jobs' = (jobs \ {j}) \cup {k}
  BY DEF HostUnchanged, Becomes
<1>2. \A x : StateOf(x)' = StateOf(x) /\ HasState(x)' = HasState(x) /\ UpdateStream(x)' = UpdateStream(x)
  BY <1>1 DEF StateOf, HasState, UpdateStream
<1>3. \A i : AccountedJob(i)' <=> AccountedJob(i)
  BY <1>1, <1>2 DEF AccountedJob
<1>4. AccountedJob(j) /\ (AccountedJob(k) <=> AccountedJob(j))
  BY DEF JobsInv, Accounted, AccountedJob, SameJob, Over
<1>5. Accounted'
  BY <1>1, <1>3, <1>4 DEF JobsInv, Accounted
<1>6. CallAlone'
  BY <1>1, <1>2 DEF JobsInv, CallAlone
<1>7. JobStreams'
  <2>1. \A i \in jobs : OnPool(i) \/ (i.by = "caller" /\ OnUpdate(i))
    BY DEF JobsInv, JobStreams
  <2>2. OnPool(k) \/ (k.by = "caller" /\ OnUpdate(k))
    BY <2>1 DEF OnPool, OnUpdate, SameJob
  <2>3. \A i : (OnPool(i)' <=> OnPool(i)) /\ (OnUpdate(i)' <=> OnUpdate(i))
    BY <1>2 DEF OnPool, OnUpdate
  <2>4. QED
    BY <1>1, <2>1, <2>2, <2>3 DEF JobStreams
<1>8. StreamExclusive'
  BY <1>1 DEF JobsInv, StreamExclusive, SameJob, Over
<1>9. QED
  BY <1>5, <1>6, <1>7, <1>8 DEF JobsInv

(* A dispatch starts jobs on the streams that the joined ones have left.      *)
LEMMA DispatchKeepsJobs ==
    ASSUME TypeInv, JobsInv, Dispatch
    PROVE  JobsInv'
<1> DEFINE r == host.role e == host.entry
           D == Dispatched(r, e)
<1>1. /\ dep' = dep /\ host.pc = "retire" /\ Planned(r, e) /\ Joined(r) /\ ~JoinFails(r)
      /\ jobs' = (jobs \ Retired(r)) \cup D
      /\ pending' = [pending EXCEPT ![StateOf(r)] = IF dep.mode[r] = "defer" THEN {host.step} ELSE {}]
      /\ host' = [host EXCEPT !.pc = IF dep.mode[r] = "defer" THEN "idle" ELSE "call"]
  BY DEF Dispatch
<1>2. r \in Roles /\ StateOf(r) \in Roles /\ HasState(r)
  BY <1>1, PoolFacts DEF TypeInv, Typed, HostType, Planned
<1>3. \A x : StateOf(x)' = StateOf(x) /\ HasState(x)' = HasState(x) /\ UpdateStream(x)' = UpdateStream(x)
  BY <1>1 DEF StateOf, HasState, UpdateStream
<1>4. /\ host'.pc = (IF dep.mode[r] = "defer" THEN "idle" ELSE "call")
      /\ host'.role = r /\ host'.step = host.step
  BY <1>1 DEF TypeInv, Typed, HostType
<1>5. /\ pending'[StateOf(r)] = IF dep.mode[r] = "defer" THEN {host.step} ELSE {}
      /\ \A x \in Roles : x # StateOf(r) => pending'[x] = pending[x]
  BY <1>1, <1>2 DEF TypeInv, Typed
<1>6. /\ \A j \in D : /\ j.role = r /\ j.step = host.step
                      /\ OnPool(j) \/ (j.by = "caller" /\ OnUpdate(j))
                      /\ j.by = "caller" => dep.mode[r] # "defer"
                      /\ j.by \in {"pool", "caller"}
      /\ \A i, j \in D : i # j => i.stream # j.stream
  BY <1>1, DispatchedFacts DEF JobType
<1> HIDE DEF D
<1>7. ASSUME NEW j \in jobs, j.at # "done"
      PROVE  /\ j.by = "pool" /\ j.step \in pending[StateOf(j.role)] /\ HasState(j.role)
             /\ dep.mode[j.role] # "join" /\ StateOf(j.role) # StateOf(r) /\ StateOf(j.role) \in Roles
             /\ j.stream[1] = StateOf(j.role) /\ j.stream[2] \in 1..MaxWorkers
  BY <1>1, <1>2, <1>7, JoinedLeavesOthers
<1>8. Accounted'
  <2>1. ASSUME NEW j \in jobs, j.at # "done" PROVE AccountedJob(j)'
    <3>1. /\ j.by = "pool" /\ HasState(j.role) /\ dep.mode[j.role] # "join"
          /\ j.step \in pending'[StateOf(j.role)]
      BY <1>5, <1>7, <2>1
    <3>2. QED
      BY <1>1, <1>3, <3>1 DEF AccountedJob
  <2>2. ASSUME NEW j \in D PROVE AccountedJob(j)'
    <3>1. CASE dep.mode[r] = "defer"
      <4>1. j.by = "pool" /\ j.step \in pending'[StateOf(j.role)] /\ HasState(j.role)
            /\ dep.mode[j.role] # "join"
        BY <1>2, <1>5, <1>6, <3>1
      <4>2. QED
        BY <1>1, <1>3, <4>1 DEF AccountedJob
    <3>2. CASE dep.mode[r] # "defer"
      BY <1>4, <1>6, <3>2 DEF AccountedJob
    <3>3. QED
      BY <3>1, <3>2
  <2>3. QED
    BY <1>1, <2>1, <2>2 DEF Accounted
<1>9. CallAlone'
  BY <1>2, <1>3, <1>4, <1>5 DEF CallAlone
<1>10. JobStreams'
  <2>1. \A i : (OnPool(i)' <=> OnPool(i)) /\ (OnUpdate(i)' <=> OnUpdate(i))
    BY <1>3 DEF OnPool, OnUpdate
  <2>2. QED
    BY <1>1, <1>6, <2>1 DEF JobsInv, JobStreams
<1>11. StreamExclusive'
  <2>1. ASSUME NEW i \in jobs, NEW j \in D, ~Over(i) PROVE i.stream # j.stream
    <3>1. StateOf(i.role) # StateOf(r) /\ i.stream[1] = StateOf(i.role) /\ i.stream[2] \in 1..MaxWorkers
      BY <1>7, <2>1 DEF Over
    <3>2. CASE OnPool(j)
      BY <1>6, <3>1, <3>2 DEF OnPool
    <3>3. CASE OnUpdate(j)
      <4>1. j.stream[2] = 0
        BY <3>3 DEF OnUpdate, UpdateStream
      <4>2. QED
        BY <3>1, <4>1
    <3>4. QED
      BY <1>6, <3>2, <3>3
  <2>2. ASSUME NEW i \in jobs, NEW j \in jobs, i # j, ~Over(i), ~Over(j) PROVE i.stream # j.stream
    BY <2>2 DEF JobsInv, StreamExclusive
  <2>3. QED
    <3>1. ASSUME NEW i \in jobs', NEW j \in jobs', i # j, ~Over(i), ~Over(j) PROVE i.stream # j.stream
      <4>1. (i \in jobs \/ i \in D) /\ (j \in jobs \/ j \in D)
        BY <1>1
      <4>2. QED
        BY <1>6, <2>1, <2>2, <3>1, <4>1
    <3>2. QED
      BY <3>1 DEF StreamExclusive, Over
<1>12. QED
  BY <1>8, <1>9, <1>10, <1>11 DEF JobsInv

(* A call that has its own part done hands the rest over, or has none.        *)
LEMMA CallSucceedsKeepsJobs ==
    ASSUME TypeInv, JobsInv, CallSucceeds
    PROVE  JobsInv'
<1> DEFINE r == host.role
<1>1. /\ dep' = dep /\ host.pc = "call" /\ jobs' \in SUBSET jobs /\ \A j \in Own : j.at = "done"
      /\ host' = [host EXCEPT !.pc = "idle"]
      /\ \/ /\ dep.mode[r] = "pipeline" /\ jobs' = jobs \ Own
            /\ pending' = [pending EXCEPT ![StateOf(r)] = {host.step}]
         \/ /\ \A j \in Mine : j.at = "done"
            /\ pending' = pending
  BY DEF CallSucceeds
<1>2. r \in Roles /\ StateOf(r) \in Roles
  BY PoolFacts DEF TypeInv, Typed, HostType
<1>3. \A x : StateOf(x)' = StateOf(x) /\ HasState(x)' = HasState(x) /\ UpdateStream(x)' = UpdateStream(x)
  BY <1>1 DEF StateOf, HasState, UpdateStream
<1>4. pending[StateOf(r)] = {} /\ HasState(r)
  BY <1>1 DEF JobsInv, CallAlone
<1>5. ASSUME NEW j \in jobs', j.at # "done" PROVE AccountedJob(j)'
  <2>1. j \in jobs /\ j.role \in Roles /\ StateOf(j.role) \in Roles /\ j.by \in {"pool", "caller"}
    BY <1>1, WorkingFacts, PoolFacts
  <2>2. \/ j \in Mine /\ j.role = r
        \/ /\ j.by = "pool" /\ j.step \in pending[StateOf(j.role)] /\ HasState(j.role)
           /\ dep.mode[j.role] # "join"
    BY <1>1, <1>5, <2>1 DEF JobsInv, Accounted, AccountedJob, Mine
  <2>3. CASE dep.mode[r] = "pipeline" /\ pending' = [pending EXCEPT ![StateOf(r)] = {host.step}]
    <3>1. /\ pending'[StateOf(r)] = {host.step}
          /\ \A x \in Roles : x # StateOf(r) => pending'[x] = pending[x]
      BY <1>2, <2>3 DEF TypeInv, Typed
    <3>2. CASE j \in Mine /\ j.role = r
      <4>1. j.by = "pool" /\ j.step = host.step
        BY <1>1, <1>5, <2>1, <3>2 DEF Own, Mine
      <4>2. QED
        BY <1>1, <1>3, <1>4, <2>3, <3>1, <3>2, <4>1 DEF AccountedJob
    <3>3. CASE j.by = "pool" /\ j.step \in pending[StateOf(j.role)] /\ HasState(j.role)
               /\ dep.mode[j.role] # "join"
      <4>1. StateOf(j.role) # StateOf(r)
        BY <1>4, <3>3
      <4>2. QED
        BY <1>1, <1>3, <2>1, <3>1, <3>3, <4>1 DEF AccountedJob
    <3>4. QED
      BY <2>2, <3>2, <3>3
  <2>4. CASE (\A i \in Mine : i.at = "done") /\ pending' = pending
    BY <1>1, <1>3, <1>5, <2>2, <2>4 DEF AccountedJob
  <2>5. QED
    BY <1>1, <2>3, <2>4
<1>6. Accounted'
  BY <1>5 DEF Accounted
<1>7. host'.pc = "idle"
  BY <1>1 DEF TypeInv, Typed, HostType
<1>8. CallAlone'
  BY <1>7 DEF CallAlone
<1>9. JobStreams' /\ StreamExclusive'
  BY <1>1, <1>3 DEF JobsInv, JobStreams, OnPool, OnUpdate, StreamExclusive, Over
<1>10. QED
  BY <1>6, <1>8, <1>9 DEF JobsInv

(* Before the first launch there are no jobs.                                 *)
LEMMA InitJobs == Init => JobsInv
<1> SUFFICES ASSUME Init PROVE JobsInv
  OBVIOUS
<1>1. jobs = {} /\ host.pc = "idle"
  BY DEF Init, Idle
<1>2. QED
  BY <1>1 DEF JobsInv, Accounted, CallAlone, JobStreams, StreamExclusive

(* Every step keeps the jobs accounted for.                                   *)
LEMMA NextKeepsJobs == TypeInv /\ JobsInv /\ [Next]_vars => JobsInv'
<1> SUFFICES ASSUME TypeInv, JobsInv, [Next]_vars PROVE JobsInv'
  OBVIOUS
<1>1. ASSUME NEW r \in Roles, LaunchRaises(r) PROVE JobsInv'
  BY <1>1, RaiseKeepsJobs DEF LaunchRaises
<1>2. ASSUME NEW r \in Roles, NEW e \in Entries, Launch(r, e) PROVE JobsInv'
  <2>1. /\ host.pc = "idle" /\ host'.pc = "update" /\ dep' = dep /\ jobs' \in SUBSET jobs
        /\ \/ pending' = pending
           \/ pending' = Forgotten(r) /\ Joined(r) /\ ~JoinFails(r)
    BY <1>2 DEF Launch
  <2>2. QED
    BY <2>1, JoinKeepsJobs
<1>3. host.role \in Roles /\ host \in HostType
  BY DEF TypeInv, Typed, HostType
<1>4. CASE HostContinues
  <2>1. CASE EnterUpdate
    <3>1. /\ host.pc = "update" /\ host'.pc = "retire" /\ dep' = dep /\ jobs' \in SUBSET jobs
          /\ pending' = pending
      BY <1>3, <2>1 DEF EnterUpdate, HostType
    <3>2. QED
      BY <1>3, <3>1, JoinKeepsJobs
  <2>2. CASE FallBack
    <3>1. /\ host.pc = "retire" /\ host'.pc = "idle" /\ dep' = dep /\ jobs' \in SUBSET jobs
          /\ \/ pending' = pending
             \/ pending' = Forgotten(host.role) /\ Joined(host.role) /\ ~JoinFails(host.role)
      BY <1>3, <2>2 DEF FallBack, HostType
    <3>2. QED
      BY <1>3, <3>1, JoinKeepsJobs
  <2>3. CASE Dispatch
    BY <2>3, DispatchKeepsJobs
  <2>4. CASE RetireRaises
    BY <2>4, RaiseKeepsJobs DEF RetireRaises
  <2>5. CASE CallSucceeds
    BY <2>5, CallSucceedsKeepsJobs
  <2>6. CASE CallRaises
    BY <2>6, RaiseKeepsJobs DEF CallRaises
  <2>7. QED
    BY <1>4, <2>1, <2>2, <2>3, <2>4, <2>5, <2>6 DEF HostContinues
<1>5. ASSUME NEW j \in jobs, Works(j) \/ Fail(j) PROVE JobsInv'
  <2>1. j \in JobType
    BY JobFacts
  <2>2. CASE Works(j)
    <3>1. /\ ~Over(j) /\ HostUnchanged
          /\ Becomes(j, Freed(j)) \/ Becomes(j, Rebound(j))
      BY <2>2, WorksIs
    <3>2. SameJob(j, Freed(j)) /\ SameJob(j, Rebound(j))
      BY <2>1 DEF SameJob, Freed, Rebound, JobType
    <3>3. QED
      BY <3>1, <3>2, JobStepKeepsJobs
  <2>3. CASE Fail(j)
    <3> DEFINE k == [j EXCEPT !.at = "failed"]
    <3>1. ~Over(j) /\ HostUnchanged /\ Becomes(j, k)
      BY <2>3 DEF Fail, Over
    <3>2. SameJob(j, k)
      BY <2>1 DEF SameJob, JobType
    <3> HIDE DEF k
    <3>3. QED
      BY <3>1, <3>2, JobStepKeepsJobs
  <2>4. QED
    BY <1>5, <2>2, <2>3
<1>6. ASSUME dep' = dep, host' = host, pending' = pending, jobs' = jobs PROVE JobsInv'
  <2>1. \A x : StateOf(x)' = StateOf(x) /\ HasState(x)' = HasState(x) /\ UpdateStream(x)' = UpdateStream(x)
    BY <1>6 DEF StateOf, HasState, UpdateStream
  <2>2. Accounted' /\ CallAlone'
    BY <1>6, <2>1 DEF JobsInv, Accounted, AccountedJob, CallAlone
  <2>3. JobStreams' /\ StreamExclusive'
    BY <1>6, <2>1 DEF JobsInv, JobStreams, OnPool, OnUpdate, StreamExclusive, Over
  <2>4. QED
    BY <2>2, <2>3 DEF JobsInv
<1>7. ASSUME NEW s \in Streams, DeviceStep(s) PROVE JobsInv'
  BY <1>6, <1>7 DEF DeviceStep, HostUnchanged
<1>8. CASE UNCHANGED vars
  BY <1>6, <1>8 DEF vars
<1>9. QED
  BY <1>1, <1>2, <1>4, <1>5, <1>7, <1>8 DEF Next

(* The account of the jobs holds in every reachable state.                    *)
LEMMA JobsInvHolds == Spec => [](TypeInv /\ JobsInv)
<1>1. Init => TypeInv /\ JobsInv
  BY InitTyped, InitJobs
<1>2. TypeInv /\ JobsInv /\ [Next]_vars => (TypeInv /\ JobsInv)'
  BY NextTyped, NextKeepsJobs
<1>3. Init /\ [][Next]_vars => [](TypeInv /\ JobsInv)
  BY <1>1, <1>2, PTL
<1>4. QED
  BY <1>3, PTL DEF Spec

(* Between graph_task_update_begin and _end a stream belongs to one thread,   *)
(* for every number of workers, every plan and both roles on one pool: no     *)
(* dispatch starts a job on a stream where another is unfinished.             *)
THEOREM StreamsExclusive == Spec => []StreamExclusive
<1>1. TypeInv /\ JobsInv => StreamExclusive
  BY DEF JobsInv
<1>2. QED
  BY <1>1, JobsInvHolds, PTL

(* At a launch, a failed binding of the launched role can only be one of a    *)
(* pipeline's tail.                                                           *)
LEMMA LaunchReports ==
    ASSUME TypeInv, JobsInv, [Next]_vars, count' > count
    PROVE  \A j \in jobs : j.at = "failed" /\ j.role = host'.role => dep.mode[j.role] = "pipeline"
<1>1. count \in Nat /\ (count' = count => ~(count' > count))
  BY DEF TypeInv, Typed
<1>2. PICK r \in Roles, e \in Entries : Launch(r, e)
  BY <1>1 DEF Next, vars, LaunchRaises, Raise, HostContinues, EnterUpdate, FallBack, Dispatch, RetireRaises,
     CallSucceeds, CallRaises, Works, WaitGate, Rebind, Fail, DeviceStep, HostUnchanged
<1>3. /\ host.pc = "idle" /\ host'.role = r
      /\ Waits(r) => Joined(r) /\ ~JoinFails(r)
  BY <1>2 DEF Launch
<1>4. ASSUME NEW j \in jobs, j.at = "failed", j.role = r PROVE dep.mode[r] = "pipeline"
  <2>1. j.step \in pending[StateOf(r)] /\ j.by = "pool" /\ HasState(r) /\ dep.mode[r] # "join"
    BY <1>3, <1>4 DEF JobsInv, Accounted, AccountedJob
  <2>2. j \in PendingJobs(r)
    BY <2>1 DEF PendingJobs
  <2>3. dep.mode[r] # "defer"
    BY <1>3, <1>4, <2>1, <2>2 DEF Waits, JoinFails
  <2>4. dep.mode[r] \in {"join", "defer", "pipeline"}
    BY DeploymentAssumption DEF TypeInv, Typed, DeploymentType
  <2>5. QED
    BY <2>1, <2>3, <2>4
<1>5. QED
  BY <1>3, <1>4

(* A binding that failed is reported before the graph that needs it next is   *)
(* launched again, for every deployment; only a pipeline's tail may wait for  *)
(* the next update to be reported.                                            *)
THEOREM FailuresReported == Spec => FailureReported
<1>1. TypeInv /\ JobsInv /\ [Next]_vars
        => [count' > count =>
              \A j \in jobs : j.at = "failed" /\ j.role = host'.role => dep.mode[j.role] = "pipeline"]_vars
  BY LaunchReports
<1>2. QED
  BY <1>1, JobsInvHolds, PTL DEF Spec, FailureReported

--------------------------------------------------------------------------------
(* What makes a replay read its own update.                                   *)
(*                                                                            *)
(* A binding of node v for step k is in one place at a time: a task of a job, *)
(* an operation on an update stream, or an event recorded on the device.  As  *)
(* long as it exists, replay k waits for it; and it cannot reach the head of  *)
(* its stream before every earlier replay of its role has left the device,    *)
(* because a gate, or the wait for the prior replay, is queued before it.     *)

(* Replay o still waits for the event of node v of step k.                    *)
AwaitedBy(o, L, v, k) ==
    /\ o.step = k /\ o.role = v[1] /\ o.entry = v[2] /\ v[3] <= L[o.entry]
    /\ v[3] > o.node \/ (v[3] = o.node /\ ~o.reads)
Awaited(g, L, v, k) == \E p \in 1..Len(g) : AwaitedBy(g[p], L, v, k)

(* No replay of k's role older than k is on the device, or none past m.       *)
Fresh(g, k) == \A p, q \in 1..Len(g) :
                  g[p].step = k /\ g[q].role = g[p].role => g[q].step >= k
Covered(g, k, m) == \A p, q \in 1..Len(g) :
                       g[p].step = k /\ g[q].role = g[p].role /\ g[q].step < k => g[q].step <= m

(* Operation o lets what follows it run only when k is fresh; the n-th place  *)
(* of a stream c is behind such an operation.                                 *)
Opens(g, o, k) == \/ o.op = "passed" /\ o.step = k
                  \/ o.op = "replayed" /\ Covered(g, k, o.step)
Guarded(g, c, n, k) == Fresh(g, k) \/ \E i \in 1..Len(c) : i < n /\ Opens(g, c[i], k)
GuardedEnd(g, c, k) == Guarded(g, c, Len(c) + 1, k)
GuardedOps(g, q) ==
    \A s \in Updates : \A n \in 1..Len(q[s]) :
        q[s][n].op \in {"bind", "gate"} => Guarded(g, q[s], n, q[s][n].step)

(* The places of the binding of node v for step k, each at most once.         *)
NodeOf(j, n) == <<j.role, j.entry, j.todo[n]>>
BindAt(o, v, k) == o.op = "bind" /\ o.node = v /\ o.step = k
TaskAt(j, n, v, k) == ~Over(j) /\ NodeOf(j, n) = v /\ j.step = k
Queued(q, v, k) == \E s \in Updates : \E n \in 1..Len(q[s]) : BindAt(q[s][n], v, k)
Held(J, v, k) == \E j \in J : \E n \in 1..Len(j.todo) : TaskAt(j, n, v, k)
Recorded(f, p, v, k) == f[v] /\ p[v] = k
QueuedOnce(q, v, k) ==
    \A s, t \in Updates : \A m \in 1..Len(q[s]), n \in 1..Len(q[t]) :
        BindAt(q[s][m], v, k) /\ BindAt(q[t][n], v, k) => s = t /\ m = n
HeldOnce(J, v, k) ==
    \A i, j \in J : \A m \in 1..Len(i.todo), n \in 1..Len(j.todo) :
        TaskAt(i, m, v, k) /\ TaskAt(j, n, v, k) => i = j /\ m = n
Once(q, J, f, p, v, k) ==
    /\ QueuedOnce(q, v, k) /\ HeldOnce(J, v, k)
    /\ ~(Queued(q, v, k) /\ Held(J, v, k))
    /\ ~(Queued(q, v, k) /\ Recorded(f, p, v, k))
    /\ ~(Held(J, v, k) /\ Recorded(f, p, v, k))
Somewhere(q, J, f, p, v, k) == Queued(q, v, k) \/ Held(J, v, k) \/ Recorded(f, p, v, k)

(* Replays leave the device in the order of their steps, and only the first   *)
(* has begun.                                                                 *)
Graphs == queue[Compute]
Ordered(g) == \A p, q \in 1..Len(g) : p < q => g[p].step < g[q].step
Unbegun(g) == \A p \in 1..Len(g) : p > 1 => g[p].node = 1 /\ ~g[p].reads
GraphsInv ==
    /\ Ordered(Graphs) /\ Unbegun(Graphs)
    /\ \A p \in 1..Len(Graphs) : \A k \in finished : k < Graphs[p].step
    /\ dep.ordered => \A p \in 1..Len(Graphs) : Graphs[p].step <= last[Graphs[p].role]

BindingsInv ==
    \A v \in Nodes : \A k \in Nat :
        /\ Somewhere(queue, jobs, flag, param, v, k) => Awaited(Graphs, Layers, v, k)
        /\ Once(queue, jobs, flag, param, v, k)

GatesInv ==
    /\ GuardedOps(Graphs, queue)
    /\ \A k \in passed : Fresh(Graphs, k)
    /\ \A v \in Nodes : flag[v] => Fresh(Graphs, param[v])
    /\ \A j \in jobs : j.at = "free" => GuardedEnd(Graphs, queue[j.stream], j.step)

(* Until its update is dispatched, nothing names the launched step but its    *)
(* replay, which has not begun.                                               *)
NotYet(q, J, f, p, k) == \A v \in Nodes : ~Somewhere(q, J, f, p, v, k)
Launched(g, h) == \E p \in 1..Len(g) : g[p] = ReplayOf(h.role, h.entry, h.step)
Prepared(g, h, d) == Fresh(g, h.step) \/ (d[h.role] # 0 /\ Covered(g, h.step, d[h.role]))
ComingInv ==
    /\ host.pc \in {"update", "retire"} =>
          Launched(Graphs, host) /\ NotYet(queue, jobs, flag, param, host.step)
    /\ host.pc = "update" => Prepared(Graphs, host, dependency)
    /\ host.pc = "retire" => GuardedEnd(Graphs, queue[UpdateStream(host.role)], host.step)

ReadingInv == \A p \in 1..Len(Graphs) :
    Graphs[p].reads => param[<<Graphs[p].role, Graphs[p].entry, Graphs[p].node>>] = Graphs[p].step

ReplayInv == GraphsInv /\ BindingsInv /\ GatesInv /\ ComingInv /\ ReadingInv

(* The reading half of the invariant is what the property asks.               *)
LEMMA ReplayInvImplies == TypeInv /\ ReplayInv => ReplayReadsItsUpdate
<1> SUFFICES ASSUME TypeInv, ReplayInv, NEW s \in Streams, queue[s] # <<>>,
                    NEW o, o = Head(queue[s]), o.op = "replay", o.reads
             PROVE  param[<<o.role, o.entry, o.node>>] = o.step
  BY DEF ReplayReadsItsUpdate
<1>1. s = Compute
  BY ReplayStream
<1>2. o = Graphs[1] /\ 1 \in 1..Len(Graphs)
  BY <1>1, ReplayHead DEF Graphs
<1>3. QED
  BY <1>2 DEF ReplayInv, ReadingInv

(* Two streams of replays in which the same replays wait, or fewer of them.   *)
Inside(g, h) == \A p \in 1..Len(h) : \E q \in 1..Len(g) : h[p].step = g[q].step /\ h[p].role = g[q].role
LEMMA InsideKeeps ==
    ASSUME NEW g, NEW h, Inside(g, h)
    PROVE  /\ \A k : Fresh(g, k) => Fresh(h, k)
           /\ \A k, m : Covered(g, k, m) => Covered(h, k, m)
BY DEF Inside, Fresh, Covered

(* A place stays guarded when fewer replays wait and the stream has grown     *)
(* behind it.                                                                 *)
Begins(c, d) == Len(c) <= Len(d) /\ \A i \in 1..Len(c) : d[i] = c[i]
LEMMA GuardedKept ==
    ASSUME NEW g, NEW h, NEW k,
           Fresh(g, k) => Fresh(h, k), \A m : Covered(g, k, m) => Covered(h, k, m),
           NEW c, NEW d, Len(c) \in Nat, Len(d) \in Nat, Begins(c, d),
           NEW n \in Nat, NEW m \in Nat, n <= m, Guarded(g, c, n, k)
    PROVE  Guarded(h, d, m, k)
<1>1. CASE Fresh(g, k)
  BY <1>1 DEF Guarded
<1>2. CASE \E i \in 1..Len(c) : i < n /\ Opens(g, c[i], k)
  <2>1. PICK i \in 1..Len(c) : i < n /\ Opens(g, c[i], k)
    BY <1>2
  <2>2. i \in 1..Len(d) /\ i < m /\ d[i] = c[i]
    BY <2>1 DEF Begins
  <2>3. Opens(h, d[i], k)
    BY <2>1, <2>2 DEF Opens
  <2>4. QED
    BY <2>2, <2>3 DEF Guarded
<1>3. QED
  BY <1>1, <1>2 DEF Guarded

(* Enqueueing an operation adds the binding it carries and no other.          *)
LEMMA EnqueuedPlaces ==
    ASSUME NEW q, QueuesTyped(q), NEW s \in Updates, NEW o \in UpdateOp, NEW p, p = Enq(q, s, o),
           NEW v, NEW k
    PROVE  /\ Queued(p, v, k) => Queued(q, v, k) \/ BindAt(o, v, k)
           /\ QueuedOnce(q, v, k) /\ ~(BindAt(o, v, k) /\ Queued(q, v, k)) => QueuedOnce(p, v, k)
<1>1. /\ p[s] = Append(q[s], o) /\ \A t \in Streams : t # s => p[t] = q[t]
  BY Enqueued
<1>2. /\ q[s] \in Seq(UpdateOp) /\ \A t \in Updates : t \in Streams
  BY StreamFacts DEF QueuesTyped, OpsOf
<1>3. /\ Len(p[s]) = Len(q[s]) + 1 /\ Len(q[s]) \in Nat
      /\ \A n \in 1..Len(q[s]) : p[s][n] = q[s][n]
      /\ p[s][Len(q[s]) + 1] = o
  BY <1>1, <1>2, AppendPlaces
<1>4. ASSUME NEW t \in Updates, NEW n \in 1..Len(p[t]), BindAt(p[t][n], v, k)
      PROVE  \/ n \in 1..Len(q[t]) /\ BindAt(q[t][n], v, k)
             \/ t = s /\ n = Len(q[s]) + 1 /\ BindAt(o, v, k)
  <2>1. CASE t # s
    BY <1>1, <1>2, <1>4, <2>1
  <2>2. CASE t = s /\ n \in 1..Len(q[s])
    BY <1>3, <1>4, <2>2
  <2>3. CASE t = s /\ n \notin 1..Len(q[s])
    <3>1. n = Len(q[s]) + 1
      BY <1>3, <1>4, <2>3
    <3>2. QED
      BY <1>3, <1>4, <2>3, <3>1
  <2>4. QED
    BY <2>1, <2>2, <2>3
<1>5. Queued(p, v, k) => Queued(q, v, k) \/ BindAt(o, v, k)
  BY <1>4 DEF Queued
<1>6. ASSUME QueuedOnce(q, v, k), ~(BindAt(o, v, k) /\ Queued(q, v, k))
      PROVE  QueuedOnce(p, v, k)
  <2> SUFFICES ASSUME NEW t \in Updates, NEW u \in Updates, NEW m \in 1..Len(p[t]), NEW n \in 1..Len(p[u]),
                      BindAt(p[t][m], v, k), BindAt(p[u][n], v, k)
               PROVE  t = u /\ m = n
    BY DEF QueuedOnce
  <2>1. CASE BindAt(o, v, k)
    BY <1>4, <1>6, <2>1 DEF Queued
  <2>2. CASE ~BindAt(o, v, k)
    <3>1. m \in 1..Len(q[t]) /\ BindAt(q[t][m], v, k) /\ n \in 1..Len(q[u]) /\ BindAt(q[u][n], v, k)
      BY <1>4, <2>2
    <3>2. QED
      BY <1>6, <3>1 DEF QueuedOnce
  <2>3. QED
    BY <2>1, <2>2
<1>7. QED
  BY <1>5, <1>6

(* The same for a list of operations that binds each node once.               *)
BindsOnce(z, v, k) == \A m, n \in 1..Len(z) : BindAt(z[m], v, k) /\ BindAt(z[n], v, k) => m = n
LEMMA EnqueuedAllPlaces ==
    ASSUME NEW q, QueuesTyped(q), NEW s \in Updates, NEW z \in Seq(UpdateOp), NEW p, p = EnqAll(q, s, z),
           NEW v, NEW k
    PROVE  /\ Queued(p, v, k) => Queued(q, v, k) \/ \E n \in 1..Len(z) : BindAt(z[n], v, k)
           /\ QueuedOnce(q, v, k) /\ ~Queued(q, v, k) /\ BindsOnce(z, v, k) => QueuedOnce(p, v, k)
           /\ QueuedOnce(q, v, k) /\ (\A n \in 1..Len(z) : ~BindAt(z[n], v, k)) => QueuedOnce(p, v, k)
<1>1. /\ p[s] = q[s] \o z /\ \A t \in Streams : t # s => p[t] = q[t]
  BY EnqueuedAll
<1>2. /\ q[s] \in Seq(UpdateOp) /\ \A t \in Updates : t \in Streams
  BY StreamFacts DEF QueuesTyped, OpsOf
<1>3. /\ Len(p[s]) = Len(q[s]) + Len(z) /\ Len(q[s]) \in Nat /\ Len(z) \in Nat
      /\ \A n \in 1..Len(q[s]) : p[s][n] = q[s][n]
      /\ \A n \in 1..Len(z) : p[s][Len(q[s]) + n] = z[n]
  BY <1>1, <1>2, JoinPlaces
<1>4. ASSUME NEW t \in Updates, NEW n \in 1..Len(p[t]), BindAt(p[t][n], v, k)
      PROVE  \/ n \in 1..Len(q[t]) /\ BindAt(q[t][n], v, k)
             \/ t = s /\ \E m \in 1..Len(z) : n = Len(q[s]) + m /\ BindAt(z[m], v, k)
  <2>1. CASE t # s
    BY <1>1, <1>2, <1>4, <2>1
  <2>2. CASE t = s /\ n \in 1..Len(q[s])
    BY <1>3, <1>4, <2>2
  <2>3. CASE t = s /\ n \notin 1..Len(q[s])
    <3>1. n - Len(q[s]) \in 1..Len(z) /\ n = Len(q[s]) + (n - Len(q[s]))
      BY <1>3, <1>4, <2>3
    <3>2. QED
      BY <1>3, <1>4, <2>3, <3>1
  <2>4. QED
    BY <2>1, <2>2, <2>3
<1>5. Queued(p, v, k) => Queued(q, v, k) \/ \E n \in 1..Len(z) : BindAt(z[n], v, k)
  BY <1>4 DEF Queued
<1>6. ASSUME QueuedOnce(q, v, k), ~Queued(q, v, k) /\ BindsOnce(z, v, k)
      PROVE  QueuedOnce(p, v, k)
  <2> SUFFICES ASSUME NEW t \in Updates, NEW u \in Updates, NEW m \in 1..Len(p[t]), NEW n \in 1..Len(p[u]),
                      BindAt(p[t][m], v, k), BindAt(p[u][n], v, k)
               PROVE  t = u /\ m = n
    BY DEF QueuedOnce
  <2>1. t = s /\ \E i \in 1..Len(z) : m = Len(q[s]) + i /\ BindAt(z[i], v, k)
    BY <1>4, <1>6 DEF Queued
  <2>2. u = s /\ \E i \in 1..Len(z) : n = Len(q[s]) + i /\ BindAt(z[i], v, k)
    BY <1>4, <1>6 DEF Queued
  <2>3. QED
    BY <1>6, <2>1, <2>2 DEF BindsOnce
<1>7. ASSUME QueuedOnce(q, v, k), \A n \in 1..Len(z) : ~BindAt(z[n], v, k)
      PROVE  QueuedOnce(p, v, k)
  <2> SUFFICES ASSUME NEW t \in Updates, NEW u \in Updates, NEW m \in 1..Len(p[t]), NEW n \in 1..Len(p[u]),
                      BindAt(p[t][m], v, k), BindAt(p[u][n], v, k)
               PROVE  t = u /\ m = n
    BY DEF QueuedOnce
  <2>1. m \in 1..Len(q[t]) /\ BindAt(q[t][m], v, k) /\ n \in 1..Len(q[u]) /\ BindAt(q[u][n], v, k)
    BY <1>4, <1>7
  <2>2. QED
    BY <1>7, <2>1 DEF QueuedOnce
<1>8. QED
  BY <1>5, <1>6, <1>7

(* Dequeueing adds no binding, and takes away the one at the head.            *)
LEMMA DequeuedPlaces ==
    ASSUME NEW q, QueuesTyped(q), NEW s \in Updates, q[s] # <<>>, NEW p, p = Deq(q, s),
           NEW v, NEW k
    PROVE  /\ Queued(p, v, k) => Queued(q, v, k)
           /\ QueuedOnce(q, v, k) => QueuedOnce(p, v, k)
           /\ QueuedOnce(q, v, k) /\ BindAt(q[s][1], v, k) => ~Queued(p, v, k)
<1>1. /\ p[s] = Tail(q[s]) /\ \A t \in Streams : t # s => p[t] = q[t]
  BY Dequeued, StreamFacts
<1>2. /\ q[s] \in Seq(UpdateOp) /\ \A t \in Updates : t \in Streams
  BY StreamFacts DEF QueuesTyped, OpsOf
<1>3. /\ Len(p[s]) = Len(q[s]) - 1 /\ Len(q[s]) \in Nat \ {0}
      /\ \A n \in 1..Len(p[s]) : p[s][n] = q[s][n + 1] /\ n + 1 \in 1..Len(q[s])
      /\ 1 \in 1..Len(q[s])
  BY <1>1, <1>2, TailPlaces
<1>4. ASSUME NEW t \in Updates, NEW n \in 1..Len(p[t]), BindAt(p[t][n], v, k)
      PROVE  \/ t # s /\ n \in 1..Len(q[t]) /\ BindAt(q[t][n], v, k)
             \/ t = s /\ n + 1 \in 1..Len(q[t]) /\ BindAt(q[t][n + 1], v, k)
  BY <1>1, <1>2, <1>3, <1>4
<1>5. Queued(p, v, k) => Queued(q, v, k)
  BY <1>4 DEF Queued
<1>6. ASSUME QueuedOnce(q, v, k)
      PROVE  QueuedOnce(p, v, k)
  <2> SUFFICES ASSUME NEW t \in Updates, NEW u \in Updates, NEW m \in 1..Len(p[t]), NEW n \in 1..Len(p[u]),
                      BindAt(p[t][m], v, k), BindAt(p[u][n], v, k)
               PROVE  t = u /\ m = n
    BY DEF QueuedOnce
  <2>1. CASE t = s /\ u = s
    BY <1>4, <1>6, <2>1 DEF QueuedOnce
  <2>2. CASE ~(t = s /\ u = s)
    BY <1>4, <1>6, <2>2 DEF QueuedOnce
  <2>3. QED
    BY <2>1, <2>2
<1>7. ASSUME QueuedOnce(q, v, k), BindAt(q[s][1], v, k)
      PROVE  ~Queued(p, v, k)
  <2> SUFFICES ASSUME NEW t \in Updates, NEW n \in 1..Len(p[t]), BindAt(p[t][n], v, k)
               PROVE  FALSE
    BY DEF Queued
  <2>1. CASE t = s
    <3>1. n + 1 \in 1..Len(q[s]) /\ BindAt(q[s][n + 1], v, k)
      BY <1>4, <2>1
    <3>2. n + 1 = 1
      BY <1>3, <1>7, <3>1 DEF QueuedOnce
    <3>3. QED
      BY <1>3, <2>1, <3>2
  <2>2. CASE t # s
    BY <1>3, <1>4, <1>7, <2>2 DEF QueuedOnce
  <2>3. QED
    BY <2>1, <2>2
<1>8. QED
  BY <1>5, <1>6, <1>7

(* Fewer jobs hold fewer bindings, and two sets of jobs what both hold.       *)
LEMMA FewerHold ==
    ASSUME NEW I, NEW J, I \subseteq J, NEW v, NEW k
    PROVE  /\ Held(I, v, k) => Held(J, v, k)
           /\ HeldOnce(J, v, k) => HeldOnce(I, v, k)
BY DEF Held, HeldOnce
LEMMA UnionHolds ==
    ASSUME NEW I, NEW D, NEW J, J \subseteq I \cup D, NEW v, NEW k
    PROVE  /\ Held(J, v, k) => Held(I, v, k) \/ Held(D, v, k)
           /\ HeldOnce(I, v, k) /\ HeldOnce(D, v, k) /\ ~(Held(I, v, k) /\ Held(D, v, k)) => HeldOnce(J, v, k)
<1>1. ASSUME NEW j \in J, NEW n \in 1..Len(j.todo), TaskAt(j, n, v, k)
      PROVE  (j \in I /\ Held(I, v, k)) \/ (j \in D /\ Held(D, v, k))
  BY <1>1 DEF Held
<1>2. Held(J, v, k) => Held(I, v, k) \/ Held(D, v, k)
  BY <1>1 DEF Held
<1>3. ASSUME HeldOnce(I, v, k), HeldOnce(D, v, k), ~(Held(I, v, k) /\ Held(D, v, k))
      PROVE  HeldOnce(J, v, k)
  <2> SUFFICES ASSUME NEW i \in J, NEW j \in J, NEW m \in 1..Len(i.todo), NEW n \in 1..Len(j.todo),
                      TaskAt(i, m, v, k), TaskAt(j, n, v, k)
               PROVE  i = j /\ m = n
    BY DEF HeldOnce
  <2>1. (i \in I /\ Held(I, v, k)) \/ (i \in D /\ Held(D, v, k))
    BY <1>1
  <2>2. (j \in I /\ Held(I, v, k)) \/ (j \in D /\ Held(D, v, k))
    BY <1>1
  <2>3. (i \in I /\ j \in I) \/ (i \in D /\ j \in D)
    BY <1>3, <2>1, <2>2
  <2>4. QED
    BY <1>3, <2>3 DEF HeldOnce
<1>4. QED
  BY <1>2, <1>3

(* A job replaced by one that holds a part of its tasks, d places further.    *)
PartOf(i, j, d, v, k) ==
    \A n \in 1..Len(i.todo) : TaskAt(i, n, v, k) => n + d \in 1..Len(j.todo) /\ TaskAt(j, n + d, v, k)
Swapped(J, j, i) == (J \ {j}) \cup {i}
LEMMA ReplacedHolds ==
    ASSUME NEW J, NEW j \in J, NEW i, NEW I, I = Swapped(J, j, i), NEW d \in {0, 1}, NEW v, NEW k,
           PartOf(i, j, d, v, k), Len(i.todo) \in Nat
    PROVE  /\ Held(I, v, k) => Held(J, v, k)
           /\ HeldOnce(J, v, k) => HeldOnce(I, v, k)
           /\ d = 1 /\ 1 \in 1..Len(j.todo) /\ TaskAt(j, 1, v, k) /\ HeldOnce(J, v, k) => ~Held(I, v, k)
<1>1. ASSUME NEW x \in I, NEW n \in 1..Len(x.todo), TaskAt(x, n, v, k)
      PROVE  \/ x # j /\ x \in J
             \/ x = i /\ n + d \in 1..Len(j.todo) /\ TaskAt(j, n + d, v, k)
  BY <1>1 DEF PartOf, Swapped
<1>2. Held(I, v, k) => Held(J, v, k)
  BY <1>1 DEF Held
<1>3. ASSUME HeldOnce(J, v, k), NEW x \in I, NEW y \in I, NEW m \in 1..Len(x.todo), NEW n \in 1..Len(y.todo),
             TaskAt(x, m, v, k), TaskAt(y, n, v, k)
      PROVE  x = y /\ m = n
  <2>1. CASE x # j /\ x \in J /\ y # j /\ y \in J
    BY <1>3, <2>1 DEF HeldOnce
  <2>2. CASE x # j /\ x \in J /\ ~(y # j /\ y \in J)
    <3>1. n + d \in 1..Len(j.todo) /\ TaskAt(j, n + d, v, k)
      BY <1>1, <1>3, <2>2
    <3>2. x = j
      BY <1>3, <2>2, <3>1 DEF HeldOnce
    <3>3. QED
      BY <2>2, <3>2
  <2>3. CASE ~(x # j /\ x \in J) /\ y # j /\ y \in J
    <3>1. m + d \in 1..Len(j.todo) /\ TaskAt(j, m + d, v, k)
      BY <1>1, <1>3, <2>3
    <3>2. y = j
      BY <1>3, <2>3, <3>1 DEF HeldOnce
    <3>3. QED
      BY <2>3, <3>2
  <2>4. CASE ~(x # j /\ x \in J) /\ ~(y # j /\ y \in J)
    <3>1. /\ x = i /\ m + d \in 1..Len(j.todo) /\ TaskAt(j, m + d, v, k)
          /\ y = i /\ n + d \in 1..Len(j.todo) /\ TaskAt(j, n + d, v, k)
      BY <1>1, <1>3, <2>4
    <3>2. m + d = n + d
      BY <1>3, <3>1 DEF HeldOnce
    <3>3. QED
      BY <3>1, <3>2
  <2>5. QED
    BY <2>1, <2>2, <2>3, <2>4
<1>4. HeldOnce(J, v, k) => HeldOnce(I, v, k)
  BY <1>3 DEF HeldOnce
<1>5. ASSUME d = 1, 1 \in 1..Len(j.todo), TaskAt(j, 1, v, k), HeldOnce(J, v, k),
             NEW x \in I, NEW n \in 1..Len(x.todo), TaskAt(x, n, v, k)
      PROVE  FALSE
  <2>1. CASE x # j /\ x \in J
    <3>1. x = j
      BY <1>5, <2>1 DEF HeldOnce
    <3>2. QED
      BY <2>1, <3>1
  <2>2. CASE x = i /\ n + d \in 1..Len(j.todo) /\ TaskAt(j, n + d, v, k)
    <3>1. 1 = n + d
      BY <1>5, <2>2 DEF HeldOnce
    <3>2. QED
      BY <1>5, <2>2, <3>1
  <2>3. QED
    BY <1>1, <1>5, <2>1, <2>2
<1>6. QED
  BY <1>2, <1>4, <1>5 DEF Held

(* What becomes of a job's bindings in its steps: waiting for the gate and    *)
(* failing move none, a call of the attention update hands over the first.    *)
Failed(j) == [j EXCEPT !.at = "failed"]
LEMMA JobParts ==
    ASSUME TypeInv, NEW j \in jobs, ~Over(j), NEW v, NEW k
    PROVE  /\ PartOf(Freed(j), j, 0, v, k) /\ Len(Freed(j).todo) \in Nat
           /\ PartOf(Failed(j), j, 0, v, k) /\ Len(Failed(j).todo) \in Nat
           /\ PartOf(Rebound(j), j, 1, v, k) /\ Len(Rebound(j).todo) \in Nat
           /\ 1 \in 1..Len(j.todo)
           /\ BindAt(BindOf(j), v, k) <=> TaskAt(j, 1, v, k)
<1>1. /\ j \in JobType /\ j.todo \in Seq(1..MaxLayers) /\ Len(j.todo) \in Nat \ {0} /\ j.todo # <<>>
      /\ Head(j.todo) = j.todo[1]
  <2>1. /\ j \in JobType /\ j.todo \in Seq(1..MaxLayers) /\ Len(j.todo) \in Nat
        /\ j.todo # <<>> /\ Len(j.todo) >= 1 /\ Head(j.todo) = j.todo[1]
    BY WorkingFacts
  <2>2. QED
    BY <2>1
<1>2. /\ Freed(j).todo = j.todo /\ Failed(j).todo = j.todo /\ Failed(j).at = "failed"
      /\ Freed(j).role = j.role /\ Freed(j).entry = j.entry /\ Freed(j).step = j.step
  BY <1>1 DEF Freed, Failed, JobType
<1>3. /\ Rebound(j).todo = Tail(j.todo)
      /\ Rebound(j).role = j.role /\ Rebound(j).entry = j.entry /\ Rebound(j).step = j.step
  BY <1>1 DEF Rebound, JobType
<1>4. /\ Len(Tail(j.todo)) = Len(j.todo) - 1
      /\ \A n \in 1..Len(Tail(j.todo)) : Tail(j.todo)[n] = j.todo[n + 1] /\ n + 1 \in 1..Len(j.todo)
  BY <1>1, TailPlaces
<1>5. PartOf(Freed(j), j, 0, v, k)
  <2>1. ASSUME NEW n \in 1..Len(Freed(j).todo), TaskAt(Freed(j), n, v, k)
        PROVE  n + 0 \in 1..Len(j.todo) /\ TaskAt(j, n + 0, v, k)
    <3>1. n + 0 = n
      BY <1>1, <1>2
    <3>2. NodeOf(Freed(j), n) = NodeOf(j, n)
      BY <1>2 DEF NodeOf
    <3>3. QED
      BY <1>2, <2>1, <3>1, <3>2 DEF TaskAt
  <2>2. QED
    BY <2>1 DEF PartOf
<1>6. PartOf(Failed(j), j, 0, v, k)
  BY <1>2 DEF PartOf, TaskAt, Over
<1>7. PartOf(Rebound(j), j, 1, v, k)
  <2>1. ASSUME NEW n \in 1..Len(Rebound(j).todo), TaskAt(Rebound(j), n, v, k)
        PROVE  n + 1 \in 1..Len(j.todo) /\ TaskAt(j, n + 1, v, k)
    <3>1. n + 1 \in 1..Len(j.todo) /\ Rebound(j).todo[n] = j.todo[n + 1]
      BY <1>3, <1>4, <2>1
    <3>2. NodeOf(Rebound(j), n) = NodeOf(j, n + 1)
      BY <1>3, <3>1 DEF NodeOf
    <3>3. QED
      BY <1>3, <2>1, <3>1, <3>2 DEF TaskAt
  <2>2. QED
    BY <2>1 DEF PartOf
<1>8. BindAt(BindOf(j), v, k) <=> TaskAt(j, 1, v, k)
  <2>1. BindOf(j).op = "bind" /\ BindOf(j).node = NodeOf(j, 1) /\ BindOf(j).step = j.step
    BY <1>1 DEF BindOf, NodeOf
  <2>2. QED
    BY <2>1 DEF BindAt, TaskAt
<1>9. QED
  BY <1>1, <1>2, <1>3, <1>4, <1>5, <1>6, <1>7, <1>8

(* What stands at a place of a sequence is one of its elements.               *)
LEMMA ElementAt ==
    ASSUME NEW S, NEW s \in Seq(S), NEW n \in 1..Len(s)
    PROVE  s[n] \in S
OBVIOUS

(* The jobs of a dispatch hold each task of the launched replay at most once  *)
(* and nothing else.                                                          *)
LEMMA DispatchedHolds ==
    ASSUME TypeInv, host.pc = "retire", NEW r, r = host.role, NEW e, e = host.entry, Planned(r, e),
           NEW v, NEW k
    PROVE  /\ Held(Dispatched(r, e), v, k)
                => k = host.step /\ v[1] = r /\ v[2] = e /\ v[3] \in 1..Layers[e]
           /\ HeldOnce(Dispatched(r, e), v, k)
<1> DEFINE D == Dispatched(r, e)
<1>1. /\ \A j \in D : TaskList(e, j.todo) /\ j.role = r /\ j.entry = e /\ j.step = host.step
      /\ \A i, j \in D : i # j => Apart(i.todo, j.todo)
  BY DispatchedFacts
<1> HIDE DEF D
<1>2. ASSUME NEW j \in D, NEW n \in 1..Len(j.todo), TaskAt(j, n, v, k)
      PROVE  k = host.step /\ v = <<r, e, j.todo[n]>> /\ j.todo[n] \in 1..Layers[e]
  <2>1. TaskList(e, j.todo) /\ j.role = r /\ j.entry = e /\ j.step = host.step
    BY <1>1
  <2>2. j.step = k /\ <<j.role, j.entry, j.todo[n]>> = v
    BY <1>2 DEF TaskAt, NodeOf
  <2>3. j.todo[n] \in 1..Layers[e]
    <3>1. j.todo \in Seq(1..Layers[e])
      BY <2>1 DEF TaskList
    <3>2. QED
      BY <3>1, ElementAt
  <2>4. QED
    BY <2>1, <2>2, <2>3
<1>3. Held(D, v, k) => k = host.step /\ v[1] = r /\ v[2] = e /\ v[3] \in 1..Layers[e]
  BY <1>2 DEF Held
<1>4. ASSUME NEW i \in D, NEW j \in D, NEW m \in 1..Len(i.todo), NEW n \in 1..Len(j.todo),
             TaskAt(i, m, v, k), TaskAt(j, n, v, k)
      PROVE  i = j /\ m = n
  <2>1. i.todo[m] = j.todo[n]
    <3>1. v = <<r, e, i.todo[m]>> /\ v = <<r, e, j.todo[n]>>
      BY <1>2, <1>4
    <3>2. QED
      BY <3>1
  <2>2. i = j
    BY <1>1, <2>1 DEF Apart
  <2>3. m = n
    BY <1>1, <2>1, <2>2 DEF TaskList
  <2>4. QED
    BY <2>2, <2>3
<1>5. QED
  BY <1>3, <1>4 DEF HeldOnce, D

(* Guards survive when the device has fewer replays of the steps up to c.     *)
Keeps(g, h, c) == \A k \in Nat : k <= c => /\ Fresh(g, k) => Fresh(h, k)
                                           /\ \A m : Covered(g, k, m) => Covered(h, k, m)
LEMMA GuardsKept ==
    ASSUME NEW g, NEW h, NEW c \in Nat, Keeps(g, h, c), NEW q, QueuesTyped(q), QueueLaunched(q, c)
    PROVE  /\ GuardedOps(g, q) => GuardedOps(h, q)
           /\ \A s \in Updates : \A k \in Nat : k <= c /\ GuardedEnd(g, q[s], k) => GuardedEnd(h, q[s], k)
<1>1. ASSUME NEW s \in Updates
      PROVE  /\ s \in Streams /\ q[s] \in Seq(UpdateOp) /\ Len(q[s]) \in Nat
             /\ \A n \in 1..Len(q[s]) : q[s][n].step \in Nat /\ q[s][n].step <= c
  <2>1. s \in Streams /\ s # Compute
    BY StreamFacts
  <2>2. q[s] \in Seq(UpdateOp)
    BY <2>1 DEF QueuesTyped, OpsOf
  <2>3. \A n \in 1..Len(q[s]) : q[s][n] \in UpdateOp
    BY <2>2, ElementAt
  <2>4. \A n \in 1..Len(q[s]) : q[s][n].step \in Nat
    BY <2>3 DEF UpdateOp, BindOp, Steps
  <2>5. QED
    BY <2>1, <2>2, <2>4 DEF QueueLaunched
<1>2. ASSUME NEW s \in Updates, NEW n \in Nat, NEW k \in Nat, k <= c, Guarded(g, q[s], n, k)
      PROVE  Guarded(h, q[s], n, k)
  <2>1. Begins(q[s], q[s])
    BY <1>1 DEF Begins
  <2>2. /\ Fresh(g, k) => Fresh(h, k)
        /\ \A m : Covered(g, k, m) => Covered(h, k, m)
    BY <1>2 DEF Keeps
  <2>3. Len(q[s]) \in Nat /\ n <= n
    BY <1>1
  <2>4. QED
    BY <1>2, <2>1, <2>2, <2>3, GuardedKept
<1>3. ASSUME GuardedOps(g, q)
      PROVE  GuardedOps(h, q)
  BY <1>1, <1>2, <1>3 DEF GuardedOps
<1>4. \A s \in Updates : \A k \in Nat : k <= c /\ GuardedEnd(g, q[s], k) => GuardedEnd(h, q[s], k)
  <2>1. \A s \in Updates : Len(q[s]) + 1 \in Nat
    BY <1>1
  <2>2. QED
    BY <1>2, <2>1 DEF GuardedEnd
<1>5. QED
  BY <1>3, <1>4

(* Enqueueing behind the guards keeps them, and an opening operation becomes  *)
(* one for what follows.                                                      *)
LEMMA EnqueuedGuards ==
    ASSUME NEW g, NEW q, QueuesTyped(q), NEW s \in Updates, NEW o \in UpdateOp, NEW p, p = Enq(q, s, o),
           GuardedOps(g, q), o.op \in {"bind", "gate"} => GuardedEnd(g, q[s], o.step)
    PROVE  /\ GuardedOps(g, p)
           /\ \A t \in Updates : \A k \in Nat : GuardedEnd(g, q[t], k) => GuardedEnd(g, p[t], k)
           /\ \A k \in Nat : Opens(g, o, k) => GuardedEnd(g, p[s], k)
<1>1. /\ p[s] = Append(q[s], o) /\ \A t \in Streams : t # s => p[t] = q[t]
      /\ \A t \in Updates : t \in Streams /\ q[t] \in Seq(UpdateOp) /\ Len(q[t]) \in Nat
  BY Enqueued, StreamFacts DEF QueuesTyped, OpsOf
<1>2. /\ p[s] \in Seq(UpdateOp) /\ Len(p[s]) = Len(q[s]) + 1 /\ Len(q[s]) \in Nat
      /\ \A n \in 1..Len(q[s]) : p[s][n] = q[s][n]
      /\ p[s][Len(q[s]) + 1] = o
  BY <1>1, AppendPlaces
<1>3. \A t \in Updates : Begins(q[t], p[t]) /\ Len(p[t]) \in Nat /\ Len(q[t]) <= Len(p[t])
  <2> SUFFICES ASSUME NEW t \in Updates
               PROVE  Begins(q[t], p[t]) /\ Len(p[t]) \in Nat /\ Len(q[t]) <= Len(p[t])
    OBVIOUS
  <2>1. CASE t = s
    BY <1>2, <2>1 DEF Begins
  <2>2. CASE t # s
    BY <1>1, <2>2 DEF Begins
  <2>3. QED
    BY <2>1, <2>2
<1>4. ASSUME NEW t \in Updates, NEW n \in Nat, NEW m \in Nat, n <= m, NEW k, Guarded(g, q[t], n, k)
      PROVE  Guarded(g, p[t], m, k)
  BY <1>1, <1>3, <1>4, GuardedKept
<1>5. GuardedOps(g, p)
  <2> SUFFICES ASSUME NEW t \in Updates, NEW n \in 1..Len(p[t]), p[t][n].op \in {"bind", "gate"}
               PROVE  Guarded(g, p[t], n, p[t][n].step)
    BY DEF GuardedOps
  <2>1. CASE n \in 1..Len(q[t])
    <3>1. p[t][n] = q[t][n] /\ n \in Nat
      BY <1>1, <1>2, <2>1
    <3>2. Guarded(g, q[t], n, q[t][n].step)
      BY <2>1, <3>1 DEF GuardedOps
    <3>3. QED
      BY <1>4, <3>1, <3>2
  <2>2. CASE n \notin 1..Len(q[t])
    <3>1. t = s /\ n = Len(q[s]) + 1 /\ p[t][n] = o /\ n \in Nat
      BY <1>1, <1>2, <2>2
    <3>2. Guarded(g, q[s], n, o.step)
      BY <3>1 DEF GuardedEnd
    <3>3. Guarded(g, q[t], n, p[t][n].step) /\ n <= n
      BY <3>1, <3>2
    <3>4. QED
      BY <1>4, <3>1, <3>3
  <2>3. QED
    BY <2>1, <2>2
<1>6. \A t \in Updates : \A k \in Nat : GuardedEnd(g, q[t], k) => GuardedEnd(g, p[t], k)
  <2>1. \A t \in Updates : Len(q[t]) + 1 \in Nat /\ Len(p[t]) + 1 \in Nat /\ Len(q[t]) + 1 <= Len(p[t]) + 1
    BY <1>1, <1>3
  <2>2. QED
    BY <1>4, <2>1 DEF GuardedEnd
<1>7. ASSUME NEW k \in Nat, Opens(g, o, k)
      PROVE  GuardedEnd(g, p[s], k)
  <2>1. Len(q[s]) + 1 \in 1..Len(p[s]) /\ Len(q[s]) + 1 < Len(p[s]) + 1
    BY <1>2
  <2>2. QED
    BY <1>2, <1>7, <2>1 DEF GuardedEnd, Guarded
<1>8. QED
  BY <1>5, <1>6, <1>7

(* The same for a list of operations.                                         *)
LEMMA EnqueuedAllGuards ==
    ASSUME NEW g, NEW q, QueuesTyped(q), NEW s \in Updates, NEW z \in Seq(UpdateOp), NEW p, p = EnqAll(q, s, z),
           GuardedOps(g, q), \A n \in 1..Len(z) : GuardedEnd(g, q[s], z[n].step)
    PROVE  /\ GuardedOps(g, p)
           /\ \A t \in Updates : \A k \in Nat : GuardedEnd(g, q[t], k) => GuardedEnd(g, p[t], k)
<1>1. /\ p[s] = q[s] \o z /\ \A t \in Streams : t # s => p[t] = q[t]
      /\ \A t \in Updates : t \in Streams /\ q[t] \in Seq(UpdateOp) /\ Len(q[t]) \in Nat
  <2>1. p[s] = q[s] \o z /\ \A t \in Streams : t # s => p[t] = q[t]
    BY EnqueuedAll
  <2>2. \A t \in Updates : t \in Streams /\ OpsOf(t) = UpdateOp
    BY StreamFacts DEF OpsOf
  <2>3. \A t \in Updates : q[t] \in Seq(UpdateOp)
    BY <2>2 DEF QueuesTyped
  <2>4. QED
    BY <2>1, <2>2, <2>3
<1>2. /\ p[s] \in Seq(UpdateOp) /\ Len(p[s]) = Len(q[s]) + Len(z) /\ Len(q[s]) \in Nat /\ Len(z) \in Nat
      /\ \A n \in 1..Len(q[s]) : p[s][n] = q[s][n]
      /\ \A n \in 1..Len(z) : p[s][Len(q[s]) + n] = z[n]
  <2> DEFINE c == q[s]
  <2>1. c \in Seq(UpdateOp) /\ p[s] = c \o z
    BY <1>1
  <2> HIDE DEF c
  <2>2. /\ c \o z \in Seq(UpdateOp) /\ Len(c \o z) = Len(c) + Len(z)
        /\ Len(c) \in Nat /\ Len(z) \in Nat
        /\ \A n \in 1..Len(c) : (c \o z)[n] = c[n]
        /\ \A n \in 1..Len(z) : (c \o z)[Len(c) + n] = z[n]
    BY <2>1, JoinPlaces
  <2>3. QED
    BY <2>1, <2>2 DEF c
<1>3. \A t \in Updates : Begins(q[t], p[t]) /\ Len(p[t]) \in Nat /\ Len(q[t]) <= Len(p[t])
  <2> SUFFICES ASSUME NEW t \in Updates
               PROVE  Begins(q[t], p[t]) /\ Len(p[t]) \in Nat /\ Len(q[t]) <= Len(p[t])
    OBVIOUS
  <2>1. CASE t = s
    BY <1>2, <2>1 DEF Begins
  <2>2. CASE t # s
    BY <1>1, <2>2 DEF Begins
  <2>3. QED
    BY <2>1, <2>2
<1>4. ASSUME NEW t \in Updates, NEW n \in Nat, NEW m \in Nat, n <= m, NEW k, Guarded(g, q[t], n, k)
      PROVE  Guarded(g, p[t], m, k)
  BY <1>1, <1>3, <1>4, GuardedKept
<1>5. GuardedOps(g, p)
  <2> SUFFICES ASSUME NEW t \in Updates, NEW n \in 1..Len(p[t]), p[t][n].op \in {"bind", "gate"}
               PROVE  Guarded(g, p[t], n, p[t][n].step)
    BY DEF GuardedOps
  <2>1. CASE n \in 1..Len(q[t])
    <3>1. p[t][n] = q[t][n] /\ n \in Nat
      <4>1. \A i \in 1..Len(q[t]) : p[t][i] = q[t][i]
        BY <1>3 DEF Begins
      <4>2. QED
        BY <2>1, <4>1
    <3>2. Guarded(g, q[t], n, q[t][n].step)
      <4>1. \A i \in 1..Len(q[t]) :
              q[t][i].op \in {"bind", "gate"} => Guarded(g, q[t], i, q[t][i].step)
        BY DEF GuardedOps
      <4>2. q[t][n].op \in {"bind", "gate"}
        BY <3>1
      <4>3. QED
        BY <2>1, <4>1, <4>2
    <3>3. QED
      <4>1. n \in Nat /\ n <= n
        BY <3>1
      <4>2. Guarded(g, p[t], n, q[t][n].step)
        BY <1>4, <3>2, <4>1
      <4>3. QED
        BY <3>1, <4>2
  <2>2. CASE n \notin 1..Len(q[t])
    <3>1. t = s
      <4>1. t # s => p[t] = q[t]
        BY <1>1
      <4>2. p[t] = q[t] => n \in 1..Len(q[t])
        OBVIOUS
      <4>3. QED
        BY <2>2, <4>1, <4>2
    <3>2. PICK m \in 1..Len(z) : n = Len(q[s]) + m
      <4>1. n - Len(q[s]) \in 1..Len(z) /\ n = Len(q[s]) + (n - Len(q[s]))
        BY <1>2, <2>2, <3>1
      <4>2. QED
        BY <4>1
    <3>3. p[t][n] = z[m] /\ n \in Nat /\ Len(q[s]) + 1 <= n /\ Len(q[s]) + 1 \in Nat
      BY <1>2, <3>1, <3>2
    <3>4. Guarded(g, q[s], Len(q[s]) + 1, z[m].step)
      BY DEF GuardedEnd
    <3>5. QED
      BY <1>4, <3>1, <3>3, <3>4
  <2>3. QED
    BY <2>1, <2>2
<1>6. \A t \in Updates : \A k \in Nat : GuardedEnd(g, q[t], k) => GuardedEnd(g, p[t], k)
  <2>1. \A t \in Updates : Len(q[t]) + 1 \in Nat /\ Len(p[t]) + 1 \in Nat /\ Len(q[t]) + 1 <= Len(p[t]) + 1
    BY <1>1, <1>3
  <2>2. QED
    BY <1>4, <2>1 DEF GuardedEnd
<1>7. QED
  BY <1>5, <1>6

(* An operation may leave the head of its stream when the steps it guards are *)
(* fresh by then.                                                             *)
LEMMA DequeuedGuards ==
    ASSUME NEW g, NEW q, QueuesTyped(q), NEW s \in Updates, q[s] # <<>>, NEW p, p = Deq(q, s),
           GuardedOps(g, q), \A k : Opens(g, q[s][1], k) => Fresh(g, k)
    PROVE  /\ GuardedOps(g, p)
           /\ \A t \in Updates : \A k : GuardedEnd(g, q[t], k) => GuardedEnd(g, p[t], k)
<1>1. /\ p[s] = Tail(q[s]) /\ \A t \in Streams : t # s => p[t] = q[t]
      /\ \A t \in Updates : t \in Streams /\ q[t] \in Seq(UpdateOp) /\ Len(q[t]) \in Nat
  BY Dequeued, StreamFacts DEF QueuesTyped, OpsOf
<1>2. /\ Len(p[s]) = Len(q[s]) - 1 /\ Len(q[s]) \in Nat \ {0}
      /\ \A n \in 1..Len(p[s]) : p[s][n] = q[s][n + 1] /\ n + 1 \in 1..Len(q[s])
  BY <1>1, TailPlaces
<1>3. ASSUME NEW n \in Nat, NEW k, Guarded(g, q[s], n + 1, k)
      PROVE  Guarded(g, p[s], n, k)
  <2>1. CASE Fresh(g, k)
    BY <2>1 DEF Guarded
  <2>2. CASE \E i \in 1..Len(q[s]) : i < n + 1 /\ Opens(g, q[s][i], k)
    <3>1. PICK i \in 1..Len(q[s]) : i < n + 1 /\ Opens(g, q[s][i], k)
      BY <2>2
    <3>2. CASE i = 1
      BY <3>1, <3>2 DEF Guarded
    <3>3. CASE i # 1
      <4>1. i - 1 \in 1..Len(p[s]) /\ i - 1 < n /\ p[s][i - 1] = q[s][i]
        BY <1>2, <3>1, <3>3
      <4>2. QED
        BY <3>1, <4>1 DEF Guarded
    <3>4. QED
      BY <3>2, <3>3
  <2>3. QED
    BY <1>3, <2>1, <2>2 DEF Guarded
<1>4. GuardedOps(g, p)
  <2> SUFFICES ASSUME NEW t \in Updates, NEW n \in 1..Len(p[t]), p[t][n].op \in {"bind", "gate"}
               PROVE  Guarded(g, p[t], n, p[t][n].step)
    BY DEF GuardedOps
  <2>1. CASE t = s
    <3>1. p[s][n] = q[s][n + 1] /\ n + 1 \in 1..Len(q[s]) /\ n \in Nat
      BY <1>2, <2>1
    <3>2. Guarded(g, q[s], n + 1, p[s][n].step)
      BY <2>1, <3>1 DEF GuardedOps
    <3>3. QED
      BY <1>3, <2>1, <3>1, <3>2
  <2>2. CASE t # s
    <3>1. p[t] = q[t]
      BY <1>1, <2>2
    <3>2. QED
      BY <3>1 DEF GuardedOps
  <2>3. QED
    BY <2>1, <2>2
<1>5. ASSUME NEW t \in Updates, NEW k, GuardedEnd(g, q[t], k)
      PROVE  GuardedEnd(g, p[t], k)
  <2>1. CASE t = s
    <3>1. Len(p[s]) + 1 \in Nat /\ (Len(p[s]) + 1) + 1 = Len(q[s]) + 1
      BY <1>2
    <3>2. Guarded(g, q[s], (Len(p[s]) + 1) + 1, k)
      BY <1>5, <2>1, <3>1 DEF GuardedEnd
    <3>3. QED
      BY <1>3, <2>1, <3>1, <3>2 DEF GuardedEnd
  <2>2. CASE t # s
    BY <1>1, <1>5, <2>2
  <2>3. QED
    BY <2>1, <2>2
<1>6. QED
  BY <1>4, <1>5

(* How the replays on the device change: one is launched, the first begins or *)
(* ends a node, the first ends.                                               *)
Behind(g, x) == Append(g, x)
StillAwaited(g, h) == \A L, v, k : Awaited(g, L, v, k) => Awaited(h, L, v, k)
LEMMA LaunchedGraph ==
    ASSUME NEW g \in Seq(ReplayOp), NEW x \in ReplayOp, NEW c \in Nat, x.step = c + 1, StepsUpTo(g, c),
           NEW h, h = Behind(g, x)
    PROVE  /\ Keeps(g, h, c)
           /\ StillAwaited(g, h)
           /\ Ordered(g) => Ordered(h)
           /\ Unbegun(g) /\ x.node = 1 /\ ~x.reads => Unbegun(h)
           /\ Len(h) = Len(g) + 1 /\ Len(g) \in Nat /\ h[Len(g) + 1] = x
           /\ \A p \in 1..Len(g) : h[p] = g[p]
           /\ \A p \in 1..Len(h) : p \in 1..Len(g) \/ (p = Len(g) + 1 /\ h[p] = x)
<1>1. /\ Len(h) = Len(g) + 1 /\ Len(g) \in Nat /\ h[Len(g) + 1] = x
      /\ \A p \in 1..Len(g) : h[p] = g[p]
  BY AppendPlaces DEF Behind
<1>2. \A p \in 1..Len(h) : p \in 1..Len(g) \/ (p = Len(g) + 1 /\ h[p] = x)
  BY <1>1
<1>3. \A p \in 1..Len(g) : g[p].step \in Nat /\ g[p].step <= c
  <2>1. \A p \in 1..Len(g) : g[p] \in ReplayOp
    BY ElementAt
  <2>2. QED
    BY <2>1 DEF ReplayOp, Steps, StepsUpTo
<1>4. ASSUME NEW k \in Nat, k <= c
      PROVE  /\ Fresh(g, k) => Fresh(h, k)
             /\ \A m : Covered(g, k, m) => Covered(h, k, m)
  <2>1. ASSUME NEW p \in 1..Len(h), h[p].step = k
        PROVE  p \in 1..Len(g) /\ h[p] = g[p]
    BY <1>1, <1>2, <1>4, <2>1
  <2>2. ASSUME NEW q \in 1..Len(h)
        PROVE  (q \in 1..Len(g) /\ h[q] = g[q]) \/ (h[q].step >= k /\ ~(h[q].step < k))
    BY <1>1, <1>2, <1>4
  <2>3. Fresh(g, k) => Fresh(h, k)
    BY <2>1, <2>2 DEF Fresh
  <2>4. ASSUME NEW m, Covered(g, k, m)
        PROVE  Covered(h, k, m)
    BY <2>1, <2>2, <2>4 DEF Covered
  <2>5. QED
    BY <2>3, <2>4
<1>5. Keeps(g, h, c)
  BY <1>4 DEF Keeps
<1>6. ASSUME NEW L, NEW v, NEW k, Awaited(g, L, v, k)
      PROVE  Awaited(h, L, v, k)
  <2>1. PICK p \in 1..Len(g) : AwaitedBy(g[p], L, v, k)
    BY <1>6 DEF Awaited
  <2>2. p \in 1..Len(h) /\ AwaitedBy(h[p], L, v, k)
    BY <1>1, <2>1
  <2>3. QED
    BY <2>2 DEF Awaited
<1>7. ASSUME Ordered(g)
      PROVE  Ordered(h)
  <2> SUFFICES ASSUME NEW p \in 1..Len(h), NEW q \in 1..Len(h), p < q
               PROVE  h[p].step < h[q].step
    BY DEF Ordered
  <2>1. p \in 1..Len(g) /\ h[p] = g[p]
    BY <1>1
  <2>2. CASE q \in 1..Len(g)
    BY <1>1, <1>7, <2>1, <2>2 DEF Ordered
  <2>3. CASE q = Len(g) + 1 /\ h[q] = x
    <3>1. g[p].step \in Nat /\ g[p].step <= c
      BY <1>3, <2>1
    <3>2. QED
      BY <2>1, <2>3, <3>1
  <2>4. QED
    BY <1>2, <2>2, <2>3
<1>8. Unbegun(g) /\ x.node = 1 /\ ~x.reads => Unbegun(h)
  BY <1>1, <1>2 DEF Unbegun
<1>9. QED
  BY <1>1, <1>2, <1>5, <1>6, <1>7, <1>8 DEF StillAwaited

(* The first replay begins or ends a node; step, role and entry stay.         *)
LEMMA AdvancedGraph ==
    ASSUME NEW g \in Seq(ReplayOp), g # <<>>, NEW x \in ReplayOp,
           x.step = g[1].step, x.role = g[1].role, x.entry = g[1].entry,
           NEW h, Len(h) = Len(g), h[1] = x, \A p \in 1..Len(g) : p # 1 => h[p] = g[p]
    PROVE  /\ \A c \in Nat : Keeps(g, h, c)
           /\ Ordered(g) => Ordered(h)
           /\ Unbegun(g) => Unbegun(h)
           /\ 1 \in 1..Len(g)
           /\ \A p \in 1..Len(g) : h[p].step = g[p].step /\ h[p].role = g[p].role
<1>1. \A p \in 1..Len(g) : h[p].step = g[p].step /\ h[p].role = g[p].role
  BY DEF Ordered
<1>2. Inside(g, h)
  BY <1>1 DEF Inside
<1>3. \A c \in Nat : Keeps(g, h, c)
  BY <1>2, InsideKeeps DEF Keeps
<1>4. Ordered(g) => Ordered(h)
  BY <1>1 DEF Ordered
<1>5. Unbegun(g) => Unbegun(h)
  BY DEF Unbegun
<1>6. 1 \in 1..Len(g)
  BY TailPlaces
<1>7. QED
  BY <1>1, <1>3, <1>4, <1>5, <1>6

(* The first replay ends.                                                     *)
LEMMA EndedGraph ==
    ASSUME NEW g \in Seq(ReplayOp), g # <<>>, NEW h, h = Tail(g)
    PROVE  /\ \A c \in Nat : Keeps(g, h, c)
           /\ Ordered(g) => Ordered(h)
           /\ Unbegun(g) => Unbegun(h)
           /\ \A p \in 1..Len(h) : p + 1 \in 1..Len(g) /\ p + 1 > 1 /\ h[p] = g[p + 1]
           /\ Len(h) = Len(g) - 1 /\ 1 \in 1..Len(g) /\ Len(g) \in Nat
<1>1. /\ Len(h) = Len(g) - 1 /\ Len(g) \in Nat \ {0} /\ 1 \in 1..Len(g)
      /\ \A n \in 1..Len(h) : h[n] = g[n + 1] /\ n + 1 \in 1..Len(g)
  BY TailPlaces
<1>2. \A p \in 1..Len(h) : p + 1 \in 1..Len(g) /\ p + 1 > 1 /\ h[p] = g[p + 1]
  BY <1>1
<1>3. Inside(g, h)
  BY <1>2 DEF Inside
<1>4. \A c \in Nat : Keeps(g, h, c)
  BY <1>3, InsideKeeps DEF Keeps
<1>5. Ordered(g) => Ordered(h)
  <2> SUFFICES ASSUME Ordered(g), NEW p \in 1..Len(h), NEW q \in 1..Len(h), p < q
               PROVE  h[p].step < h[q].step
    BY DEF Ordered
  <2>1. p + 1 \in 1..Len(g) /\ q + 1 \in 1..Len(g) /\ p + 1 < q + 1
    BY <1>2
  <2>2. QED
    BY <1>2, <2>1 DEF Ordered
<1>6. Unbegun(g) => Unbegun(h)
  BY <1>2 DEF Unbegun
<1>7. QED
  BY <1>1, <1>2, <1>4, <1>5, <1>6

(* A fresh binding of the first replay's role is that replay's own.           *)
LEMMA FirstIsMeant ==
    ASSUME NEW g \in Seq(ReplayOp), Ordered(g), NEW k, Fresh(g, k), NEW L, NEW v, Awaited(g, L, v, k),
           1 \in 1..Len(g), g[1].role = v[1]
    PROVE  k = g[1].step /\ AwaitedBy(g[1], L, v, k)
<1>1. PICK p \in 1..Len(g) : AwaitedBy(g[p], L, v, k)
  BY DEF Awaited
<1>2. g[p].step = k /\ g[p].role = v[1]
  BY <1>1 DEF AwaitedBy
<1>3. g[1].step >= k
  BY <1>2 DEF Fresh
<1>4. p = 1
  <2>1. g[1] \in ReplayOp /\ g[p] \in ReplayOp
    BY ElementAt
  <2>2. g[1].step \in Nat /\ g[p].step \in Nat
    BY <2>1 DEF ReplayOp, Steps
  <2>3. QED
    BY <1>2, <1>3, <2>2 DEF Ordered
<1>5. QED
  BY <1>1, <1>2, <1>4

--------------------------------------------------------------------------------
(* The host's steps keep the invariant.                                       *)

(* Bindings that only disappear keep their promises.                          *)
LEMMA FewerBindings ==
    ASSUME BindingsInv, Graphs' = Graphs, dep' = dep,
           \A v \in Nodes : \A k \in Nat :
              /\ Queued(queue', v, k) => Queued(queue, v, k)
              /\ Held(jobs', v, k) => Held(jobs, v, k)
              /\ Recorded(flag', param', v, k) => Recorded(flag, param, v, k)
              /\ QueuedOnce(queue, v, k) => QueuedOnce(queue', v, k)
              /\ HeldOnce(jobs, v, k) => HeldOnce(jobs', v, k)
    PROVE  /\ BindingsInv'
           /\ \A k \in Nat : NotYet(queue, jobs, flag, param, k) => NotYet(queue', jobs', flag', param', k)
<1>1. Layers' = Layers
  BY DEF Layers
<1>2. ASSUME NEW v \in Nodes, NEW k \in Nat
      PROVE  /\ Somewhere(queue', jobs', flag', param', v, k) => Somewhere(queue, jobs, flag, param, v, k)
             /\ Once(queue', jobs', flag', param', v, k)
  <2>1. Once(queue, jobs, flag, param, v, k)
    BY DEF BindingsInv
  <2>2. QED
    BY <2>1 DEF Somewhere, Once
<1>3. BindingsInv'
  BY <1>1, <1>2 DEF BindingsInv
<1>4. QED
  BY <1>2, <1>3 DEF NotYet

(* Steps that leave the device alone and do not begin an update.              *)
LEMMA QuietKeeps ==
    ASSUME TypeInv, ReplayInv, UNCHANGED <<dep, last, device>>, jobs' \in SUBSET jobs,
           host'.pc \notin {"update", "retire"}
    PROVE  ReplayInv'
<1>1. /\ Graphs' = Graphs /\ queue' = queue /\ param' = param /\ flag' = flag
      /\ passed' = passed /\ finished' = finished
  BY DEF device, Graphs
<1>2. GraphsInv' /\ ReadingInv'
  BY <1>1 DEF ReplayInv, GraphsInv, ReadingInv
<1>3. \A v \in Nodes : \A k \in Nat :
        /\ Held(jobs', v, k) => Held(jobs, v, k)
        /\ HeldOnce(jobs, v, k) => HeldOnce(jobs', v, k)
  BY FewerHold
<1>4. BindingsInv'
  BY <1>1, <1>3, FewerBindings DEF ReplayInv
<1>5. GatesInv'
  BY <1>1 DEF ReplayInv, GatesInv
<1>6. ComingInv'
  BY DEF ComingInv
<1>7. QED
  BY <1>2, <1>4, <1>5, <1>6 DEF ReplayInv

(* Steps that only enqueue updates leave the replays and the device alone.    *)
LEMMA UpdateFrame ==
    ASSUME TypeInv, ReplayInv, UNCHANGED <<dep, last, param, flag, passed, finished>>,
           queue'[Compute] = queue[Compute]
    PROVE  /\ Graphs' = Graphs /\ GraphsInv' /\ ReadingInv'
           /\ \A k \in passed' : Fresh(Graphs', k)
           /\ \A v \in Nodes : flag'[v] => Fresh(Graphs', param'[v])
           /\ GuardedOps(Graphs, queue) /\ BindingsInv
<1>1. Graphs' = Graphs
  BY DEF Graphs
<1>2. GraphsInv' /\ ReadingInv'
  BY <1>1 DEF ReplayInv, GraphsInv, ReadingInv
<1>3. QED
  BY <1>1, <1>2 DEF ReplayInv, GatesInv

(* wait_for_prior_replay_before_update: the wait that is enqueued opens the   *)
(* way for the launched step, which is fresh already if there is none.        *)
LEMMA EnterUpdateKeeps ==
    ASSUME TypeInv, ReplayInv, EnterUpdate
    PROVE  ReplayInv'
<1> DEFINE r == host.role
           s == UpdateStream(r)
           o == [op |-> "replayed", step |-> dependency[r]]
<1>1. /\ host.pc = "update" /\ host' = [host EXCEPT !.pc = "retire"]
      /\ queue' = IF dependency[r] = 0 THEN queue ELSE Enq(queue, s, o)
      /\ UNCHANGED <<dep, jobs, last, param, flag, passed, finished>>
  BY DEF EnterUpdate, Enq
<1>2. /\ r \in Roles /\ s \in Updates /\ QueuesTyped(queue) /\ dependency[r] \in Nat
      /\ host.step \in Nat /\ host'.pc = "retire" /\ host'.role = r /\ host'.step = host.step
      /\ host'.entry = host.entry
  BY <1>1, PoolFacts DEF TypeInv, Typed, HostType
<1>3. dependency[r] # 0 => o \in UpdateOp
  BY <1>2 DEF UpdateOp, Steps
<1>4. o.op = "replayed" /\ o.step = dependency[r]
  OBVIOUS
<1> HIDE DEF o, s
<1>5. queue'[Compute] = queue[Compute]
  BY <1>1, <1>2, <1>3, Enqueued
<1>6. /\ Graphs' = Graphs /\ GraphsInv' /\ ReadingInv'
      /\ \A k \in passed' : Fresh(Graphs', k)
      /\ \A v \in Nodes : flag'[v] => Fresh(Graphs', param'[v])
      /\ GuardedOps(Graphs, queue) /\ BindingsInv
  BY <1>1, <1>5, UpdateFrame
<1>7. \A v \in Nodes : \A k \in Nat :
        /\ Queued(queue', v, k) => Queued(queue, v, k)
        /\ QueuedOnce(queue, v, k) => QueuedOnce(queue', v, k)
  <2>1. \A v, k : ~BindAt(o, v, k)
    BY <1>4 DEF BindAt
  <2>2. CASE dependency[r] = 0
    BY <1>1, <2>2
  <2>3. CASE dependency[r] # 0
    BY <1>1, <1>2, <1>3, <2>1, <2>3, EnqueuedPlaces
  <2>4. QED
    BY <2>2, <2>3
<1>8. /\ BindingsInv'
      /\ \A k \in Nat : NotYet(queue, jobs, flag, param, k) => NotYet(queue', jobs', flag', param', k)
  BY <1>1, <1>6, <1>7, FewerBindings
<1>9. /\ GuardedOps(Graphs, queue')
      /\ \A t \in Updates : \A k \in Nat : GuardedEnd(Graphs, queue[t], k) => GuardedEnd(Graphs, queue'[t], k)
      /\ dependency[r] # 0 => \A k \in Nat : Opens(Graphs, o, k) => GuardedEnd(Graphs, queue'[s], k)
  <2>1. CASE dependency[r] = 0
    BY <1>1, <1>6, <2>1
  <2>2. CASE dependency[r] # 0
    BY <1>1, <1>2, <1>3, <1>4, <1>6, <2>2, EnqueuedGuards
  <2>3. QED
    BY <2>1, <2>2
<1>10. GatesInv'
  <2>1. \A j \in jobs : j.stream \in Updates /\ j.step \in Nat
    BY WorkingFacts DEF Steps
  <2>2. \A j \in jobs : j.at = "free" => GuardedEnd(Graphs, queue[j.stream], j.step)
    BY DEF ReplayInv, GatesInv
  <2>3. \A j \in jobs' : j.at = "free" => GuardedEnd(Graphs', queue'[j.stream], j.step)
    BY <1>1, <1>6, <1>9, <2>1, <2>2
  <2>4. QED
    BY <1>6, <1>9, <2>3 DEF GatesInv
<1>11. ComingInv'
  <2>1. /\ Launched(Graphs, host) /\ NotYet(queue, jobs, flag, param, host.step)
        /\ Prepared(Graphs, host, dependency)
    BY <1>1 DEF ReplayInv, ComingInv
  <2>2. Launched(Graphs', host') /\ NotYet(queue', jobs', flag', param', host'.step)
    BY <1>2, <1>6, <1>8, <2>1 DEF Launched
  <2>3. GuardedEnd(Graphs, queue'[s], host.step)
    <3>1. CASE Fresh(Graphs, host.step)
      BY <3>1 DEF GuardedEnd, Guarded
    <3>2. CASE dependency[r] # 0 /\ Covered(Graphs, host.step, dependency[r])
      <4>1. Opens(Graphs, o, host.step)
        BY <1>4, <3>2 DEF Opens
      <4>2. QED
        BY <1>2, <1>9, <3>2, <4>1
    <3>3. QED
      BY <2>1, <3>1, <3>2 DEF Prepared
  <2>4. s = UpdateStream(host'.role)
    BY <1>2 DEF s
  <2>5. QED
    BY <1>2, <1>6, <2>2, <2>3, <2>4 DEF ComingInv
<1>12. QED
  BY <1>6, <1>8, <1>10, <1>11 DEF ReplayInv

(* The launched replay waits for every task of its entry.                     *)
LEMMA LaunchedAwaits ==
    ASSUME NEW g, NEW h, Launched(g, h), NEW L, NEW v, v[1] = h.role, v[2] = h.entry,
           L[h.entry] \in Nat, v[3] \in 1..L[h.entry]
    PROVE  Awaited(g, L, v, h.step)
<1>1. PICK p \in 1..Len(g) : g[p] = ReplayOf(h.role, h.entry, h.step)
  BY DEF Launched
<1>2. /\ g[p].step = h.step /\ g[p].role = h.role /\ g[p].entry = h.entry
      /\ g[p].node = 1 /\ ~g[p].reads
  BY <1>1 DEF ReplayOf
<1>3. v[3] <= L[h.entry] /\ (v[3] > 1 \/ v[3] = 1)
  OBVIOUS
<1>4. AwaitedBy(g[p], L, v, h.step)
  BY <1>2, <1>3 DEF AwaitedBy
<1>5. QED
  BY <1>4 DEF Awaited

(* graph_call: the new replay is behind all others, and nothing is bound for  *)
(* it yet; ordered, its update will wait for the wrapper's previous replay,   *)
(* otherwise the device was drained before.                                   *)
LEMMA LaunchKeeps ==
    ASSUME TypeInv, ReplayInv, NEW r \in Roles, NEW e \in Entries, Launch(r, e)
    PROVE  ReplayInv'
<1> DEFINE x == ReplayOf(r, e, count + 1)
<1>1. /\ UNCHANGED <<dep, param, flag, passed, finished>> /\ jobs' \in SUBSET jobs
      /\ host' = [pc |-> "update", role |-> r, entry |-> e, step |-> count + 1]
      /\ dependency' = [dependency EXCEPT ![r] = IF dep.ordered THEN last[r] ELSE 0]
      /\ last' = [last EXCEPT ![r] = IF dep.ordered THEN count + 1 ELSE 0]
      /\ Synchronized
  BY DEF Launch, Retired, PendingJobs
<1>2. /\ QueuesTyped(queue') /\ Graphs' = Append(Graphs, x) /\ x \in ReplayOp
      /\ \A t \in Updates : queue'[t] = queue[t] /\ t \in Streams
  BY LaunchQueue, StreamFacts DEF Graphs
<1>3. /\ count \in Nat /\ Graphs \in Seq(ReplayOp) /\ StepsUpTo(Graphs, count)
      /\ QueuesTyped(queue) /\ QueueLaunched(queue, count)
      /\ last \in [Roles -> Nat] /\ dependency \in [Roles -> Nat] /\ \A q \in Roles : last[q] <= count
      /\ param \in [Nodes -> Nat] /\ flag \in [Nodes -> BOOLEAN]
  BY DeviceFacts, StreamFacts DEF TypeInv, Typed, HandlesLaunched, QueueLaunched, StepsUpTo, Graphs
<1>4. x.step = count + 1 /\ x.node = 1 /\ ~x.reads /\ x.role = r
  BY DEF ReplayOf
<1> HIDE DEF x
<1>5. /\ Keeps(Graphs, Graphs', count)
      /\ StillAwaited(Graphs, Graphs')
      /\ Ordered(Graphs) => Ordered(Graphs')
      /\ Unbegun(Graphs) => Unbegun(Graphs')
      /\ Len(Graphs') = Len(Graphs) + 1 /\ Len(Graphs) \in Nat /\ Graphs'[Len(Graphs) + 1] = x
      /\ \A p \in 1..Len(Graphs) : Graphs'[p] = Graphs[p]
      /\ \A p \in 1..Len(Graphs') : p \in 1..Len(Graphs) \/ (p = Len(Graphs) + 1 /\ Graphs'[p] = x)
  <2>1. Graphs' = Behind(Graphs, x)
    BY <1>2 DEF Behind
  <2>2. QED
    BY <1>2, <1>3, <1>4, <2>1, LaunchedGraph
<1>6. \A p \in 1..Len(Graphs) : Graphs[p].step \in Nat /\ Graphs[p].step <= count /\ Graphs[p].role \in Roles
  <2>1. \A p \in 1..Len(Graphs) : Graphs[p] \in ReplayOp
    BY <1>3, ElementAt
  <2>2. QED
    BY <1>3, <2>1 DEF ReplayOp, Steps, StepsUpTo
<1>7. GraphsInv'
  <2>1. GraphsInv
    BY DEF ReplayInv
  <2>2. Ordered(Graphs') /\ Unbegun(Graphs')
    BY <1>5, <2>1 DEF GraphsInv
  <2>3. \A p \in 1..Len(Graphs') : \A k \in finished' : k < Graphs'[p].step
    <3>1. \A k \in finished : k \in Nat /\ k <= count
      BY DeviceFacts DEF Steps
    <3>2. \A k \in finished : k < x.step
      BY <1>3, <1>4, <3>1
    <3>3. \A p \in 1..Len(Graphs) : \A k \in finished : k < Graphs[p].step
      BY <2>1 DEF GraphsInv
    <3>4. QED
      BY <1>1, <1>5, <3>2, <3>3
  <2>4. dep'.ordered => \A p \in 1..Len(Graphs') : Graphs'[p].step <= last'[Graphs'[p].role]
    <3> SUFFICES ASSUME dep.ordered, NEW p \in 1..Len(Graphs')
                 PROVE  Graphs'[p].step <= last'[Graphs'[p].role]
      BY <1>1
    <3>1. last'[r] = count + 1 /\ \A q \in Roles : q # r => last'[q] = last[q]
      BY <1>1, <1>3
    <3>2. CASE p = Len(Graphs) + 1 /\ Graphs'[p] = x
      BY <1>3, <1>4, <3>1, <3>2
    <3>3. CASE p \in 1..Len(Graphs)
      <4>1. Graphs'[p] = Graphs[p] /\ Graphs[p].step <= last[Graphs[p].role]
        BY <1>5, <2>1, <3>3 DEF GraphsInv
      <4>2. /\ Graphs[p].role \in Roles /\ Graphs[p].step \in Nat
            /\ Graphs[p].step <= count /\ count \in Nat
        BY <1>3, <1>6, <3>3
      <4>3. CASE Graphs[p].role = r
        BY <3>1, <4>1, <4>2, <4>3
      <4>4. CASE Graphs[p].role # r
        BY <3>1, <4>1, <4>2, <4>4
      <4>5. QED
        BY <4>3, <4>4
    <3>4. QED
      BY <1>5, <3>2, <3>3
  <2>5. QED
    BY <2>2, <2>3, <2>4 DEF GraphsInv
<1>8. \A v, k : Queued(queue', v, k) <=> Queued(queue, v, k)
  BY <1>2 DEF Queued
<1>9. \A v, k : QueuedOnce(queue, v, k) => QueuedOnce(queue', v, k)
  BY <1>2 DEF QueuedOnce
<1>10. ASSUME NEW v \in Nodes, NEW k \in Nat
       PROVE  /\ Somewhere(queue', jobs', flag', param', v, k) => Somewhere(queue, jobs, flag, param, v, k)
              /\ Once(queue', jobs', flag', param', v, k)
  <2>1. /\ Held(jobs', v, k) => Held(jobs, v, k)
        /\ HeldOnce(jobs, v, k) => HeldOnce(jobs', v, k)
    BY <1>1, FewerHold
  <2>2. Once(queue, jobs, flag, param, v, k)
    BY DEF ReplayInv, BindingsInv
  <2>3. QED
    BY <1>1, <1>8, <1>9, <2>1, <2>2 DEF Somewhere, Once
<1>11. \A v \in Nodes : \A k \in Nat :
         Somewhere(queue, jobs, flag, param, v, k) => Awaited(Graphs, Layers, v, k) /\ k <= count
  <2>1. ASSUME NEW v \in Nodes, NEW k \in Nat, Somewhere(queue, jobs, flag, param, v, k)
        PROVE  Awaited(Graphs, Layers, v, k)
    BY <2>1 DEF ReplayInv, BindingsInv
  <2>2. ASSUME NEW v, NEW k, Awaited(Graphs, Layers, v, k)
        PROVE  k <= count
    BY <1>6, <2>2 DEF Awaited, AwaitedBy
  <2>3. QED
    BY <2>1, <2>2
<1>12. BindingsInv'
  <2>1. Layers' = Layers
    BY <1>1 DEF Layers
  <2>2. QED
    BY <1>5, <1>10, <1>11, <2>1 DEF BindingsInv, StillAwaited
<1>13. GatesInv'
  <2>1. GuardedOps(Graphs', queue')
    <3>1. GuardedOps(Graphs', queue)
      BY <1>3, <1>5, GuardsKept DEF ReplayInv, GatesInv
    <3>2. QED
      BY <1>2, <3>1 DEF GuardedOps
  <2>2. \A k \in passed' : Fresh(Graphs', k)
    <3>1. \A k \in passed : k \in Nat /\ k <= count /\ Fresh(Graphs, k)
      BY DeviceFacts DEF Steps, ReplayInv, GatesInv
    <3>2. QED
      BY <1>1, <1>5, <3>1 DEF Keeps
  <2>3. \A v \in Nodes : flag'[v] => Fresh(Graphs', param'[v])
    <3>1. \A v \in Nodes : param[v] \in Nat /\ param[v] <= count /\ (flag[v] => Fresh(Graphs, param[v]))
      BY DeviceFacts DEF ReplayInv, GatesInv
    <3>2. QED
      BY <1>1, <1>5, <3>1 DEF Keeps
  <2>4. \A j \in jobs' : j.at = "free" => GuardedEnd(Graphs', queue'[j.stream], j.step)
    <3>1. \A j \in jobs : j.stream \in Updates /\ j.step \in Nat /\ j.step <= count
      BY WorkingFacts DEF Steps
    <3>2. \A j \in jobs : j.at = "free" => GuardedEnd(Graphs, queue[j.stream], j.step)
      BY DEF ReplayInv, GatesInv
    <3>3. \A j \in jobs : j.at = "free" => GuardedEnd(Graphs', queue[j.stream], j.step)
      BY <1>3, <1>5, <3>1, <3>2, GuardsKept
    <3>4. QED
      BY <1>1, <1>2, <3>1, <3>3
  <2>5. QED
    BY <2>1, <2>2, <2>3, <2>4 DEF GatesInv
<1>14. ComingInv'
  <2>1. /\ host'.pc = "update" /\ host'.role = r /\ host'.entry = e /\ host'.step = count + 1
    BY <1>1
  <2>2. Launched(Graphs', host')
    <3>1. Len(Graphs) + 1 \in 1..Len(Graphs') /\ Graphs'[Len(Graphs) + 1] = x
      BY <1>5
    <3>2. x = ReplayOf(host'.role, host'.entry, host'.step)
      BY <2>1 DEF x
    <3>3. QED
      BY <3>1, <3>2 DEF Launched
  <2>3. NotYet(queue', jobs', flag', param', host'.step)
    <3>1. host'.step \in Nat /\ ~(host'.step <= count)
      BY <1>3, <2>1
    <3>2. QED
      BY <1>10, <1>11, <3>1 DEF NotYet
  <2>4. Prepared(Graphs', host', dependency')
    <3>1. CASE dep.ordered
      <4>1. dependency'[r] = last[r]
        BY <1>1, <1>3, <3>1
      <4>2. \A p \in 1..Len(Graphs) : Graphs[p].role = r => Graphs[p].step <= last[r]
        BY <3>1 DEF ReplayInv, GraphsInv
      <4>3. \A p \in 1..Len(Graphs') : Graphs'[p].step = count + 1 => Graphs'[p] = x
        <5>1. ASSUME NEW p \in 1..Len(Graphs) PROVE Graphs'[p].step # count + 1
          <6>1. Graphs'[p] = Graphs[p]
            BY <1>5
          <6>2. Graphs[p].step \in Nat /\ Graphs[p].step <= count /\ count \in Nat
            BY <1>3, <1>6
          <6>3. QED
            BY <6>1, <6>2
        <5>2. QED
          BY <1>5, <5>1
      <4>4. CASE last[r] = 0
        <5>1. \A p \in 1..Len(Graphs) : Graphs[p].role # r
          <6>1. \A p \in 1..Len(Graphs) : Graphs[p] \in ReplayOp
            BY <1>3, ElementAt
          <6>2. \A p \in 1..Len(Graphs) : Graphs[p].step \in Nat \ {0}
            BY <6>1 DEF ReplayOp, Steps
          <6>3. QED
            BY <4>2, <4>4, <6>2
        <5>2. \A p \in 1..Len(Graphs') : Graphs'[p].role = r => Graphs'[p] = x
          BY <1>5, <5>1
        <5>3. Fresh(Graphs', count + 1)
          <6> SUFFICES ASSUME NEW p \in 1..Len(Graphs'), NEW q \in 1..Len(Graphs'),
                              Graphs'[p].step = count + 1, Graphs'[q].role = Graphs'[p].role
                       PROVE  Graphs'[q].step >= count + 1
            BY DEF Fresh
          <6>1. Graphs'[q] = x
            BY <1>4, <4>3, <5>2
          <6>2. QED
            BY <1>3, <1>4, <6>1
        <5>4. QED
          BY <2>1, <5>3 DEF Prepared
      <4>5. CASE last[r] # 0
        <5>1. Covered(Graphs', count + 1, last[r])
          <6> SUFFICES ASSUME NEW p \in 1..Len(Graphs'), NEW q \in 1..Len(Graphs'),
                              Graphs'[p].step = count + 1, Graphs'[q].role = Graphs'[p].role,
                              Graphs'[q].step < count + 1
                       PROVE  Graphs'[q].step <= last[r]
            BY DEF Covered
          <6>1. Graphs'[p] = x
            BY <4>3
          <6>2. q \in 1..Len(Graphs) /\ Graphs'[q] = Graphs[q]
            BY <1>3, <1>4, <1>5
          <6>3. QED
            BY <1>4, <4>2, <6>1, <6>2
        <5>2. QED
          BY <2>1, <4>1, <4>5, <5>1 DEF Prepared
      <4>6. QED
        BY <4>4, <4>5
    <3>2. CASE ~dep.ordered
      <4>1. Graphs = <<>>
        BY <1>1, <3>2, StreamFacts DEF Synchronized, Graphs
      <4>2. Len(Graphs) = 0
        BY <4>1
      <4>3. \A p \in 1..Len(Graphs') : Graphs'[p] = x
        BY <1>5, <4>2
      <4>4. Fresh(Graphs', count + 1)
        <5>1. x.step >= count + 1
          BY <1>3, <1>4
        <5>2. QED
          BY <4>3, <5>1 DEF Fresh
      <4>5. QED
        BY <2>1, <4>4 DEF Prepared
    <3>3. QED
      BY <3>1, <3>2
  <2>5. QED
    BY <2>1, <2>2, <2>3, <2>4 DEF ComingInv
<1>15. ReadingInv'
  <2>1. \A p \in 1..Len(Graphs) : Graphs[p].reads =>
            param[<<Graphs[p].role, Graphs[p].entry, Graphs[p].node>>] = Graphs[p].step
    BY DEF ReplayInv, ReadingInv
  <2>2. ASSUME NEW p \in 1..Len(Graphs'), Graphs'[p].reads
        PROVE  param'[<<Graphs'[p].role, Graphs'[p].entry, Graphs'[p].node>>] = Graphs'[p].step
    <3>1. p \in 1..Len(Graphs) /\ Graphs'[p] = Graphs[p]
      BY <1>4, <1>5, <2>2
    <3>2. QED
      BY <1>1, <2>1, <2>2, <3>1
  <2>3. QED
    BY <2>2 DEF ReadingInv
<1>16. QED
  BY <1>7, <1>12, <1>13, <1>14, <1>15 DEF ReplayInv

(* The rest of an invariant's step when the host is done with its update.     *)
LEMMA UpdateIssued ==
    ASSUME TypeInv, ReplayInv, UNCHANGED <<dep, last, param, flag, passed, finished>>,
           queue'[Compute] = queue[Compute], host'.pc \notin {"update", "retire"},
           BindingsInv', GuardedOps(Graphs, queue'),
           \A j \in jobs' : j.at = "free" =>
              j \in jobs /\ \A k \in Nat : GuardedEnd(Graphs, queue[j.stream], k)
                                              => GuardedEnd(Graphs, queue'[j.stream], k)
    PROVE  ReplayInv'
<1>1. /\ Graphs' = Graphs /\ GraphsInv' /\ ReadingInv'
      /\ \A k \in passed' : Fresh(Graphs', k)
      /\ \A v \in Nodes : flag'[v] => Fresh(Graphs', param'[v])
  BY UpdateFrame
<1>2. \A j \in jobs : j.step \in Nat /\ (j.at = "free" => GuardedEnd(Graphs, queue[j.stream], j.step))
  BY WorkingFacts DEF ReplayInv, GatesInv, Steps
<1>3. \A j \in jobs' : j.at = "free" => GuardedEnd(Graphs', queue'[j.stream], j.step)
  BY <1>1, <1>2
<1>4. GatesInv'
  BY <1>1, <1>3 DEF GatesInv
<1>5. ComingInv'
  BY DEF ComingInv
<1>6. QED
  BY <1>1, <1>4, <1>5 DEF ReplayInv

(* The host's own update: every task of the launched replay goes to the       *)
(* update stream once, behind the wait for the prior replay.                  *)
LEMMA FallBackKeeps ==
    ASSUME TypeInv, ReplayInv, FallBack
    PROVE  ReplayInv'
<1> DEFINE r == host.role
           e == host.entry
           s == UpdateStream(r)
           z == Binds(r, e, host.step)
<1>1. /\ host.pc = "retire" /\ host'.pc = "idle" /\ jobs' \in SUBSET jobs
      /\ UNCHANGED <<dep, last, param, flag, passed, finished>>
  BY DEF FallBack, Retired, PendingJobs, TypeInv, Typed, HostType
<1>2. /\ r \in Roles /\ e \in Entries /\ host.step \in Steps /\ host.step \in Nat /\ s \in Updates
      /\ queue' = EnqAll(queue, s, z) /\ z \in Seq(UpdateOp) /\ QueuesTyped(queue)
      /\ queue'[Compute] = queue[Compute]
  BY FallBackQueue, DeviceFacts DEF Steps
<1>3. /\ Len(z) = Layers[e] /\ Layers[e] \in Nat
      /\ \A n \in 1..Layers[e] : z[n] = [op |-> "bind", node |-> <<r, e, n>>, step |-> host.step]
  BY <1>2, BindsFacts, LayerFacts
<1> HIDE DEF z
<1>4. /\ Launched(Graphs, host) /\ NotYet(queue, jobs, flag, param, host.step)
      /\ GuardedEnd(Graphs, queue[s], host.step)
  BY <1>1 DEF ReplayInv, ComingInv
<1>5. /\ Graphs' = Graphs /\ BindingsInv /\ GuardedOps(Graphs, queue)
  BY <1>1, <1>2, UpdateFrame
<1>6. ASSUME NEW v, NEW k, NEW n \in 1..Len(z), BindAt(z[n], v, k)
      PROVE  k = host.step /\ v = <<r, e, n>>
  <2>1. z[n] = [op |-> "bind", node |-> <<r, e, n>>, step |-> host.step]
    BY <1>3
  <2>2. QED
    BY <1>6, <2>1 DEF BindAt
<1>7. ASSUME NEW v, NEW k
      PROVE  BindsOnce(z, v, k)
  <2> SUFFICES ASSUME NEW m \in 1..Len(z), NEW n \in 1..Len(z), BindAt(z[m], v, k), BindAt(z[n], v, k)
               PROVE  m = n
    BY DEF BindsOnce
  <2>1. v = <<r, e, m>> /\ v = <<r, e, n>>
    BY <1>6
  <2>2. QED
    BY <2>1
<1>8. ASSUME NEW v \in Nodes, NEW k \in Nat
      PROVE  /\ Somewhere(queue', jobs', flag', param', v, k) => Awaited(Graphs, Layers, v, k)
             /\ Once(queue', jobs', flag', param', v, k)
  <2>1. /\ Somewhere(queue, jobs, flag, param, v, k) => Awaited(Graphs, Layers, v, k)
        /\ Once(queue, jobs, flag, param, v, k)
    BY <1>5 DEF BindingsInv
  <2>2. /\ Held(jobs', v, k) => Held(jobs, v, k)
        /\ HeldOnce(jobs, v, k) => HeldOnce(jobs', v, k)
    BY <1>1, FewerHold
  <2>3. /\ Queued(queue', v, k) => Queued(queue, v, k) \/ \E n \in 1..Len(z) : BindAt(z[n], v, k)
        /\ QueuedOnce(queue, v, k) /\ ~Queued(queue, v, k) /\ BindsOnce(z, v, k) => QueuedOnce(queue', v, k)
        /\ QueuedOnce(queue, v, k) /\ (\A n \in 1..Len(z) : ~BindAt(z[n], v, k)) => QueuedOnce(queue', v, k)
    BY <1>2, EnqueuedAllPlaces
  <2>4. CASE \E n \in 1..Len(z) : BindAt(z[n], v, k)
    <3>1. PICK n \in 1..Len(z) : BindAt(z[n], v, k)
      BY <2>4
    <3>2. k = host.step /\ v[1] = r /\ v[2] = e /\ v[3] = n
      <4>1. k = host.step /\ v = <<r, e, n>>
        BY <1>6, <3>1
      <4>2. QED
        BY <4>1
    <3>3. ~Somewhere(queue, jobs, flag, param, v, k)
      BY <1>4, <3>2 DEF NotYet
    <3>4. Awaited(Graphs, Layers, v, k)
      BY <1>3, <1>4, <3>2, LaunchedAwaits
    <3>5. Once(queue', jobs', flag', param', v, k)
      BY <1>1, <1>7, <2>1, <2>2, <2>3, <3>3 DEF Somewhere, Once
    <3>6. QED
      BY <3>4, <3>5
  <2>5. CASE \A n \in 1..Len(z) : ~BindAt(z[n], v, k)
    BY <1>1, <2>1, <2>2, <2>3, <2>5 DEF Somewhere, Once
  <2>6. QED
    BY <2>4, <2>5
<1>9. BindingsInv'
  <2>1. Layers' = Layers
    BY <1>1 DEF Layers
  <2>2. QED
    BY <1>5, <1>8, <2>1 DEF BindingsInv
<1>10. /\ GuardedOps(Graphs, queue')
       /\ \A t \in Updates : \A k \in Nat : GuardedEnd(Graphs, queue[t], k) => GuardedEnd(Graphs, queue'[t], k)
  <2>1. ASSUME NEW n \in 1..Len(z)
        PROVE  z[n].step = host.step
    <3>1. z[n] = [op |-> "bind", node |-> <<r, e, n>>, step |-> host.step]
      BY <1>3
    <3>2. QED
      BY <3>1
  <2>2. QED
    BY <1>2, <1>4, <1>5, <2>1, EnqueuedAllGuards
<1>11. \A j \in jobs' : j \in jobs /\ j.stream \in Updates
  BY <1>1, WorkingFacts
<1>12. QED
  BY <1>1, <1>2, <1>9, <1>10, <1>11, UpdateIssued

(* dispatch_updates and dispatch_pipelined_updates: the gate is behind the    *)
(* wait for the prior replay, and each task goes to one job.                  *)
LEMMA DispatchKeeps ==
    ASSUME TypeInv, ReplayInv, Dispatch
    PROVE  ReplayInv'
<1> DEFINE r == host.role
           e == host.entry
           s == UpdateStream(r)
           o == [op |-> "gate", step |-> host.step]
           D == Dispatched(r, e)
<1>1. /\ host.pc = "retire" /\ host'.pc \notin {"update", "retire"} /\ Planned(r, e)
      /\ jobs' \subseteq jobs \cup D
      /\ UNCHANGED <<dep, last, param, flag, passed, finished>>
  BY DEF Dispatch, TypeInv, Typed, HostType
<1>2. /\ r \in Roles /\ e \in Entries /\ host.step \in Nat /\ s \in Updates
      /\ o \in UpdateOp /\ queue' = Enq(queue, s, o) /\ QueuesTyped(queue)
      /\ queue'[Compute] = queue[Compute]
  BY DispatchQueue, DeviceFacts DEF Steps
<1>3. o.op = "gate" /\ o.step = host.step /\ Layers[e] \in Nat
  BY <1>2, LayerFacts
<1>4. /\ Launched(Graphs, host) /\ NotYet(queue, jobs, flag, param, host.step)
      /\ GuardedEnd(Graphs, queue[s], host.step)
  BY <1>1 DEF ReplayInv, ComingInv
<1>5. /\ Graphs' = Graphs /\ BindingsInv /\ GuardedOps(Graphs, queue)
  BY <1>1, <1>2, UpdateFrame
<1>6. \A j \in D : j.at = "gate"
  BY <1>1, DispatchedFacts
<1>7. ASSUME NEW v, NEW k
      PROVE  /\ Held(D, v, k) => k = host.step /\ v[1] = r /\ v[2] = e /\ v[3] \in 1..Layers[e]
             /\ HeldOnce(D, v, k)
  BY <1>1, DispatchedHolds
<1> HIDE DEF o, D
<1>8. ASSUME NEW v \in Nodes, NEW k \in Nat
      PROVE  /\ Somewhere(queue', jobs', flag', param', v, k) => Awaited(Graphs, Layers, v, k)
             /\ Once(queue', jobs', flag', param', v, k)
  <2>1. /\ Somewhere(queue, jobs, flag, param, v, k) => Awaited(Graphs, Layers, v, k)
        /\ Once(queue, jobs, flag, param, v, k)
    BY <1>5 DEF BindingsInv
  <2>2. /\ Held(jobs', v, k) => Held(jobs, v, k) \/ Held(D, v, k)
        /\ HeldOnce(jobs, v, k) /\ HeldOnce(D, v, k) /\ ~(Held(jobs, v, k) /\ Held(D, v, k))
              => HeldOnce(jobs', v, k)
    BY <1>1, UnionHolds
  <2>3. ~BindAt(o, v, k)
    BY <1>3 DEF BindAt
  <2>4. /\ Queued(queue', v, k) => Queued(queue, v, k)
        /\ QueuedOnce(queue, v, k) => QueuedOnce(queue', v, k)
    BY <1>2, <2>3, EnqueuedPlaces
  <2>5. CASE Held(D, v, k)
    <3>1. k = host.step /\ v[1] = r /\ v[2] = e /\ v[3] \in 1..Layers[e]
      BY <1>7, <2>5
    <3>2. ~Somewhere(queue, jobs, flag, param, v, k)
      BY <1>4, <3>1 DEF NotYet
    <3>3. Awaited(Graphs, Layers, v, k)
      BY <1>3, <1>4, <3>1, LaunchedAwaits
    <3>4. Once(queue', jobs', flag', param', v, k)
      BY <1>1, <1>7, <2>1, <2>2, <2>4, <3>2 DEF Somewhere, Once
    <3>5. QED
      BY <3>3, <3>4
  <2>6. CASE ~Held(D, v, k)
    BY <1>1, <1>7, <2>1, <2>2, <2>4, <2>6 DEF Somewhere, Once
  <2>7. QED
    BY <2>5, <2>6
<1>9. BindingsInv'
  <2>1. Layers' = Layers
    BY <1>1 DEF Layers
  <2>2. QED
    BY <1>5, <1>8, <2>1 DEF BindingsInv
<1>10. /\ GuardedOps(Graphs, queue')
       /\ \A t \in Updates : \A k \in Nat : GuardedEnd(Graphs, queue[t], k) => GuardedEnd(Graphs, queue'[t], k)
  <2>1. GuardedEnd(Graphs, queue[s], o.step)
    BY <1>3, <1>4
  <2>2. QED
    BY <1>2, <1>5, <2>1, EnqueuedGuards
<1>11. \A j \in jobs' : j.at = "free" => j \in jobs /\ j.stream \in Updates
  <2>1. \A j \in jobs : j.stream \in Updates
    BY WorkingFacts
  <2>2. QED
    BY <1>1, <1>6, <2>1
<1>12. QED
  BY <1>1, <1>2, <1>9, <1>10, <1>11, UpdateIssued

--------------------------------------------------------------------------------
(* The steps of the update threads keep the invariant.                        *)
LEMMA JobStepKeeps ==
    ASSUME TypeInv, ReplayInv, HostUnchanged, UNCHANGED <<param, flag, passed, finished>>,
           queue'[Compute] = queue[Compute],
           \A v \in Nodes : \A k \in Nat :
              /\ Somewhere(queue', jobs', flag', param', v, k) => Somewhere(queue, jobs, flag, param, v, k)
              /\ Once(queue', jobs', flag', param', v, k),
           GuardedOps(Graphs, queue'),
           \A t \in Updates : \A k \in Nat : GuardedEnd(Graphs, queue[t], k) => GuardedEnd(Graphs, queue'[t], k),
           \A j \in jobs' : j.at = "free" => GuardedEnd(Graphs, queue'[j.stream], j.step)
    PROVE  ReplayInv'
<1>1. /\ Graphs' = Graphs /\ GraphsInv' /\ ReadingInv' /\ BindingsInv
      /\ \A k \in passed' : Fresh(Graphs', k)
      /\ \A v \in Nodes : flag'[v] => Fresh(Graphs', param'[v])
      /\ host' = host /\ dependency' = dependency /\ dep' = dep
  BY UpdateFrame DEF HostUnchanged
<1>2. BindingsInv'
  <2>1. Layers' = Layers
    BY <1>1 DEF Layers
  <2>2. QED
    BY <1>1, <2>1 DEF BindingsInv
<1>3. GatesInv'
  BY <1>1 DEF GatesInv
<1>4. ComingInv'
  <2>1. host.step \in Nat /\ UpdateStream(host.role) \in Updates /\ UpdateStream(host.role)' = UpdateStream(host.role)
    BY <1>1, PoolFacts DEF TypeInv, Typed, HostType, UpdateStream
  <2>2. NotYet(queue, jobs, flag, param, host.step) => NotYet(queue', jobs', flag', param', host.step)
    BY <2>1 DEF NotYet
  <2>3. QED
    BY <1>1, <2>1, <2>2 DEF ReplayInv, ComingInv
<1>5. QED
  BY <1>1, <1>2, <1>3, <1>4 DEF ReplayInv

(* Behind the gate a job may bind; a binding it makes moves from its tasks to *)
(* its stream.                                                                *)
LEMMA WorksKeeps ==
    ASSUME TypeInv, ReplayInv, NEW j \in jobs, Works(j)
    PROVE  ReplayInv'
<1>1. /\ ~Over(j) /\ HostUnchanged /\ UNCHANGED <<param, flag, passed, finished>>
      /\ \/ /\ j.at = "gate" /\ Becomes(j, Freed(j))
            /\ queue' = Enq(queue, j.stream, [op |-> "passed", step |-> j.step])
         \/ /\ j.at = "free" /\ Becomes(j, Rebound(j))
            /\ queue' = Enq(queue, j.stream, BindOf(j))
  BY WorksIs
<1>2. /\ j \in JobType /\ j.stream \in Updates /\ j.step \in Nat /\ QueuesTyped(queue)
      /\ \A i \in jobs : i.stream \in Updates /\ i.step \in Nat
  BY WorkingFacts, DeviceFacts DEF Steps
<1>3. /\ [op |-> "passed", step |-> j.step] \in UpdateOp /\ BindOf(j) \in UpdateOp
      /\ GuardedOps(Graphs, queue) /\ BindingsInv
      /\ \A i \in jobs : i.at = "free" => GuardedEnd(Graphs, queue[i.stream], i.step)
  BY <1>1, JobBecomes DEF ReplayInv, GatesInv
<1>4. CASE j.at = "gate" /\ Becomes(j, Freed(j)) /\ queue' = Enq(queue, j.stream, [op |-> "passed", step |-> j.step])
  <2> DEFINE o == [op |-> "passed", step |-> j.step]
  <2>1. o.op = "passed" /\ o.step = j.step /\ o \in UpdateOp /\ queue' = Enq(queue, j.stream, o)
    BY <1>3, <1>4
  <2> HIDE DEF o
  <2>2. queue'[Compute] = queue[Compute]
    BY <1>2, <2>1, Enqueued
  <2>3. ASSUME NEW v \in Nodes, NEW k \in Nat
        PROVE  /\ Somewhere(queue', jobs', flag', param', v, k) => Somewhere(queue, jobs, flag, param, v, k)
               /\ Once(queue', jobs', flag', param', v, k)
    <3>1. Once(queue, jobs, flag, param, v, k)
      BY <1>3 DEF BindingsInv
    <3>2. ~BindAt(o, v, k)
      BY <2>1 DEF BindAt
    <3>3. /\ Queued(queue', v, k) => Queued(queue, v, k)
          /\ QueuedOnce(queue, v, k) => QueuedOnce(queue', v, k)
      BY <1>2, <2>1, <3>2, EnqueuedPlaces
    <3>4. PartOf(Freed(j), j, 0, v, k) /\ Len(Freed(j).todo) \in Nat
      BY <1>1, JobParts
    <3>5. /\ Held(jobs', v, k) => Held(jobs, v, k)
          /\ HeldOnce(jobs, v, k) => HeldOnce(jobs', v, k)
      <4>1. jobs' = Swapped(jobs, j, Freed(j))
        BY <1>4 DEF Becomes, Swapped
      <4>2. QED
        BY <3>4, <4>1, ReplacedHolds
    <3>6. QED
      BY <1>1, <3>1, <3>3, <3>5 DEF Somewhere, Once
  <2>4. /\ GuardedOps(Graphs, queue')
        /\ \A t \in Updates : \A k \in Nat : GuardedEnd(Graphs, queue[t], k) => GuardedEnd(Graphs, queue'[t], k)
        /\ \A k \in Nat : Opens(Graphs, o, k) => GuardedEnd(Graphs, queue'[j.stream], k)
    BY <1>2, <1>3, <2>1, EnqueuedGuards
  <2>5. ASSUME NEW i \in jobs', i.at = "free"
        PROVE  GuardedEnd(Graphs, queue'[i.stream], i.step)
    <3>1. CASE i \in jobs
      BY <1>2, <1>3, <2>4, <2>5, <3>1
    <3>2. CASE i = Freed(j)
      <4>1. i.stream = j.stream /\ i.step = j.step
        BY <1>2, <3>2 DEF Freed, JobType
      <4>2. Opens(Graphs, o, j.step)
        BY <2>1 DEF Opens
      <4>3. QED
        BY <1>2, <2>4, <4>1, <4>2
    <3>3. QED
      BY <1>4, <2>5, <3>1, <3>2 DEF Becomes
  <2>6. QED
    BY <1>1, <2>2, <2>3, <2>4, <2>5, JobStepKeeps
<1>5. CASE j.at = "free" /\ Becomes(j, Rebound(j)) /\ queue' = Enq(queue, j.stream, BindOf(j))
  <2>1. queue'[Compute] = queue[Compute]
    BY <1>2, <1>3, <1>5, Enqueued
  <2>2. ASSUME NEW v \in Nodes, NEW k \in Nat
        PROVE  /\ Somewhere(queue', jobs', flag', param', v, k) => Somewhere(queue, jobs, flag, param, v, k)
               /\ Once(queue', jobs', flag', param', v, k)
    <3>1. Once(queue, jobs, flag, param, v, k)
      BY <1>3 DEF BindingsInv
    <3>2. /\ Queued(queue', v, k) => Queued(queue, v, k) \/ BindAt(BindOf(j), v, k)
          /\ QueuedOnce(queue, v, k) /\ ~(BindAt(BindOf(j), v, k) /\ Queued(queue, v, k))
                => QueuedOnce(queue', v, k)
      BY <1>2, <1>3, <1>5, EnqueuedPlaces
    <3>3. /\ PartOf(Rebound(j), j, 1, v, k) /\ Len(Rebound(j).todo) \in Nat /\ 1 \in 1..Len(j.todo)
          /\ BindAt(BindOf(j), v, k) <=> TaskAt(j, 1, v, k)
      BY <1>1, JobParts
    <3>4. /\ Held(jobs', v, k) => Held(jobs, v, k)
          /\ HeldOnce(jobs, v, k) => HeldOnce(jobs', v, k)
          /\ TaskAt(j, 1, v, k) /\ HeldOnce(jobs, v, k) => ~Held(jobs', v, k)
      <4>1. jobs' = Swapped(jobs, j, Rebound(j))
        BY <1>5 DEF Becomes, Swapped
      <4>2. QED
        BY <3>3, <4>1, ReplacedHolds
    <3>5. TaskAt(j, 1, v, k) => Held(jobs, v, k)
      BY <3>3 DEF Held
    <3>6. Recorded(flag', param', v, k) <=> Recorded(flag, param, v, k)
      BY <1>1
    <3>7. QED
      BY <3>1, <3>2, <3>3, <3>4, <3>5, <3>6 DEF Somewhere, Once
  <2>3. BindOf(j).step = j.step
    BY DEF BindOf
  <2>4. /\ GuardedOps(Graphs, queue')
        /\ \A t \in Updates : \A k \in Nat : GuardedEnd(Graphs, queue[t], k) => GuardedEnd(Graphs, queue'[t], k)
    BY <1>2, <1>3, <1>5, <2>3, EnqueuedGuards
  <2>5. ASSUME NEW i \in jobs', i.at = "free"
        PROVE  GuardedEnd(Graphs, queue'[i.stream], i.step)
    <3>1. CASE i \in jobs
      BY <1>2, <1>3, <2>4, <2>5, <3>1
    <3>2. CASE i = Rebound(j)
      <4>1. i.stream = j.stream /\ i.step = j.step
        BY <1>2, <3>2 DEF Rebound, JobType
      <4>2. QED
        BY <1>2, <1>3, <1>5, <2>4, <4>1
    <3>3. QED
      BY <1>5, <2>5, <3>1, <3>2 DEF Becomes
  <2>6. QED
    BY <1>1, <2>1, <2>2, <2>4, <2>5, JobStepKeeps
<1>6. QED
  BY <1>1, <1>4, <1>5

(* A call that raises takes the job's remaining bindings with it.             *)
LEMMA FailKeeps ==
    ASSUME TypeInv, ReplayInv, NEW j \in jobs, Fail(j)
    PROVE  ReplayInv'
<1>1. /\ j.at = "free" /\ Becomes(j, Failed(j)) /\ HostUnchanged /\ queue' = queue
      /\ UNCHANGED <<param, flag, passed, finished>>
  BY DEF Fail, Failed, device
<1>2. ~Over(j) /\ BindingsInv /\ GatesInv
  BY <1>1 DEF Over, ReplayInv
<1>3. ASSUME NEW v \in Nodes, NEW k \in Nat
      PROVE  /\ Somewhere(queue', jobs', flag', param', v, k) => Somewhere(queue, jobs, flag, param, v, k)
             /\ Once(queue', jobs', flag', param', v, k)
  <2>1. Once(queue, jobs, flag, param, v, k)
    BY <1>2 DEF BindingsInv
  <2>2. PartOf(Failed(j), j, 0, v, k) /\ Len(Failed(j).todo) \in Nat
    BY <1>2, JobParts
  <2>3. /\ Held(jobs', v, k) => Held(jobs, v, k)
        /\ HeldOnce(jobs, v, k) => HeldOnce(jobs', v, k)
    BY <1>1, <2>2, ReplacedHolds DEF Becomes, Swapped
  <2>4. QED
    BY <1>1, <2>1, <2>3 DEF Somewhere, Once
<1>4. ASSUME NEW i \in jobs', i.at = "free"
      PROVE  GuardedEnd(Graphs, queue'[i.stream], i.step)
  <2>1. i \in jobs
    <3>1. Failed(j).at = "failed"
      BY WorkingFacts DEF Failed, JobType
    <3>2. QED
      BY <1>1, <1>4, <3>1 DEF Becomes
  <2>2. QED
    BY <1>1, <1>2, <1>4, <2>1 DEF GatesInv
<1>5. GuardedOps(Graphs, queue')
  BY <1>1, <1>2 DEF GatesInv
<1>6. QED
  BY <1>1, <1>3, <1>4, <1>5, JobStepKeeps

--------------------------------------------------------------------------------
(* The steps of the device keep the invariant.                                *)
LEMMA DeviceStepKeeps ==
    ASSUME TypeInv, ReplayInv, HostUnchanged, UNCHANGED jobs,
           GraphsInv', BindingsInv', ReadingInv', GuardedOps(Graphs', queue'), Keeps(Graphs, Graphs', count),
           \A k \in passed' : Fresh(Graphs', k), \A v \in Nodes : flag'[v] => Fresh(Graphs', param'[v]),
           \A t \in Updates : \A k \in Nat : k <= count /\ GuardedEnd(Graphs, queue[t], k)
                                                => GuardedEnd(Graphs', queue'[t], k),
           Launched(Graphs, host) /\ NotYet(queue, jobs, flag, param, host.step)
              => Launched(Graphs', host) /\ NotYet(queue', jobs, flag', param', host.step)
    PROVE  ReplayInv'
<1>1. host' = host /\ dependency' = dependency /\ dep' = dep /\ jobs' = jobs
  BY DEF HostUnchanged
<1>2. GatesInv'
  <2>1. \A j \in jobs : /\ j.stream \in Updates /\ j.step \in Nat /\ j.step <= count
                        /\ j.at = "free" => GuardedEnd(Graphs, queue[j.stream], j.step)
    BY WorkingFacts DEF Steps, ReplayInv, GatesInv
  <2>2. \A j \in jobs' : j.at = "free" => GuardedEnd(Graphs', queue'[j.stream], j.step)
    BY <1>1, <2>1
  <2>3. QED
    BY <2>2 DEF GatesInv
<1>3. ComingInv'
  <2>1. /\ host.step \in Nat /\ host.step <= count /\ UpdateStream(host.role) \in Updates
        /\ UpdateStream(host.role)' = UpdateStream(host.role)
    BY <1>1, PoolFacts DEF TypeInv, Typed, HostType, UpdateStream, HostLaunched
  <2>2. Prepared(Graphs, host, dependency) => Prepared(Graphs', host, dependency)
    BY <2>1 DEF Prepared, Keeps
  <2>3. QED
    BY <1>1, <2>1, <2>2 DEF ReplayInv, ComingInv
<1>4. QED
  BY <1>2, <1>3 DEF ReplayInv

(* An operation leaves the head of an update stream.                          *)
LEMMA PopKeeps ==
    ASSUME TypeInv, ReplayInv, HostUnchanged, UNCHANGED <<jobs, finished>>,
           NEW s \in Updates, queue[s] # <<>>, queue' = Deq(queue, s),
           \A k : Opens(Graphs, queue[s][1], k) => Fresh(Graphs, k),
           \A k \in passed' : Fresh(Graphs, k), \A v \in Nodes : flag'[v] => Fresh(Graphs, param'[v]),
           BindingsInv', ReadingInv',
           NotYet(queue, jobs, flag, param, host.step) => NotYet(queue', jobs, flag', param', host.step)
    PROVE  ReplayInv'
<1>1. QueuesTyped(queue) /\ count \in Nat
  BY DeviceFacts
<1>2. Graphs' = Graphs
  BY <1>1, Dequeued, StreamFacts DEF Graphs
<1>3. GraphsInv'
  BY <1>2 DEF ReplayInv, GraphsInv, HostUnchanged
<1>4. /\ GuardedOps(Graphs, queue')
      /\ \A t \in Updates : \A k : GuardedEnd(Graphs, queue[t], k) => GuardedEnd(Graphs, queue'[t], k)
  BY <1>1, DequeuedGuards DEF ReplayInv, GatesInv
<1>5. Keeps(Graphs, Graphs', count)
  BY <1>2 DEF Keeps
<1>6. QED
  BY <1>2, <1>3, <1>4, <1>5, DeviceStepKeeps

(* The head of a stream has no operation before it to wait for: a binding or  *)
(* a gate that reached it is fresh.                                           *)
LEMMA HeadIsFresh ==
    ASSUME TypeInv, ReplayInv, NEW s \in Updates, queue[s] # <<>>, queue[s][1].op \in {"bind", "gate"}
    PROVE  Fresh(Graphs, queue[s][1].step)
<1>1. 1 \in 1..Len(queue[s])
  BY HeadOp, StreamFacts
<1>2. Guarded(Graphs, queue[s], 1, queue[s][1].step)
  BY <1>1 DEF ReplayInv, GatesInv, GuardedOps
<1>3. QED
  BY <1>2 DEF Guarded

(* The gate is recorded: its step is fresh, and so are the jobs behind it.    *)
LEMMA RecordGateKeeps ==
    ASSUME TypeInv, ReplayInv, HostUnchanged, UNCHANGED jobs, NEW s \in Streams, queue[s] # <<>>,
           NEW o, o = Head(queue[s]), RecordGate(s, o)
    PROVE  ReplayInv'
<1>1. /\ o.op = "gate" /\ passed' = passed \cup {o.step} /\ queue' = Deq(queue, s)
      /\ UNCHANGED <<param, flag, finished>>
  BY PoppedShapes DEF RecordGate
<1>2. s \in Updates /\ o = queue[s][1] /\ QueuesTyped(queue)
  BY <1>1, OtherUpdateOp, DeviceFacts
<1>3. \A k : ~Opens(Graphs, queue[s][1], k)
  BY <1>1, <1>2 DEF Opens
<1>4. \A k \in passed' : Fresh(Graphs, k)
  BY <1>1, <1>2, HeadIsFresh DEF ReplayInv, GatesInv
<1>5. Graphs' = Graphs
  BY <1>1, <1>2, Dequeued, StreamFacts DEF Graphs
<1>6. /\ BindingsInv'
      /\ \A k \in Nat : NotYet(queue, jobs, flag, param, k) => NotYet(queue', jobs', flag', param', k)
  <2>1. \A v \in Nodes : \A k \in Nat :
          /\ Queued(queue', v, k) => Queued(queue, v, k)
          /\ QueuedOnce(queue, v, k) => QueuedOnce(queue', v, k)
    BY <1>1, <1>2, DequeuedPlaces
  <2>2. QED
    BY <1>1, <1>5, <2>1, FewerBindings DEF ReplayInv, HostUnchanged
<1>7. host.step \in Nat
  BY DEF TypeInv, Typed, HostType
<1>8. ReadingInv'
  BY <1>1, <1>5 DEF ReplayInv, ReadingInv
<1>9. \A v \in Nodes : flag'[v] => Fresh(Graphs, param'[v])
  BY <1>1 DEF ReplayInv, GatesInv
<1>10. QED
  BY <1>1, <1>2, <1>3, <1>4, <1>6, <1>7, <1>8, <1>9, PopKeeps

(* A wait that is over: the gate it waits for was fresh, and the replay it    *)
(* waits for and all before it have left the device.                          *)
LEMMA AwaitEventKeeps ==
    ASSUME TypeInv, ReplayInv, HostUnchanged, UNCHANGED jobs, NEW s \in Streams, queue[s] # <<>>,
           NEW o, o = Head(queue[s]), AwaitEvent(s, o)
    PROVE  ReplayInv'
<1>1. /\ \/ o.op = "passed" /\ o.step \in passed
         \/ o.op = "replayed" /\ o.step \in finished
      /\ queue' = Deq(queue, s) /\ UNCHANGED <<param, flag, passed, finished>>
  BY PoppedShapes DEF AwaitEvent
<1>2. s \in Updates /\ o = queue[s][1] /\ QueuesTyped(queue) /\ o.step \in Nat
  BY <1>1, OtherUpdateOp, DeviceFacts DEF Steps
<1>3. ASSUME NEW k, Opens(Graphs, queue[s][1], k)
      PROVE  Fresh(Graphs, k)
  <2>1. CASE o.op = "passed"
    BY <1>1, <1>2, <1>3, <2>1 DEF Opens, ReplayInv, GatesInv
  <2>2. CASE o.op = "replayed"
    <3>1. o.step \in finished /\ Covered(Graphs, k, o.step)
      BY <1>1, <1>2, <1>3, <2>2 DEF Opens
    <3>2. \A q \in 1..Len(Graphs) : o.step < Graphs[q].step
      BY <3>1 DEF ReplayInv, GraphsInv
    <3>3. \A q \in 1..Len(Graphs) : Graphs[q].step \in Nat
      <4>1. Graphs \in Seq(ReplayOp)
        BY DeviceFacts DEF Graphs
      <4>2. \A q \in 1..Len(Graphs) : Graphs[q] \in ReplayOp
        BY <4>1, ElementAt
      <4>3. QED
        BY <4>2 DEF ReplayOp, Steps
    <3>4. \A p, q \in 1..Len(Graphs) :
            Graphs[p].step = k /\ Graphs[q].role = Graphs[p].role => ~(Graphs[q].step < k)
      BY <1>2, <3>1, <3>2, <3>3 DEF Covered
    <3>5. QED
      BY <3>3, <3>4 DEF Fresh
  <2>3. QED
    BY <1>1, <2>1, <2>2
<1>4. \A k \in passed' : Fresh(Graphs, k)
  BY <1>1 DEF ReplayInv, GatesInv
<1>5. Graphs' = Graphs
  BY <1>1, <1>2, Dequeued, StreamFacts DEF Graphs
<1>6. /\ BindingsInv'
      /\ \A k \in Nat : NotYet(queue, jobs, flag, param, k) => NotYet(queue', jobs', flag', param', k)
  <2>1. \A v \in Nodes : \A k \in Nat :
          /\ Queued(queue', v, k) => Queued(queue, v, k)
          /\ QueuedOnce(queue, v, k) => QueuedOnce(queue', v, k)
    BY <1>1, <1>2, DequeuedPlaces
  <2>2. QED
    BY <1>1, <1>5, <2>1, FewerBindings DEF ReplayInv, HostUnchanged
<1>7. host.step \in Nat
  BY DEF TypeInv, Typed, HostType
<1>8. ReadingInv'
  BY <1>1, <1>5 DEF ReplayInv, ReadingInv
<1>9. \A v \in Nodes : flag'[v] => Fresh(Graphs, param'[v])
  BY <1>1 DEF ReplayInv, GatesInv
<1>10. QED
  BY <1>1, <1>2, <1>3, <1>4, <1>6, <1>7, <1>8, <1>9, PopKeeps

(* A node's parameters are bound and its event is recorded.  The binding is   *)
(* fresh and its replay still waits for it, so the node being read is         *)
(* another one.                                                               *)
LEMMA BindKeeps ==
    ASSUME TypeInv, ReplayInv, HostUnchanged, UNCHANGED jobs, NEW s \in Streams, queue[s] # <<>>,
           NEW o, o = Head(queue[s]), Bind(s, o)
    PROVE  ReplayInv'
<1>1. /\ s \in Updates /\ o.op = "bind" /\ o.node \in Nodes /\ o.step \in Nat /\ o = queue[s][1]
      /\ 1 \in 1..Len(queue[s]) /\ queue' = Deq(queue, s)
      /\ param' = [param EXCEPT ![o.node] = o.step] /\ flag' = [flag EXCEPT ![o.node] = TRUE]
      /\ passed' = passed /\ finished' = finished
  BY BindFacts DEF Steps
<1>2. /\ QueuesTyped(queue) /\ param \in [Nodes -> Nat] /\ flag \in [Nodes -> BOOLEAN]
      /\ Graphs \in Seq(ReplayOp)
  BY DeviceFacts DEF Graphs
<1>3. /\ param'[o.node] = o.step /\ flag'[o.node] = TRUE
      /\ \A v \in Nodes : v # o.node => param'[v] = param[v] /\ flag'[v] = flag[v]
  BY <1>1, <1>2
<1>4. Graphs' = Graphs /\ dep' = dep /\ Layers' = Layers
  <2>1. Graphs' = Graphs
    <3>1. queue' = Deq(queue, s) /\ QueuesTyped(queue) /\ s \in Streams /\ s # Compute /\ Compute \in Streams
      BY <1>1, <1>2, StreamFacts
    <3>2. QED
      BY <3>1, Dequeued DEF Graphs
  <2>2. QED
    BY <2>1 DEF HostUnchanged, Layers
<1>5. Fresh(Graphs, o.step)
  BY <1>1, HeadIsFresh
<1>6. \A k : ~Opens(Graphs, queue[s][1], k)
  BY <1>1 DEF Opens
<1>7. BindAt(queue[s][1], o.node, o.step) /\ Queued(queue, o.node, o.step)
  BY <1>1 DEF BindAt, Queued
<1>8. ASSUME NEW v \in Nodes, NEW k \in Nat
      PROVE  /\ Somewhere(queue', jobs', flag', param', v, k) => Somewhere(queue, jobs, flag, param, v, k)
             /\ Once(queue', jobs', flag', param', v, k)
  <2>1. Once(queue, jobs, flag, param, v, k)
    BY DEF ReplayInv, BindingsInv
  <2>2. /\ Queued(queue', v, k) => Queued(queue, v, k)
        /\ QueuedOnce(queue, v, k) => QueuedOnce(queue', v, k)
        /\ QueuedOnce(queue, v, k) /\ BindAt(queue[s][1], v, k) => ~Queued(queue', v, k)
    BY <1>1, <1>2, DequeuedPlaces
  <2>3. Held(jobs', v, k) <=> Held(jobs, v, k)
    OBVIOUS
  <2>4. HeldOnce(jobs, v, k) => HeldOnce(jobs', v, k)
    OBVIOUS
  <2>5. CASE v = o.node /\ k = o.step
    BY <1>7, <2>1, <2>2, <2>3, <2>4, <2>5 DEF Somewhere, Once
  <2>6. CASE ~(v = o.node /\ k = o.step)
    <3>1. Recorded(flag', param', v, k) => Recorded(flag, param, v, k)
      BY <1>3, <2>6 DEF Recorded
    <3>2. QED
      BY <2>1, <2>2, <2>3, <2>4, <3>1 DEF Somewhere, Once
  <2>7. QED
    BY <2>5, <2>6
<1>9. BindingsInv'
  BY <1>4, <1>8 DEF ReplayInv, BindingsInv
<1>10. NotYet(queue, jobs, flag, param, host.step) => NotYet(queue', jobs, flag', param', host.step)
  <2>1. host.step \in Nat
    BY DEF TypeInv, Typed, HostType
  <2>2. QED
    BY <1>8, <2>1 DEF NotYet
<1>11. \A v \in Nodes : flag'[v] => Fresh(Graphs, param'[v])
  BY <1>3, <1>5 DEF ReplayInv, GatesInv
<1>12. ReadingInv'
  <2> SUFFICES ASSUME NEW p \in 1..Len(Graphs), Graphs[p].reads
               PROVE  param'[<<Graphs[p].role, Graphs[p].entry, Graphs[p].node>>] = Graphs[p].step
    BY <1>4 DEF ReadingInv
  <2> DEFINE v == <<Graphs[p].role, Graphs[p].entry, Graphs[p].node>>
  <2>1. param[v] = Graphs[p].step
    BY DEF ReplayInv, ReadingInv
  <2>2. p = 1 /\ Len(Graphs) \in Nat
    BY <1>2 DEF ReplayInv, GraphsInv, Unbegun
  <2>3. v \in Nodes /\ Graphs[p].node \in Nat
    <3>1. Graphs # <<>>
      BY <2>2
    <3>2. Graphs[1] = Head(Graphs)
      BY <1>2, <3>1, TailPlaces
    <3>3. QED
      BY <2>2, <3>1, <3>2, ReplayHead DEF Graphs
  <2>4. CASE v = o.node
    <3>1. Awaited(Graphs, Layers, v, o.step)
      BY <1>1, <1>7, <2>4 DEF ReplayInv, BindingsInv, Somewhere
    <3>2. Graphs[1].role = v[1] /\ Ordered(Graphs) /\ 1 \in 1..Len(Graphs)
      BY <2>2 DEF ReplayInv, GraphsInv
    <3>3. AwaitedBy(Graphs[1], Layers, v, o.step)
      <4> HIDE DEF v
      <4>1. QED
        BY <1>2, <1>5, <3>1, <3>2, FirstIsMeant
    <3>4. QED
      BY <2>2, <2>3, <3>3 DEF AwaitedBy
  <2>5. CASE v # o.node
    BY <1>3, <2>1, <2>3, <2>5
  <2>6. QED
    BY <2>4, <2>5
<1>13. \A k \in passed' : Fresh(Graphs, k)
  BY <1>1 DEF ReplayInv, GatesInv
<1>14. QED
  BY <1>1, <1>6, <1>9, <1>10, <1>11, <1>12, <1>13, PopKeeps

(* The first replay goes on.                                                  *)
LEMMA ReplayStepKeeps ==
    ASSUME TypeInv, ReplayInv, HostUnchanged, UNCHANGED <<jobs, param, passed>>,
           \A t \in Updates : queue'[t] = queue[t], \A v \in Nodes : flag'[v] => flag[v],
           GraphsInv', ReadingInv', Keeps(Graphs, Graphs', count),
           \A v \in Nodes : \A k \in Nat :
              Somewhere(queue', jobs', flag', param', v, k) /\ Awaited(Graphs, Layers, v, k)
                => Awaited(Graphs', Layers, v, k),
           Launched(Graphs, host) /\ NotYet(queue, jobs, flag, param, host.step) => Launched(Graphs', host)
    PROVE  ReplayInv'
<1>1. /\ QueuesTyped(queue) /\ QueueLaunched(queue, count) /\ count \in Nat /\ Layers' = Layers
      /\ jobs' = jobs /\ param' = param /\ passed' = passed
  BY DeviceFacts DEF HostUnchanged, Layers
<1>2. ASSUME NEW v \in Nodes, NEW k \in Nat
      PROVE  /\ Somewhere(queue', jobs', flag', param', v, k) => Somewhere(queue, jobs, flag, param, v, k)
             /\ Once(queue', jobs', flag', param', v, k)
  <2>1. Once(queue, jobs, flag, param, v, k)
    BY DEF ReplayInv, BindingsInv
  <2>2. /\ Queued(queue', v, k) <=> Queued(queue, v, k)
        /\ QueuedOnce(queue, v, k) => QueuedOnce(queue', v, k)
    <3>1. \A t \in Updates : queue'[t] = queue[t]
      OBVIOUS
    <3>2. Queued(queue', v, k) <=> Queued(queue, v, k)
      BY ONLY <3>1 DEF Queued
    <3>3. QueuedOnce(queue, v, k) => QueuedOnce(queue', v, k)
      BY ONLY <3>1 DEF QueuedOnce
    <3>4. QED
      BY <3>2, <3>3
  <2>3. Recorded(flag', param', v, k) => Recorded(flag, param, v, k)
    BY <1>1 DEF Recorded
  <2>4. QED
    BY <1>1, <2>1, <2>2, <2>3 DEF Somewhere, Once
<1>3. BindingsInv'
  BY <1>1, <1>2 DEF ReplayInv, BindingsInv
<1>4. /\ GuardedOps(Graphs', queue')
      /\ \A t \in Updates : \A k \in Nat : k <= count /\ GuardedEnd(Graphs, queue[t], k)
                                              => GuardedEnd(Graphs', queue'[t], k)
  <2>1. /\ GuardedOps(Graphs', queue)
        /\ \A t \in Updates : \A k \in Nat : k <= count /\ GuardedEnd(Graphs, queue[t], k)
                                                => GuardedEnd(Graphs', queue[t], k)
    BY <1>1, GuardsKept DEF ReplayInv, GatesInv
  <2>2. QED
    BY <2>1 DEF GuardedOps
<1>5. \A k \in passed' : Fresh(Graphs', k)
  <2>1. \A k \in passed : k \in Nat /\ k <= count /\ Fresh(Graphs, k)
    BY DeviceFacts DEF Steps, ReplayInv, GatesInv
  <2>2. QED
    BY <1>1, <2>1 DEF Keeps
<1>6. \A v \in Nodes : flag'[v] => Fresh(Graphs', param'[v])
  <2>1. \A v \in Nodes : param[v] \in Nat /\ param[v] <= count /\ (flag[v] => Fresh(Graphs, param[v]))
    BY DeviceFacts DEF ReplayInv, GatesInv
  <2>2. QED
    BY <1>1, <2>1 DEF Keeps
<1>7. NotYet(queue, jobs, flag, param, host.step) => NotYet(queue', jobs, flag', param', host.step)
  <2>1. host.step \in Nat
    BY DEF TypeInv, Typed, HostType
  <2>2. QED
    BY <1>1, <1>2, <2>1 DEF NotYet
<1>8. QED
  BY <1>3, <1>4, <1>5, <1>6, <1>7, DeviceStepKeeps

(* The first replay's node takes the event: what it finds bound is its own.   *)
LEMMA ConsumeKeeps ==
    ASSUME TypeInv, ReplayInv, HostUnchanged, UNCHANGED jobs, NEW s \in Streams, queue[s] # <<>>,
           NEW o, o = Head(queue[s]), Consume(s, o)
    PROVE  ReplayInv'
<1> DEFINE w == <<o.role, o.entry, o.node>>
<1>1. /\ s = Compute /\ ~o.reads /\ flag[w] /\ flag' = [flag EXCEPT ![w] = FALSE]
      /\ queue' = WithHead(queue, Compute, Reads(o))
      /\ param' = param /\ passed' = passed /\ finished' = finished
  BY ConsumeIs
<1>2. /\ o \in ReplayOp /\ o = Graphs[1] /\ 1 \in 1..Len(Graphs) /\ w \in Nodes /\ Reads(o) \in ReplayOp
      /\ Graphs # <<>> /\ o.step \in Nat
  BY <1>1, ReplayHead DEF Graphs, Steps
<1>3. /\ Reads(o).step = o.step /\ Reads(o).role = o.role /\ Reads(o).entry = o.entry
      /\ Reads(o).node = o.node /\ Reads(o).reads = TRUE
  BY <1>2 DEF Reads, ReplayOp
<1>4. /\ QueuesTyped(queue) /\ param \in [Nodes -> Nat] /\ flag \in [Nodes -> BOOLEAN]
      /\ Graphs \in Seq(ReplayOp) /\ count \in Nat
  BY DeviceFacts DEF Graphs
<1>5. /\ Len(Graphs') = Len(Graphs) /\ Graphs'[1] = Reads(o)
      /\ \A p \in 1..Len(Graphs) : p # 1 => Graphs'[p] = Graphs[p]
      /\ \A t \in Updates : queue'[t] = queue[t]
  <2>1. Reads(o) \in OpsOf(Compute) /\ Compute \in Streams /\ queue[Compute] # <<>>
        /\ \A t \in Updates : t \in Streams /\ t # Compute
    BY <1>2, StreamFacts DEF OpsOf, Graphs
  <2>2. QED
    BY <1>1, <1>4, <2>1, HeadChanged DEF Graphs
<1>6. /\ Keeps(Graphs, Graphs', count)
      /\ Ordered(Graphs) => Ordered(Graphs')
      /\ Unbegun(Graphs) => Unbegun(Graphs')
      /\ \A p \in 1..Len(Graphs) : Graphs'[p].step = Graphs[p].step /\ Graphs'[p].role = Graphs[p].role
  BY <1>2, <1>3, <1>4, <1>5, AdvancedGraph
<1>7. GraphsInv'
  BY <1>1, <1>5, <1>6 DEF ReplayInv, GraphsInv, HostUnchanged
<1>8. Recorded(flag, param, w, param[w]) /\ param[w] \in Nat
  BY <1>1, <1>2, <1>4 DEF Recorded
<1>9. param[w] = o.step
  <2>1. Awaited(Graphs, Layers, w, param[w]) /\ Fresh(Graphs, param[w])
    BY <1>1, <1>2, <1>8 DEF ReplayInv, BindingsInv, Somewhere, GatesInv
  <2>2. Graphs[1].role = w[1] /\ Ordered(Graphs)
    BY <1>2 DEF ReplayInv, GraphsInv
  <2> HIDE DEF w
  <2>3. QED
    BY <1>2, <1>4, <2>1, <2>2, FirstIsMeant
<1>10. ReadingInv'
  <2> SUFFICES ASSUME NEW p \in 1..Len(Graphs'), Graphs'[p].reads
               PROVE  param'[<<Graphs'[p].role, Graphs'[p].entry, Graphs'[p].node>>] = Graphs'[p].step
    BY DEF ReadingInv
  <2>1. p = 1
    BY <1>4, <1>6 DEF ReplayInv, GraphsInv, Unbegun
  <2>2. QED
    BY <1>1, <1>3, <1>5, <1>9, <2>1
<1>11. /\ flag'[w] = FALSE /\ \A v \in Nodes : v # w => flag'[v] = flag[v]
  BY <1>1, <1>2, <1>4
<1>12. ASSUME NEW v \in Nodes, NEW k \in Nat, Somewhere(queue', jobs', flag', param', v, k),
              Awaited(Graphs, Layers, v, k)
       PROVE  Awaited(Graphs', Layers, v, k)
  <2>1. ~(v = w /\ k = o.step)
    <3> SUFFICES ASSUME v = w, k = o.step
                 PROVE  FALSE
      OBVIOUS
    <3>1. ~Queued(queue, v, k) /\ ~Held(jobs, v, k)
      BY <1>8, <1>9 DEF ReplayInv, BindingsInv, Once
    <3>2. ~Queued(queue', v, k)
      BY <1>5, <3>1 DEF Queued
    <3>3. ~Recorded(flag', param', v, k)
      BY <1>11 DEF Recorded
    <3>4. QED
      BY <1>12, <3>1, <3>2, <3>3 DEF Somewhere
  <2>2. PICK p \in 1..Len(Graphs) : AwaitedBy(Graphs[p], Layers, v, k)
    BY <1>12 DEF Awaited
  <2>3. CASE p # 1
    <3>1. p \in 1..Len(Graphs') /\ AwaitedBy(Graphs'[p], Layers, v, k)
      BY <1>5, <2>2, <2>3
    <3>2. QED
      BY <3>1 DEF Awaited
  <2>4. CASE p = 1
    <3>1. k = o.step /\ v[1] = o.role /\ v[2] = o.entry /\ AwaitedBy(o, Layers, v, k)
      BY <1>2, <2>2, <2>4 DEF AwaitedBy
    <3>2. v[3] # o.node
      BY <2>1, <3>1 DEF Nodes
    <3>3. AwaitedBy(Reads(o), Layers, v, k)
      BY <1>3, <3>1, <3>2 DEF AwaitedBy
    <3>4. QED
      BY <1>2, <1>5, <3>3 DEF Awaited
  <2>5. QED
    BY <2>3, <2>4
<1>13. ASSUME Launched(Graphs, host), NotYet(queue, jobs, flag, param, host.step)
       PROVE  Launched(Graphs', host)
  <2>1. PICK p \in 1..Len(Graphs) : Graphs[p] = ReplayOf(host.role, host.entry, host.step)
    BY <1>13 DEF Launched
  <2>2. p # 1
    <3> SUFFICES ASSUME p = 1
                 PROVE  FALSE
      OBVIOUS
    <3>1. o.step = host.step
      BY <1>2, <2>1 DEF ReplayOf
    <3>2. Recorded(flag, param, w, host.step)
      BY <1>8, <1>9, <3>1
    <3>3. QED
      BY <1>2, <1>13, <3>2 DEF NotYet, Somewhere
  <2>3. QED
    BY <1>5, <2>1, <2>2 DEF Launched
<1>14. \A v \in Nodes : flag'[v] => flag[v]
  BY <1>11
<1>15. QED
  BY <1>1, <1>5, <1>6, <1>7, <1>10, <1>12, <1>13, <1>14, ReplayStepKeeps

(* The attention of a node has run: the replay goes to its next node, or it   *)
(* ends with its last one and nothing waits for it any more.                  *)
LEMMA AttendKeeps ==
    ASSUME TypeInv, ReplayInv, HostUnchanged, UNCHANGED jobs, NEW s \in Streams, queue[s] # <<>>,
           NEW o, o = Head(queue[s]), Attend(s, o)
    PROVE  ReplayInv'
<1>1. /\ s = Compute /\ o.reads /\ param' = param /\ flag' = flag /\ passed' = passed
      /\ \/ /\ o.node = Layers[o.entry] /\ queue' = Popped(Compute) /\ finished' = finished \cup {o.step}
         \/ /\ o.node # Layers[o.entry] /\ queue' = WithHead(queue, Compute, NextNode(o))
            /\ finished' = finished
  BY AttendIs
<1>2. /\ o \in ReplayOp /\ o = Graphs[1] /\ 1 \in 1..Len(Graphs) /\ Graphs # <<>> /\ o.step \in Nat
      /\ o.node \in Nat \ {0} /\ Layers[o.entry] \in Nat
      /\ o.node # Layers[o.entry] => NextNode(o) \in ReplayOp
  <2>1. queue[Compute] # <<>> /\ o = Head(queue[Compute])
    BY <1>1
  <2>2. /\ o \in ReplayOp /\ o = queue[Compute][1] /\ 1 \in 1..Len(queue[Compute]) /\ o.step \in Steps
        /\ o.node \in Nat \ {0} /\ Layers[o.entry] \in 1..MaxLayers
        /\ o.node # Layers[o.entry] => NextNode(o) \in ReplayOp
    BY <2>1, ReplayHead
  <2>3. Layers[o.entry] \in Nat /\ o.step \in Nat
    BY <2>2, MaxLayersFacts DEF Steps
  <2>4. QED
    BY <2>1, <2>2, <2>3 DEF Graphs
<1>3. /\ QueuesTyped(queue) /\ Graphs \in Seq(ReplayOp) /\ count \in Nat
      /\ \A t \in Updates : t \in Streams /\ t # Compute /\ Compute \in Streams
      /\ dep' = dep /\ last' = last
  BY DeviceFacts, StreamFacts DEF Graphs, HostUnchanged
<1>4. Ordered(Graphs) /\ Unbegun(Graphs)
  BY DEF ReplayInv, GraphsInv
<1>5. \A v \in Nodes : v[3] \in Nat
  BY MaxLayersFacts DEF Nodes
<1>6. CASE o.node = Layers[o.entry] /\ queue' = Popped(Compute) /\ finished' = finished \cup {o.step}
  <2>1. Graphs' = Tail(Graphs) /\ \A t \in Updates : queue'[t] = queue[t]
    <3>1. queue' = Deq(queue, Compute) /\ queue[Compute] # <<>>
      BY <1>1, <1>6, PoppedShapes
    <3>2. QED
      BY <1>3, <3>1, Dequeued, StreamFacts DEF Graphs
  <2>2. /\ Keeps(Graphs, Graphs', count) /\ Ordered(Graphs') /\ Unbegun(Graphs')
        /\ \A p \in 1..Len(Graphs') : p + 1 \in 1..Len(Graphs) /\ p + 1 > 1 /\ Graphs'[p] = Graphs[p + 1]
        /\ Len(Graphs') = Len(Graphs) - 1 /\ Len(Graphs) \in Nat
    BY <1>2, <1>3, <1>4, <2>1, EndedGraph, ZenonT(60)
  <2>3. GraphsInv'
    <3>1. \A p \in 1..Len(Graphs') : \A k \in finished : k < Graphs'[p].step
      BY <2>2 DEF ReplayInv, GraphsInv
    <3>2. \A p \in 1..Len(Graphs') : o.step < Graphs'[p].step
      BY <1>2, <1>4, <2>2 DEF Ordered
    <3>3. dep'.ordered => \A p \in 1..Len(Graphs') : Graphs'[p].step <= last'[Graphs'[p].role]
      BY <1>3, <2>2 DEF ReplayInv, GraphsInv
    <3>4. QED
      BY <1>6, <2>2, <3>1, <3>2, <3>3 DEF GraphsInv
  <2>4. ReadingInv'
    BY <1>4, <2>2 DEF ReadingInv, Unbegun
  <2>5. ASSUME NEW p \in 1..Len(Graphs), p # 1
        PROVE  p - 1 \in 1..Len(Graphs') /\ Graphs'[p - 1] = Graphs[p]
    BY <2>2, <2>5
  <2>6. ASSUME NEW v \in Nodes, NEW k \in Nat, Awaited(Graphs, Layers, v, k)
        PROVE  Awaited(Graphs', Layers, v, k)
    <3>1. PICK p \in 1..Len(Graphs) : AwaitedBy(Graphs[p], Layers, v, k)
      BY <2>6 DEF Awaited
    <3>2. p # 1
      <4> SUFFICES ASSUME p = 1
                   PROVE  FALSE
        OBVIOUS
      <4>1. v[3] <= o.node /\ v[3] > o.node
        BY <1>1, <1>2, <1>6, <3>1 DEF AwaitedBy
      <4>2. QED
        BY <1>2, <1>5, <4>1
    <3>3. QED
      BY <2>5, <3>1, <3>2 DEF Awaited
  <2>7. ASSUME Launched(Graphs, host)
        PROVE  Launched(Graphs', host)
    <3>1. PICK p \in 1..Len(Graphs) : Graphs[p] = ReplayOf(host.role, host.entry, host.step)
      BY <2>7 DEF Launched
    <3>2. p # 1
      BY <1>1, <1>2, <3>1 DEF ReplayOf
    <3>3. QED
      BY <2>5, <3>1, <3>2 DEF Launched
  <2>8. QED
    BY <1>1, <2>1, <2>2, <2>3, <2>4, <2>6, <2>7, ReplayStepKeeps
<1>7. CASE /\ o.node # Layers[o.entry] /\ queue' = WithHead(queue, Compute, NextNode(o))
           /\ finished' = finished
  <2>1. /\ NextNode(o).step = o.step /\ NextNode(o).role = o.role /\ NextNode(o).entry = o.entry
        /\ NextNode(o).node = o.node + 1 /\ NextNode(o).reads = FALSE /\ NextNode(o) \in ReplayOp
    BY <1>2, <1>7 DEF NextNode, ReplayOp
  <2>2. /\ Len(Graphs') = Len(Graphs) /\ Graphs'[1] = NextNode(o)
        /\ \A p \in 1..Len(Graphs) : p # 1 => Graphs'[p] = Graphs[p]
        /\ \A t \in Updates : queue'[t] = queue[t]
    <3>1. NextNode(o) \in OpsOf(Compute) /\ Compute \in Streams /\ queue[Compute] # <<>>
      BY <1>2, <2>1, StreamFacts DEF OpsOf, Graphs
    <3>2. QED
      BY <1>3, <1>7, <3>1, HeadChanged DEF Graphs
  <2>3. /\ Keeps(Graphs, Graphs', count) /\ Ordered(Graphs') /\ Unbegun(Graphs')
        /\ \A p \in 1..Len(Graphs) : Graphs'[p].step = Graphs[p].step /\ Graphs'[p].role = Graphs[p].role
    BY <1>2, <1>3, <1>4, <2>1, <2>2, AdvancedGraph
  <2>4. GraphsInv'
    BY <1>3, <1>7, <2>2, <2>3 DEF ReplayInv, GraphsInv
  <2>5. ReadingInv'
    <3>1. \A p \in 1..Len(Graphs') : ~Graphs'[p].reads
      BY <1>3, <1>4, <2>1, <2>2 DEF Unbegun
    <3>2. QED
      BY <3>1 DEF ReadingInv
  <2>6. ASSUME NEW v \in Nodes, NEW k \in Nat, Awaited(Graphs, Layers, v, k)
        PROVE  Awaited(Graphs', Layers, v, k)
    <3>1. PICK p \in 1..Len(Graphs) : AwaitedBy(Graphs[p], Layers, v, k)
      BY <2>6 DEF Awaited
    <3>2. CASE p # 1
      BY <2>2, <3>1, <3>2 DEF Awaited
    <3>3. CASE p = 1
      <4>1. v[3] \in Nat /\ v[3] > o.node
        BY <1>1, <1>2, <1>5, <3>1, <3>3 DEF AwaitedBy
      <4>2. v[3] > o.node + 1 \/ v[3] = o.node + 1
        BY <1>2, <4>1
      <4>3. AwaitedBy(NextNode(o), Layers, v, k)
        BY <1>2, <2>1, <3>1, <3>3, <4>2 DEF AwaitedBy
      <4>4. QED
        BY <1>2, <2>2, <4>3 DEF Awaited
    <3>4. QED
      BY <3>2, <3>3
  <2>7. ASSUME Launched(Graphs, host)
        PROVE  Launched(Graphs', host)
    <3>1. PICK p \in 1..Len(Graphs) : Graphs[p] = ReplayOf(host.role, host.entry, host.step)
      BY <2>7 DEF Launched
    <3>2. p # 1
      BY <1>1, <1>2, <3>1 DEF ReplayOf
    <3>3. QED
      BY <2>2, <3>1, <3>2 DEF Launched
  <2>8. QED
    BY <1>1, <2>2, <2>3, <2>4, <2>5, <2>6, <2>7, ReplayStepKeeps
<1>8. QED
  BY <1>1, <1>6, <1>7

--------------------------------------------------------------------------------
(* Before the first launch nothing waits and nothing is bound.                *)
LEMMA InitReplays == Init => ReplayInv
<1> SUFFICES ASSUME Init PROVE ReplayInv
  OBVIOUS
<1>1. /\ host.pc = "idle" /\ jobs = {} /\ queue = [s \in Streams |-> <<>>]
      /\ flag = [v \in Nodes |-> FALSE] /\ passed = {} /\ finished = {}
  BY DEF Init, Idle
<1>2. Graphs = <<>> /\ \A s \in Updates : queue[s] = <<>>
  BY <1>1, StreamFacts DEF Graphs
<1>3. Len(Graphs) = 0 /\ \A s \in Updates : Len(queue[s]) = 0
  BY <1>2
<1>4. GraphsInv /\ ReadingInv
  BY <1>3 DEF GraphsInv, ReadingInv, Ordered, Unbegun
<1>5. ASSUME NEW v \in Nodes, NEW k \in Nat
      PROVE  ~Somewhere(queue, jobs, flag, param, v, k) /\ Once(queue, jobs, flag, param, v, k)
  <2>1. ~Queued(queue, v, k) /\ QueuedOnce(queue, v, k)
    BY <1>3 DEF Queued, QueuedOnce
  <2>2. ~Held(jobs, v, k) /\ HeldOnce(jobs, v, k)
    BY <1>1 DEF Held, HeldOnce
  <2>3. ~Recorded(flag, param, v, k)
    BY <1>1 DEF Recorded
  <2>4. QED
    BY <2>1, <2>2, <2>3 DEF Somewhere, Once
<1>6. BindingsInv
  BY <1>5 DEF BindingsInv
<1>7. GatesInv
  BY <1>1, <1>3 DEF GatesInv, GuardedOps
<1>8. ComingInv
  BY <1>1 DEF ComingInv
<1>9. QED
  BY <1>4, <1>6, <1>7, <1>8 DEF ReplayInv

(* Every step of the device keeps the invariant.                              *)
LEMMA DeviceKeeps ==
    ASSUME TypeInv, ReplayInv, NEW s \in Streams, DeviceStep(s)
    PROVE  ReplayInv'
<1>1. HostUnchanged /\ UNCHANGED jobs /\ queue[s] # <<>>
  BY DEF DeviceStep
<1> DEFINE o == Head(queue[s])
<1> HIDE DEF o
<1>2. Bind(s, o) \/ RecordGate(s, o) \/ AwaitEvent(s, o) \/ Consume(s, o) \/ Attend(s, o)
  BY DEF DeviceStep, o
<1>3. o = Head(queue[s])
  BY DEF o
<1>4. QED
  BY <1>1, <1>2, <1>3, BindKeeps, RecordGateKeeps, AwaitEventKeeps, ConsumeKeeps, AttendKeeps

(* A step that changes nothing keeps it.                                      *)
LEMMA StutterKeeps ==
    ASSUME ReplayInv, UNCHANGED vars
    PROVE  ReplayInv'
<1>1. /\ dep' = dep /\ host' = host /\ jobs' = jobs /\ last' = last /\ dependency' = dependency
      /\ queue' = queue /\ param' = param /\ flag' = flag /\ passed' = passed /\ finished' = finished
  BY DEF vars
<1>2. Graphs' = Graphs /\ Layers' = Layers /\ UpdateStream(host.role)' = UpdateStream(host.role)
  BY <1>1 DEF Graphs, Layers, UpdateStream
<1>3. GraphsInv' /\ ReadingInv'
  BY <1>1, <1>2 DEF ReplayInv, GraphsInv, ReadingInv
<1>4. BindingsInv'
  BY <1>1, <1>2 DEF ReplayInv, BindingsInv
<1>5. GatesInv' /\ ComingInv'
  BY <1>1, <1>2 DEF ReplayInv, GatesInv, ComingInv
<1>6. QED
  BY <1>3, <1>4, <1>5 DEF ReplayInv

(* Every step keeps the invariant.                                            *)
LEMMA NextKeepsReplays == TypeInv /\ ReplayInv /\ [Next]_vars => ReplayInv'
<1> SUFFICES ASSUME TypeInv, ReplayInv, [Next]_vars PROVE ReplayInv'
  OBVIOUS
<1>1. host \in HostType
  BY DEF TypeInv, Typed
<1>2. ASSUME Raise PROVE ReplayInv'
  <2>1. UNCHANGED <<dep, last, device>> /\ jobs' \in SUBSET jobs /\ host'.pc \notin {"update", "retire"}
    BY <1>1, <1>2 DEF Raise, HostType
  <2>2. QED
    BY <2>1, QuietKeeps
<1>3. ASSUME NEW r \in Roles, NEW e \in Entries, Launch(r, e) PROVE ReplayInv'
  BY <1>3, LaunchKeeps
<1>4. CASE HostContinues
  <2>1. CASE CallSucceeds
    <3>1. UNCHANGED <<dep, last, device>> /\ jobs' \in SUBSET jobs /\ host'.pc \notin {"update", "retire"}
      BY <1>1, <2>1 DEF CallSucceeds, HostType
    <3>2. QED
      BY <3>1, QuietKeeps
  <2>2. QED
    BY <1>2, <1>4, <2>1, EnterUpdateKeeps, FallBackKeeps, DispatchKeeps
       DEF HostContinues, RetireRaises, CallRaises
<1>5. ASSUME NEW j \in jobs, Works(j) \/ Fail(j) PROVE ReplayInv'
  BY <1>5, WorksKeeps, FailKeeps
<1>6. ASSUME NEW s \in Streams, DeviceStep(s) PROVE ReplayInv'
  BY <1>6, DeviceKeeps
<1>7. CASE UNCHANGED vars
  BY <1>7, StutterKeeps
<1>8. QED
  BY <1>2, <1>3, <1>4, <1>5, <1>6, <1>7 DEF Next, LaunchRaises

(* The invariant holds in every reachable state.                              *)
LEMMA ReplayInvHolds == Spec => [](TypeInv /\ ReplayInv)
<1>1. Init /\ [][Next]_vars => []ReplayInv
  <2>1. Init => TypeInv /\ ReplayInv
    BY InitTyped, InitReplays
  <2>2. TypeInv /\ ReplayInv /\ [Next]_vars => (TypeInv /\ ReplayInv)'
    BY NextTyped, NextKeepsReplays
  <2>3. QED
    BY <2>1, <2>2, PTL
<1>2. QED
  BY <1>1, TypeInvHolds, PTL DEF Spec

(* Every attention task of every replay runs with the parameters of its own   *)
(* step, for every deployment: join, defer or pipeline, with the events that  *)
(* order update and replay or with a drained device, with any pools, captured *)
(* sizes and layers, and also when bindings fail.                             *)
THEOREM ReplaysReadTheirUpdate == Spec => []ReplayReadsItsUpdate
BY ReplayInvHolds, ReplayInvImplies, PTL
================================================================================
