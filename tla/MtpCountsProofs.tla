---------------------------- MODULE MtpCountsProofs ----------------------------
(* Every frame of asynchronous hybrid MTP starts from the counts of its own   *)
(* requests: TLAPS proofs about MtpCounts for every set of requests, every    *)
(* width and any number of frames.                                            *)
EXTENDS MtpCounts, FiniteSetTheorems, SequenceTheorems, TLAPS

CountMaps == [Rows -> Counts]
PositionMaps == [Rows -> Rows \cup {None}]

(* What a frame leaves on the stream.                                         *)
Frames == [op : {"model"}, batch : Batches, last : Batches \cup {<<>>},
           moved : SUBSET Requests, bias : CountMaps]
Ops == [op : {"positions"}, value : PositionMaps]
       \cup [op : {"await"}, step : Nat]
       \cup [op : {"remap"}, rows : Rows]
       \cup [op : {"copy"}, value : CountMaps]
       \cup Frames

TypeOK ==
    /\ phase \in {"idle", "mapped", "preprocessed", "fallback"}
    /\ pc \in {"idle", "prepared", "preprocessed"}
    /\ bound \in BOOLEAN /\ step \in Nat /\ posted \in Nat
    /\ batch \in Batches \cup {<<>>} /\ (pc # "idle" => batch \in Batches)
    /\ last \in Batches \cup {<<>>}
    /\ moved \in SUBSET Requests
    /\ bias \in CountMaps /\ cpu \in CountMaps
    /\ counts \in CountMaps /\ out \in CountMaps
    /\ previous \in PositionMaps
    /\ stream \in Seq(Ops) /\ unposted \in Seq(CountMaps)
    /\ accepted \in [Requests -> Counts]

--------------------------------------------------------------------------------
(* A batch has a row for each of its requests, and no request twice.          *)
LEMMA BatchFacts ==
    ASSUME NEW b \in Batches
    PROVE  /\ Len(b) \in Rows /\ DOMAIN b = 1..Len(b) /\ DOMAIN b \subseteq Rows
           /\ \A i \in DOMAIN b : b[i] \in Requests
           /\ \A i, j \in DOMAIN b : b[i] = b[j] => i = j
           /\ b # <<>>
<1>1. Cardinality(Requests) \in Nat
  BY MtpAssumption, FS_CardinalityType
<1>2. PICK n \in Rows : b \in [1..n -> Requests] /\ IsInjective(b)
  BY DEF Batches
<1>3. Len(b) = n /\ DOMAIN b = 1..n /\ n >= 1
  BY <1>1, <1>2 DEF Rows
<1>4. \A i, j \in DOMAIN b : b[i] = b[j] => i = j
  BY <1>2 DEF IsInjective
<1>5. QED
  BY <1>1, <1>2, <1>3, <1>4 DEF Rows

(* The same of a batch that may be absent.                                    *)
LEMMA LastFacts ==
    ASSUME NEW l \in Batches \cup {<<>>}
    PROVE  /\ DOMAIN l \subseteq Rows
           /\ \A j \in DOMAIN l : l[j] \in Requests
           /\ \A i, j \in DOMAIN l : l[i] = l[j] => i = j
<1>1. CASE l \in Batches
  BY <1>1, BatchFacts
<1>2. CASE l = <<>>
  BY <1>2
<1>3. QED
  BY <1>1, <1>2

(* No count is below 1, so a row without a count starts at 1.                 *)
LEMMA OneIsACount == 1 \in Counts /\ AllOnes \in CountMaps
BY MtpAssumption DEF Counts, AllOnes, CountMaps

(* Mapped counts are counts.                                                  *)
LEMMA RemapIsCounts ==
    ASSUME NEW source \in CountMaps, NEW positions \in PositionMaps, NEW n
    PROVE  Remap(source, positions, n) \in CountMaps
BY OneIsACount DEF Remap, CountMaps, PositionMaps

(* The positions sent to the device name rows of the last frame.              *)
LEMMA PositionsInRows ==
    ASSUME NEW b, last \in Batches \cup {<<>>}
    PROVE  Positions(b) \in PositionMaps
<1>1. DOMAIN last \subseteq Rows
  BY LastFacts
<1>2. \A i : Position(b, i) \in Rows \cup {None}
  BY <1>1 DEF Position
<1>3. QED
  BY <1>2 DEF Positions, PositionMaps

--------------------------------------------------------------------------------
(* Every variable starts within its type.                                     *)
LEMMA TypeInit == Init => TypeOK
<1> SUFFICES ASSUME Init PROVE TypeOK
  OBVIOUS
<1>1. AllOnes \in CountMaps
  BY OneIsACount
<1>2. [i \in Rows |-> None] \in PositionMaps
  BY DEF PositionMaps
<1>3. [r \in Requests |-> 1] \in [Requests -> Counts]
  BY OneIsACount
<1>4. QED
  BY <1>1, <1>2, <1>3 DEF Init, TypeOK

(* Enqueueing operations keeps the stream a sequence of operations.           *)
LEMMA EnqueueType ==
    ASSUME stream \in Seq(Ops), NEW ops \in Seq(Ops), Enqueue(ops)
    PROVE  stream' \in Seq(Ops)
BY DEF Enqueue

(* Preparing on the device queues operations with typed contents.             *)
LEMMA TypePrepareOnDevice ==
    ASSUME TypeOK, NEW b \in Batches, PrepareOnDevice(b)
    PROVE  TypeOK'
<1>1. [op |-> "positions", value |-> Positions(b)] \in Ops
  BY PositionsInRows DEF Ops, TypeOK
<1>2. [op |-> "await", step |-> step] \in Ops
  BY DEF Ops, TypeOK
<1>3. [op |-> "remap", rows |-> Len(b)] \in Ops
  BY BatchFacts DEF Ops
<1>4. stream' \in Seq(Ops)
  <2>1. <<[op |-> "positions", value |-> Positions(b)], [op |-> "await", step |-> step],
          [op |-> "remap", rows |-> Len(b)]>> \in Seq(Ops)
    BY <1>1, <1>2, <1>3
  <2>2. QED
    BY <2>1 DEF PrepareOnDevice, TypeOK, Enqueue
<1>5. QED
  BY <1>4 DEF PrepareOnDevice, NextBatch, TypeOK, device

(* Preparing on the host maps counts to counts.                               *)
LEMMA TypePrepareOnHost ==
    ASSUME TypeOK, NEW b \in Batches, PrepareOnHost(b)
    PROVE  TypeOK'
<1>1. cpu' \in CountMaps
  BY RemapIsCounts, PositionsInRows DEF PrepareOnHost, TypeOK
<1>2. stream' \in Seq(Ops)
  <2>1. <<[op |-> "copy", value |-> cpu']>> \in Seq(Ops)
    BY <1>1 DEF Ops
  <2>2. QED
    BY <2>1 DEF PrepareOnHost, TypeOK, Enqueue
<1>3. QED
  BY <1>1, <1>2 DEF PrepareOnHost, NextBatch, TypeOK, device

(* Moving states keeps the counts of the host counts.                         *)
LEMMA MoveStatesType ==
    ASSUME NEW m \in SUBSET Requests, NEW source \in CountMaps, MoveStates(m, source)
    PROVE  moved' \in SUBSET Requests /\ bias' \in CountMaps /\ cpu' \in CountMaps
BY OneIsACount DEF MoveStates, CountMaps

(* The requests of the prepared batch are requests.                           *)
LEMMA BatchRequests ==
    ASSUME TypeOK, pc # "idle", NEW m \in SUBSET ToSet(batch)
    PROVE  m \in SUBSET Requests
BY BatchFacts DEF TypeOK, ToSet

(* Preprocessing, on any path, leaves counts in the host's copies.            *)
LEMMA TypePreprocess ==
    ASSUME TypeOK, PreprocessMapped \/ PreprocessTransition \/ PreprocessOnHost
    PROVE  TypeOK'
<1>1. moved' \in SUBSET Requests /\ bias' \in CountMaps /\ cpu' \in CountMaps
  <2>1. CASE PreprocessMapped
    <3>1. cpu \in CountMaps /\ {} \in SUBSET Requests /\ MoveStates({}, cpu)
      BY <2>1 DEF PreprocessMapped, TypeOK
    <3>2. QED
      BY <3>1, MoveStatesType
  <2>2. CASE PreprocessTransition
    <3>1. PICK m \in SUBSET ToSet(batch) \ {{}} :
            MoveStates(m, [i \in Rows |-> IF i \in DOMAIN batch THEN counts[i] ELSE cpu[i]])
      BY <2>2 DEF PreprocessTransition
    <3>2. [i \in Rows |-> IF i \in DOMAIN batch THEN counts[i] ELSE cpu[i]] \in CountMaps
      BY DEF TypeOK, CountMaps
    <3>3. m \in SUBSET Requests
      BY <2>2, BatchRequests DEF PreprocessTransition
    <3>4. QED
      BY <3>1, <3>2, <3>3, MoveStatesType
  <2>3. CASE PreprocessOnHost
    <3>1. PICK m \in SUBSET ToSet(batch) : MoveStates(m, cpu)
      BY <2>3 DEF PreprocessOnHost
    <3>2. m \in SUBSET Requests
      BY <2>3, BatchRequests DEF PreprocessOnHost
    <3>3. QED
      BY <3>1, <3>2, MoveStatesType DEF TypeOK
  <2>4. QED
    BY <2>1, <2>2, <2>3
<1>2. /\ pc' = "preprocessed" /\ phase' \in {"preprocessed", "fallback"}
      /\ batch \in Batches
      /\ UNCHANGED <<bound, step, batch, last, stream, device>>
  BY DEF PreprocessMapped, PreprocessTransition, PreprocessOnHost, TypeOK
<1>3. QED
  BY <1>1, <1>2 DEF TypeOK, device

(* The frame on its way once the prepared batch is launched.                  *)
Prepared == [op |-> "model", batch |-> batch, last |-> last, moved |-> moved, bias |-> bias]

(* A prepared batch makes a well-formed frame.                                *)
LEMMA PreparedIsFrame == TypeOK /\ pc # "idle" => Prepared \in Frames /\ Prepared \in Ops
BY DEF TypeOK, Prepared, Frames, Ops

(* Launching queues a frame and at most one copy.                             *)
LEMMA TypeLaunch ==
    ASSUME TypeOK, Launch
    PROVE  TypeOK'
<1>1. Prepared \in Ops
  BY PreparedIsFrame DEF Launch
<1>2. SecondCopy \in Seq(Ops)
  <2>1. [op |-> "copy", value |-> cpu] \in Ops
    BY DEF Ops, TypeOK
  <2>2. QED
    BY <2>1 DEF SecondCopy
<1>3. stream' \in Seq(Ops)
  <2>1. SecondCopy \o <<Prepared>> \in Seq(Ops)
    BY <1>1, <1>2
  <2>2. QED
    BY <2>1 DEF Launch, Enqueue, TypeOK, Prepared
<1>4. /\ step' \in Nat /\ batch' = <<>> /\ pc' = "idle" /\ moved' = {} /\ bias' = AllOnes
      /\ phase' \in {"idle", "mapped", "preprocessed", "fallback"} /\ bound' = TRUE
      /\ last' \in Batches
  BY DEF Launch, TypeOK
<1>5. bias' \in CountMaps
  BY <1>4, OneIsACount
<1>6. QED
  BY <1>3, <1>4, <1>5 DEF Launch, TypeOK, device

(* What an operation that runs carries.                                       *)
LEMMA HeadType ==
    ASSUME TypeOK, stream # <<>>
    PROVE  /\ Head(stream) \in Ops /\ Tail(stream) \in Seq(Ops)
           /\ Head(stream).op = "positions" => Head(stream).value \in PositionMaps
           /\ Head(stream).op = "copy" => Head(stream).value \in CountMaps
           /\ Head(stream).op = "model" => Head(stream) \in Frames
<1>1. Head(stream) \in Ops /\ Tail(stream) \in Seq(Ops)
  BY DEF TypeOK
<1>2. QED
  BY <1>1 DEF Ops, Frames

(* Operations of the stream write positions and counts only.                  *)
LEMMA TypeDevice ==
    ASSUME TypeOK, StorePositions \/ AwaitCounts \/ RemapCounts \/ CopyCounts
    PROVE  TypeOK'
<1>1. stream # <<>> /\ stream' = Tail(stream) /\ UNCHANGED <<host, cpu, out, unposted, posted, accepted>>
  BY DEF StorePositions, AwaitCounts, RemapCounts, CopyCounts, Runs, device
<1>2. stream' \in Seq(Ops)
  BY <1>1, HeadType
<1>3. previous' \in PositionMaps
  <2>1. CASE StorePositions
    BY <1>1, <2>1, HeadType DEF StorePositions, Runs
  <2>2. CASE AwaitCounts \/ RemapCounts \/ CopyCounts
    BY <2>2 DEF AwaitCounts, RemapCounts, CopyCounts, TypeOK, device
  <2>3. QED
    BY <2>1, <2>2
<1>4. counts' \in CountMaps
  <2>1. CASE RemapCounts
    BY <2>1, RemapIsCounts DEF RemapCounts, TypeOK
  <2>2. CASE CopyCounts
    BY <1>1, <2>2, HeadType DEF CopyCounts, Runs
  <2>3. CASE StorePositions \/ AwaitCounts
    BY <2>3 DEF StorePositions, AwaitCounts, TypeOK, device
  <2>4. QED
    BY <2>1, <2>2, <2>3
<1>5. QED
  BY <1>1, <1>2, <1>3, <1>4 DEF TypeOK, host

(* What a frame accepts is a count per row, and per request.                  *)
LEMMA RunModelFacts ==
    ASSUME TypeOK, RunModel
    PROVE  /\ stream # <<>> /\ stream' = Tail(stream) /\ Head(stream) \in Frames
           /\ UNCHANGED <<host, cpu, previous, counts, out, posted>>
           /\ accepted' \in [Requests -> Counts]
           /\ \E c \in CountMaps :
                /\ unposted' = Append(unposted, c)
                /\ \A i \in DOMAIN Head(stream).batch : c[i] = accepted'[Head(stream).batch[i]]
<1>1. stream # <<>> /\ stream' = Tail(stream) /\ Head(stream) \in Frames
      /\ UNCHANGED <<host, cpu, previous, counts, out, posted>>
  BY HeadType DEF RunModel, Runs
<1> DEFINE b == Head(stream).batch
<1>2. b \in Batches
  BY <1>1 DEF Frames
<1>3. PICK a \in [DOMAIN b -> Counts] :
        /\ accepted' = [r \in Requests |-> IF \E i \in DOMAIN b : b[i] = r
                                           THEN a[CHOOSE i \in DOMAIN b : b[i] = r] ELSE accepted[r]]
        /\ unposted' = Append(unposted, [i \in Rows |-> IF i \in DOMAIN b THEN a[i] ELSE 1])
  BY DEF RunModel
<1> DEFINE c == [i \in Rows |-> IF i \in DOMAIN b THEN a[i] ELSE 1]
<1> HIDE DEF b
<1>4. c \in CountMaps
  BY OneIsACount DEF CountMaps
<1>5. accepted' \in [Requests -> Counts]
  BY <1>3 DEF TypeOK
<1>6. \A i \in DOMAIN b : c[i] = accepted'[b[i]]
  <2>1. SUFFICES ASSUME NEW i \in DOMAIN b
                 PROVE  c[i] = accepted'[b[i]]
    OBVIOUS
  <2>2. b[i] \in Requests /\ i \in Rows
    BY <1>2, BatchFacts
  <2>3. (CHOOSE j \in DOMAIN b : b[j] = b[i]) = i
    BY <1>2, BatchFacts
  <2>4. QED
    BY <1>3, <2>2, <2>3
<1>7. QED
  BY <1>1, <1>3, <1>4, <1>5, <1>6 DEF b

(* Running a frame accepts a count per request.                               *)
LEMMA TypeRunModel ==
    ASSUME TypeOK, RunModel
    PROVE  TypeOK'
<1>1. stream' \in Seq(Ops)
  BY RunModelFacts, HeadType
<1>2. unposted' \in Seq(CountMaps)
  <2>1. PICK c \in CountMaps : unposted' = Append(unposted, c)
    BY RunModelFacts
  <2>2. QED
    BY <2>1 DEF TypeOK
<1>3. QED
  BY <1>1, <1>2, RunModelFacts DEF TypeOK, host

(* Publication hands on the counts of a frame.                                *)
LEMMA TypePublish ==
    ASSUME TypeOK, Publish
    PROVE  TypeOK'
<1>1. Head(unposted) \in CountMaps /\ Tail(unposted) \in Seq(CountMaps)
  BY DEF Publish, TypeOK
<1>2. QED
  BY <1>1 DEF Publish, TypeOK, host

(* Every step keeps the types.                                                *)
LEMMA TypeNext == TypeOK /\ [Next]_vars => TypeOK'
<1> SUFFICES ASSUME TypeOK, [Next]_vars PROVE TypeOK'
  OBVIOUS
<1>1. ASSUME NEW b \in Batches, PrepareOnDevice(b) \/ PrepareOnHost(b) PROVE TypeOK'
  BY <1>1, TypePrepareOnDevice, TypePrepareOnHost
<1>2. CASE PreprocessMapped \/ PreprocessTransition \/ PreprocessOnHost
  BY <1>2, TypePreprocess
<1>3. CASE Launch
  BY <1>3, TypeLaunch
<1>4. CASE StorePositions \/ AwaitCounts \/ RemapCounts \/ CopyCounts
  BY <1>4, TypeDevice
<1>5. CASE RunModel
  BY <1>5, TypeRunModel
<1>6. CASE Publish
  BY <1>6, TypePublish
<1>7. CASE UNCHANGED vars
  <2>1. UNCHANGED <<phase, pc, bound, step, batch, last, moved, bias>>
        /\ UNCHANGED <<cpu, stream, previous, counts, out, unposted, posted, accepted>>
    BY <1>7 DEF vars, host, device
  <2>2. QED
    BY <2>1 DEF TypeOK
<1>8. QED
  BY <1>1, <1>2, <1>3, <1>4, <1>5, <1>6, <1>7 DEF Next

--------------------------------------------------------------------------------
(* The count a frame of batch b after one of batch l starts a request from.   *)
Want(l, r) == IF r \in ToSet(l) THEN accepted[r] ELSE 1

(* The counts v are those the requests of batch l accepted, by row of l, and  *)
(* those each row of the batch b that follows it has to start from.           *)
CountsOf(v, l) == \A j \in DOMAIN l : v[j] = accepted[l[j]]
StartsOf(v, b, l) == \A i \in DOMAIN b : v[i] = Want(l, b[i])

(* The counts v are those frame f has to start from once its states are moved,*)
(* and the states are moved from where the requests' own counts put them.     *)
Placed(v, f) ==
    \A i \in DOMAIN f.batch :
        IF f.batch[i] \in f.moved
        THEN v[i] = 1 /\ f.bias[i] = Want(f.last, f.batch[i])
        ELSE v[i] = Want(f.last, f.batch[i])

(* The operations that map the counts of frame s, of batch l, to batch b.     *)
PositionsIn(b, l) ==
    [i \in Rows |-> IF i \in DOMAIN b
                    THEN IF \E j \in DOMAIN l : l[j] = b[i]
                         THEN CHOOSE j \in DOMAIN l : l[j] = b[i] ELSE None
                    ELSE None]
StoreOp(b, l) == [op |-> "positions", value |-> PositionsIn(b, l)]
AwaitOp(s) == [op |-> "await", step |-> s]
RemapOp(b) == [op |-> "remap", rows |-> Len(b)]
CopyOp(v) == [op |-> "copy", value |-> v]
Stored(b, l) == previous = PositionsIn(b, l)

(* Frame f is the next to run, and ops is what the stream still has of it.    *)
InFlight(ops, f) ==
    \/ /\ f.moved = {}
       /\ ops = <<StoreOp(f.batch, f.last), AwaitOp(posted), RemapOp(f.batch), f>>
    \/ /\ f.moved = {} /\ Stored(f.batch, f.last)
       /\ ops = <<AwaitOp(posted), RemapOp(f.batch), f>>
    \/ /\ f.moved = {} /\ Stored(f.batch, f.last)
       /\ ops = <<RemapOp(f.batch), f>>
    \/ \E u, v \in CountMaps : ops = <<CopyOp(u), CopyOp(v), f>> /\ Placed(v, f)
    \/ \E v \in CountMaps : ops = <<CopyOp(v), f>> /\ Placed(v, f)
    \/ ops = <<f>> /\ Placed(counts, f)

(* The host prepares a batch whose counts are mapped on the device.           *)
Mapped ==
    /\ moved = {}
    /\ \/ pc = "prepared" /\ phase = "mapped"
       \/ pc = "preprocessed" /\ phase = "preprocessed"

(* The frame after the last published one has batch l, and t is what the      *)
(* stream holds behind it: nothing, the mapping of the batch being prepared,  *)
(* or the next frame.  A mapping may have begun, but not passed its await.    *)
Behind(t, l, begun) ==
    \/ pc = "idle" /\ step = posted + 1 /\ last = l /\ t = <<>>
    \/ /\ Mapped /\ step = posted + 1 /\ last = l
       /\ \/ t = <<StoreOp(batch, l), AwaitOp(posted + 1), RemapOp(batch)>>
          \/ begun /\ Stored(batch, l) /\ t = <<AwaitOp(posted + 1), RemapOp(batch)>>
    \/ /\ pc = "idle" /\ step = posted + 2
       /\ \E g \in Frames :
            /\ g.batch = last /\ g.last = l /\ g.moved = {}
            /\ \/ t = <<StoreOp(g.batch, l), AwaitOp(posted + 1), RemapOp(g.batch), g>>
               \/ begun /\ Stored(g.batch, l) /\ t = <<AwaitOp(posted + 1), RemapOp(g.batch), g>>

(* Every launched frame is published: the host is idle, has its batch mapped  *)
(* on the device, or has the counts itself.                                   *)
SettledIdle == pc = "idle" /\ stream = <<>> /\ CountsOf(cpu, last)
SettledMapped ==
    /\ Mapped
    /\ \/ stream = <<StoreOp(batch, last), AwaitOp(posted), RemapOp(batch)>>
       \/ Stored(batch, last) /\ stream = <<AwaitOp(posted), RemapOp(batch)>>
       \/ Stored(batch, last) /\ stream = <<RemapOp(batch)>>
       \/ stream = <<>> /\ StartsOf(counts, batch, last)
SettledOnHost ==
    /\ phase = "fallback"
    /\ stream = <<>> \/ \E v \in CountMaps : stream = <<CopyOp(v)>>
    /\ \/ pc = "prepared" /\ StartsOf(cpu, batch, last)
       \/ pc = "preprocessed" /\ Placed(cpu, Prepared)
Settled ==
    /\ step = posted /\ unposted = <<>> /\ CountsOf(out, last)
    /\ SettledIdle \/ SettledMapped \/ SettledOnHost

(* A launched frame is on the stream, and the device has the counts of the    *)
(* frame before it; or it has run, and its counts are to be published.        *)
ExecutingWith(f, ops, t) ==
    /\ CountsOf(out, f.last)
    /\ InFlight(ops, f) /\ Behind(t, f.batch, FALSE)
    /\ stream = ops \o t
Executing ==
    /\ unposted = <<>>
    /\ \E f \in Frames : \E ops, t \in Seq(Ops) : ExecutingWith(f, ops, t)
FinishedWith(c, l) ==
    /\ unposted = <<c>> /\ CountsOf(c, l)
    /\ Behind(stream, l, TRUE)
Finished == \E c \in CountMaps : \E l \in Batches : FinishedWith(c, l)

(* The inductive invariant.                                                   *)
CountsInv == /\ TypeOK /\ (pc = "idle" => moved = {})
             /\ Settled \/ Executing \/ Finished

--------------------------------------------------------------------------------
(* The invariant holds at first: nothing is queued and every count is 1.      *)
LEMMA CountsInit == Init => CountsInv
<1> SUFFICES ASSUME Init PROVE CountsInv
  OBVIOUS
<1>1. CountsOf(out, last) /\ CountsOf(cpu, last)
  BY DEF Init, CountsOf
<1>2. QED
  BY <1>1, TypeInit DEF Init, CountsInv, Settled, SettledIdle

(* The positions an operation sends are those of the batch behind the last.   *)
LEMMA PositionsAreIn ==
    ASSUME NEW b
    PROVE  Positions(b) = PositionsIn(b, last)
BY DEF Positions, Position, PositionsIn

(* What is asked of counts depends on the accepted ones only.                 *)
LEMMA PlacedSame ==
    ASSUME accepted' = accepted
    PROVE  /\ \A l, r : Want(l, r)' = Want(l, r)
           /\ \A v, l : CountsOf(v, l)' <=> CountsOf(v, l)
           /\ \A v, b, l : StartsOf(v, b, l)' <=> StartsOf(v, b, l)
           /\ \A v, f : Placed(v, f)' <=> Placed(v, f)
BY DEF Want, CountsOf, StartsOf, Placed

(* Positions map the counts of one batch to the rows of the next: remapping   *)
(* the counts of batch l gives what batch b starts from.                      *)
LEMMA RemapStarts ==
    ASSUME NEW b \in Batches, NEW l \in Batches \cup {<<>>},
           NEW source \in CountMaps, CountsOf(source, l)
    PROVE  StartsOf(Remap(source, PositionsIn(b, l), Len(b)), b, l)
<1> DEFINE p == PositionsIn(b, l)
<1>1. SUFFICES ASSUME NEW i \in DOMAIN b
               PROVE  Remap(source, p, Len(b))[i] = Want(l, b[i])
  BY DEF StartsOf
<1>2. i \in Rows /\ i <= Len(b)
  BY BatchFacts DEF Rows
<1>3. CASE \E j \in DOMAIN l : l[j] = b[i]
  <2>1. PICK j \in DOMAIN l : l[j] = b[i] /\ p[i] = j
    BY <1>2, <1>3
    DEF PositionsIn
  <2>2. j \in Rows /\ j # None
    BY LastFacts DEF Rows, None
  <2>3. Remap(source, p, Len(b))[i] = source[j]
    BY <1>2, <2>1, <2>2 DEF Remap
  <2>4. QED
    BY <2>1, <2>3 DEF CountsOf, Want, ToSet
<1>4. CASE ~ \E j \in DOMAIN l : l[j] = b[i]
  <2>1. p[i] = None
    BY <1>2, <1>4 DEF PositionsIn
  <2>2. Remap(source, p, Len(b))[i] = 1
    BY <1>2, <2>1 DEF Remap
  <2>3. QED
    BY <1>4, <2>2 DEF Want, ToSet
<1>5. QED
  BY <1>3, <1>4

(* The stages of the stream depend on the device's positions and counts, on   *)
(* what frames accepted and on how many are published.                        *)
LEMMA InFlightSame ==
    ASSUME UNCHANGED <<previous, counts, accepted, posted>>, NEW ops, NEW f, InFlight(ops, f)
    PROVE  InFlight(ops, f)'
BY PlacedSame DEF InFlight, Stored

(* What is queued behind a frame depends on the host and the device.          *)
LEMMA BehindSame ==
    ASSUME UNCHANGED <<host, previous, posted>>, NEW t, NEW l, NEW begun, Behind(t, l, begun)
    PROVE  Behind(t, l, begun)'
BY DEF Behind, Stored, Mapped, host

(* A stage waits on the first of its operations.                              *)
LEMMA InFlightSeq ==
    ASSUME NEW f \in Frames, NEW ops \in Seq(Ops), InFlight(ops, f)
    PROVE  ops # <<>> /\ (Head(ops).op = "model" => ops = <<f>>)
<1>1. CASE f.moved = {} /\ ops = <<StoreOp(f.batch, f.last), AwaitOp(posted), RemapOp(f.batch), f>>
  BY <1>1 DEF StoreOp
<1>2. CASE f.moved = {} /\ ops = <<AwaitOp(posted), RemapOp(f.batch), f>>
  BY <1>2 DEF AwaitOp
<1>3. CASE f.moved = {} /\ ops = <<RemapOp(f.batch), f>>
  BY <1>3 DEF RemapOp
<1>4. CASE \E u, v \in CountMaps : ops = <<CopyOp(u), CopyOp(v), f>>
  BY <1>4 DEF CopyOp
<1>5. CASE \E v \in CountMaps : ops = <<CopyOp(v), f>>
  BY <1>5 DEF CopyOp
<1>6. CASE ops = <<f>>
  BY <1>6
<1>7. QED
  BY <1>1, <1>2, <1>3, <1>4, <1>5, <1>6 DEF InFlight

(* The stream's head is the head of the frame in flight.                      *)
LEMMA HeadOfConcat ==
    ASSUME NEW S, NEW s \in Seq(S), s # <<>>, NEW t \in Seq(S)
    PROVE  s \o t # <<>> /\ Head(s \o t) = Head(s) /\ Tail(s \o t) = Tail(s) \o t
OBVIOUS

(* Joining with nothing.                                                      *)
LEMMA NothingOfConcat ==
    ASSUME NEW S, NEW t \in Seq(S)
    PROVE  <<>> \o t = t /\ t \o <<>> = t
OBVIOUS

--------------------------------------------------------------------------------
(* Preparing on the device: the mapping joins the stream, behind whatever     *)
(* frame is still on it.                                                      *)
LEMMA KeepsPrepareOnDevice ==
    ASSUME CountsInv, NEW b \in Batches, PrepareOnDevice(b), TypeOK'
    PROVE  CountsInv'
<1> DEFINE ops == <<StoreOp(b, last), AwaitOp(step), RemapOp(b)>>
<1>1. /\ pc = "idle" /\ step <= posted + 1 /\ stream' = stream \o ops
      /\ batch' = b /\ pc' = "prepared" /\ phase' = "mapped"
      /\ UNCHANGED <<bound, step, last, moved, bias, cpu>>
      /\ UNCHANGED <<previous, counts, out, unposted, posted, accepted>>
  BY PositionsAreIn DEF PrepareOnDevice, NextBatch, Enqueue, StoreOp, AwaitOp, RemapOp, device
<1>2. TypeOK /\ step \in Nat /\ posted \in Nat
  BY DEF CountsInv, TypeOK
<1>3. ops \in Seq(Ops)
  <2>1. StoreOp(b, last) \in Ops
    BY PositionsAreIn, PositionsInRows DEF StoreOp, Ops, CountsInv, TypeOK
  <2>2. AwaitOp(step) \in Ops /\ RemapOp(b) \in Ops
    BY <1>2, BatchFacts DEF AwaitOp, RemapOp, Ops
  <2>3. QED
    BY <2>1, <2>2
<1> PICK q \in Seq(Ops) : q = ops
  BY <1>3
<1>4. moved = {} /\ Mapped'
  BY <1>1 DEF CountsInv, Mapped
<1>5. CASE Settled
  <2>1. SettledIdle
    BY <1>1, <1>5 DEF Settled, SettledMapped, SettledOnHost, Mapped
  <2>2. stream' = q
    BY <1>1, <1>3, <2>1 DEF SettledIdle
  <2>3. SettledMapped'
    BY <1>1, <1>4, <1>5, <2>2 DEF Settled, SettledMapped, StoreOp, AwaitOp, RemapOp, PositionsIn
  <2>4. Settled'
    BY <1>1, <1>5, <2>3, PlacedSame DEF Settled
  <2>5. QED
    BY <1>1, <2>4 DEF CountsInv
<1>6. CASE Executing
  <2>1. PICK f \in Frames : \E o, t \in Seq(Ops) : ExecutingWith(f, o, t)
    BY <1>6 DEF Executing
  <2>2. PICK o, t \in Seq(Ops) : ExecutingWith(f, o, t)
    BY <2>1
  <2>3. step = posted + 1 /\ last = f.batch /\ t = <<>>
    BY <1>1, <1>2, <2>2 DEF ExecutingWith, Behind, Mapped
  <2>4. stream' = o \o q
    BY <1>1, <1>3, <2>2, <2>3, NothingOfConcat DEF ExecutingWith
  <2>5. Behind(q, f.batch, FALSE)'
    BY <1>1, <1>4, <2>3 DEF Behind, StoreOp, AwaitOp, RemapOp, PositionsIn
  <2>6. InFlight(o, f)' /\ CountsOf(out, f.last)'
    BY <1>1, <2>2, InFlightSame, PlacedSame DEF ExecutingWith
  <2>7. ExecutingWith(f, o, q)'
    BY <2>4, <2>5, <2>6 DEF ExecutingWith
  <2>8. Executing'
    BY <1>1, <1>3, <1>6, <2>7 DEF Executing
  <2>9. QED
    BY <1>1, <2>8 DEF CountsInv
<1>7. CASE Finished
  <2>1. PICK c \in CountMaps : \E l \in Batches : FinishedWith(c, l)
    BY <1>7 DEF Finished
  <2>2. PICK l \in Batches : FinishedWith(c, l)
    BY <2>1
  <2>3. step = posted + 1 /\ last = l /\ stream = <<>>
    BY <1>1, <1>2, <2>2 DEF FinishedWith, Behind, Mapped
  <2>4. stream' = q
    BY <1>1, <1>3, <2>3, NothingOfConcat
  <2>5. Behind(stream, l, TRUE)'
    BY <1>1, <1>4, <2>3, <2>4 DEF Behind, StoreOp, AwaitOp, RemapOp, PositionsIn
  <2>6. FinishedWith(c, l)'
    BY <1>1, <2>2, <2>5, PlacedSame DEF FinishedWith
  <2>7. QED
    BY <1>1, <2>6 DEF CountsInv, Finished
<1>8. QED
  BY <1>5, <1>6, <1>7 DEF CountsInv

(* Preparing on the host: every count is published, so the host maps its own. *)
LEMMA KeepsPrepareOnHost ==
    ASSUME CountsInv, NEW b \in Batches, PrepareOnHost(b), TypeOK'
    PROVE  CountsInv'
<1>1. /\ pc = "idle" /\ posted = step /\ batch' = b /\ pc' = "prepared" /\ phase' = "fallback"
      /\ cpu' = Remap(cpu, PositionsIn(b, last), Len(b))
      /\ stream' = stream \o <<CopyOp(cpu')>>
      /\ UNCHANGED <<bound, step, last, moved, bias>>
      /\ UNCHANGED <<previous, counts, out, unposted, posted, accepted>>
  BY PositionsAreIn DEF PrepareOnHost, NextBatch, Enqueue, CopyOp, device
<1>2. TypeOK /\ step \in Nat /\ posted \in Nat
  BY DEF CountsInv, TypeOK
<1>3. Settled
  BY <1>1, <1>2 DEF CountsInv, Executing, ExecutingWith, Finished, FinishedWith, Behind, Mapped
<1>4. SettledIdle
  BY <1>1, <1>3 DEF Settled, SettledMapped, SettledOnHost, Mapped
<1>5. stream' = <<CopyOp(cpu')>> /\ cpu' \in CountMaps
  BY <1>1, <1>4 DEF SettledIdle, TypeOK
<1>6. StartsOf(cpu', b, last)
  BY <1>1, <1>2, <1>4, RemapStarts DEF SettledIdle, TypeOK
<1>7. SettledOnHost'
  BY <1>1, <1>5, <1>6 DEF SettledOnHost, CopyOp, StartsOf, Want
<1>8. Settled'
  BY <1>1, <1>3, <1>7, PlacedSame DEF Settled
<1>9. QED
  BY <1>1, <1>8 DEF CountsInv

(* Preprocessing without a state transition leaves the counts on the device.  *)
LEMMA KeepsPreprocessMapped ==
    ASSUME CountsInv, PreprocessMapped, TypeOK'
    PROVE  CountsInv'
<1>1. /\ pc = "prepared" /\ phase = "mapped" /\ pc' = "preprocessed" /\ phase' = "preprocessed"
      /\ moved' = {}
      /\ UNCHANGED <<bound, step, batch, last, stream>>
      /\ UNCHANGED <<previous, counts, out, unposted, posted, accepted>>
  BY DEF PreprocessMapped, MoveStates, device
<1>2. Mapped'
  BY <1>1 DEF Mapped
<1>3. ASSUME NEW t, NEW l, NEW begun, Behind(t, l, begun)
      PROVE  Behind(t, l, begun)'
  BY <1>1, <1>2, <1>3 DEF Behind, Stored
<1>4. CASE Settled
  <2>1. SettledMapped
    BY <1>1, <1>4 DEF Settled, SettledIdle, SettledOnHost
  <2>2. SettledMapped'
    BY <1>1, <1>2, <2>1, PlacedSame DEF SettledMapped, Stored
  <2>3. Settled'
    BY <1>1, <1>4, <2>2, PlacedSame DEF Settled
  <2>4. QED
    BY <1>1, <2>3 DEF CountsInv
<1>5. CASE Executing
  <2>1. PICK f \in Frames : \E ops, t \in Seq(Ops) : ExecutingWith(f, ops, t)
    BY <1>5 DEF Executing
  <2>2. PICK ops, t \in Seq(Ops) : ExecutingWith(f, ops, t)
    BY <2>1
  <2>3. ExecutingWith(f, ops, t)'
    BY <1>1, <1>3, <2>2, InFlightSame, PlacedSame DEF ExecutingWith
  <2>4. QED
    BY <1>1, <1>5, <2>3 DEF CountsInv, Executing
<1>6. CASE Finished
  <2>1. PICK c \in CountMaps : \E l \in Batches : FinishedWith(c, l)
    BY <1>6 DEF Finished
  <2>2. PICK l \in Batches : FinishedWith(c, l)
    BY <2>1
  <2>3. FinishedWith(c, l)'
    BY <1>1, <1>3, <2>2, PlacedSame DEF FinishedWith
  <2>4. QED
    BY <1>1, <2>3 DEF CountsInv, Finished
<1>7. QED
  BY <1>4, <1>5, <1>6 DEF CountsInv

(* Moving states from counts that are the requests' own places both.          *)
LEMMA MoveStatesPlaces ==
    ASSUME batch \in Batches, NEW m \in SUBSET ToSet(batch), NEW source \in CountMaps,
           StartsOf(source, batch, last), MoveStates(m, source),
           UNCHANGED <<batch, last, accepted>>
    PROVE  Placed(cpu, Prepared)'
<1>1. \A i \in DOMAIN batch : i \in Rows /\ source[i] = Want(last, batch[i])
  BY BatchFacts DEF StartsOf
<1>2. \A i \in DOMAIN batch : cpu'[i] = IF batch[i] \in m THEN 1 ELSE source[i]
  BY <1>1 DEF MoveStates
<1>3. moved' = m /\ bias' = source /\ batch' = batch /\ last' = last /\ accepted' = accepted
  BY DEF MoveStates
<1>4. QED
  BY <1>1, <1>2, <1>3 DEF Placed, Prepared, Want

(* A state transition brings the device's counts back once nothing is queued. *)
LEMMA KeepsPreprocessTransition ==
    ASSUME CountsInv, PreprocessTransition, TypeOK'
    PROVE  CountsInv'
<1> DEFINE source == [i \in Rows |-> IF i \in DOMAIN batch THEN counts[i] ELSE cpu[i]]
<1>1. /\ pc = "prepared" /\ phase = "mapped" /\ pc' = "preprocessed" /\ phase' = "fallback"
      /\ stream = <<>> /\ \E m \in SUBSET ToSet(batch) : MoveStates(m, source)
      /\ UNCHANGED <<bound, step, batch, last, stream>>
      /\ UNCHANGED <<previous, counts, out, unposted, posted, accepted>>
  BY DEF PreprocessTransition, device
<1>2. TypeOK /\ batch \in Batches /\ source \in CountMaps
  BY <1>1 DEF CountsInv, TypeOK, CountMaps
<1>3. Settled
  <2>1. ~Executing
    <3>1. SUFFICES ASSUME NEW f \in Frames, NEW ops \in Seq(Ops), NEW t \in Seq(Ops),
                          ExecutingWith(f, ops, t)
                   PROVE  FALSE
      BY DEF Executing
    <3>2. ops # <<>>
      BY <3>1, InFlightSeq DEF ExecutingWith
    <3>3. QED
      BY <1>1, <3>1, <3>2, HeadOfConcat DEF ExecutingWith
  <2>2. ~Finished
    BY <1>1 DEF Finished, FinishedWith, Behind, Mapped
  <2>3. QED
    BY <2>1, <2>2 DEF CountsInv
<1>4. StartsOf(counts, batch, last)
  BY <1>1, <1>3 DEF Settled, SettledIdle, SettledMapped, SettledOnHost
<1>5. StartsOf(source, batch, last)
  BY <1>2, <1>4, BatchFacts DEF StartsOf
<1> HIDE DEF source
<1>6. Placed(cpu, Prepared)'
  BY <1>1, <1>2, <1>5, MoveStatesPlaces
<1>7. SettledOnHost'
  BY <1>1, <1>6 DEF SettledOnHost
<1>8. Settled'
  BY <1>1, <1>3, <1>7, PlacedSame DEF Settled
<1>9. QED
  BY <1>1, <1>8 DEF CountsInv

(* Preprocessing on the host moves states from the host's counts.             *)
LEMMA KeepsPreprocessOnHost ==
    ASSUME CountsInv, PreprocessOnHost, TypeOK'
    PROVE  CountsInv'
<1>1. /\ pc = "prepared" /\ phase = "fallback" /\ pc' = "preprocessed" /\ phase' = "fallback"
      /\ \E m \in SUBSET ToSet(batch) : MoveStates(m, cpu)
      /\ UNCHANGED <<bound, step, batch, last, stream>>
      /\ UNCHANGED <<previous, counts, out, unposted, posted, accepted>>
  BY DEF PreprocessOnHost, device
<1>2. TypeOK /\ batch \in Batches /\ cpu \in CountMaps
  BY <1>1 DEF CountsInv, TypeOK
<1>3. Settled
  BY <1>1 DEF CountsInv, Executing, ExecutingWith, Finished, FinishedWith, Behind, Mapped
<1>4. SettledOnHost /\ StartsOf(cpu, batch, last)
  BY <1>1, <1>3 DEF Settled, SettledIdle, SettledMapped, SettledOnHost, Mapped
<1>5. Placed(cpu, Prepared)'
  BY <1>1, <1>2, <1>4, MoveStatesPlaces
<1>6. SettledOnHost'
  BY <1>1, <1>4, <1>5 DEF SettledOnHost
<1>7. Settled'
  BY <1>1, <1>3, <1>6, PlacedSame DEF Settled
<1>8. QED
  BY <1>1, <1>7 DEF CountsInv

(* What is queued last stays behind.                                          *)
LEMMA ConcatBehind ==
    ASSUME NEW S, NEW s \in Seq(S), NEW t \in Seq(S), NEW u \in Seq(S)
    PROVE  (s \o t) \o u = s \o (t \o u)
BY ConcatAssociative

(* The short sequences the operations of a frame are put together from.       *)
LEMMA JoinOneOne == ASSUME NEW a, NEW b PROVE <<a>> \o <<b>> = <<a, b>>
<1>1. <<a>> \in Seq({a, b}) /\ <<b>> \in Seq({a, b}) /\ <<a, b>> \in Seq({a, b})
  OBVIOUS
<1>2. <<a>> \o <<b>> \in Seq({a, b}) /\ Len(<<a>> \o <<b>>) = 2
  BY <1>1, ConcatProperties
<1>3. \A i \in 1..2 : (<<a>> \o <<b>>)[i] = <<a, b>>[i]
  BY <1>1, ConcatProperties
<1>4. QED
  BY <1>1, <1>2, <1>3, SeqEqual

(* One before two.                                                            *)
LEMMA JoinOneTwo == ASSUME NEW a, NEW b, NEW c PROVE <<a>> \o <<b, c>> = <<a, b, c>>
<1>1. <<a>> \in Seq({a, b, c}) /\ <<b, c>> \in Seq({a, b, c}) /\ <<a, b, c>> \in Seq({a, b, c})
  OBVIOUS
<1>2. <<a>> \o <<b, c>> \in Seq({a, b, c}) /\ Len(<<a>> \o <<b, c>>) = 3
  BY <1>1, ConcatProperties
<1>3. \A i \in 1..3 : (<<a>> \o <<b, c>>)[i] = <<a, b, c>>[i]
  BY <1>1, ConcatProperties
<1>4. QED
  BY <1>1, <1>2, <1>3, SeqEqual

(* Two before one.                                                            *)
LEMMA JoinTwoOne == ASSUME NEW a, NEW b, NEW c PROVE <<a, b>> \o <<c>> = <<a, b, c>>
<1>1. <<a, b>> \in Seq({a, b, c}) /\ <<c>> \in Seq({a, b, c}) /\ <<a, b, c>> \in Seq({a, b, c})
  OBVIOUS
<1>2. <<a, b>> \o <<c>> \in Seq({a, b, c}) /\ Len(<<a, b>> \o <<c>>) = 3
  BY <1>1, ConcatProperties
<1>3. \A i \in 1..3 : (<<a, b>> \o <<c>>)[i] = <<a, b, c>>[i]
  BY <1>1, ConcatProperties
<1>4. QED
  BY <1>1, <1>2, <1>3, SeqEqual

(* Three before one.                                                          *)
LEMMA JoinThreeOne == ASSUME NEW a, NEW b, NEW c, NEW d PROVE <<a, b, c>> \o <<d>> = <<a, b, c, d>>
<1>1. <<a, b, c>> \in Seq({a, b, c, d}) /\ <<d>> \in Seq({a, b, c, d}) /\ <<a, b, c, d>> \in Seq({a, b, c, d})
  OBVIOUS
<1>2. <<a, b, c>> \o <<d>> \in Seq({a, b, c, d}) /\ Len(<<a, b, c>> \o <<d>>) = 4
  BY <1>1, ConcatProperties
<1>3. \A i \in 1..4 : (<<a, b, c>> \o <<d>>)[i] = <<a, b, c, d>>[i]
  BY <1>1, ConcatProperties
<1>4. QED
  BY <1>1, <1>2, <1>3, SeqEqual

(* Launching: the prepared batch becomes a frame behind its mapping, or       *)
(* behind the copy of the counts the host has.                                *)
LEMMA LaunchSettled ==
    ASSUME CountsInv, Launch, TypeOK', Settled
    PROVE  Executing'
<1>1. /\ pc = "preprocessed" /\ pc' = "idle" /\ step' = step + 1 /\ last' = batch
      /\ stream' = stream \o (SecondCopy \o <<Prepared>>)
      /\ UNCHANGED <<previous, counts, out, unposted, posted, accepted>>
  BY DEF Launch, Enqueue, Prepared, device
<1>2. TypeOK /\ step \in Nat /\ posted \in Nat /\ cpu \in CountMaps /\ Prepared \in Frames
  BY <1>1, PreparedIsFrame DEF CountsInv, TypeOK
<1> PICK g \in Frames : g = Prepared
  BY <1>2
<1>3. /\ g.op = "model" /\ g.batch = batch /\ g.last = last /\ g.moved = moved /\ g.bias = bias
  BY DEF Prepared
<1>4. CountsOf(out, g.last)' /\ Behind(<<>>, g.batch, FALSE)'
  <2>1. CountsOf(out, g.last)
    BY <1>3 DEF Settled
  <2>2. Behind(<<>>, g.batch, FALSE)'
    BY <1>1, <1>2, <1>3 DEF Behind, Settled
  <2>3. QED
    BY <1>1, <2>1, <2>2, PlacedSame
<1>5. InFlight(stream', g)
  <2>1. CASE SettledMapped
    <3>1. stream' = stream \o <<g>> /\ moved = {}
      BY <1>1, <2>1 DEF SettledMapped, Mapped, SecondCopy
    <3>2. CASE stream = <<StoreOp(batch, last), AwaitOp(posted), RemapOp(batch)>>
      <4>1. stream' = <<StoreOp(batch, last), AwaitOp(posted), RemapOp(batch), g>>
        BY ONLY <3>1, <3>2, JoinThreeOne
      <4>2. QED
        BY <1>3, <3>1, <4>1 DEF InFlight
    <3>3. CASE Stored(batch, last) /\ stream = <<AwaitOp(posted), RemapOp(batch)>>
      <4>1. stream' = <<AwaitOp(posted), RemapOp(batch), g>>
        BY ONLY <3>1, <3>3, JoinTwoOne
      <4>2. QED
        BY <1>3, <3>1, <3>3, <4>1 DEF InFlight
    <3>4. CASE Stored(batch, last) /\ stream = <<RemapOp(batch)>>
      <4>1. stream' = <<RemapOp(batch), g>>
        BY ONLY <3>1, <3>4, JoinOneOne
      <4>2. QED
        BY <1>3, <3>1, <3>4, <4>1 DEF InFlight
    <3>5. CASE stream = <<>> /\ StartsOf(counts, batch, last)
      <4>1. stream' = <<g>>
        BY <3>1, <3>5
      <4>2. Placed(counts, g)
        BY <1>3, <3>1, <3>5 DEF Placed, StartsOf
      <4>3. QED
        BY <4>1, <4>2 DEF InFlight
    <3>6. QED
      BY <2>1, <3>2, <3>3, <3>4, <3>5 DEF SettledMapped
  <2>2. CASE SettledOnHost
    <3>1. stream' = stream \o <<CopyOp(cpu), g>> /\ Placed(cpu, g)
      <4>1. SecondCopy = <<CopyOp(cpu)>>
        BY <2>2 DEF SettledOnHost, SecondCopy, CopyOp
      <4>2. SecondCopy \o <<g>> = <<CopyOp(cpu), g>>
        BY ONLY <4>1, JoinOneOne
      <4>3. QED
        BY <1>1, <2>2, <4>2 DEF SettledOnHost
    <3>2. CASE stream = <<>>
      <4>1. stream' = <<CopyOp(cpu), g>>
        BY <3>1, <3>2
      <4>2. QED
        BY <1>2, <3>1, <4>1 DEF InFlight
    <3>3. CASE \E v \in CountMaps : stream = <<CopyOp(v)>>
      <4>1. PICK v \in CountMaps : stream = <<CopyOp(v)>>
        BY <3>3
      <4>2. stream' = <<CopyOp(v), CopyOp(cpu), g>>
        BY ONLY <3>1, <4>1, JoinOneTwo
      <4>3. QED
        BY <1>2, <3>1, <4>2 DEF InFlight
    <3>4. QED
      BY <2>2, <3>2, <3>3 DEF SettledOnHost
  <2>3. QED
    BY <1>1, <2>1, <2>2 DEF Settled, SettledIdle
<1>6. PICK q \in Seq(Ops) : q = stream' /\ q = q \o <<>>
  BY DEF TypeOK
<1>7. InFlight(q, g)'
  BY <1>1, <1>5, <1>6, InFlightSame
<1>8. ExecutingWith(g, q, <<>>)'
  BY <1>4, <1>6, <1>7 DEF ExecutingWith
<1>9. unposted' = <<>> /\ <<>> \in Seq(Ops)
  BY <1>1 DEF Settled
<1>10. QED
  BY <1>8, <1>9 DEF Executing

(* Launching behind a frame that is not published: the mapping is there.      *)
LEMMA LaunchBehind ==
    ASSUME TypeOK, Launch, NEW t \in Seq(Ops), NEW l, NEW begun, Behind(t, l, begun)
    PROVE  /\ stream' = stream \o <<Prepared>>
           /\ \E q \in Seq(Ops) : q = t \o <<Prepared>> /\ Behind(q, l, begun)'
<1>1. /\ pc = "preprocessed" /\ pc' = "idle" /\ step' = step + 1 /\ last' = batch
      /\ stream' = stream \o (SecondCopy \o <<Prepared>>)
      /\ UNCHANGED <<previous, posted>>
  BY DEF Launch, Enqueue, Prepared, device
<1>2. Mapped /\ step = posted + 1 /\ last = l
  BY <1>1 DEF Behind
<1>3. SecondCopy = <<>>
  BY <1>1, <1>2 DEF Mapped, SecondCopy
<1>4. Prepared \in Frames /\ Prepared \in Ops
  BY <1>1, PreparedIsFrame
<1> PICK g \in Frames : g = Prepared
  BY <1>4
<1>5. g.batch = batch /\ g.last = l /\ g.moved = {} /\ step \in Nat /\ posted \in Nat
  BY <1>2 DEF Prepared, Mapped, TypeOK
<1>6. stream' = stream \o <<g>>
  BY <1>1, <1>3
<1>7. PICK q \in Seq(Ops) : q = t \o <<g>>
  <2>1. <<g>> \in Seq(Ops)
    BY <1>4
  <2>2. t \o <<g>> \in Seq(Ops)
    BY ONLY <2>1, t \in Seq(Ops), ConcatProperties
  <2>3. QED
    BY <2>2
<1>8. pc' = "idle" /\ step' = posted' + 2
  BY <1>1, <1>2, <1>5
<1>9. CASE t = <<StoreOp(batch, l), AwaitOp(posted + 1), RemapOp(batch)>>
  <2>1. q = <<StoreOp(g.batch, l), AwaitOp(posted + 1), RemapOp(g.batch), g>>
    BY ONLY <1>5, <1>7, <1>9, JoinThreeOne
  <2>2. Behind(q, l, begun)'
    BY <1>1, <1>5, <1>8, <2>1 DEF Behind, AwaitOp, RemapOp, StoreOp, PositionsIn
  <2>3. QED
    BY <1>6, <1>7, <2>2
<1>10. CASE begun /\ Stored(batch, l) /\ t = <<AwaitOp(posted + 1), RemapOp(batch)>>
  <2>1. q = <<AwaitOp(posted + 1), RemapOp(g.batch), g>>
    BY ONLY <1>5, <1>7, <1>10, JoinTwoOne
  <2>2. Behind(q, l, begun)'
    BY <1>1, <1>5, <1>8, <1>10, <2>1 DEF Behind, AwaitOp, RemapOp, StoreOp, PositionsIn, Stored
  <2>3. QED
    BY <1>6, <1>7, <2>2
<1>11. QED
  BY <1>1, <1>9, <1>10 DEF Behind

(* Launching, whatever is published.                                          *)
LEMMA KeepsLaunch ==
    ASSUME CountsInv, Launch, TypeOK'
    PROVE  CountsInv'
<1>1. /\ pc' = "idle" /\ moved' = {}
      /\ UNCHANGED <<previous, counts, out, unposted, posted, accepted>>
  BY DEF Launch, device
<1>2. TypeOK
  BY DEF CountsInv
<1>3. CASE Settled
  BY <1>1, <1>3, LaunchSettled DEF CountsInv
<1>4. CASE Executing
  <2>1. PICK f \in Frames : \E ops, t \in Seq(Ops) : ExecutingWith(f, ops, t)
    BY <1>4 DEF Executing
  <2>2. PICK ops, t \in Seq(Ops) : ExecutingWith(f, ops, t)
    BY <2>1
  <2>3. /\ stream' = stream \o <<Prepared>>
        /\ \E q \in Seq(Ops) : q = t \o <<Prepared>> /\ Behind(q, f.batch, FALSE)'
    BY <1>2, <2>2, LaunchBehind DEF ExecutingWith
  <2>4. PICK q \in Seq(Ops) : q = t \o <<Prepared>> /\ Behind(q, f.batch, FALSE)'
    BY <2>3
  <2>5. stream' = ops \o q
    <3>1. <<Prepared>> \in Seq(Ops)
      BY <1>2, PreparedIsFrame DEF Launch
    <3>2. (ops \o t) \o <<Prepared>> = ops \o (t \o <<Prepared>>)
      BY ONLY <3>1, ops \in Seq(Ops), t \in Seq(Ops), ConcatBehind
    <3>3. QED
      BY <2>2, <2>3, <2>4, <3>2 DEF ExecutingWith
  <2>6. ExecutingWith(f, ops, q)'
    BY <1>1, <2>2, <2>4, <2>5, InFlightSame, PlacedSame DEF ExecutingWith
  <2>7. QED
    BY <1>1, <1>4, <2>6 DEF CountsInv, Executing
<1>5. CASE Finished
  <2>1. PICK c \in CountMaps : \E l \in Batches : FinishedWith(c, l)
    BY <1>5 DEF Finished
  <2>2. PICK l \in Batches : FinishedWith(c, l)
    BY <2>1
  <2>3. stream \in Seq(Ops)
    BY <1>2 DEF TypeOK
  <2>4. Behind(stream, l, TRUE)
    BY <2>2 DEF FinishedWith
  <2>5. Behind(stream, l, TRUE)'
    <3>1. PICK t \in Seq(Ops) : t = stream
      BY <2>3
    <3>2. stream' = t \o <<Prepared>>
          /\ \E q \in Seq(Ops) : q = t \o <<Prepared>> /\ Behind(q, l, TRUE)'
      BY <1>2, <2>4, <3>1, LaunchBehind
    <3>3. PICK q \in Seq(Ops) : q = t \o <<Prepared>> /\ Behind(q, l, TRUE)'
      BY <3>2
    <3>4. q = stream'
      BY <3>2, <3>3
    <3>5. QED
      BY <3>3, <3>4
  <2>6. FinishedWith(c, l)'
    BY <1>1, <2>2, <2>5, PlacedSame DEF FinishedWith
  <2>7. QED
    BY <1>1, <2>6 DEF CountsInv, Finished
<1>6. QED
  BY <1>3, <1>4, <1>5 DEF CountsInv

--------------------------------------------------------------------------------
(* An operation of the stream runs: it is the first one of the frame in       *)
(* flight, of the mapping that has begun, or of the batch on the host.        *)
DeviceStep == StorePositions \/ AwaitCounts \/ RemapCounts \/ CopyCounts

(* An operation of the stream leaves the host and the published counts.       *)
LEMMA DeviceStepFacts ==
    ASSUME DeviceStep
    PROVE  /\ stream # <<>> /\ stream' = Tail(stream)
           /\ UNCHANGED <<phase, pc, bound, step, batch, last, moved, bias, cpu>>
           /\ UNCHANGED <<out, unposted, posted, accepted>>
BY DEF DeviceStep, StorePositions, AwaitCounts, RemapCounts, CopyCounts, Runs, device, host

(* What the head of the stream does to the device.                            *)
LEMMA DeviceStepEffects ==
    ASSUME DeviceStep
    PROVE  /\ Head(stream).op \in {"positions", "await", "remap", "copy"}
           /\ Head(stream).op = "positions" =>
                previous' = Head(stream).value /\ counts' = counts
           /\ Head(stream).op = "await" =>
                Head(stream).step <= posted /\ previous' = previous /\ counts' = counts
           /\ Head(stream).op = "remap" =>
                counts' = Remap(out, previous, Head(stream).rows) /\ previous' = previous
           /\ Head(stream).op = "copy" =>
                counts' = Head(stream).value /\ previous' = previous
<1>1. CASE StorePositions
  BY <1>1 DEF StorePositions, Runs
<1>2. CASE AwaitCounts
  BY <1>2 DEF AwaitCounts, Runs, device
<1>3. CASE RemapCounts
  BY <1>3 DEF RemapCounts, Runs
<1>4. CASE CopyCounts
  BY <1>4 DEF CopyCounts, Runs
<1>5. QED
  BY <1>1, <1>2, <1>3, <1>4 DEF DeviceStep

(* With every frame published, the mapping or the copy proceeds.              *)
LEMMA DeviceSettled ==
    ASSUME CountsInv, DeviceStep, Settled
    PROVE  Settled'
<1>1. TypeOK /\ step \in Nat /\ posted \in Nat /\ out \in CountMaps
      /\ last \in Batches \cup {<<>>}
  BY DEF CountsInv, TypeOK
<1>2. CASE SettledMapped
  <2>1. batch \in Batches
    BY <1>1, <1>2 DEF SettledMapped, Mapped, TypeOK
  <2>2. CASE stream = <<StoreOp(batch, last), AwaitOp(posted), RemapOp(batch)>>
    <3>1. Head(stream) = StoreOp(batch, last) /\ stream' = <<AwaitOp(posted), RemapOp(batch)>>
      BY <2>2, DeviceStepFacts
    <3>2. Stored(batch, last)'
      BY <3>1, DeviceStepFacts, DeviceStepEffects DEF StoreOp, Stored, PositionsIn
    <3>3. QED
      BY <1>2, <3>1, <3>2, DeviceStepFacts, PlacedSame
      DEF Settled, SettledMapped, Mapped, AwaitOp, RemapOp
  <2>3. CASE Stored(batch, last) /\ stream = <<AwaitOp(posted), RemapOp(batch)>>
    <3>1. Head(stream) = AwaitOp(posted) /\ stream' = <<RemapOp(batch)>>
      BY <2>3, DeviceStepFacts
    <3>2. Stored(batch, last)'
      BY <2>3, <3>1, DeviceStepFacts, DeviceStepEffects DEF AwaitOp, Stored, PositionsIn
    <3>3. QED
      BY <1>2, <3>1, <3>2, DeviceStepFacts, PlacedSame
      DEF Settled, SettledMapped, Mapped, RemapOp
  <2>4. CASE Stored(batch, last) /\ stream = <<RemapOp(batch)>>
    <3>1. Head(stream) = RemapOp(batch) /\ stream' = <<>>
      BY <2>4, DeviceStepFacts
    <3>2. counts' = Remap(out, PositionsIn(batch, last), Len(batch))
      BY <2>4, <3>1, DeviceStepEffects DEF RemapOp, Stored
    <3>3. StartsOf(counts', batch, last)
      BY <1>1, <2>1, <3>2, RemapStarts DEF Settled
    <3>4. StartsOf(counts, batch, last)'
      BY <3>3, DeviceStepFacts DEF StartsOf, Want
    <3>5. QED
      BY <1>2, <3>1, <3>4, DeviceStepFacts, PlacedSame DEF Settled, SettledMapped, Mapped
  <2>5. QED
    BY <1>2, <2>2, <2>3, <2>4, DeviceStepFacts DEF SettledMapped
<1>3. CASE SettledOnHost
  <2>1. PICK v \in CountMaps : stream = <<CopyOp(v)>>
    BY <1>3, DeviceStepFacts DEF SettledOnHost
  <2>2. stream' = <<>>
    BY <2>1, DeviceStepFacts
  <2>3. Prepared' = Prepared
    BY DeviceStepFacts DEF Prepared
  <2>4. SettledOnHost'
    BY <1>3, <2>2, <2>3, DeviceStepFacts, PlacedSame DEF SettledOnHost
  <2>5. QED
    BY <2>4, DeviceStepFacts, PlacedSame DEF Settled
<1>4. QED
  BY <1>2, <1>3, DeviceStepFacts DEF Settled, SettledIdle

(* The frame in flight goes through its own operations one by one.            *)
LEMMA DeviceInFlight ==
    ASSUME TypeOK, DeviceStep, NEW f \in Frames, NEW ops \in Seq(Ops), NEW t \in Seq(Ops),
           ExecutingWith(f, ops, t)
    PROVE  InFlight(Tail(ops), f)'
<1>1. Head(stream) = Head(ops) /\ InFlight(ops, f) /\ CountsOf(out, f.last)
  BY InFlightSeq, HeadOfConcat DEF ExecutingWith
<1>2. f.op = "model" /\ f.batch \in Batches /\ f.last \in Batches \cup {<<>>} /\ out \in CountMaps
  BY DEF Frames, TypeOK
<1>3. CASE /\ f.moved = {}
           /\ ops = <<StoreOp(f.batch, f.last), AwaitOp(posted), RemapOp(f.batch), f>>
  <2>1. Head(ops) = StoreOp(f.batch, f.last) /\ Tail(ops) = <<AwaitOp(posted), RemapOp(f.batch), f>>
    BY <1>3
  <2>2. Stored(f.batch, f.last)'
    BY <1>1, <2>1, DeviceStepEffects DEF StoreOp, Stored, PositionsIn
  <2>3. QED
    BY <1>3, <2>1, <2>2, DeviceStepFacts DEF InFlight, AwaitOp, RemapOp
<1>4. CASE /\ f.moved = {} /\ Stored(f.batch, f.last)
           /\ ops = <<AwaitOp(posted), RemapOp(f.batch), f>>
  <2>1. Head(ops) = AwaitOp(posted) /\ Tail(ops) = <<RemapOp(f.batch), f>>
    BY <1>4
  <2>2. Stored(f.batch, f.last)'
    BY <1>1, <1>4, <2>1, DeviceStepEffects DEF AwaitOp, Stored, PositionsIn
  <2>3. QED
    BY <1>4, <2>1, <2>2 DEF InFlight, RemapOp
<1>5. CASE /\ f.moved = {} /\ Stored(f.batch, f.last)
           /\ ops = <<RemapOp(f.batch), f>>
  <2>1. Head(ops) = RemapOp(f.batch) /\ Tail(ops) = <<f>>
    BY <1>5
  <2>2. counts' = Remap(out, PositionsIn(f.batch, f.last), Len(f.batch))
    BY <1>1, <1>5, <2>1, DeviceStepEffects DEF RemapOp, Stored
  <2>3. StartsOf(counts', f.batch, f.last)
    BY <1>1, <1>2, <2>2, RemapStarts
  <2>4. Placed(counts, f)'
    BY <1>5, <2>3, DeviceStepFacts DEF StartsOf, Placed, Want
  <2>5. QED
    BY <2>1, <2>4 DEF InFlight
<1>6. CASE \E u, v \in CountMaps : ops = <<CopyOp(u), CopyOp(v), f>> /\ Placed(v, f)
  <2>1. PICK u, v \in CountMaps : ops = <<CopyOp(u), CopyOp(v), f>> /\ Placed(v, f)
    BY <1>6
  <2>2. Tail(ops) = <<CopyOp(v), f>> /\ Placed(v, f)'
    BY <2>1, DeviceStepFacts, PlacedSame
  <2>3. QED
    BY <2>2 DEF InFlight
<1>7. CASE \E v \in CountMaps : ops = <<CopyOp(v), f>> /\ Placed(v, f)
  <2>1. PICK v \in CountMaps : ops = <<CopyOp(v), f>> /\ Placed(v, f)
    BY <1>7
  <2>2. Tail(ops) = <<f>> /\ Head(ops) = CopyOp(v)
    BY <2>1
  <2>3. counts' = v
    BY <1>1, <2>2, DeviceStepEffects DEF CopyOp
  <2>4. Placed(counts, f)'
    BY <2>1, <2>3, DeviceStepFacts DEF Placed, Want
  <2>5. QED
    BY <2>2, <2>4 DEF InFlight
<1>8. CASE ops = <<f>>
  <2>1. Head(ops) = f
    BY <1>8
  <2>2. QED
    BY <1>1, <1>2, <2>1, DeviceStepEffects
<1>9. QED
  BY <1>1, <1>3, <1>4, <1>5, <1>6, <1>7, <1>8 DEF InFlight

(* With a frame in flight, its own operations proceed.                        *)
LEMMA DeviceExecuting ==
    ASSUME CountsInv, DeviceStep, Executing
    PROVE  Executing'
<1>1. TypeOK
  BY DEF CountsInv
<1>2. PICK f \in Frames : \E ops, t \in Seq(Ops) : ExecutingWith(f, ops, t)
  BY DEF Executing
<1>3. PICK ops, t \in Seq(Ops) : ExecutingWith(f, ops, t)
  BY <1>2
<1>4. ops # <<>>
  BY <1>3, InFlightSeq DEF ExecutingWith
<1>5. InFlight(Tail(ops), f)'
  BY <1>1, <1>3, DeviceInFlight
<1>6. PICK q \in Seq(Ops) : q = Tail(ops)
  BY <1>4, HeadTailProperties
<1>7. stream' = q \o t
  BY <1>3, <1>4, <1>6, HeadOfConcat, DeviceStepFacts DEF ExecutingWith
<1>8. Behind(t, f.batch, FALSE)'
  <2>1. Behind(t, f.batch, FALSE)
    BY <1>3 DEF ExecutingWith
  <2>2. UNCHANGED <<step, pc, phase, last, batch, moved, posted>>
    BY DeviceStepFacts
  <2>3. QED
    BY <2>1, <2>2 DEF Behind, Mapped
<1>9. ExecutingWith(f, q, t)'
  BY <1>3, <1>5, <1>6, <1>7, <1>8, DeviceStepFacts, PlacedSame DEF ExecutingWith
<1>10. QED
  BY <1>9, DeviceStepFacts DEF Executing

(* Behind counts that are not published, only the positions can be sent: the  *)
(* mapping stops at its await.                                                *)
LEMMA DeviceFinished ==
    ASSUME CountsInv, DeviceStep, Finished
    PROVE  Finished'
<1>1. TypeOK /\ step \in Nat /\ posted \in Nat
  BY DEF CountsInv, TypeOK
<1>2. PICK c \in CountMaps : \E l \in Batches : FinishedWith(c, l)
  BY DEF Finished
<1>3. PICK l \in Batches : FinishedWith(c, l)
  BY <1>2
<1>4. Behind(stream, l, TRUE)
  BY <1>3 DEF FinishedWith
<1>5. /\ stream # <<>> /\ stream' = Tail(stream)
      /\ UNCHANGED <<step, pc, phase, last, batch, moved, posted>>
  BY DeviceStepFacts
<1>6. Head(stream) # AwaitOp(posted + 1)
  BY <1>1, DeviceStepEffects DEF AwaitOp
<1>7. Behind(stream, l, TRUE)'
  <2>1. CASE Mapped /\ step = posted + 1 /\ last = l
             /\ stream = <<StoreOp(batch, l), AwaitOp(posted + 1), RemapOp(batch)>>
    <3>1. Head(stream) = StoreOp(batch, l) /\ stream' = <<AwaitOp(posted + 1), RemapOp(batch)>>
      BY <1>5, <2>1
    <3>2. Stored(batch, l)'
      BY <1>5, <3>1, DeviceStepEffects DEF StoreOp, Stored, PositionsIn
    <3>3. QED
      BY <1>5, <2>1, <3>1, <3>2 DEF Behind, Mapped, AwaitOp, RemapOp
  <2>2. CASE stream = <<AwaitOp(posted + 1), RemapOp(batch)>>
    BY <1>6, <2>2
  <2>3. ASSUME NEW g \in Frames, g.batch = last, g.last = l, g.moved = {},
               pc = "idle", step = posted + 2,
               stream = <<StoreOp(g.batch, l), AwaitOp(posted + 1), RemapOp(g.batch), g>>
        PROVE  Behind(stream, l, TRUE)'
    <3>1. /\ Head(stream) = StoreOp(g.batch, l)
          /\ stream' = <<AwaitOp(posted + 1), RemapOp(g.batch), g>>
      BY <1>5, <2>3
    <3>2. previous' = PositionsIn(g.batch, l)
      BY <3>1, DeviceStepEffects DEF StoreOp
    <3>3. Stored(g.batch, l)'
      BY <3>2 DEF Stored, PositionsIn
    <3>4. QED
      BY <1>5, <2>3, <3>1, <3>3 DEF Behind, Mapped, AwaitOp, RemapOp
  <2>4. ASSUME NEW g \in Frames, stream = <<AwaitOp(posted + 1), RemapOp(g.batch), g>>
        PROVE  FALSE
    BY <1>6, <2>4
  <2>5. QED
    BY <1>4, <1>5, <2>1, <2>2, <2>3, <2>4 DEF Behind
<1>8. FinishedWith(c, l)'
  BY <1>3, <1>7, DeviceStepFacts, PlacedSame DEF FinishedWith
<1>9. QED
  BY <1>8 DEF Finished

(* An operation of the stream keeps the invariant.                            *)
LEMMA KeepsDeviceStep ==
    ASSUME CountsInv, DeviceStep, TypeOK'
    PROVE  CountsInv'
<1>1. pc' = pc /\ moved' = moved
  BY DeviceStepFacts
<1>2. QED
  BY <1>1, DeviceSettled, DeviceExecuting, DeviceFinished DEF CountsInv

(* A frame runs: it is the one in flight, and what it accepts awaits          *)
(* publication.                                                               *)
LEMMA KeepsRunModel ==
    ASSUME CountsInv, RunModel, TypeOK'
    PROVE  CountsInv'
<1>1. /\ stream # <<>> /\ stream' = Tail(stream) /\ Head(stream) \in Frames
      /\ UNCHANGED <<phase, pc, bound, step, batch, last, moved, bias, cpu>>
      /\ UNCHANGED <<previous, counts, out, posted>>
  BY RunModelFacts DEF CountsInv, host
<1>2. PICK c \in CountMaps :
        /\ unposted' = Append(unposted, c)
        /\ \A i \in DOMAIN Head(stream).batch : c[i] = accepted'[Head(stream).batch[i]]
  BY RunModelFacts DEF CountsInv
<1>3. TypeOK /\ Head(stream).op = "model"
  BY <1>1 DEF CountsInv, Frames
<1>4. ~Settled
  BY <1>1, <1>3 DEF Settled, SettledIdle, SettledMapped, SettledOnHost,
                    StoreOp, AwaitOp, RemapOp, CopyOp
<1>5. ~Finished
  BY <1>1, <1>3 DEF Finished, FinishedWith, Behind, StoreOp, AwaitOp
<1>6. Executing
  BY <1>4, <1>5 DEF CountsInv
<1>7. PICK f \in Frames : \E ops, t \in Seq(Ops) : ExecutingWith(f, ops, t)
  BY <1>6 DEF Executing
<1>8. PICK ops, t \in Seq(Ops) : ExecutingWith(f, ops, t)
  BY <1>7
<1>9. ops = <<f>> /\ Head(stream) = f /\ stream' = t
  <2>1. InFlight(ops, f) /\ stream = ops \o t
    BY <1>8 DEF ExecutingWith
  <2>2. ops # <<>> /\ Head(stream) = Head(ops) /\ stream' = Tail(ops) \o t
    BY <1>1, <2>1, InFlightSeq, HeadOfConcat
  <2>3. ops = <<f>>
    BY <1>3, <2>1, <2>2, InFlightSeq
  <2>4. Tail(ops) = <<>>
    BY <2>3
  <2>5. QED
    BY <2>2, <2>3, <2>4, NothingOfConcat
<1>10. unposted' = <<c>>
  BY <1>2, <1>6 DEF Executing
<1>11. CountsOf(c, f.batch)'
  BY <1>2, <1>9 DEF CountsOf
<1>12. Behind(stream, f.batch, TRUE)'
  <2>1. Behind(t, f.batch, FALSE)
    BY <1>8 DEF ExecutingWith
  <2>2. UNCHANGED <<step, pc, phase, last, batch, moved, posted>>
    BY <1>1
  <2>3. Behind(t, f.batch, TRUE)'
    BY <2>1, <2>2 DEF Behind, Mapped
  <2>4. QED
    BY <1>9, <2>3
<1>13. FinishedWith(c, f.batch)'
  BY <1>10, <1>11, <1>12 DEF FinishedWith
<1>14. Finished'
  BY <1>13 DEF Finished, Frames
<1>15. QED
  BY <1>1, <1>14 DEF CountsInv

(* Publication: the device and the host have the counts of the frame, and the *)
(* next one may pass its await.                                               *)
LEMMA KeepsPublish ==
    ASSUME CountsInv, Publish, TypeOK'
    PROVE  CountsInv'
<1>1. /\ unposted # <<>> /\ out' = Head(unposted) /\ cpu' = Head(unposted)
      /\ unposted' = Tail(unposted) /\ posted' = posted + 1
      /\ UNCHANGED <<phase, pc, bound, step, batch, last, moved, bias>>
      /\ UNCHANGED <<stream, previous, counts, accepted>>
  BY DEF Publish, host
<1>2. TypeOK /\ step \in Nat /\ posted \in Nat /\ stream \in Seq(Ops)
  BY DEF CountsInv, TypeOK
<1>3. Finished
  BY <1>1 DEF CountsInv, Settled, Executing
<1>4. PICK c \in CountMaps : \E l \in Batches : FinishedWith(c, l)
  BY <1>3 DEF Finished
<1>5. PICK l \in Batches : FinishedWith(c, l)
  BY <1>4
<1>6. unposted' = <<>> /\ out' = c /\ cpu' = c /\ CountsOf(c, l) /\ Behind(stream, l, TRUE)
  <2>1. unposted = <<c>> /\ CountsOf(c, l) /\ Behind(stream, l, TRUE)
    BY <1>5 DEF FinishedWith
  <2>2. Head(unposted) = c /\ Tail(unposted) = <<>>
    BY <2>1
  <2>3. QED
    BY <1>1, <2>1, <2>2
<1>7. CountsOf(out, l)' /\ CountsOf(cpu, l)'
  BY <1>1, <1>6 DEF CountsOf
<1>8. CASE pc = "idle" /\ step = posted + 1 /\ last = l /\ stream = <<>>
  <2>1. SettledIdle' /\ CountsOf(out, last)' /\ step' = posted'
    BY <1>1, <1>6, <1>8 DEF SettledIdle, CountsOf
  <2>2. Settled'
    BY <1>6, <2>1 DEF Settled
  <2>3. QED
    BY <1>1, <2>2 DEF CountsInv
<1>9. CASE /\ Mapped /\ step = posted + 1 /\ last = l
           /\ \/ stream = <<StoreOp(batch, l), AwaitOp(posted + 1), RemapOp(batch)>>
              \/ Stored(batch, l) /\ stream = <<AwaitOp(posted + 1), RemapOp(batch)>>
  <2>1. SettledMapped'
    BY <1>1, <1>9 DEF SettledMapped, Mapped, Stored, StoreOp, AwaitOp, RemapOp, PositionsIn
  <2>2. CountsOf(out, last)' /\ step' = posted'
    BY <1>1, <1>6, <1>9 DEF CountsOf
  <2>3. Settled'
    BY <1>6, <2>1, <2>2 DEF Settled
  <2>4. QED
    BY <1>1, <2>3 DEF CountsInv
<1>10. ASSUME pc = "idle", step = posted + 2, NEW g \in Frames,
              g.batch = last, g.last = l, g.moved = {},
              \/ stream = <<StoreOp(g.batch, l), AwaitOp(posted + 1), RemapOp(g.batch), g>>
              \/ /\ Stored(g.batch, l)
                 /\ stream = <<AwaitOp(posted + 1), RemapOp(g.batch), g>>
       PROVE  CountsInv'
  <2>1. PICK q \in Seq(Ops) : q = stream /\ q \o <<>> = q
    BY <1>2
  <2>2. InFlight(q, g)'
    BY <1>1, <1>10, <2>1 DEF InFlight, Stored, StoreOp, AwaitOp, RemapOp, PositionsIn
  <2>3. Behind(<<>>, g.batch, FALSE)'
    BY <1>1, <1>2, <1>10 DEF Behind
  <2>4. CountsOf(out, g.last)' /\ stream' = q \o <<>> /\ <<>> \in Seq(Ops)
    BY <1>1, <1>7, <1>10, <2>1
  <2>5. ExecutingWith(g, q, <<>>)'
    BY <2>2, <2>3, <2>4 DEF ExecutingWith
  <2>6. Executing'
    BY <1>6, <2>4, <2>5 DEF Executing
  <2>7. QED
    BY <1>1, <2>6 DEF CountsInv
<1>11. QED
  BY <1>6, <1>8, <1>9, <1>10 DEF Behind

(* So does a stuttering step.                                                 *)
LEMMA KeepsUnchanged ==
    ASSUME CountsInv, UNCHANGED vars
    PROVE  CountsInv'
<1>1. /\ UNCHANGED <<phase, pc, bound, step, batch, last, moved, bias, cpu, stream>>
      /\ UNCHANGED <<previous, counts, out, unposted, posted, accepted>>
  BY DEF vars, host, device
<1>2. TypeOK'
  BY TypeNext DEF CountsInv
<1>3. Settled => Settled'
  BY <1>1, PlacedSame DEF Settled, SettledIdle, SettledMapped, SettledOnHost, Mapped, Prepared,
       Stored, StoreOp, AwaitOp, RemapOp, PositionsIn
<1>4. Executing => Executing'
  <2>1. ASSUME NEW f \in Frames, NEW ops \in Seq(Ops), NEW t \in Seq(Ops), ExecutingWith(f, ops, t)
        PROVE  ExecutingWith(f, ops, t)'
    <3>1. Behind(t, f.batch, FALSE)'
      BY <1>1, <2>1, BehindSame DEF ExecutingWith, host
    <3>2. QED
      BY <1>1, <2>1, <3>1, InFlightSame, PlacedSame DEF ExecutingWith
  <2>2. QED
    BY <1>1, <2>1 DEF Executing
<1>5. Finished => Finished'
  <2>1. ASSUME NEW c \in CountMaps, NEW l \in Batches, FinishedWith(c, l)
        PROVE  FinishedWith(c, l)'
    <3>1. PICK t \in Seq(Ops) : t = stream
      BY DEF CountsInv, TypeOK
    <3>2. Behind(t, l, TRUE)'
      BY <1>1, <2>1, <3>1, BehindSame DEF FinishedWith, host
    <3>3. QED
      BY <1>1, <2>1, <3>1, <3>2, PlacedSame DEF FinishedWith
  <2>2. QED
    BY <2>1 DEF Finished
<1>6. QED
  BY <1>1, <1>2, <1>3, <1>4, <1>5 DEF CountsInv

(* Every step keeps the invariant.                                            *)
LEMMA CountsNext == CountsInv /\ [Next]_vars => CountsInv'
<1> SUFFICES ASSUME CountsInv, [Next]_vars PROVE CountsInv'
  OBVIOUS
<1>1. TypeOK'
  BY TypeNext DEF CountsInv
<1>2. ASSUME NEW b \in Batches, PrepareOnDevice(b) \/ PrepareOnHost(b) PROVE CountsInv'
  BY <1>1, <1>2, KeepsPrepareOnDevice, KeepsPrepareOnHost
<1>3. CASE PreprocessMapped
  BY <1>1, <1>3, KeepsPreprocessMapped
<1>4. CASE PreprocessTransition
  BY <1>1, <1>4, KeepsPreprocessTransition
<1>5. CASE PreprocessOnHost
  BY <1>1, <1>5, KeepsPreprocessOnHost
<1>6. CASE Launch
  BY <1>1, <1>6, KeepsLaunch
<1>7. CASE StorePositions \/ AwaitCounts \/ RemapCounts \/ CopyCounts
  BY <1>1, <1>7, KeepsDeviceStep DEF DeviceStep
<1>8. CASE RunModel
  BY <1>1, <1>8, KeepsRunModel
<1>9. CASE Publish
  BY <1>1, <1>9, KeepsPublish
<1>10. CASE UNCHANGED vars
  BY <1>10, KeepsUnchanged
<1>11. QED
  BY <1>2, <1>3, <1>4, <1>5, <1>6, <1>7, <1>8, <1>9, <1>10 DEF Next

--------------------------------------------------------------------------------
(* A frame about to run is the one in flight, with its counts in place.       *)
LEMMA HeadIsPlaced ==
    ASSUME CountsInv, stream # <<>>, Head(stream).op = "model"
    PROVE  Placed(counts, Head(stream))
<1>1. TypeOK
  BY DEF CountsInv
<1>2. ~Settled
  BY DEF Settled, SettledIdle, SettledMapped, SettledOnHost, StoreOp, AwaitOp, RemapOp, CopyOp
<1>3. ~Finished
  BY DEF Finished, FinishedWith, Behind, StoreOp, AwaitOp
<1>4. PICK f \in Frames : \E ops, t \in Seq(Ops) : ExecutingWith(f, ops, t)
  BY <1>2, <1>3 DEF CountsInv, Executing
<1>5. PICK ops, t \in Seq(Ops) : ExecutingWith(f, ops, t)
  BY <1>4
<1>6. InFlight(ops, f) /\ ops # <<>> /\ Head(stream) = Head(ops)
  BY <1>5, InFlightSeq, HeadOfConcat DEF ExecutingWith
<1>7. ops = <<f>> /\ Head(stream) = f
  BY <1>6, InFlightSeq
<1>8. f.op = "model"
  BY DEF Frames
<1>9. Placed(counts, f)
  BY <1>6, <1>7, <1>8 DEF InFlight, StoreOp, AwaitOp, RemapOp, CopyOp
<1>10. QED
  BY <1>7, <1>9

(* The frame about to run has the counts of its own requests.                 *)
LEMMA InvImpliesCounts == CountsInv => CountsOfOwnRequest
BY HeadIsPlaced DEF CountsOfOwnRequest, Placed, Due, Want

(* And its states are moved from where those counts left them.                *)
LEMMA InvImpliesMoves == CountsInv => MovesFromOwnState
BY HeadIsPlaced DEF MovesFromOwnState, Placed, Due, Want

(* However requests join, leave and change rows between frames, and whether   *)
(* the counts are mapped on the device or copied by the host                  *)
(* (_patch_async_mtp_device_counts), every row of a frame starts from the     *)
(* count its own request's last frame accepted.                               *)
THEOREM CountsAreOwn == Spec => []CountsOfOwnRequest
<1>1. Init /\ [][Next]_vars => []CountsInv
  BY CountsInit, CountsNext, PTL
<1>2. QED
  BY <1>1, InvImpliesCounts, PTL DEF Spec

(* A recurrent state that changes blocks is copied from where its own         *)
(* request's last accepted token left it.                                     *)
THEOREM MovesAreOwn == Spec => []MovesFromOwnState
<1>1. Init /\ [][Next]_vars => []CountsInv
  BY CountsInit, CountsNext, PTL
<1>2. QED
  BY <1>1, InvImpliesMoves, PTL DEF Spec
================================================================================
