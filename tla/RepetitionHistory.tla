---------------------------- MODULE RepetitionHistory --------------------------
(***************************************************************************)
(* The histories the repetition-aware verifiers keep between frames, brought *)
(* up to date from the batch's sampling metadata by update().  Between two   *)
(* updates the host may have run frames that took another path, so that      *)
(* requests left, came back, grew or lost tokens unnoticed.                  *)
(***************************************************************************)
EXTENDS Integers, Sequences, SequencesExt, FiniteSets

CONSTANTS
  Requests, Tokens, Prompt,
  MaxBatch,      \* rows of a batch, and of a history: max_num_reqs
  NoToken,       \* the last output token of a request with no output yet
  HistoryWidth,  \* tokens a row of the native history can hold
  CacheLimit,    \* requests remembered before those outside the batch go
  NoRequest      \* a row that belongs to nobody
-----------------------------------------------------------------------------
(***************************************************************************)
(* _PackedRepetitionState: a seen mask on the device, one slot per request  *)
(* tracked.  The stack of free slots is a set: which free slot a request    *)
(* takes makes no difference.  The Python set "seen" of a request and its   *)
(* row of the device mask are one value: a token enters both together.      *)
(***************************************************************************)

Slots == 1 .. MaxBatch
NoSlot == 0

PackedType ==
  [slot : [Requests -> Slots \cup {NoSlot}],
   len  : [Requests -> Nat],
   last : [Requests -> Tokens \cup {NoToken}],
   mask : [Slots -> SUBSET Tokens],
   free : SUBSET Slots]

Unused ==
  [slot |-> [r \in Requests |-> NoSlot],
   len  |-> [r \in Requests |-> 0],
   last |-> [r \in Requests |-> NoToken],
   mask |-> [s \in Slots |-> {}],
   free |-> Slots]

Tracked(p) == {r \in Requests : p.slot[r] # NoSlot}
-----------------------------------------------------------------------------
\* Slots of requests outside the batch are freed before any is handed out.
\* Mutant: the slots of the requests that stay are freed too.
ReleasedAll(p, batch) == {p.slot[r] : r \in Tracked(p)}

Released(p, batch) == {p.slot[r] : r \in Tracked(p) \ batch}
Available(p, batch) == p.free \cup Released(p, batch)

Arrivals(p, batch) == batch \ Tracked(p)

\* The ways to give every arrival a free slot of its own; update() returns
\* nothing when there is none.
Placements(p, batch) ==
  {f \in [Arrivals(p, batch) -> Available(p, batch)] :
     \A r, q \in Arrivals(p, batch) : f[r] = f[q] => r = q}

HasRoom(p, batch) == Placements(p, batch) # {}

\* Mutant: an output that lost its end is not noticed.
RebuiltOnTail(p, r, out) ==
  \/ p.slot[r] = NoSlot
  \/ p.len[r] \in 1 .. Len(out) /\ out[p.len[r]] # p.last[r]

\* The row is rebuilt for a request that is new here, or whose output is
\* not the one the row was built from, as far as its length and its last
\* token can tell.
Rebuilt(p, r, out) ==
  \/ p.slot[r] = NoSlot
  \/ Len(out) < p.len[r]
  \/ p.len[r] > 0 /\ out[p.len[r]] # p.last[r]

\* What the request's row holds after the update.
RowMask(p, r, out) ==
  IF Rebuilt(p, r, out)
    THEN Range(Prompt[r]) \cup Range(out)
    ELSE p.mask[p.slot[r]] \cup Range(SubSeq(out, p.len[r] + 1, Len(out)))

LastToken(out) == IF out = <<>> THEN NoToken ELSE Last(out)

\* update(): the state after it.
Updated(p, batch, output) ==
  LET f      == CHOOSE f \in Placements(p, batch) : TRUE
      slotOf == [r \in Requests |->
                   IF r \notin batch THEN NoSlot
                   ELSE IF r \in Arrivals(p, batch) THEN f[r] ELSE p.slot[r]]
  IN [slot |-> slotOf,
      len  |-> [r \in Requests |-> IF r \in batch THEN Len(output[r]) ELSE 0],
      last |-> [r \in Requests |-> IF r \in batch THEN LastToken(output[r]) ELSE NoToken],
      mask |-> [s \in Slots |->
                  IF \E r \in batch : slotOf[r] = s
                    THEN LET r == CHOOSE r \in batch : slotOf[r] = s
                         IN RowMask(p, r, output[r])
                    ELSE p.mask[s]],
      free |-> Available(p, batch) \ {f[r] : r \in Arrivals(p, batch)}]

\* The history the kernels read for a request of the batch.
SeenBy(p, r) == p.mask[p.slot[r]]
-----------------------------------------------------------------------------
(* Every slot is free or owned by one request. *)
SlotsOwnedIn(p) ==
  /\ \A r, q \in Tracked(p) : p.slot[r] = p.slot[q] => r = q
  /\ p.free = Slots \ {p.slot[r] : r \in Tracked(p)}
-----------------------------------------------------------------------------
(***************************************************************************)
(* _SparseRepetitionState: the history the native argmax path keeps.  Every *)
(* request ever verified has its unique tokens on the host; every row of    *)
(* the batch has a copy of them, rewritten as a whole only when the row     *)
(* changes hands or its request is rebuilt, and extended by the appended    *)
(* tokens otherwise.  update() works row by row and gives up at the first   *)
(* request whose history is wider than a row: the rows behind it keep what  *)
(* they hold, and the frame takes another path.                             *)
(***************************************************************************)

NativeType ==
  [known   : SUBSET Requests,
   tokens  : [Requests -> SUBSET Tokens],
   output  : [Requests -> Seq(Tokens)],
   owner   : [1 .. MaxBatch -> Requests \cup {NoRequest}],
   history : [1 .. MaxBatch -> SUBSET Tokens]]

NativeEmpty ==
  [known   |-> {},
   tokens  |-> [r \in Requests |-> {}],
   output  |-> [r \in Requests |-> <<>>],
   owner   |-> [i \in 1 .. MaxBatch |-> NoRequest],
   history |-> [i \in 1 .. MaxBatch |-> {}]]

\* The request's host side is rebuilt unless its output only grew.
NativeRebuilt(n, r, out) == r \notin n.known \/ ~IsPrefix(n.output[r], out)

NativeTokens(n, r, out) ==
  IF NativeRebuilt(n, r, out)
    THEN Range(Prompt[r]) \cup Range(out)
    ELSE n.tokens[r] \cup Range(SubSeq(out, Len(n.output[r]) + 1, Len(out)))

\* The first row whose request does not fit, Len(rows) + 1 when all fit.
GivesUpAt(n, rows, output) ==
  LET tooWide == {i \in DOMAIN rows :
                    Cardinality(NativeTokens(n, rows[i], output[rows[i]])) > HistoryWidth}
  IN IF tooWide = {} THEN Len(rows) + 1
     ELSE CHOOSE i \in tooWide : \A j \in tooWide : i <= j

NativeFits(n, rows, output) == GivesUpAt(n, rows, output) > Len(rows)

\* The row's copy: rewritten, or extended by the tokens appended just now.
RowHistory(n, i, r, out) ==
  LET new == NativeTokens(n, r, out)
  IN IF NativeRebuilt(n, r, out) \/ n.owner[i] # r
       THEN new
       ELSE n.history[i] \cup (new \ n.tokens[r])

\* update(): the state after it, whether it succeeded or gave up.
NativeUpdated(n, rows, output) ==
  LET stop    == GivesUpAt(n, rows, output)
      done    == stop > Len(rows)
      reached == {rows[i] : i \in 1 .. IF done THEN Len(rows) ELSE stop}
      grown   == n.known \cup reached
      known   == IF done /\ Cardinality(grown) > CacheLimit THEN reached ELSE grown
  IN [known   |-> known,
      tokens  |-> [r \in Requests |->
                     IF r \in reached THEN NativeTokens(n, r, output[r])
                     ELSE IF r \in known THEN n.tokens[r] ELSE {}],
      output  |-> [r \in Requests |->
                     IF r \in reached THEN output[r]
                     ELSE IF r \in known THEN n.output[r] ELSE <<>>],
      owner   |-> [i \in 1 .. MaxBatch |->
                     IF i < stop /\ i <= Len(rows) THEN rows[i]
                     ELSE IF done THEN NoRequest ELSE n.owner[i]],
      history |-> [i \in 1 .. MaxBatch |->
                     IF i < stop /\ i <= Len(rows)
                       THEN RowHistory(n, i, rows[i], output[rows[i]])
                       ELSE n.history[i]]]
=============================================================================
