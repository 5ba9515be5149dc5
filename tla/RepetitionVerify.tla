--------------------------- MODULE RepetitionVerify ---------------------------
(***************************************************************************)
(* The linear verifier (_forward_linear_eagle) on greedy requests with      *)
(* repetition penalties.  A frame verifies a draft per request of the       *)
(* batch: the target's logits at every drafted position and at the bonus    *)
(* position are reduced to one token each, the drafts that agree with them  *)
(* are accepted and the first other token is the correction.                *)
(*                                                                         *)
(* The reduction takes the first path that is switched on and applies:      *)
(* bare argmax, the native sparse path, the Top-K proof, the fused kernel,  *)
(* or the generic logits processors.  The three middle ones each keep a     *)
(* history of their own that only their own frames bring up to date.        *)
(*                                                                         *)
(* The host is external: which requests form the batch and in which row,    *)
(* what is drafted, where a request stops, and output tokens taken back     *)
(* when their KV cannot be loaded (Discard).                                *)
(***************************************************************************)
EXTENDS RepetitionHistory

CONSTANTS
  Instances,     \* [config, penalty, model]: the switches of the verifier, the
                 \* requests' penalties and the target model of a run
  Batches,       \* the batches of a frame, sequences of distinct requests
  Drafts,        \* the drafts a frame may carry, sequences of tokens
  TileSize,      \* tokens a tile of the fused kernel covers
  TilePrograms,  \* programs that share the tiles of a row
  MaxOutput,     \* tokens after which the host finishes a request
  MaxDiscards    \* bound on Discard

\* topk = 0 switches the Top-K proof off, margin = -1 approximate acceptance.
ConfigType ==
  [native : BOOLEAN, topk : Nat, fused : BOOLEAN, margin : Int,
   from : Nat, after : Nat, protected : SUBSET Tokens]

PenaltyType == [Requests -> [num : Nat \ {0}, den : Nat \ {0}]]
ModelType == [Tokens -> [Tokens -> Int]]

ASSUME RepetitionAssumption ==
  /\ Tokens \subseteq Nat /\ Tokens # {} /\ IsFiniteSet(Tokens)
  /\ TileSize \in Nat \ {0} /\ TilePrograms \in Nat \ {0}
  /\ HistoryWidth \in Nat /\ CacheLimit \in Nat /\ MaxOutput \in Nat /\ MaxDiscards \in Nat
  /\ Prompt \in [Requests -> Seq(Tokens) \ {<<>>}]
  /\ MaxBatch \in Nat \ {0} /\ NoToken \notin Tokens /\ NoRequest \notin Requests
  /\ \A i \in Instances :
       i.config \in ConfigType /\ i.penalty \in PenaltyType /\ i.model \in ModelType
  /\ \A d \in Drafts : d \in Seq(Tokens)
  /\ \A rows \in Batches :
       /\ rows \in Seq(Requests) /\ Len(rows) \in 1 .. MaxBatch
       /\ \A i, j \in DOMAIN rows : rows[i] = rows[j] => i = j

VARIABLES
  config,    \* the environment switches
  penalty,   \* request -> [num, den], its repetition penalty
  model,     \* last token -> [token -> logit], the target model
  output,    \* request -> the tokens generated so far
  topk,      \* owner._vspec_topk_repetition_state
  fused,     \* owner._vspec_packed_repetition_state
  native,    \* owner._vspec_native_repetition_state
  misread,   \* requests the last frame verified against a wrong history
  discards   \* number of Discard steps so far

vars == <<config, penalty, model, output, topk, fused, native, misread, discards>>

Decode == INSTANCE GreedyDecode WITH
  text      <- [r \in Requests |-> Prompt[r] \o output[r]],
  tolerance <- [margin |-> config.margin, protected |-> config.protected,
                after |-> config.after]

TypeOK ==
  /\ config \in ConfigType /\ penalty \in PenaltyType /\ model \in ModelType
  /\ output \in [Requests -> Seq(Tokens)]
  /\ \A r \in Requests : Len(output[r]) <= MaxOutput
  /\ topk \in PackedType /\ fused \in PackedType /\ native \in NativeType
  /\ misread \subseteq Requests /\ discards \in 0 .. MaxDiscards
-----------------------------------------------------------------------------
(* The rows of a frame: position k of a request's draft d is verified after  *)
(* d[1] .. d[k - 1]; position Len(d) + 1 is the bonus row.                    *)

History(r) == Range(Prompt[r]) \cup Range(output[r])

\* History seen at a row: the request's, and the drafts in front of the row.
SeenAt(base, d, k) == base \cup {d[i] : i \in 1 .. k - 1}

Logits(r, d, k) == model[Last(Prompt[r] \o output[r] \o SubSeq(d, 1, k - 1))]

RowValues(r, base, d, k) ==
  Decode!Values(penalty[r], Logits(r, d, k), SeenAt(base, d, k))

Lowest(S) == CHOOSE t \in S : \A u \in S : t <= u

\* fused: each program reduces every TilePrograms-th tile, then the partial
\* winners are reduced.
Tile(b) == {t \in Tokens : t \div TileSize = b}
Tiles == {t \div TileSize : t \in Tokens}
Partial(values, p) ==
  Decode!Best(values, UNION {Tile(b) : b \in {c \in Tiles : c % TilePrograms = p}})
FusedToken(values) ==
  Decode!Best(values, {Partial(values, p) : p \in {b % TilePrograms : b \in Tiles}})

\* native: the best seen token against the raw argmax of the unseen ones.
NativeToken(r, base, d, k) ==
  LET seen   == SeenAt(base, d, k)
      values == RowValues(r, base, d, k)
      unseen == Tokens \ seen
  IN Decode!Best(values,
       (IF seen = {} THEN {} ELSE {Decode!Best(values, seen)}) \cup
       (IF unseen = {} THEN {} ELSE {Decode!Best(values, unseen)}))

\* torch.topk, whose choice among equal logits at the boundary is not
\* specified: the lower IDs or the higher ones.
Before(logits, t, u, low) ==
  logits[t] > logits[u] \/ (logits[t] = logits[u] /\ (IF low THEN t < u ELSE t > u))
TopCandidates(logits, low) ==
  {t \in Tokens : Cardinality({u \in Tokens : Before(logits, u, t, low)}) < config.topk}

\* Mutant: a tie with the tokens left out counts as a proof.
ProvenOnTie(r, base, d, k, low) ==
  LET cands  == TopCandidates(Logits(r, d, k), low)
      values == RowValues(r, base, d, k)
      best   == Decode!Best(values, cands)
      raw    == Decode!Values(penalty[r], Logits(r, d, k), {})
  IN cands = Tokens \/ \E c \in cands : \A e \in cands : raw[c] <= raw[e] /\ values[best] >= raw[c]

\* The winner beats every token left out, were it to keep its raw logit.
Proven(r, base, d, k, low) ==
  LET cands  == TopCandidates(Logits(r, d, k), low)
      values == RowValues(r, base, d, k)
      best   == Decode!Best(values, cands)
      raw    == Decode!Values(penalty[r], Logits(r, d, k), {})
  IN cands = Tokens \/ \E c \in cands : \A e \in cands : raw[c] <= raw[e] /\ values[best] > raw[c]

TopKToken(r, base, d, k, low) ==
  Decode!Best(RowValues(r, base, d, k), TopCandidates(Logits(r, d, k), low))
-----------------------------------------------------------------------------
(* Acceptance (_forward_greedy_token_ids).                                   *)

\* Relaxed rows take the draft for the target's token; the bonus row never.
Relaxed(r, base, d, k, token) ==
  /\ config.margin >= 0 /\ k <= Len(d)
  /\ k - 1 >= config.from
  /\ Len(output[r]) >= config.after
  /\ LET values == RowValues(r, base, d, k)
     IN values[token] - values[d[k]] <= config.margin * penalty[r].num * penalty[r].den
  /\ {token, d[k]} \cap config.protected = {}

\* The accepted drafts and the first token that is not one.
Accepted(d, verdict) ==
  LET n == CHOOSE k \in 0 .. Len(d) :
             /\ \A j \in 1 .. k : verdict[j] = d[j]
             /\ k = Len(d) \/ verdict[k + 1] # d[k + 1]
  IN SubSeq(d, 1, n) \o <<verdict[n + 1]>>

\* What a request gains when its rows reduce to the tokens of token[k].
Gains(r, base, d, token) ==
  Accepted(d, [k \in 1 .. Len(d) + 1 |->
    IF Relaxed(r, base, d, k, token[k]) THEN d[k] ELSE token[k]])

\* Mutant: the token limit is checked before a frame only.
GrownUnstopped(r, gained) == output[r] \o gained

\* The host stops a request at its token limit.
Grown(r, gained) ==
  SubSeq(output[r] \o gained, 1, IF Len(output[r] \o gained) > MaxOutput
                                   THEN MaxOutput ELSE Len(output[r] \o gained))
-----------------------------------------------------------------------------
(* One frame.  rows is the batch in row order, draft its drafts; seen[r] is   *)
(* the history the path uses for r and token(r, k) its reduction.             *)

Frame(rows, draft, seen, token(_, _)) ==
  /\ output' = [r \in Requests |->
       IF r \in Range(rows)
         THEN Grown(r, Gains(r, seen[r], draft[r],
                             [k \in 1 .. Len(draft[r]) + 1 |-> token(r, k)]))
         ELSE output[r]]
  /\ misread' = {r \in Range(rows) : seen[r] # History(r)}
  /\ UNCHANGED <<config, penalty, model, discards>>

Bare(rows) == \A r \in Range(rows) : penalty[r].num = penalty[r].den

\* metadata._vspec_repetition_only
RepetitionOnly(rows) ==
  /\ ~Bare(rows)
  /\ \A r \in Range(rows) : penalty[r].num >= penalty[r].den

\* No request is penalised: argmax of the logits.
BareFrame(rows, draft) ==
  LET base == [r \in Range(rows) |-> History(r)]
      Argmax(r, k) == Decode!Best(RowValues(r, base[r], draft[r], k), Tokens)
  IN /\ Bare(rows)
     /\ Frame(rows, draft, base, Argmax)
     /\ UNCHANGED <<topk, fused, native>>

NativeOn(rows) == RepetitionOnly(rows) /\ config.native /\ config.margin < 0

NativeFrame(rows, draft) ==
  LET after == NativeUpdated(native, rows, output)
      base  == [r \in Range(rows) |->
                  after.history[CHOOSE i \in DOMAIN rows : rows[i] = r]]
      Token(r, k) == NativeToken(r, base[r], draft[r], k)
  IN /\ NativeOn(rows)
     /\ NativeFits(native, rows, output)
     /\ Frame(rows, draft, base, Token)
     /\ native' = after
     /\ UNCHANGED <<topk, fused>>

\* The frame comes past the native path, whose update may have given up.
PastNative(rows) ==
  /\ NativeOn(rows) => ~NativeFits(native, rows, output)
  /\ native' = IF NativeOn(rows) THEN NativeUpdated(native, rows, output) ELSE native

TopKOn(rows) == RepetitionOnly(rows) /\ config.topk > 0 /\ config.margin < 0

AllProven(rows, draft, base, low) ==
  \A r \in Range(rows) : \A k \in 1 .. Len(draft[r]) + 1 :
    Proven(r, base[r], draft[r], k, low)

TopKFrame(rows, draft, low) ==
  LET after == Updated(topk, Range(rows), output)
      base  == [r \in Range(rows) |-> SeenBy(after, r)]
      Token(r, k) == TopKToken(r, base[r], draft[r], k, low)
  IN /\ PastNative(rows)
     /\ TopKOn(rows) /\ HasRoom(topk, Range(rows))
     /\ AllProven(rows, draft, base, low)
     /\ Frame(rows, draft, base, Token)
     /\ topk' = after
     /\ UNCHANGED fused

\* The frame comes past the Top-K path, with its update done.
PastTopK(rows, draft, low) ==
  LET after == Updated(topk, Range(rows), output)
      base  == [r \in Range(rows) |-> SeenBy(after, r)]
  IN /\ PastNative(rows)
     /\ IF TopKOn(rows) /\ HasRoom(topk, Range(rows))
          THEN ~AllProven(rows, draft, base, low) /\ topk' = after
          ELSE UNCHANGED topk

FusedOn(rows) == RepetitionOnly(rows) /\ config.fused

FusedFrame(rows, draft, low) ==
  LET after == Updated(fused, Range(rows), output)
      base  == [r \in Range(rows) |-> SeenBy(after, r)]
      Token(r, k) == FusedToken(RowValues(r, base[r], draft[r], k))
  IN /\ FusedOn(rows) /\ HasRoom(fused, Range(rows))
     /\ PastTopK(rows, draft, low)
     /\ Frame(rows, draft, base, Token)
     /\ fused' = after

\* The host's logits processors, on the host's own token lists.
FullFrame(rows, draft, low) ==
  LET base == [r \in Range(rows) |-> History(r)]
      Argmax(r, k) == Decode!Best(RowValues(r, base[r], draft[r], k), Tokens)
  IN /\ ~Bare(rows)
     /\ FusedOn(rows) => ~HasRoom(fused, Range(rows))
     /\ PastTopK(rows, draft, low)
     /\ Frame(rows, draft, base, Argmax)
     /\ UNCHANGED fused
-----------------------------------------------------------------------------
Verify ==
  \E rows \in {s \in Batches : \A r \in Range(s) : Len(output[r]) < MaxOutput} :
  \E draft \in [Range(rows) -> Drafts], low \in IF TopKOn(rows) THEN BOOLEAN ELSE {TRUE} :
    \/ BareFrame(rows, draft)
    \/ NativeFrame(rows, draft)
    \/ TopKFrame(rows, draft, low)
    \/ FusedFrame(rows, draft, low)
    \/ FullFrame(rows, draft, low)

\* External: a failed KV load takes back the end of a request's output.
Discard ==
  /\ discards < MaxDiscards /\ config.margin < 0
  /\ \E r \in Requests : \E n \in 0 .. Len(output[r]) - 1 :
       output' = [output EXCEPT ![r] = SubSeq(@, 1, n)]
  /\ discards' = discards + 1
  /\ misread' = {}
  /\ UNCHANGED <<config, penalty, model, topk, fused, native>>

Init ==
  /\ \E i \in Instances : config = i.config /\ penalty = i.penalty /\ model = i.model
  /\ output = [r \in Requests |-> <<>>]
  /\ topk = Unused /\ fused = Unused /\ native = NativeEmpty
  /\ misread = {} /\ discards = 0

Next == Verify \/ Discard

Spec == Init /\ [][Next]_vars
-----------------------------------------------------------------------------
(* A frame reads, for every request it verifies, exactly the tokens of its   *)
(* prompt and output: whatever frames took other paths in between, whoever   *)
(* had the slot or the row before.                                           *)
HistoryServed == misread = {}

(* Every slot of a packed history is free or owned by one request, so that   *)
(* update() never runs out of slots.                                         *)
SlotsOwned == SlotsOwnedIn(topk) /\ SlotsOwnedIn(fused)

(* The frames emit what plain greedy decoding would, or what approximate     *)
(* acceptance allows, whatever is drafted and whichever path reduces.        *)
ImplementsDecode == Decode!Spec
=============================================================================
