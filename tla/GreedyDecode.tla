---------------------------- MODULE GreedyDecode ----------------------------
(***************************************************************************)
(* What a verifier of greedy requests promises, whatever it does to go      *)
(* faster: the text of a request is only ever extended by tokens that       *)
(* plain greedy decoding with repetition penalties would have emitted       *)
(* there, one after the other, or, when approximate acceptance is           *)
(* configured, by tokens whose value is within the margin of the best.      *)
(* There are no drafts, no batch and no cached history here.                *)
(*                                                                         *)
(* Values are integers.  A penalty is the rational num / den, and values    *)
(* are compared after scaling by num * den, so that the division of         *)
(* positive values by the penalty is exact.                                 *)
(***************************************************************************)
EXTENDS Integers, Sequences, SequencesExt

CONSTANTS
  Requests,     \* the requests
  Tokens,       \* the token IDs of the vocabulary
  Prompt        \* request -> its prompt, a nonempty sequence of tokens

VARIABLES
  penalty,      \* request -> [num, den], its repetition penalty num / den
  model,        \* last token -> [token -> value]: the target model's logits
  tolerance,    \* the approximate acceptance that is configured
  text          \* request -> its prompt followed by what was generated

vars == <<penalty, model, tolerance, text>>
-----------------------------------------------------------------------------
\* The value of one logit after the penalty, scaled by num * den.
Adjusted(p, value, isSeen) ==
  IF ~isSeen THEN value * p.num * p.den
  ELSE IF value > 0 THEN value * p.den * p.den
  ELSE value * p.num * p.num

\* Every logit of the next position, given what counts as seen there.
Values(p, logits, seen) ==
  [t \in Tokens |-> Adjusted(p, logits[t], t \in seen)]

\* argmax over the tokens of S, the lowest ID on ties.
IsBest(t, values, S) ==
  t \in S /\ \A u \in S : values[u] < values[t] \/ (values[u] = values[t] /\ t <= u)

Best(values, S) == CHOOSE t \in S : IsBest(t, values, S)

Exact == [margin |-> -1, protected |-> {}, after |-> 0]

\* The token t lies within the configured margin of the best one.
Tolerated(p, values, best, t) ==
  /\ values[best] - values[t] <= tolerance.margin * p.num * p.den
  /\ {t, best} \cap tolerance.protected = {}

\* The k-th token of word is one that may follow the tokens before it.
Allowed(r, word, k) ==
  LET before == SubSeq(word, 1, k - 1)
      values == Values(penalty[r], model[Last(before)], Range(before))
      best   == Best(values, Tokens)
  IN \/ word[k] = best
     \/ /\ tolerance.margin >= 0
        /\ k > Len(Prompt[r]) + tolerance.after
        /\ Tolerated(penalty[r], values, best, word[k])
-----------------------------------------------------------------------------
\* A batch step extends the text of any number of requests.
Extended(r, word) ==
  /\ IsPrefix(text[r], word)
  /\ \A k \in Len(text[r]) + 1 .. Len(word) : Allowed(r, word, k)

\* The host takes back generated tokens whose KV could not be loaded.
Shortened(r, word) ==
  /\ IsPrefix(word, text[r])
  /\ IsPrefix(Prompt[r], word)

Init == text = Prompt

Next ==
  /\ \A r \in Requests : Extended(r, text'[r]) \/ Shortened(r, text'[r])
  /\ UNCHANGED <<penalty, model, tolerance>>

Spec == Init /\ [][Next]_vars
=============================================================================
