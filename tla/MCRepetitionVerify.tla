-------------------------- MODULE MCRepetitionVerify --------------------------
(* Instances of RepetitionVerify for TLC: a vocabulary of three tokens, three *)
(* requests that share two rows.                                             *)
EXTENDS RepetitionVerify, TLC

CONSTANTS a, b, c

MCTokens == {0, 1, 2}
MCPrompt == (a :> <<2>>) @@ (b :> <<1, 0>>) @@ (c :> <<0>>)

Ratio(n, d) == [num |-> n, den |-> d]
Penalties(x, y, z) == (a :> x) @@ (b :> y) @@ (c :> z)
\* c is rewarded: a batch with c is not repetition-only, and its frame leaves
\* the packed histories as they are.
Mixed == Penalties(Ratio(2, 1), Ratio(3, 1), Ratio(1, 2))
\* c is not penalised: a batch of c alone takes the bare path.
Plain == Penalties(Ratio(2, 1), Ratio(3, 2), Ratio(1, 1))

\* Logits with ties, negative values and a penalty that changes the winner.
ModelA ==
  (0 :> (0 :> 4 @@ 1 :> 3 @@ 2 :> 2)) @@
  (1 :> (0 :> -1 @@ 1 :> -1 @@ 2 :> -2)) @@
  (2 :> (0 :> 2 @@ 1 :> 4 @@ 2 :> 4))
ModelB ==
  (0 :> (0 :> 0 @@ 1 :> 3 @@ 2 :> 3)) @@
  (1 :> (0 :> 6 @@ 1 :> 2 @@ 2 :> 3)) @@
  (2 :> (0 :> 3 @@ 1 :> 3 @@ 2 :> 6))

Off == [native |-> FALSE, topk |-> 0, fused |-> FALSE, margin |-> -1,
        from |-> 0, after |-> 0, protected |-> {}]
Run(switches, penalties, logits) ==
  [config |-> switches, penalty |-> penalties, model |-> logits]
Native == [Off EXCEPT !.native = TRUE]
Proofs == [Off EXCEPT !.topk = 2, !.fused = TRUE]
MCInstances ==
  {Run(Native, Mixed, ModelA), Run(Proofs, Mixed, ModelA), Run(Proofs, Mixed, ModelB),
   Run([Off EXCEPT !.fused = TRUE, !.margin = 1, !.protected = {2}], Plain, ModelB),
   Run([Off EXCEPT !.margin = 2, !.from = 1, !.after = 1], Mixed, ModelA)}

\* c does not fit a row of two tokens; a and b do, and go on with token 1.
WidePrompt == (a :> <<0>>) @@ (b :> <<1>>) @@ (c :> <<0, 2, 1>>)
Steady == [t \in MCTokens |-> (0 :> 1 @@ 1 :> 9 @@ 2 :> 2)]
NativeInstance == {Run(Native, Plain, Steady)}

MCDrafts == {<<>>, <<0, 1>>, <<2, 2>>}

\* Every order of two rows, and a subset that is enough where it is ignored.
AllBatches == {<<r>> : r \in Requests} \cup ({<<r, q>> : r, q \in Requests} \ {<<r, r>> : r \in Requests})
MCBatches == {<<a>>, <<b>>, <<c>>, <<a, b>>, <<b, a>>, <<b, c>>, <<c, a>>}
=============================================================================
