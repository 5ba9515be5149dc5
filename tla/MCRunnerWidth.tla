---------------------------- MODULE MCRunnerWidth ----------------------------
(* Deployments for TLC, in the ranges the launcher's protocols use. *)
EXTENDS RunnerWidth

Deploy(method, min, max, locked) ==
  [method |-> method, min |-> min, max |-> max, locked |-> locked,
   isolated |-> TRUE, measured |-> FALSE, kernel |-> FALSE]

\* One deployment for each way the hooks treat a frame.
AllDeployments ==
  {Deploy("eagle3", 1, 4, TRUE),
   Deploy("eagle3", 3, 6, TRUE),
   [Deploy("eagle3", 0, 2, FALSE) EXCEPT !.measured = TRUE],
   Deploy("mtp", 2, 4, TRUE),
   Deploy("mtp", 2, 6, FALSE),
   [Deploy("eagle", 0, 3, FALSE) EXCEPT !.kernel = TRUE],
   [Deploy("eagle", 1, 2, FALSE) EXCEPT !.isolated = FALSE],
   Deploy("draft_model", 1, 4, FALSE)}

\* The MTP serving protocol: candidates 2, 4 and 6, anchor 4.
FrontierDeployment == {Deploy("mtp", 2, 6, TRUE)}

\* Dynamic EAGLE with the uniform-state kernel.
KernelDeployment ==
  {[Deploy("eagle", 1, 4, FALSE) EXCEPT !.kernel = TRUE]}

=============================================================================
