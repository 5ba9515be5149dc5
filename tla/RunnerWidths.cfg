\* See MCRunnerWidth.tla for the deployments.
SPECIFICATION Spec
CONSTANTS
  Deployments <- AllDeployments
  PromptTokens = {1, 9}
  MaxQueued = 2
INVARIANT TypeOK
INVARIANT NativeBetweenCalls
INVARIANT ConfiguredBuildersMatch
INVARIANT FencedTransition
INVARIANT NoCompatibilityStep
INVARIANT DraftReplay
INVARIANT TargetReplay
\* The worker ends when the host raises.
CHECK_DEADLOCK FALSE
