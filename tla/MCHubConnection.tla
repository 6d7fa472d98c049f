-------------------------- MODULE MCHubConnection --------------------------
EXTENDS HubConnection

CONSTANTS g1, g2

\* The receive loop and one invocation's task, sending at once.
MCTwoSenders == {g1, g2}

\* Whether sendOnlyHubInvocationMessage has a generated MarshalEasyJSON is
\* decided outside src/: this instance takes the build where it has not.
MCEasyButInvocation == Kind \ {"Invocation"}

=============================================================================
