--------------------------- MODULE MCPodmanMachine ---------------------------
\* Small instances of PodmanMachine: dvt's machine and one of the user's.
EXTENDS PodmanMachine, TLC

Settings(runtime, init, start, gpu) ==
    [runtime |-> runtime, auto_init |-> init, auto_start |-> start, gpu |-> gpu]

\* `dvt info`; an `up` for a GPU that may create and start a machine; a command
\* that may create one only; a command that is told to use Docker.
SomeCommands ==
    {Settings("auto", FALSE, FALSE, FALSE), Settings("podman", TRUE, TRUE, TRUE),
     Settings("auto", TRUE, FALSE, FALSE), Settings("docker", TRUE, TRUE, FALSE)}
=============================================================================
