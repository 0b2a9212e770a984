--------------------------- MODULE MCRunLifecycle ---------------------------
EXTENDS RunLifecycle

MCQuietPoints == Steps \ Windows
MCSpawnPoints == MCQuietPoints \cup SpawnWindow
MCStopPoints == MCQuietPoints \cup StopWindow
MCClosePoints == MCQuietPoints \cup CloseWindow

\* A signal to run.sh between the start of the job and TOPOLOGY_PID=$!, or to
\* its EXIT trap before the kill, is left out.
MCShellPoints == {"setup", "waiting", "reaping"}
=============================================================================
