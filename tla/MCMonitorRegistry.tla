--------------------------- MODULE MCMonitorRegistry ---------------------------
(* Instances of the monitor registry. *)
EXTENDS MonitorRegistry, TLC

Symmetric == Permutations(Monitors) \cup Permutations(Procs)

\* Long-lived processes with sweeps and no deaths; short ones that die.
Calm == {{"warm", "sweep"}, {"death"}}

\* The operator cancels while a sweep works on its list.
Race == {{"warm", "sweep", "race"}}

\* Registries are loaded while others change.
Load == {{"load"}}

\* A process outlives another that dies in its mutation.
Outlive == {{"warm", "death"}}
=============================================================================
