---------------------------- MODULE MCController ----------------------------
(* Instances of PerformanceProfileController for TLC.                      *)
EXTENDS PerformanceProfileController

\* Two specs that differ in the machine config and the tuned only, as when the
\* huge pages change.
MCManifest ==
    [s \in Specs |-> [k \in Kinds |->
        IF k \in {"MachineConfig", "Tuned"} /\ s = "s2" THEN "b" ELSE "a"]]
=============================================================================
