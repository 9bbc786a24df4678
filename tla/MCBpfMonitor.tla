---------------------------- MODULE MCBpfMonitor ----------------------------
(* BpfMonitor on small instances: two CPUs as model values. *)
EXTENDS BpfMonitor, TLC

CONSTANTS c1, c2

MCCPUs == {c1, c2}
MCOneCovered == {c1}

\* The two CPUs play the same part when both have a ring.
CPUSymmetry == Permutations(MCCPUs)
=============================================================================
