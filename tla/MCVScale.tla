-------------------------------- MODULE MCVScale --------------------------------
(* VScale on small instances. *)
EXTENDS VScale

\* One configuration leaves CPU and memory free, both with ends that the steps overshoot:
\* a quarter of max_cpu is 2 and min_cpu is 7, a step down of memory is held by headroom or
\* min_mem.  The other moves nothing, and what was stored under either lies outside the other.
FreeBoth == [minCPU |-> 7, maxCPU |-> 8, minMem |-> 2, maxMem |-> 4]
Fixed == [minCPU |-> 4, maxCPU |-> 4, minMem |-> 1, maxMem |-> 1]

FreeOrFixed == {FreeBoth, Fixed}

\* For the run about OOM kills, more steps of CPU.
FreeSteps == {[minCPU |-> 2, maxCPU |-> 4, minMem |-> 2, maxMem |-> 4]}
=============================================================================
