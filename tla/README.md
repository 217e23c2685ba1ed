# TLA+ models of the Snitch cluster: runtime, kernels and SNAX streamer

This directory holds TLA+ specifications of the parts of this repository in which several
cores, or several units of hardware, change state that they share: the runtime library
`sw/snRuntime`, the hardware barrier it rests on, the matrix, neural-network and stencil
kernels that run on it (`sw/blas`, `sw/dnn`, `sw/saris`), and the SNAX streamer with its CSR
manager (`hw/chisel`). TLC checks them on small instances; the models of the runtime and of the streamer are also proved
correct with TLAPS for every size (section 4). `PROJECT.json` lists components, runs, the
map from definitions to source lines, findings, hazards and theorems.

## 1. Inventory

A cluster has some compute cores and one DM core with a DMA engine; they share an L1 memory
(TCDM), a hardware barrier and a register of cluster-local interrupts. SNAX accelerators sit
beside the cores: a core programs a streamer through CSRs, and the streamer moves words
between TCDM and accelerator.

| Component | State | Operations | Talks to | What makes it correct |
|---|---|---|---|---|
| Software barrier (`sync.h`) | `cnt`, `iteration` of a `snrt_barrier_t`; each hart's `prev_it` | `snrt_partial_barrier`, `snrt_global_barrier`, all-to-all reduction | shared memory, hardware barrier | nobody leaves before all have come; reusable at once; all leave; the reduction is read complete |
| Hardware barrier (`snitch_barrier.sv`, stall in `snitch.sv`) | arrival bit and stall per core | CSR read, release | all cores of a cluster | an arrival is not lost when two barriers follow each other |
| Event unit (`omp/eu.h`) and OpenMP runtime (`omp.c`, `omp.h`, `kmp.c`) | `eu_t` (counts of workers in the loop and asleep, exit flag, one event), argument block | bootstrap, push, run, event loop, exit, destroy | interrupts, hardware barrier | each thread of a region runs it once with its arguments; the master joins all; all cores leave at the end |
| Static schedule (`kmp.c`) | none (a function of thread and loop) | `__kmpc_for_static_init_4/4u/8` | compiler-generated loop | the parts partition the loop |
| Data mover (`dm.h`) | ring of tasks, status request and answer, sleep flag, mutex | copy, start, wait, wait_ready, exit; `dm_main` | interrupts, DMA engine, mutex | every copy starts once in order; waits cover all copies; calls return |
| Program start (`start.c`, `alloc.h`, `cls.h`) | sections in memory, `_cls_ptr`, allocator | TLS, .bss, CLS and library initialisation | DMA engine, hardware barrier | a core in `main` finds its sections initialised |
| SNAX CSR manager (`CsrManager.scala`) | CSRs, one buffered read response | write, read, start, wait | core, streamer | a start is taken only by an idle streamer; a wait returns at its end |
| SNAX streamer (`streamer/*.scala`) | state machine, address generators, request and response bits per port, buffers, FIFOs, performance counter | one clock cycle | CSR manager, TCDM, accelerator | words in loop order exactly once under any back-pressure; idle means finished |
| Stream registers (`ssr.h`, `snitch_ssr_addr_gen.sv`) | bounds, strides, repetition of a data mover; they outlive a stream | loop, repeat, read, write | FPU instructions of a kernel | a kernel's n-th access is the element it means |
| Floating point kernels (`gemm_fp*.h`, the kernels of `conv2d.h`, `layernorm_fp*.h`) | output buffer in TCDM, streams, accumulators | one call per core | streams, cluster barrier | every product of an output element once, nothing else, for every shape the interface admits |
| Layers (`gemm()`, `conv2d_layer`, `batchnorm_layer`, `maxpool_layer`, `softmax_layer`, `layernorm_layer`, `gelu_layer`, `concat_layer`, `fused_concat_linear_*`, `flashattention_2_layer`) | (double) buffers in TCDM, transfers under way, read and write index, flags between clusters | load a tile, compute, store, reduce | DMA engines, barriers, other clusters' TCDM | the result in memory is that of the layer whatever the interleaving; a buffer is not refilled while it is used |
| Parallel stencils (`istc.par.hpp`) | two buffers of the grid | a time step | cluster barrier | step t+1 sees all of step t and nothing of its own |
| Not modelled: core pipeline, FPU and sequencer, AMO shim, interconnect and caches, SNAX glue in SystemVerilog, accelerators, `apps`, generators | | | | see section 7 |

Hard behaviours: interleavings of cores at single loads and stores (no lock in the event unit,
a partial one in the data mover); wake-up by an interrupt that the woken core clears with a store it does not wait for;
back-to-back reuse of a barrier; a DMA engine that runs behind the cores that wait for it;
partial grants over several ports with back-pressure in both directions; counters that wrap;
transfers that complete in any order behind double-buffered computations; clusters that write into
each other's memory; stream registers whose stale content is part of the next stream.
There are no crashes, restarts or unreliable messages in this system. The hazards
of `PROJECT.json` are listed at the lines where they bite.

## 2. Modules

| Module | Models | State and actions |
|---|---|---|
| `EpisodeBarrier` | abstract barrier | calls begun and ended by each member; `Enter`, `Leave` |
| `PartialBarrier` | `snrt_partial_barrier` | one action per access to `cnt` and `iteration` (`ReadIteration`, `AddCnt`, `ResetCnt`, `BumpIteration`, `SpinEnds`) |
| `PartialBarrierProofs`, `GlobalBarrierProofs`, `DataMoverProofs`, `EventUnitProofs`, `Crt0Proofs`, `KmpStaticProofs`, `StreamerProofs` | | theorems about the module of that name, section 4 |
| `DataTheorems` | | induction and recursion over the naturals in a form the provers can use; sums, concatenations, division: lemmas of `GlobalBarrierProofs` and `StreamerProofs` |
| `HwBarrier` | `snitch_barrier.sv` and the CSR stall | `ReadBarrierCsr`, `Fire` |
| `GlobalBarrier`, `MCGlobalBarrier` | `snrt_global_barrier`, `snrt_global_all_to_all_reduction`, `snrt_exit_default` | instances of the two barriers; DM cores enter the software barrier between two hardware barriers |
| `ForkJoin` | abstract fork and join | a region is pushed, begun, run once by each thread of the team, joined |
| `EventUnit` | `eu.h`, bootstrap and destroy with `dm_exit`, `parallelRegion`, `__kmpc_fork_call`, `__microtask_wrapper` | one program counter per core, the DM core included (parked in `dm_main`); one action per access to `eu_t`, `dm_t`, interrupt register or barrier; `IrqCleared` when a clear takes effect |
| `KmpStatic` | `__kmpc_for_static_init` | `Static`, `Chunked` as operators; a step asks for one thread's part |
| `DataMover` | `dm.h` | `Dm*` actions are the DM core in `dm_main`, the others are clients; `IrqCleared` as in `EventUnit`; ghost sequences of queued and issued tasks |
| `Crt0` | `snrt_main` up to `main` | transfers queued by each DM core, completed in order by its engine |
| `AddrGen` | `TemporalAddrGenUnit`, `SpatialAddrGenUnit` | registers as a record, `AguNext` its value after a clock edge; `NestedLoopAddr` is the reference |
| `CsrManager` | `CsrManager.scala` | `CsrNext` and the wires `ReqReady`, `ConfigValid`, `RspValid` |
| `StreamMover` | `DataMover`, `DataReader`, `DataWriter`, `FIFO` (Scala) | `MoverNext`, `RspNext`, `FifoNext` and their wires |
| `Streamer`, `MCStreamer` | `Streamer`, `StreamerTop` | a step is one clock cycle of everything, with free grants, stalls and core requests |
| `Ssr` | `ssr.h`, address generator of the SSRs | the registers of a core's data movers, which outlive a kernel; `snrt_ssr_loop`, `snrt_ssr_repeat`, `snrt_ssr_start`; `At` is the n-th address; `Frep` the products of a hardware loop |
| `GemmKernels` | `gemm_fp64.h` ... `gemm_fp8.h`, `sc_st_gemm` | a kernel maps stream registers and output buffer of a core to the new ones; `_setup` what it programs |
| `ConvKernels` | `conv2d_fp64`, `conv2d_fp32`, `conv2d_dw_fp32`, `conv2d_chw_fp32`, `bn_relu` | the same; `_ssr0`, `_ssr1` what is programmed for the two streams, `_cleanup` the reprogramming for the rows left over, `_restore` the one for the next channel, `_acc` one accumulator |
| `LayernormKernels` | `layernorm_fp32.h`, the scalar kernel of `layernorm_fp16.h` | the same, over the rows of a core |
| `Kernels` | which kernel a job calls, and what its result should be | `GemmCall`, `ConvCall`, `NormAndRelu`, `LayernormCall` |
| `ClusterProgram` | `dma.h`, barriers and identities as instructions | a program is a sequence of instructions: start of a transfer, wait, barrier, global barrier, computation, spin |
| `GemmProgram` | `gemm()`, `snrt_global_reduction_dma` | the program of each core |
| `ConvProgram` | `conv2d_layer` | the same, with im2col and hand-over between clusters |
| `LayerPrograms` | the other layers of `sw/dnn` | the same |
| `Attention` | `flashattention_2_layer` | the same; values are exponents relative to a row's maximum |
| `Stencils` | `istc.par.hpp`, `KNL_IDS`, `forpx` | taps of each kernel, points of each core, time steps |
| `Layers`, `MCLayers` | clusters that run one job | `StartTransfer`, `Transfer`, `WaitAll`, `Execute`, `SpinEnds`, `RunKernel`, `ClusterBarrier`, `GlobalBarrier`; `MCLayers` has the shapes; `ssr` has the stream registers of every core |

Software is modelled at the grain of single accesses to shared memory; what a core does on its
own registers belongs to the access before or after it. Hardware is synchronous: all registers
change in one step. Kernels and layers are one level up: a program is the sequence of transfers,
barriers and computations its C function goes through (all loops and branches of these functions depend on
parameters only), a computation between two barriers is one step, and the barriers are atomic. The
barrier modules justify the second; `CoresApart` and `TransfersUndisturbed` justify the first, since cores and
transfers that touch nothing of one another's can be taken in any order. `CoresApart` looks at computations and at
kernel calls. It excepts computations that are the same on both cores and read nothing they write (`gelu_layer` is computed by all cores
alike) and the flags of a cluster-to-cluster layer. Values are symbolic: which products of which
locations were added, and how often the old content is in the sum. Rounding is left out. Names follow the source.

Interrupts. `snrt_int_cluster_clr` returns before the bit is cleared (`cluster_interrupts.h:27`), and neither `worker_wfi`
(`eu.h:128`) nor `wfi_dm` (`dm.h:135`) waits for it, although a variant that does, `snrt_int_cluster_clr_sync`, exists. The clear is therefore in two
steps, `ClearIrq` and `IrqCleared`, with the core running on between them. The code relies on an order: the
load/store unit answers in the order of the requests (`snitch_lsu.sv:7-10`), and where the paths of a core part and meet again the responses
are taken in that order (the ID FIFO of `reqrsp_demux.sv`, used at `snitch_cc.sv:627`). So a core cannot use
the value of a *second* load before the clear is answered: `CheckTeam` and `DmStat` wait for it, as does an arrival at a barrier. Without that order a
worker executes an event a second time: the mutant `CheckTeamUnordered` shows it.

In modules with the word *Mutant* in a comment
the definition after it is not part of the model: it is a deliberately wrong variant of the next
definition, used to see that a property can fail.

One more abstraction: `KmpStatic` computes with integers where `kmp.c:298-309` converts between signed and
unsigned words of 32 bits; loops near the ends of that range are not covered.

External parts, modelled from how this code uses them: the DMA engine (takes a bounded number
of transfers; `Crt0` completes them in order, `DataMover` and `Layers` in any order and `Layers` without a bound), the loop the compiler
generates around the static schedule, and for the streamer the core's program, the accelerator
(hands on every word it takes, with any delay) and the TCDM (answers a read in the cycle after
its grant, and grants only valid requests).

## 3. Runs

| Run | Bounds | Shows |
|---|---|---|
| `partial_barrier` | 4 harts, 3 calls, 2 values of `iteration` | inductive invariant, no early exit, implements `EpisodeBarrier` with liveness |
| `global_barrier` | 3 clusters of 2 cores, 2 calls, the second a reduction | inductive invariant; all cores of all clusters meet, although one hardware barrier follows the other; the sum is complete |
| `event_unit` | 3 cores, 3 regions of any team size, direct pushes and runs | inductive invariant; implements `ForkJoin`; the event is stable while read; no left-over wake-up or clear; all cores leave if the DM core sleeps |
| `data_mover` | 1 client, 5 calls, ring of 2 | inductive invariant, of which a ring that is not overrun is a part; tasks issued in order, waits cover all copies, calls return, starts are not lost |
| `crt0` | 1 cluster of 4 cores, DMA of depth 4 | sections, .bss and allocator ready in `main`; all get there |
| `kmp_static` | up to 12 iterations, 4 threads, chunks 1 to 3 | partition, last-iteration flag |
| `streamer` | 2 jobs of 2 nested loops (4 and 2 words), 2 ports per mover, FIFOs of 2 | loop order end to end, idle means finished, units idle together, requests held, jobs end |
| `omp_destroy` | 2 compute cores and the DM core, 1 region | **violated**: `dm_exit` waits for ever for a DM core that has left |
| `data_mover_lost` | 1 client, 2 calls | **violated**: a request is erased by the answer to the one before |
| `crt0_cls_ptr` | 1 cluster of 2 cores | **violated**: `_cls_ptr` is cleared after it was set |
| `layers` | 229 jobs, see below | kernels and layers compute what they should; tiles complete at hand-over; cores and transfers apart |
| `gemm_reduction` | 2 clusters of 1 core and DM core, 2 tiles of C, `parallelize_k` | **violated**: partial tiles of different tiles of C meet in one buffer |

Why the bounds are enough. Barriers: the third call is the first that meets a wrapped `iteration`
and two full reuses; two values are the narrowest word. Three clusters give a software barrier in
which some cluster is neither first nor last. Event unit: two workers and three regions let a worker
be in the team, out of it and in again. Regions have 12 arguments, a number with which
`__microtask_wrapper` calls the microtask once (section 5). Data mover: five calls fill a ring of two, wrap both of
its indices and wait; the status protocol has only one request in flight. `crt0`: a DMA depth of 4
is less than the 8 TLS transfers, so the engine blocks, and more than the three transfers that
follow. Streamer: a FIFO of 2 is met empty, partly filled and full, in the flow-through case and out of it; two ports show every partial grant;
the second job, programmed while the first runs, meets whatever the first has left; the core reads the counter when it has no more jobs to program. `CounterWidth = 1`
wraps the performance counter, by which the fairness sees that the clock runs and at which no property of that run looks.

The jobs of `layers`. Convolution kernels: 3, 4, 8, 9 and 14 output rows (below, at and beyond the blocks of eight
and of four), two to four channels one after the other, strides 1 and 2, with and without accumulation, normalisation and ReLU, on a single core (section 5 says why). Matrix kernels:
all precisions, one to four cores, one or two blocks of columns (3 or 8 columns for the baseline kernels), K at and off the
vector length, B transposed and not, beta 0 and 1; and sequences of two and three tiles: as `conv2d_layer` calls them, with the
streams programmed for the first tile only, and tiles of different shapes and precisions, each programmed anew over what the one
before left. Layer normalisation: two rows per core, two batches, one and two
blocks. Layers: shapes of two to six elements per dimension with at least two tiles in most dimensions that are tiled (not in `TILE_CI` of `conv2d_layer`, see
section 5), on one to three clusters
of one to four compute cores; `eight`, the number of output channels `conv2d_layer` computes at a time and the
factor by which `softmax_layer` divides the sequence, is 2 or 4 instead of 8, like the number of cores. No job reaches the transfers
from a neighbour in `load_from_cl`: the one `cluster2cluster` job has channels for one cluster only (section 5). Stencils: ten kernels, radii 1,
2 and 4, one or two time steps, 2 x 2 cores with unequal numbers of points. A shape is included where the code's own
documentation, its data generator (`validate_config` in `blas/gemm/scripts/datagen.py`) or its structure admits it, and the code computes it
correctly; what lies outside is in section 5. Deadlock is checked, with an explicit `Return` at the end of all programs.

`CHECK_DEADLOCK FALSE` stands where a program ends (all calls made, all cores in `main` or done).
The streamer has a clock and is checked with deadlock on.

### Fairness

Weak fairness for each core and for the DMA engine: a core always executes its next instruction,
an engine finishes what it was given, a store to the clear register gets there. Nothing is assumed of the order of cores, and no fairness
is put on the application's choice of its next call. Mutexes need no more: they are contended
only by clients, and the liveness runs have one. The streamer's environment is described by
formulas of the form `[]<>P`: the clock runs, no request is refused for ever (round-robin
arbitration of the interconnect), the accelerator goes on taking and offering words.

## 4. Proofs

TLC checks the instances of section 3; the theorems hold for every value of the constants that the named
assumption of the module admits (`ProcsAssumption`, `ShapeAssumption`, ...: sizes that are not zero, sets that are finite).
Each proof module has an inductive invariant, one lemma per action (or per part of a
clock cycle) that it is kept, and the properties as consequences. The invariants of `PartialBarrier`, `GlobalBarrier`, `DataMover` and
`EventUnit` are definitions of the modules themselves and are checked by their runs, where they take the place of the type invariant
they contain; those of `Crt0`, `KmpStatic` and `Streamer` are in the proof modules.

**`PartialBarrierProofs`**: any finite non-empty set of harts, any `IterMod` of at least 2, any number of calls.

- `Invariance`: `Synchronised` is not inductive. `IInv`
  adds what the code relies on: `cnt` counts the harts that wait (`CntCountsWaiting`), except between
  the two stores of the last one; between these stores *every* hart waits
  (`AllWaitWhileCompleting`), so nobody can see `cnt` reset and `iteration` old and be counted
  twice; a hart about to be counted has read the current `iteration` (`PrevItIsCurrent`), which makes
  a one-bit `iteration` sufficient; all harts have ended the same number of calls once those
  already released are taken as out (`SameEpisode`).
- `Synchronisation`: no hart returns early. `Refinement`: every behaviour is one of `EpisodeBarrier` (its safety part).
  `BumpIteration` and `SpinEnds` map to `Leave`, `ReadIteration` to `Enter`, the others to stuttering.

**`GlobalBarrierProofs`**: any number of clusters and cores. The software barrier enters through its own theorems,
instantiated with the DM cores as harts.

- `Invariance`: added to the invariant of the software barrier are that arrival bits are the stalled cores, that the cores of a cluster are all
  before, between or behind the two hardware barriers of a call (`ClusterInStep`), and that the DM core is inside the software
  barrier only between them (`SwBetweenHw`). A core can be two barriers ahead of nobody, so that no arrival is lost.
- `GlobalSynchronisation`, `Refinement` (the whole implements `EpisodeBarrier` over all cores).
- `ReductionIsSum`: every core returns the sum of what all cores brought. The invariant has the two halves of the argument: the word holds the
  sum over the cores that have added (`ResultIsPartialSum`), and nobody adds once somebody has read it (`ResultFinal`). `ReductionStable`
  is the weaker fact that all return the same.

**`DataMoverProofs`**: any size of the ring, depth of the DMA and number of calls.

- For any finite set of clients: `BaseInvariance` (the mutex excludes, `queue_fill` counts filled slots, no slot is read before it
  is written, the DM core answers the request that stands) and `OverfillBounded` (every client beyond the first can overfill the ring by one,
  because the poll of `queue_fill` is outside the lock). `RingWithRoom` and `WaitIsHonest`: in a behaviour in which a client that fills a slot always has a free one
  (`[]InsertHasRoom`), tasks are started once and in order and `dm_wait` covers all copies.
- With one client there always is room: `Invariance`, `InOrder`.

**`EventUnitProofs`**: any number of cores and regions.

- `Invariance`: the counters `workers_in_loop`, `workers_wfi` and `fini_count` count the workers they stand for in each stage of the master, and a worker is where
  that stage lets it be. An interrupt bit is set only for a worker that sleeps, or is on its way to clear it, or has the clear under
  way; the last of these ends before the worker looks at the event, hence before it counts itself as finished and asleep, for which the master
  waits. From it `EventStable`, `WakeupsTaken`, `OwnArguments`.
- `Refinement` (the safety part of `ForkJoin`) and `CalledAtMostOnce` assume that no region has 8 to 11 arguments; there the code
  calls the microtask more than once (section 5).

**`Crt0Proofs`**: any number of clusters and cores, any depth of the DMA.

- `Invariance`: what `main` needs is initialised or still to come in the queue the DM core waits for, the `.tdata` of the DM core, from which the
  others are copied, before all. `SectionsReady`, `BssReadyWhereCleared` (cluster 0); `BssReady` assumes one cluster, as the target has
  (`start.c:63` is the hazard otherwise).

**`KmpStaticProofs`**: loops of any size, any team, any chunk.

- `Invariance`: the answer to a thread depends on the loop and its number alone.
- `PartitionWhenUnit`, `Partitions`: iteration n of `schedule(static, chunk)` belongs to thread `(n \div chunk) % nbThreads`, for every increment
  and lower bound; in `schedule(static)` the shares follow each other without gap or overlap and end with the loop, if the
  increment is 1, as the compiler normalises it: the code leaves it out where it skips the left-over iterations.
- `FlagWhenExact`, `FlagIsExact`: the last-iteration flag goes to the thread with the last iteration; for chunks the loop has to begin at 0,
  since the code finds the last chunk from the upper bound alone.

**`StreamerProofs`**: any number of ports, loops and jobs, any depth of FIFOs and accelerator, any delays.

- `ControlInvariance`: the units of a direction are busy together, and a response belongs to the pointer of its grant or to the one before it.
  From it `RequestsAreHeld`: the reader never withdraws a request, since a full FIFO can only meet it when no response is missing.
- `Invariance`: the state machine looks only at the two `datamover_states`, so that "idle means idle" needs that the writer cannot stop before the
  reader. The invariant says how the two are coupled: from the writer's loop counters as many iterations as there are words in between
  (response registers, FIFOs, accelerator) lead to the reader's counters, none of them the last while the reader works.
  From it `IdleTogether`, and `IdleAndEmpty`: nothing of a job is left in a FIFO, in the accelerator or in a response register.
- `DataInvariance`: the words given to the accelerator are those all ports have written, then those in the writer's FIFO, then those in the
  accelerator. From it `WrittenAsConsumed`: the k-th datum a port writes is its part of the k-th word; and `IdleAllWritten`.
- `CopyInvariance` joins the two: the n-th word on its way was read in the n-th iteration from the writer's on. The case that makes it more than a queue is
  the response registers, which hold the finished word of one pointer or the first responses of the next, never parts of both.
  From it `WritesMatchReads`: each write, whose address comes from the writer's loop counters, carries the datum at the address the reader's
  configuration gives for the same counters, whatever the delays at each port.
- `ConfiguredAsStarted`: the core writes the CSRs of the next job while the streamer is busy with one, and a start is taken only when it is idle.
  So the registers of both address generators hold the configuration of the job started last (`ConfigInv`), which needs where the core is in
  its list of writes (`CoreInv`). `TypeCorrect` is the type invariant.
- `StreamInvariance` ties the circuit to the loops. The counters of a unit are the digits, with the loop bounds as bases, of the number of the
  iteration it is in, and the carry chain adds one to that number (`CountersAdvance`); all counters are at their last value exactly in iteration
  `Volume - 1` (`LastIteration`); with these digits `PtrOut` is `NestedLoopAddr` (`LoopAddress`). When the writer is in
  iteration k, the n-th word on its way is that of iteration k + n (`ChainIterations`, from the chain of `Invariance`), so the words given to the
  accelerator are the streams of the earlier jobs followed by a beginning of this job's.
  From it `ReadsAreInOrder`, `WritesAreInOrder` and `IdleIsWritten`: the properties `ReadsInOrder`, `WritesInOrder` and
  `IdleMeansWritten` of the run as they stand.

`DataTheorems` has what these need of data. The induction theorems of the library take a predicate as a parameter, which the provers cannot
instantiate. Here a predicate is a set (`NatSetInduction`, from the well-foundedness of <) and the step of a recursion a function
(`NatRecursion`). From them follows what the folds of the community modules compute, for sums (`SumOnSet`) and
concatenations (`FlattenGrows`); a fold is defined by `CHOOSE` of a recursive function, so each takes a proof that the function exists and that it does not
depend on the order of choice. The last part is division with remainder in nested bases.

Two assumptions of the streamer are there for the provers. `PowersAssumption` says that `2^LoopBoundWidth` and `2^AddrWidth` are naturals and the first
at least 2: a consequence of the widths being naturals (the first positive), stated because the provers know only that a power
is an integer. `StreamerAssumption` says of the jobs what makes them programs of a core: finite sequences of
jobs with natural strides and pointers and loop bounds from 1 to what a counter can hold.

The invariants and the side conditions were checked by TLC before they were proved, those of `StreamerProofs` with FIFO and accelerator depths of 2 and 1
and of 1 and 2 (the chain of iterations in them computed by a recursive function, since TLC cannot search for it), `CoreInv`, `ConfigInv` and `StreamInv` on the instance of the run, `KmpStaticProofs!IInv` with increments up to 3 and lower bounds on both sides of 0.

Only model-checked, and why. Liveness (`JobsFinish`, `CallsReturn`, `AllReachMain`, `CleanExitOfSleepers`, `StartedAfterStart`, the liveness parts of `Implements` and
`ImplementsForkJoin`) and `ENABLED` are beyond this prover; the safety parts of the refinements are proved. All of `Layers`: its programs and results are
built from the parameters of a job, and a general statement would have to restrict the shapes kernel by kernel to those for which
the code is right (section 5 has the others), so that there is one proof for each kernel and layer instead of one inductive invariant.

## 5. Findings and known deviations

Checked by runs: `dm_exit` in `__snrt_omp_destroy` against a DM core that is awake (`dm.h:140`), answer and acknowledgement of the
DM core in two stores (`dm.h:213`), a `.tbss` transfer after the barrier of `snrt_init_tls` (`start.c:54`), the
tree reduction of `gemm()` with more than one tile of C (`gemm.h:263`).

Recorded as hazards of the runtime and of the streamer: two clients can overrun the ring of the data mover
(`dm.h:271`); the cases 8 to 11 of `__microtask_wrapper` have no `break`, so that a
microtask with 8 arguments is called five times by each thread, one with 11 twice (`kmp.c:74`); with several clusters `.bss` may be
cleared after a core is in `main` (`start.c:63`; the target has one cluster); the inverted test in `eu_exit`
(`eu.h:185`); the static schedule with an increment other than 1 (`kmp.c:278`; the compiler passes 1); the 13th word of
the argument block (`kmp.c:185`); the performance counter of the streamer is reset before it can be read
(`StreamerTop.scala:92`).

What the models of the kernels and layers say about cases outside the jobs of `layers`. Each is modelled as the code
is written; the jobs stay clear of it because the property would fail.

- `gemm` kernels: columns left over when N is not a multiple of 8 are read as if B were transposed (fp64), partly or wholly
  skipped (fp32), or not computed (fp16, fp8), although the data generator only asks for N of at least 8. `gemm_fp8_ex_opt` takes BETA as an address.
  `gemm_fp32_opt` needs K of at least 4. The jobs of the optimised kernels have whole blocks of eight columns.
- Stream registers: the optimised `gemm` kernels leave DM0 with a repetition of eight, and neither the convolution nor the layer normalisation
  kernels program it; one of these after one of those on the same core reads each element eight times. No program
  of the repository does that.
- `snrt_global_reduction_dma` sends `src_buffer` on every level (`sync.h:152`), wrong with four clusters or more.
- Convolution kernels: `compute_id` is the number of compute cores (`conv2d.h:291, 570, 926, 1353, 1685`), so that all cores
  compute the same channels, at the same time, and the first ones are computed by none; with accumulation the sum is then added more than once
  (TLC finds `ConvExact` and `CoresApart` violated with two cores).
  `bn_relu` with fewer than four rows leaves a stream armed; `conv2d_fp64` with normalisation and no ReLU writes nothing.
- `conv2d_layer`: with `TILE_CI` less than `CI`, alpha is 0 in all passes but the first, and partial sums are lost
  (`conv2d.h:2450`). `compute_id` is the global core index (also in max pooling, softmax and flash attention), so clusters
  other than the first do not compute, and what they would load from their neighbour is never used. With `cluster2cluster` a neighbour without channels leaves a cluster waiting for ever when
  there are three rows or more.
- `flashattention_2.h:220` divides the output by `shifted_exp` where the sum is multiplied by it: right only while the maximum of a row is in
  the first block of keys. `setup_ssr` is 0 in all calls, which only the baseline kernels allow.
- `batchnorm_layer` and `maxpool_layer`: a cluster without rows stores a tile with uninitialised indices. `softmax_layer`
  divides the sequence by 8 whatever the number of cores, and its transfers repeat four times too many lines (`softmax.h:101, 131`), past the
  end of both buffers (in the model too: the jobs look at the buffer itself).
- `layernorm`: rows beyond a multiple of the number of cores are skipped; embeddings that are not a multiple of four words
  leave a tail untouched. `layernorm_fp16_opt` is not modelled: its `var_reduce` (`layernorm_fp16.h:80`) is neither initialised nor
  reset, so its variances are not those of the rows. That the rows written in the first pass of `layernorm_fp32_opt` are in memory when the third stream
  reads them back (`layernorm_fp32.h:196-205`) is an assumption: the kernel waits for the FPU and not for the write stream.
  `gelu_layer` is computed by all cores alike.
- `fusedconv/src/main.c:27`: every compute core allocates, and the last store to `share_ptr` wins.

## 6. Plan

Done: the modules of section 2. What is left, in this order:

1. Proofs: the kernels of `GemmKernels` for any shape they admit, beginning with the baseline ones; the ownership of buffers in the programs of `Layers`.
2. `AmoShim` (`snitch_amo_shim.sv`): LR/SC and atomics as one bank sees them, on which the atomic accesses
   of the software models rest; with an abstract atomic memory as specification.
3. `Streamer`: stationarity, several readers, packed elements, a TCDM of latency 2, arbiters with ready
   before valid.
4. SNAX glue: `snax_intf_translator`, `snax_acc_mux_demux`, `snax_csr_mux_demux`; the CSR side of `snax_alu`.
5. SSR credit counter, switch and indirection; with the last, the kernels of `istc.issr.hpp`.
6. The allocators; argument-level model of `__kmpc_fork_call`; the streams' FIFOs, for the read-back of `layernorm_fp32_opt`.

## 7. Not modelled

The Snitch pipeline, FPU subsystem and sequencer, caches, AXI and TCDM interconnect (data paths, or
wrappers of `common_cells` and `axi` modules that are not in this repository); accelerator arithmetic; floating point
rounding and the arithmetic inside a row of softmax, normalisation and GELU; the indirect-stream stencils, whose index arrays are generated at build time;
`layernorm_fp8`, `layernorm_fp16_opt` and the example programs in `apps` and `blas/axpy` (independent loops between barriers);
`printf`, performance counter accessors; build-time generators; the `EU_USE_GLOBAL_CLINT` and `DM_USE_GLOBAL_CLINT` variants,
which the headers do not enable.
