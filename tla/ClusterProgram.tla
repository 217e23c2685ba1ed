--------------------------- MODULE ClusterProgram ---------------------------
(***************************************************************************)
(* Clusters that run a layer together: the compute cores and the data      *)
(* mover core of every cluster run a straight sequence of the operations   *)
(* of the runtime, the DMA engine of a cluster copies in the background,   *)
(* and the barriers are the ones modules HwBarrier and GlobalBarrier       *)
(* describe.                                                               *)
(*                                                                         *)
(* A location is <<memory, cluster, offset>>; the memory is "L1" (the      *)
(* TCDM of the cluster) or the name of an array in main memory, which has  *)
(* cluster 0.  Offsets count elements.  The value of a location is a term: *)
(* what was computed from which values.                                    *)
(***************************************************************************)
EXTENDS Integers, Sequences, FiniteSets, SequencesExt

Off(p, i) == <<p[1], p[2], p[3] + i>>
L1(cluster, offset) == <<"L1", cluster, offset>>

(* An effect is a function from the locations that are written to how:     *)
(* operator f applied to the values of locations args.                     *)
Range2d(p, size, stride, repeat) ==
    {Off(p, r * stride + i) : r \in 0..(repeat - 1), i \in 0..(size - 1)}

Term(f, args) == [f |-> f, args |-> args]

(* Every location of a new effect whose relative offset is o gets How(o).  *)
Assign(p, size, stride, repeat, How(_)) ==
    [x \in Range2d(p, size, stride, repeat) |-> How(x[3] - p[3])]

-----------------------------------------------------------------------------
(* The instructions of a program. *)
snrt_dma_start_2d(dst, src, size, dst_stride, src_stride, repeat) ==
    <<[op |-> "dma",
       do |-> Assign(dst, size, dst_stride, repeat,
                  LAMBDA o : Term("copy",
                      <<Off(src, (o \div dst_stride) * src_stride + (o % dst_stride))>>))]>>
snrt_dma_start_1d(dst, src, size) == snrt_dma_start_2d(dst, src, size, size, size, 1)
snrt_dma_wait_all == <<[op |-> "wait"]>>

(* snrt_dma_memset: the core sets the first line of the given number of    *)
(* elements, the DMA engine copies it to the others.                       *)
Zero == <<"zero", 0, 0>>
Set(p, n, value) == <<[op |-> "compute", do |-> Assign(p, n, n, 1, LAMBDA o : Term("copy", <<value>>))]>>
snrt_dma_memset(p, size, line) ==
    Set(p, line, Zero) \o snrt_dma_start_2d(p, p, line, line, 0, size \div line)
        \o snrt_dma_wait_all

(* A tile of a matrix with full_x0_size columns. *)
snrt_dma_load_2d_tile(dst, src, x1_idx, x0_idx, x1_size, x0_size, full_x0_size) ==
    snrt_dma_start_2d(dst, Off(src, x0_idx * x0_size + x1_idx * x1_size * full_x0_size),
                      x0_size, x0_size, full_x0_size, x1_size)
snrt_dma_store_2d_tile(dst, src, x1_idx, x0_idx, x1_size, x0_size, full_x0_size) ==
    snrt_dma_start_2d(Off(dst, x0_idx * x0_size + x1_idx * x1_size * full_x0_size), src,
                      x0_size, full_x0_size, x0_size, x1_size)

snrt_cluster_hw_barrier == <<[op |-> "barrier", ready |-> <<>>]>>
snrt_global_barrier == <<[op |-> "global"]>>
Compute(effect) == <<[op |-> "compute", do |-> effect]>>

(* The core reads p until it has the value. *)
SpinUntil(p, value) == <<[op |-> "spin", at |-> p, value |-> value]>>

(* if, and for over a sequence of values. *)
When(condition, program) == IF condition THEN program ELSE <<>>
ForEach(s, Body(_)) == FlattenSeq([i \in 1..Len(s) |-> Body(s[i])])
Upto(first, end, step) ==
    [i \in 1..((end - first + step - 1) \div step) |-> first + (i - 1) * step]

(* A core e is a record: cluster_idx, core_idx, compute_num, cluster_num.  *)
(* The data mover core is the last one of its cluster.                     *)
IsDm(e) == e.core_idx = e.compute_num
snrt_global_core_idx(e) == e.cluster_idx * (e.compute_num + 1) + e.core_idx
=============================================================================
