------------------------------- MODULE Layers -------------------------------
(***************************************************************************)
(* The kernels and layers of sw/blas, sw/dnn and sw/saris, run by the      *)
(* cores of one or more clusters.  A job names a layer, its parameters l   *)
(* (or the tile t or layer k of a single kernel), the clusters and the     *)
(* compute cores of each.  Every core has its program; the DMA engine of a *)
(* cluster copies in the background, in any order, and ends before         *)
(* snrt_dma_wait_all does.  The barriers are atomic: that the barriers of  *)
(* the runtime can be taken for atomic ones is the subject of the modules  *)
(* PartialBarrier, GlobalBarrier and HwBarrier.                            *)
(***************************************************************************)
EXTENDS LayerPrograms, ConvProgram, Attention, Stencils

K == INSTANCE Kernels

CONSTANT Jobs

VARIABLES
    job,    \* what the clusters run
    prog,   \* the instructions of each core <<cluster, core>>
    mem,    \* the locations that hold something and their values
    out,    \* the output buffer of a single kernel
    ssr,    \* the data movers of each core, for the kernels
    pc,     \* the next instruction of each core
    dma     \* the transfers each core has started and that have not ended

vars == <<job, prog, mem, out, ssr, pc, dma>>

IsKernel(j) == j.layer \in K!GemmNames \cup K!ConvNames \cup K!LayernormNames

(* A cluster has its compute cores and a data mover core; a kernel of a    *)
(* cluster without compute cores runs on that.                             *)
CoresOf(j) == (0..(j.clusters - 1)) \X (0..j.cores)

Core(j, c) == [cluster_idx |-> c[1], core_idx |-> c[2], compute_num |-> j.cores,
               cluster_num |-> j.clusters]

(* The compute cores call sc_st_gemm for one tile after the other, as      *)
(* conv2d_layer calls its kernel for the pixels.  main() of                *)
(* sw/dnn/fusedconv: the compute cores call the convolution, the data      *)
(* mover core takes part in its barrier.                                   *)
kernel_program(e, j) ==
    LET runs == ~IsDm(e) \/ j.cores = 0
    IN  IF j.layer \in K!GemmNames
        THEN When(~IsDm(e), [i \in 1..Len(j.tiles) |-> [op |-> "gemm", t |-> j.tiles[i]]])
             \o snrt_cluster_hw_barrier
        ELSE IF j.layer \in K!LayernormNames
        THEN When(~IsDm(e), <<[op |-> "layernorm"]>>) \o snrt_cluster_hw_barrier
        ELSE When(runs, <<[op |-> "conv"]>>)
             \o snrt_cluster_hw_barrier
             \o When(runs, <<[op |-> "norm"]>>)
             \o snrt_cluster_hw_barrier

Program(j, c) ==
    LET e == Core(j, c)
    IN  CASE IsKernel(j) -> kernel_program(e, j)
          [] j.layer = "gemm" -> gemm(e, j.l) \o snrt_cluster_hw_barrier
          [] j.layer = "conv2d" -> conv2d_layer(e, j.l) \o snrt_global_barrier
          [] j.layer = "batchnorm" -> batchnorm_layer(e, j.l) \o snrt_global_barrier
          [] j.layer = "maxpool" -> maxpool_layer(e, j.l) \o snrt_global_barrier
          [] j.layer = "softmax" -> softmax_layer(e, j.l)
          [] j.layer = "layernorm" -> layernorm_layer(e, j.l)
          [] j.layer = "gelu" -> gelu_layer(e, j.l)
          [] j.layer = "concat" -> concat_layer(e, j.l)
          [] j.layer = "fcl_baseline" -> fused_concat_linear_baseline(e, j.l)
          [] j.layer = "fcl_optimized" -> fused_concat_linear_optimized(e, j.l)
          [] j.layer = "flashattention" -> flashattention_2_layer(e, j.l)
          [] j.layer = "stencil" -> istcp(e, j.l)

-----------------------------------------------------------------------------
(* Main memory holds different values everywhere, the TCDM at first        *)
(* nothing that is known.                                                  *)
Garbage == <<"garbage", <<0>>>>
Constants == {Zero, One}
ValueAt(x) ==
    CASE x \in Constants -> <<x[1], <<0>>>>
      [] x \in DOMAIN mem -> mem[x]
      [] x \notin DOMAIN mem /\ x[1] # "L1" /\ x \notin Constants -> <<x[1], <<x[3]>>>>
      [] OTHER -> Garbage

(* A sum <<"sum", old, n, p>>: how often the old content of the output is  *)
(* in it, and the n products p.  A product with zero adds nothing.         *)
AsSum(v) ==
    CASE v[1] = "sum" -> v
      [] v[1] = "zero" -> <<"sum", 0, 0, {}>>
      [] v[1] \in {"c", "linear", "ofmap"} -> <<"sum", 1, 0, {}>>
      [] OTHER -> <<"sum", 0, 1, {<<v, v>>}>>
Add(v, w) == <<"sum", v[2] + w[2], v[3] + w[3], v[4] \cup w[4]>>
Dot(args) ==
    LET first == Len(args) % 2
        terms == {i \in 1..(Len(args) \div 2) :
                    args[first + 2 * i - 1][1] # "zero" /\ args[first + 2 * i][1] # "zero"}
        products == <<"sum", 0, Cardinality(terms),
                      {<<args[first + 2 * i - 1], args[first + 2 * i]>> : i \in terms}>>
    IN  IF first = 0 THEN products ELSE Add(AsSum(args[1]), products)

Apply(f, args) ==
    CASE f = "copy" -> args[1]
      [] f = "dot" -> Dot(args)
      [] f = "add" -> Add(AsSum(args[1]), AsSum(args[2]))
      [] f = "stencil" -> <<f, Len(args), Range(args)>>
      [] f \notin {"copy", "dot", "add", "stencil"} /\ job.layer = "flashattention" ->
             AttentionValue(job.l, f, args)
      [] OTHER -> <<f, args>>

Perform(effect) ==
    mem' = [x \in DOMAIN mem \cup DOMAIN effect |->
                IF x \in DOMAIN effect
                THEN Apply(effect[x].f, [i \in 1..Len(effect[x].args) |-> ValueAt(effect[x].args[i])])
                ELSE mem[x]]

Instruction(c) ==
    IF pc[c] <= Len(prog[c]) THEN prog[c][pc[c]] ELSE [op |-> "end"]
AtOp(c, op) == Instruction(c).op = op
Advance(cs) == pc' = [c \in DOMAIN pc |-> IF c \in cs THEN pc[c] + 1 ELSE pc[c]]

Init ==
    /\ job \in Jobs
    /\ prog = [c \in CoresOf(job) |-> Program(job, c)]
    /\ mem = <<>>
    /\ out = IF IsKernel(job) THEN K!OldOutput(job) ELSE <<>>
    /\ ssr = [c \in CoresOf(job) |-> IF IsKernel(job) THEN K!ResetSsr ELSE <<>>]
    /\ pc = [c \in CoresOf(job) |-> 1]
    /\ dma = [c \in CoresOf(job) |-> {}]

(* snrt_dma_start_1d, snrt_dma_start_2d: the transfer is under way. *)
StartTransfer(c) ==
    /\ AtOp(c, "dma")
    /\ dma' = [dma EXCEPT ![c] = @ \cup {pc[c]}]
    /\ Advance({c})
    /\ UNCHANGED <<job, prog, mem, out, ssr>>

(* The DMA engine makes a transfer of core c. *)
Transfer(c, i) ==
    /\ i \in dma[c]
    /\ Perform(prog[c][i].do)
    /\ dma' = [dma EXCEPT ![c] = @ \ {i}]
    /\ UNCHANGED <<job, prog, out, ssr, pc>>

(* snrt_dma_wait_all *)
WaitAll(c) ==
    /\ AtOp(c, "wait") /\ dma[c] = {}
    /\ Advance({c})
    /\ UNCHANGED <<job, prog, mem, out, ssr, dma>>

(* The core computes on the TCDM, or stores a value itself. *)
Execute(c) ==
    /\ AtOp(c, "compute")
    /\ Perform(Instruction(c).do)
    /\ Advance({c})
    /\ UNCHANGED <<job, prog, out, ssr, dma>>

(* The core leaves a loop that reads a flag. *)
SpinEnds(c) ==
    /\ AtOp(c, "spin") /\ ValueAt(Instruction(c).at) = ValueAt(Instruction(c).value)
    /\ Advance({c})
    /\ UNCHANGED <<job, prog, mem, out, ssr, dma>>

(* The call of a kernel: what it makes of the core's data movers and of    *)
(* the output buffer.                                                      *)
AtKernel(c) == Instruction(c).op \in {"gemm", "layernorm", "conv", "norm"}
KernelResult(c) ==
    LET s == [ssr |-> ssr[c], out |-> out]
    IN  CASE AtOp(c, "gemm") -> K!GemmCall(job, Instruction(c).t, c[2], s)
          [] AtOp(c, "layernorm") -> K!LayernormCall(job, c[2], s)
          [] AtOp(c, "conv") -> K!ConvCall(job, s)
          [] AtOp(c, "norm") -> K!NormAndRelu(job, s)

RunKernel(c) ==
    /\ AtKernel(c)
    /\ LET s == KernelResult(c)
       IN  /\ out' = s.out
           /\ ssr' = [ssr EXCEPT ![c] = s.ssr]
    /\ Advance({c})
    /\ UNCHANGED <<job, prog, mem, dma>>

ClusterBarrier(k) ==
    LET cs == {c \in DOMAIN pc : c[1] = k}
    IN  /\ \A c \in cs : AtOp(c, "barrier")
        /\ Advance(cs)
        /\ UNCHANGED <<job, prog, mem, out, ssr, dma>>

GlobalBarrier ==
    /\ \A c \in DOMAIN pc : AtOp(c, "global")
    /\ Advance(DOMAIN pc)
    /\ UNCHANGED <<job, prog, mem, out, ssr, dma>>

Finished == \A c \in DOMAIN pc : AtOp(c, "end")
Return == Finished /\ UNCHANGED vars

Next ==
    \/ \E c \in DOMAIN pc :
          \/ StartTransfer(c) \/ WaitAll(c) \/ Execute(c) \/ SpinEnds(c) \/ RunKernel(c)
          \/ \E i \in dma[c] : Transfer(c, i)
    \/ \E k \in 0..(job.clusters - 1) : ClusterBarrier(k)
    \/ GlobalBarrier
    \/ Return

Spec == Init /\ [][Next]_vars

-----------------------------------------------------------------------------
Leaf(name, i) == <<name, <<i>>>>
SumOf(old, p) == <<"sum", old, Cardinality(p), p>>

IsGemm(l) ==
    \A m \in 0..(l.m - 1), n \in 0..(l.n - 1) :
        ValueAt(Off(l.c, m * l.n + n)) =
            SumOf(l.beta, {<<Leaf("a", m * l.k + k),
                             Leaf("b", IF l.transb THEN n * l.k + k ELSE k * l.n + n)>> :
                           k \in 0..(l.k - 1)})

IsConv2d(l) ==
    LET Inside(oh, ow, fh, fw) == oh + fh - l.pad \in 0..(l.IH - 1) /\ ow + fw - l.pad \in 0..(l.IW - 1)
        InFilter(oh, ow) == {f \in (0..(l.FH - 1)) \X (0..(l.FW - 1)) : Inside(oh, ow, f[1], f[2])}
    IN  \A oh \in 0..(l.OH - 1), ow \in 0..(l.OW - 1), co \in 0..(l.CO - 1) :
            ValueAt(InMemory(l, oh, ow, co)) =
                SumOf(0, {<<Leaf("ifmap", ((oh + f[1] - l.pad) * l.IW + ow + f[2] - l.pad) * l.CI + ci),
                            Leaf("weights", ((co * l.FH + f[1]) * l.FW + f[2]) * l.CI + ci)>> :
                          f \in InFilter(oh, ow), ci \in 0..(l.CI - 1)})

IsBatchnorm(l) ==
    \A p \in 0..(l.IH * l.IW - 1), c \in 0..(l.CI - 1) :
        ValueAt(<<"ofmap", 0, p * l.CI + c>>) =
            <<"bn", <<Leaf("ifmap", p * l.CI + c), Leaf("gamma", c), Leaf("beta", c)>>>>

IsMaxpool(l) ==
    \A oh \in 0..(l.OH - 1), ow \in 0..(l.OW - 1), c \in 0..(l.CI - 1) :
        ValueAt(<<"ofmap", 0, (oh * l.OW + ow) * l.CI + c>>) =
            <<"max", [f \in 1..(l.FH * l.FW) |->
                Leaf("ifmap", ((oh * l.FH + (f - 1) \div l.FW) * l.IW
                                  + ow * l.FW + ((f - 1) % l.FW)) * l.CI + c)]>>

(* Every element is f of itself and its row of n elements. *)
IsRowwise(f, size, n) ==
    \A x \in 0..(size - 1) :
        ValueAt(<<"ofmap", 0, x>>) =
            <<f, <<Leaf("ifmap", x)>> \o [i \in 1..n |-> Leaf("ifmap", (x \div n) * n + i - 1)]>>

IsGelu(l) == \A x \in 0..(l.size - 1) : ValueAt(<<"ofmap", 0, x>>) = <<"gelu", <<Leaf("ifmap", x)>>>>

(* Element (r, c) of the concatenated matrix. *)
Concatenated(l, r, c) ==
    Leaf("input", ((c \div l.input_shape[2]) * l.input_shape[1] + r) * l.input_shape[2]
                      + (c % l.input_shape[2]))
IsConcat(l) ==
    LET width == l.input_shape[2] * l.num_inputs
    IN  \A r \in 0..(l.input_shape[1] - 1), c \in 0..(width - 1) :
            ValueAt(<<"concat", 0, r * width + c>>) = Concatenated(l, r, c)
IsConcatLinear(l) ==
    \A r \in 0..(l.input_shape[1] - 1), n \in 0..(l.output_shape[2] - 1) :
        ValueAt(<<"linear", 0, r * l.output_shape[2] + n>>) =
            SumOf(0, {<<Concatenated(l, r, c), Leaf("weights", c * l.output_shape[2] + n)>> :
                      c \in 0..(l.input_shape[2] * l.num_inputs - 1)})

(* Both buffers of the grid hold the last two time steps. *)
IsStencil(l) ==
    LET grid == After(l, LAMBDA x : Leaf(x[1], x[3]))
        last == IF l.kernel = "istcp_pb_jacobi_2d" THEN 1 ELSE l.t
    IN  \A t \in (last - 1)..last : \A p \in GridPoints(l) : ValueAt(PointOf(l, t % 2, p)) = grid[t][p]

ResultOf(j) ==
    CASE j.layer = "gemm" -> IsGemm(j.l)
      [] j.layer = "conv2d" -> IsConv2d(j.l)
      [] j.layer = "batchnorm" -> IsBatchnorm(j.l)
      [] j.layer = "maxpool" -> IsMaxpool(j.l)
      [] j.layer = "softmax" ->
             IsRowwise("softmax", j.l.batch_size * j.l.seq_len * j.l.input_samples, j.l.input_samples)
      [] j.layer = "layernorm" ->
             IsRowwise("layernorm", j.l.batch_size * j.l.seq_len * j.l.embeddings, j.l.embeddings)
      [] j.layer = "gelu" -> IsGelu(j.l)
      [] j.layer = "concat" -> IsConcat(j.l)
      [] j.layer \in {"fcl_baseline", "fcl_optimized"} -> IsConcatLinear(j.l)
      [] j.layer = "flashattention" ->
             \A i \in 0..(j.l.N - 1), c \in 0..(j.l.d - 1) :
                 IsAttention(j.l, ValueAt(<<"O", 0, i * j.l.d + c>>), i)
      [] j.layer = "stencil" -> IsStencil(j.l)

(* When all cores have returned, main memory holds what the layer is meant *)
(* to compute: every tile was loaded, computed and stored once, with the   *)
(* right buffer, whatever the order in which cores, DMA engines and        *)
(* clusters took their steps (gemm.h:130-281, conv2d.h:2118-2500 and the   *)
(* layers of sw/dnn).                                                      *)
LayerExact == Finished /\ ~IsKernel(job) => ResultOf(job)

(* When the data mover core of conv2d_layer reaches the barrier that hands *)
(* a tile to the compute cores, the im2col matrix of that iteration holds  *)
(* the windows of its pixels, padded with zeros (conv2d.h:2245-2390).      *)
TilesReady ==
    \A c \in DOMAIN pc :
        AtOp(c, "barrier") =>
            LET ready == Instruction(c).ready
            IN  \A x \in DOMAIN ready : ValueAt(x) = ValueAt(ready[x])

(* No core computes on, and no DMA engine copies from or to, a location    *)
(* that an unfinished transfer writes; and nothing is written that an      *)
(* unfinished transfer reads: double buffering and the barriers keep the   *)
(* data mover core's transfers and the compute cores apart                 *)
(* (batchnorm.h:94-170, maxpool.h:97-165, conv2d.h:2220-2480).             *)
Reads(effect) == UNION {{effect[x].args[i] : i \in 1..Len(effect[x].args)} : x \in DOMAIN effect}
Conflicts(e1, e2) ==
    (DOMAIN e1 \cap (DOMAIN e2 \cup Reads(e2))) \cup (DOMAIN e2 \cap Reads(e1))
Apart(e1, e2) == Conflicts(e1, e2) = {}
TransfersUndisturbed ==
    \A c \in DOMAIN pc : \A i \in dma[c] :
        LET t == prog[c][i].do
        IN  \A d \in DOMAIN pc :
                /\ AtOp(d, "compute") => Apart(t, Instruction(d).do)
                /\ \A n \in dma[d] \ (IF d = c THEN {i} ELSE {}) : Apart(t, prog[d][n].do)

(* No two cores compute at the same time on a location that one of them    *)
(* writes, and no two calls of a kernel change the same element of the     *)
(* output, so that taking a core's computation between two barriers for    *)
(* one step hides nothing: one barrier for each step is enough for two     *)
(* buffers (istc.par.hpp), the cores have the rows of a tile or the heads  *)
(* of a layer for themselves, and a buffer is not refilled while it is     *)
(* used.  The cores may store the same values (gelu_layer, conv2d.h:2221), *)
(* and the flags of cluster2cluster are meant to be shared.                *)
SameStores(e1, e2) == e1 = e2 /\ DOMAIN e1 \cap Reads(e1) = {}
SharedFlags ==
    IF job.layer = "conv2d" /\ job.l.cluster2cluster
    THEN {synch_flag(Core(job, c), job.l, c[1], b) : c \in DOMAIN pc, b \in 0..1}
    ELSE {}
CoresApart ==
    LET changed == [c \in {d \in DOMAIN pc : AtKernel(d)} |->
                       {a \in DOMAIN out : KernelResult(c).out[a] # out[a]}]
    IN  \A c, d \in DOMAIN pc :
            c # d =>
                /\ AtOp(c, "compute") /\ AtOp(d, "compute") =>
                       \/ SameStores(Instruction(c).do, Instruction(d).do)
                       \/ Conflicts(Instruction(c).do, Instruction(d).do) \subseteq SharedFlags
                /\ AtKernel(c) /\ AtKernel(d) => changed[c] \cap changed[d] = {}

(* The cores of a cluster, on strided rows, compute C = A B + beta C for   *)
(* one tile after the other: every product of row and column of every      *)
(* element once and nothing else, also when the data movers are programmed *)
(* for the first tile only (gemm_fp64.h:66) and whatever the kernel before *)
(* left in them (gemm.h:43-128 and the kernels it calls; the optimised     *)
(* ones for tiles of whole blocks of eight columns).                       *)
GemmExact ==
    Finished /\ job.layer \in K!GemmNames => \A t \in Range(job.tiles) : K!IsProduct(t, out)

(* A cluster of one core computes the convolution, then the normalisation  *)
(* and the ReLU of every element exactly once, in every layout, although   *)
(* the streams are reprogrammed for the rows that are left over after      *)
(* blocks of eight (of four in bn_relu) and restored for the next channel  *)
(* (conv2d.h:287-2111).                                                    *)
ConvExact == Finished /\ job.layer \in K!ConvNames => K!IsConvolution(job, out)

(* The layer normalisation kernels read and write every row of a tile with *)
(* the streams at the right place, over all rows of a batch and all        *)
(* batches: each element comes from itself, the mean and the variance of   *)
(* its own row, each taken once (layernorm_fp32.h, and the scalar kernel   *)
(* of layernorm_fp16.h).                                                   *)
LayernormExact == Finished /\ job.layer \in K!LayernormNames => K!IsLayernorm(job.l, out)
=============================================================================
