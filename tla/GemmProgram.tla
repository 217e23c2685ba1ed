---------------------------- MODULE GemmProgram ----------------------------
(***************************************************************************)
(* gemm() of sw/blas/gemm/src/gemm.h: the matrices are in main memory, the *)
(* tiles go through the TCDM of the clusters, and with parallelize_k the   *)
(* clusters' partial sums are added up by snrt_global_reduction_dma.  What *)
(* the kernels compute on a tile is the subject of module GemmKernels.     *)
(***************************************************************************)
EXTENDS ClusterProgram

(* The rows core e computes: dot products, on top of C if beta is not 0.   *)
(* cols is the distance of consecutive elements of a row of B, and rows of *)
(* a column.                                                               *)
TileGemm(e, m, n, k, a, lda, b, ldb, transb, beta, c, ldc) ==
    LET Operands(i, j) ==
            [x \in 1..(2 * k) |->
                LET t == (x - 1) \div 2
                IN  IF x % 2 = 1 THEN Off(a, i * lda + t)
                    ELSE Off(b, IF transb THEN j * ldb + t ELSE t * ldb + j)]
        Element(o) ==
            LET i == o \div ldc + e.core_idx
            IN  Term("dot", (IF beta = 0 THEN <<>> ELSE <<Off(c, o + e.core_idx * ldc)>>)
                                \o Operands(i, o % ldc))
    IN  Compute(Assign(Off(c, e.core_idx * ldc), n, e.compute_num * ldc, m \div e.compute_num, Element))

(* snrt_global_reduction_dma: at each level every second cluster sends its *)
(* source buffer to its receiver's destination buffer.                     *)
Levels(n) == CHOOSE v \in 0..n : 2^v >= n /\ (v = 0 \/ 2^(v - 1) < n)

ReductionLevel(e, dst, src, len, level) ==
    LET is_active == e.cluster_idx % 2^level = 0
        is_sender == e.cluster_idx % 2^(level + 1) # 0
        items == len \div e.compute_num
        Sum(o) == Term("add", <<Off(dst, e.core_idx * items + o), Off(src, e.core_idx * items + o)>>)
    IN  When(is_active /\ is_sender /\ IsDm(e),
             snrt_dma_start_1d(L1(e.cluster_idx - 2^level, dst[3]), src, len) \o snrt_dma_wait_all)
        \o snrt_global_barrier
        \o When(is_active /\ ~is_sender /\ ~IsDm(e),
                Compute(Assign(Off(dst, e.core_idx * items), items, items, 1, Sum)))
        \o snrt_cluster_hw_barrier

snrt_global_reduction_dma(e, dst, src, len) ==
    IF e.cluster_num = 1
    THEN When(IsDm(e), snrt_dma_start_1d(dst, src, len) \o snrt_dma_wait_all)
             \o snrt_cluster_hw_barrier
    ELSE ForEach(Upto(0, Levels(e.cluster_num), 1),
                 LAMBDA level : ReductionLevel(e, dst, src, len, level))

-----------------------------------------------------------------------------
(* The arguments of gemm() are the record g; g.next is snrt_l1_next().     *)
frac_m(g) == g.m \div g.m_tiles
frac_n(g) == g.n \div g.n_tiles
frac_k(g) == g.k \div g.k_tiles

local_a(e, g) == IF g.load_a THEN L1(e.cluster_idx, g.next) ELSE g.a
local_b(e, g) ==
    IF g.load_b THEN L1(e.cluster_idx, g.next + (IF g.load_a THEN frac_m(g) * frac_k(g) ELSE 0))
    ELSE g.b
heap_c(g) == g.next + (IF g.load_a THEN frac_m(g) * frac_k(g) ELSE 0)
                    + (IF g.load_b THEN frac_k(g) * frac_n(g) ELSE 0)
local_c_partial(e, g) == IF g.load_c THEN L1(e.cluster_idx, heap_c(g)) ELSE g.c
local_c(e, g) ==
    IF g.parallelize_k
    THEN L1(e.cluster_idx, heap_c(g) + (IF g.load_c THEN frac_m(g) * frac_n(g) ELSE 0))
    ELSE local_c_partial(e, g)

m_tiles_per_cluster(e, g) == IF g.parallelize_m THEN g.m_tiles \div e.cluster_num ELSE g.m_tiles
k_tiles_per_cluster(e, g) == IF g.parallelize_k THEN g.k_tiles \div e.cluster_num ELSE g.k_tiles
abs_m_tile(e, g, m) == IF g.parallelize_m THEN e.cluster_idx * m_tiles_per_cluster(e, g) + m ELSE m
(* Mutant: the tile of the cluster, not of the matrix. *)
abs_k_tile_relative(e, g, k) == k

abs_k_tile(e, g, k) == IF g.parallelize_k THEN e.cluster_idx * k_tiles_per_cluster(e, g) + k ELSE k

(* One iteration of the accumulation over k: load, compute. *)
gemm_k_tile(e, g, m, n, k) ==
    LET am == abs_m_tile(e, g, m)
        ak == abs_k_tile(e, g, k)
        ldb == IF g.transb THEN frac_k(g) ELSE frac_n(g)
    IN  When(IsDm(e),
             When(g.load_a, snrt_dma_load_2d_tile(local_a(e, g), g.a, am, ak,
                                                  frac_m(g), frac_k(g), g.k))
             \o When(g.load_b, snrt_dma_load_2d_tile(local_b(e, g), g.b, ak, n,
                                                     frac_k(g), frac_n(g), g.n))
             \o When(g.load_c /\ ak = 0,
                     snrt_dma_load_2d_tile(local_c_partial(e, g), g.c, am, n,
                                           frac_m(g), frac_n(g), g.n))
             \o When(g.load_c /\ ak # 0 /\ k = 0,
                     snrt_dma_start_2d(local_c_partial(e, g), Zero, 1, 1, 0,
                                       frac_m(g) * frac_n(g)))
             \o snrt_dma_wait_all)
        \o snrt_cluster_hw_barrier
        \o When(~IsDm(e),
                TileGemm(e, frac_m(g), frac_n(g), frac_k(g), local_a(e, g), frac_k(g),
                         local_b(e, g), ldb, g.transb, IF ak = 0 THEN g.beta ELSE 1,
                         local_c_partial(e, g), frac_n(g)))
        \o snrt_cluster_hw_barrier

(* Then the reduction and the store of the tile. *)
gemm_tile(e, g, m, n) ==
    ForEach(Upto(0, k_tiles_per_cluster(e, g), 1), LAMBDA k : gemm_k_tile(e, g, m, n, k))
    \o When(g.parallelize_k,
            snrt_global_reduction_dma(e, local_c(e, g), local_c_partial(e, g),
                                      frac_m(g) * frac_n(g)))
    \o When(IsDm(e) /\ (e.cluster_idx = 0 \/ ~g.parallelize_k),
            snrt_dma_store_2d_tile(g.c, local_c(e, g), abs_m_tile(e, g, m), n,
                                   frac_m(g), frac_n(g), g.n)
            \o snrt_dma_wait_all)

gemm(e, g) ==
    ForEach(Upto(0, m_tiles_per_cluster(e, g), 1),
            LAMBDA m : ForEach(Upto(0, g.n_tiles, 1), LAMBDA n : gemm_tile(e, g, m, n)))
=============================================================================
