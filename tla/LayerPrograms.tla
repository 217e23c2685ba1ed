--------------------------- MODULE LayerPrograms ---------------------------
(***************************************************************************)
(* The other layers of sw/dnn: batch normalisation, max pooling, softmax,  *)
(* layer normalisation, GELU, concatenation, the fused concatenation and   *)
(* linear layer, and flash attention.  l is the layer's struct.            *)
(***************************************************************************)
EXTENDS GemmProgram

(* The arguments of an operator on n elements from p on. *)
Elements(p, n) == [i \in 1..n |-> Off(p, i - 1)]

(* Double buffering as batchnorm_layer and maxpool_layer do it: tiles is   *)
(* the sequence of the cluster's tiles; buffers alternate; the data mover  *)
(* core stores a tile after the barrier that follows the next load.        *)
DoubleBuffered(e, tiles, Load(_, _), Kernel(_, _), Store(_, _)) ==
    ForEach(Upto(1, Len(tiles) + 1, 1), LAMBDA i :
        IF IsDm(e)
        THEN Load(tiles[i], (i - 1) % 2) \o snrt_dma_wait_all
             \o snrt_cluster_hw_barrier
             \o When(i > 1, Store(tiles[i - 1], i % 2))
             \o snrt_dma_wait_all
        ELSE snrt_cluster_hw_barrier \o Kernel(tiles[i], (i - 1) % 2))
    \o snrt_cluster_hw_barrier
    \o When(IsDm(e), Store(tiles[Len(tiles)], (Len(tiles) - 1) % 2) \o snrt_dma_wait_all)

Pairs(s, t) == ForEach(s, LAMBDA x : [i \in 1..Len(t) |-> <<x, t[i]>>])

-----------------------------------------------------------------------------
(* batchnorm_layer: a tile is <<oh, ci>>.  In the TCDM ifmap[2], gamma,    *)
(* beta, ofmap[2].                                                         *)
bn_ifmap(e, l, buf) == L1(e.cluster_idx, buf * l.IW * l.TILE_CI)
bn_gamma(e, l) == bn_ifmap(e, l, 2)
bn_beta(e, l) == Off(bn_gamma(e, l), l.CI)
bn_ofmap(e, l, buf) == Off(bn_beta(e, l), l.CI + buf * l.IW * l.TILE_CI)

(* batchnorm_fp64: core core_idx takes every compute_num-th channel. *)
batchnorm_fp64(e, l, ci, buf) ==
    LET Element(o) ==
            Term("bn", <<Off(bn_ifmap(e, l, buf), e.core_idx + o),
                         Off(bn_gamma(e, l), ci + e.core_idx + (o % l.TILE_CI)),
                         Off(bn_beta(e, l), ci + e.core_idx + (o % l.TILE_CI))>>)
        out == Off(bn_ofmap(e, l, buf), e.core_idx)
    IN  Compute([x \in {Off(out, w * l.TILE_CI + c * e.compute_num) :
                            w \in 0..(l.IW - 1), c \in 0..(l.TILE_CI \div e.compute_num - 1)} |->
                    Element(x[3] - out[3])])

batchnorm_load(e, l, tile, buf) ==
    When(tile = <<e.cluster_idx, 0>>,
         snrt_dma_start_1d(bn_gamma(e, l), <<"gamma", 0, 0>>, l.CI)
         \o snrt_dma_start_1d(bn_beta(e, l), <<"beta", 0, 0>>, l.CI)
         \o snrt_dma_wait_all)
    \o snrt_dma_start_2d(bn_ifmap(e, l, buf), <<"ifmap", 0, tile[1] * l.IW * l.CI + tile[2]>>,
                         l.TILE_CI, l.TILE_CI, l.CI, l.IW)
batchnorm_store(e, l, tile, buf) ==
    snrt_dma_start_2d(<<"ofmap", 0, tile[1] * l.IW * l.CI + tile[2]>>, bn_ofmap(e, l, buf),
                      l.TILE_CI, l.CI, l.TILE_CI, l.IW)

batchnorm_layer(e, l) ==
    DoubleBuffered(e, Pairs(Upto(e.cluster_idx, l.IH, e.cluster_num), Upto(0, l.CI, l.TILE_CI)),
        LAMBDA tile, buf : batchnorm_load(e, l, tile, buf),
        LAMBDA tile, buf : batchnorm_fp64(e, l, tile[2], buf),
        LAMBDA tile, buf : batchnorm_store(e, l, tile, buf))

-----------------------------------------------------------------------------
(* maxpool_layer: a tile is <<output pixel, ci>>. *)
mp_ifmap(e, l, buf) == L1(e.cluster_idx, buf * l.FH * l.FW * l.tile_ci)
mp_ofmap(e, l, buf) == Off(mp_ifmap(e, l, 2), buf * l.tile_ci)

(* maxpool_fp64; the offset of a core is its global index. *)
maxpool_fp64(e, l, buf) ==
    LET compute_id == snrt_global_core_idx(e)
        out == Off(mp_ofmap(e, l, buf), compute_id)
        Element(ci) ==
            Term("max", [f \in 1..(l.FH * l.FW) |->
                            Off(mp_ifmap(e, l, buf), compute_id + (f - 1) * l.tile_ci + ci)])
        Steps == Upto(0, l.tile_ci, e.compute_num)
    IN  Compute(Assign(out, 1, e.compute_num, Len(Steps), Element))

maxpool_load(e, l, tile, buf) ==
    LET oh == tile[1] \div l.OW
        ow == tile[1] % l.OW
    IN  ForEach(Upto(0, l.FH, 1), LAMBDA fh :
            snrt_dma_start_2d(Off(mp_ifmap(e, l, buf), fh * l.FW * l.tile_ci),
                <<"ifmap", 0, ((oh * l.FH + fh) * l.IW + ow * l.FW) * l.CI + tile[2]>>,
                l.tile_ci, l.tile_ci, l.CI, l.FW))
maxpool_store(e, l, tile, buf) ==
    snrt_dma_start_2d(<<"ofmap", 0, tile[1] * l.CI + tile[2]>>, mp_ofmap(e, l, buf),
                      l.tile_ci, l.CI, l.tile_ci, 1)

maxpool_layer(e, l) ==
    DoubleBuffered(e, Pairs(Upto(e.cluster_idx, l.OH * l.OW, e.cluster_num), Upto(0, l.CI, l.tile_ci)),
        LAMBDA tile, buf : maxpool_load(e, l, tile, buf),
        LAMBDA tile, buf : maxpool_fp64(e, l, buf),
        LAMBDA tile, buf : maxpool_store(e, l, tile, buf))

-----------------------------------------------------------------------------
(* Row number s of a buffer of rows of n elements, applied to a whole row: *)
(* element i of the result is f of the row and of its element i.           *)
RowOperator(f, src, n, o) ==
    Term(f, <<Off(src, o)>> \o Elements(Off(src, (o \div n) * n), n))

(* The rows core, core + step, ... of each batch of seq_len rows, rows of  *)
(* them, transformed from src to dst.                                      *)
Rows(f, src, dst, batch_size, seq_len, n, core, step, rows) ==
    LET Taken == {(b * seq_len + core + s * step) * n + i :
                    b \in 0..(batch_size - 1), s \in 0..(rows - 1), i \in 0..(n - 1)}
    IN  Compute([x \in {Off(dst, o) : o \in Taken} |-> RowOperator(f, src, n, x[3] - dst[3])])

(* softmax_layer: the code's seq_len / 8 is seq_len \div l.eight.  The      *)
(* number of copied lines is multiplied by the size of an element, so that *)
(* the copies go beyond the end of the buffers.                            *)
sizeof_float == 4
softmax_layer(e, l) ==
    LET size == l.batch_size * l.seq_len * l.input_samples
        ifmap == L1(e.cluster_idx, 0)
        ofmap == L1(e.cluster_idx, size)
        Copy(dst, src) ==
            snrt_dma_start_2d(dst, src, l.batch_size, l.batch_size, l.batch_size,
                              l.seq_len * l.input_samples * sizeof_float)
            \o snrt_dma_wait_all
    IN  When(IsDm(e), Copy(ifmap, <<"ifmap", 0, 0>>))
        \o snrt_cluster_hw_barrier
        \o When(~IsDm(e),
                Rows("softmax", ifmap, ofmap, l.batch_size, l.seq_len, l.input_samples,
                     snrt_global_core_idx(e), e.compute_num, l.seq_len \div l.eight))
        \o snrt_cluster_hw_barrier
        \o When(IsDm(e), Copy(<<"ofmap", 0, 0>>, ofmap))
        \o snrt_global_barrier

(* layernorm_layer with the kernels of layernorm_fp32.h, which take        *)
(* seq_len \div compute_num rows for each core.                            *)
layernorm_layer(e, l) ==
    LET per_cluster == l.n_tiles \div e.cluster_num
        tile_seq_len == l.seq_len \div l.n_tiles
        row == tile_seq_len * l.embeddings
        itile == L1(e.cluster_idx, 0)
        otile == L1(e.cluster_idx, l.batch_size * row)
        Tile(name, t) == <<name, 0, (e.cluster_idx * per_cluster + t) * row>>
    IN  ForEach(Upto(0, per_cluster, 1), LAMBDA t :
            When(IsDm(e),
                 snrt_dma_start_2d(itile, Tile("ifmap", t), row, row, l.seq_len * l.embeddings,
                                   l.batch_size)
                 \o snrt_dma_wait_all)
            \o snrt_cluster_hw_barrier
            \o When(~IsDm(e),
                    Rows("layernorm", itile, otile, l.batch_size, tile_seq_len, l.embeddings,
                         e.core_idx, e.compute_num, tile_seq_len \div e.compute_num))
            \o snrt_cluster_hw_barrier
            \o When(IsDm(e),
                    snrt_dma_start_2d(Tile("ofmap", t), otile, row, l.seq_len * l.embeddings, row,
                                      l.batch_size)
                    \o snrt_dma_wait_all))
        \o snrt_global_barrier

(* gelu_layer: every compute core computes all elements of its cluster.    *)
gelu_layer(e, l) ==
    LET size == l.size \div e.cluster_num
        ifmap == L1(e.cluster_idx, 0)
        ofmap == L1(e.cluster_idx, size)
        offset == size * e.cluster_idx
    IN  When(IsDm(e),
             snrt_dma_start_1d(ifmap, <<"ifmap", 0, offset>>, size) \o snrt_dma_wait_all)
        \o snrt_cluster_hw_barrier
        \o When(~IsDm(e),
                Compute(Assign(ofmap, size, size, 1, LAMBDA o : Term("gelu", <<Off(ifmap, o)>>))))
        \o snrt_cluster_hw_barrier
        \o When(IsDm(e),
                snrt_dma_start_1d(<<"ofmap", 0, offset>>, ofmap, size) \o snrt_dma_wait_all)
        \o snrt_cluster_hw_barrier

-----------------------------------------------------------------------------
(* concat_layer: cluster i copies tensor i to its columns of the output.   *)
(* The tensors are one array in main memory, one after the other.          *)
Input(l, i) == <<"input", 0, i * l.input_shape[1] * l.input_shape[2]>>

concat_layer(e, l) ==
    LET row_size == l.input_shape[2]
    IN  When(l.num_inputs <= e.cluster_num,
             When(IsDm(e) /\ e.cluster_idx < l.num_inputs,
                  snrt_dma_start_2d(<<"concat", 0, e.cluster_idx * row_size>>,
                      Input(l, e.cluster_idx), row_size, row_size * l.num_inputs, row_size,
                      l.input_shape[1])
                  \o snrt_dma_wait_all)
             \o snrt_global_barrier)

(* The arguments of gemm() in the two versions of the fused layer. *)
LinearArguments(l) ==
    [m |-> l.input_shape[1], n |-> l.output_shape[2], k |-> l.input_shape[2] * l.num_inputs,
     n_tiles |-> 1, load_b |-> TRUE, load_c |-> TRUE, transb |-> FALSE, beta |-> 0,
     b |-> <<"weights", 0, 0>>, c |-> <<"linear", 0, 0>>]

fused_concat_linear_baseline(e, l) ==
    concat_layer(e, l)
    \o gemm(e, [parallelize_m |-> TRUE, parallelize_k |-> FALSE,
                m_tiles |-> e.cluster_num, k_tiles |-> 1, load_a |-> TRUE,
                a |-> <<"concat", 0, 0>>, next |-> 0] @@ LinearArguments(l))
    \o snrt_global_barrier

(* The optimised one keeps tensor i in the TCDM of cluster i. *)
fused_concat_linear_optimized(e, l) ==
    LET m == l.input_shape[1]
        k == l.input_shape[2]
        a == L1(e.cluster_idx, 0)
    IN  When(IsDm(e),
             snrt_dma_load_2d_tile(a, Input(l, e.cluster_idx), 0, 0, m, k, k) \o snrt_dma_wait_all)
        \o snrt_cluster_hw_barrier
        \o gemm(e, [parallelize_m |-> FALSE, parallelize_k |-> TRUE,
                    m_tiles |-> 1, k_tiles |-> l.num_inputs, load_a |-> FALSE,
                    a |-> a, next |-> m * k] @@ LinearArguments(l))
        \o snrt_global_barrier
=============================================================================
