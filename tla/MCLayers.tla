------------------------------ MODULE MCLayers ------------------------------
(***************************************************************************)
(* The kernels' tiles and layers and the layers' parameters of the runs.   *)
(***************************************************************************)
EXTENDS Layers

Layer(ci, co, oy, ox, ky, kx, sy, sx) ==
    [ch_in |-> ci, ch_out |-> co, dim_out_y |-> oy, dim_out_x |-> ox,
     dim_kernel_y |-> ky, dim_kernel_x |-> kx, stride_y |-> sy, stride_x |-> sx,
     dim_in_y |-> (oy - 1) * sy + ky - 1, padding_y |-> 1,
     dim_in_x |-> (ox - 1) * sx + kx - 2, padding_x |-> 2,
     flag_y_accumulate_start |-> TRUE, flag_batch_norm |-> FALSE, flag_relu |-> FALSE]

Flags(k, acc, bn, relu) ==
    [k EXCEPT !.flag_y_accumulate_start = acc, !.flag_batch_norm = bn, !.flag_relu = relu]

ConvJob(kernel, cores, k) == [layer |-> kernel, clusters |-> 1, cores |-> cores, k |-> k]

(* Rows below, at and beyond the blocks of eight and of four. *)
Heights == {3, 4, 8, 9, 14}

(* bn_relu needs a block of four rows; conv2d_fp64 drops a normalisation   *)
(* without ReLU.                                                           *)
Fused(kernel, h) ==
    {<<FALSE, FALSE>>}
        \cup (IF kernel = "conv2d_fp64" THEN {<<TRUE, TRUE>>, <<FALSE, TRUE>>}
              ELSE IF h >= 4 THEN {<<TRUE, TRUE>>, <<FALSE, TRUE>>, <<TRUE, FALSE>>}
              ELSE {})

LayerOf(kernel, h) ==
    CASE kernel = "conv2d_fp64" -> Layer(3, 2, h, 2, 2, 3, 2, 1)
      [] kernel = "conv2d_fp32" -> Layer(2, 4, h, 2, 2, 3, 1, 2)
      [] kernel = "conv2d_dw_fp32" -> Layer(4, 4, h, 2, 2, 3, 2, 1)
      [] kernel = "conv2d_chw_fp32" -> Layer(2, 2, h, 2, 3, 2, 1, 2)

SingleCoreConvs ==
    UNION {{ConvJob(kernel, 0, Flags(LayerOf(kernel, h), acc, f[1], f[2])) :
                acc \in BOOLEAN, f \in Fused(kernel, h)} :
           kernel \in K!ConvNames, h \in Heights}

(* A tile at the start of its buffers, with leading dimensions of its own. *)
Tile(prec, m, n, k, tb) ==
    [m |-> m, n |-> n, k |-> k, a |-> 0, b |-> 0, c |-> 0,
     lda |-> k, ldb |-> IF tb THEN k ELSE n, ldc |-> n,
     transa |-> FALSE, transb |-> tb, beta |-> 0, betaLoads |-> FALSE,
     setup_ssr |-> TRUE, prec |-> prec, baseline |-> FALSE, expand |-> FALSE]

GemmJob(cores, ts) == [layer |-> "sc_st_gemm", clusters |-> 1, cores |-> cores, tiles |-> ts]

SingleTiles ==
    {GemmJob(c, <<[Tile("FP64", 4, 16, k, tb) EXCEPT !.beta = b]>>) :
        c \in {1, 2, 4}, k \in {1, 3}, tb \in BOOLEAN, b \in {0, 1}}
    \cup {GemmJob(2, <<[Tile(p, 4, n, 3, tb) EXCEPT !.baseline = TRUE]>>) :
        p \in {"FP64", "FP32"}, n \in {3, 8}, tb \in BOOLEAN}
    \cup {GemmJob(2, <<[Tile("FP8", 4, n, 3, TRUE) EXCEPT !.baseline = TRUE]>>) : n \in {3, 8}}
    \cup {GemmJob(2, <<Tile("FP32", 4, n, k, TRUE)>>) : n \in {8, 16}, k \in {4, 6}}
    \cup {GemmJob(2, <<[Tile("FP16", 4, n, 8, TRUE) EXCEPT !.expand = e]>>) :
        n \in {8, 16}, e \in BOOLEAN}
    \cup {GemmJob(2, <<Tile("FP8", 4, n, 16, TRUE)>>) : n \in {8, 16}}
    \cup {[GemmJob(2, <<Tile("FP32", 4, 3, 8, TRUE)>>) EXCEPT !.layer = f] :
        f \in K!GemmNames \ {"sc_st_gemm"}}

(* Tiles one after the other, of which C lies behind the one before.       *)
InTurn(ts) ==
    LET C[i \in 1..Len(ts)] ==
            IF i = 1 THEN 0 ELSE C[i - 1] + ts[i - 1].m * ts[i - 1].ldc
    IN  [i \in 1..Len(ts) |-> [ts[i] EXCEPT !.c = C[i]]]

(* The tiles of conv2d_layer: one pixel, or rows of pixels, for each core  *)
(* and eight output channels, from rows of the im2col matrix that lie k +  *)
(* 1 apart, with the streams programmed for the first tile only.           *)
Pixel(p, m, k, i) ==
    [Tile(p, m, 8, k, TRUE) EXCEPT !.a = i * m * (k + 1), !.lda = k + 1, !.ldb = k + 1,
                                   !.beta = 1, !.setup_ssr = (i = 0)]
TileSequences ==
    {GemmJob(c, InTurn([i \in 1..3 |-> Pixel("FP64", m, 3, i - 1)])) :
        c \in {1, 2}, m \in {2, 4}}
    \cup {GemmJob(2, InTurn([i \in 1..2 |-> [Tile(p, 4, 8, 16, TRUE) EXCEPT
                                !.a = (i - 1) * 64, !.setup_ssr = (i = 1)]])) :
        p \in {"FP64", "FP32", "FP16", "FP8"}}
    (* Other tiles and other precisions, each programmed anew. *)
    \cup {GemmJob(2, InTurn(ts)) :
        ts \in {<<Tile("FP64", 4, 16, 3, FALSE), Tile("FP64", 2, 8, 2, TRUE),
                  Tile("FP64", 4, 8, 3, TRUE)>>,
                <<Tile("FP8", 2, 8, 16, TRUE), Tile("FP32", 4, 16, 4, TRUE),
                  Tile("FP64", 2, 8, 1, TRUE)>>,
                <<Tile("FP64", 4, 8, 3, TRUE),
                  [Tile("FP32", 2, 3, 3, FALSE) EXCEPT !.baseline = TRUE],
                  Tile("FP16", 2, 16, 4, TRUE)>>}}
GemmJobs == SingleTiles \cup TileSequences

-----------------------------------------------------------------------------
Job(layer, clusters, cores, l) == [layer |-> layer, clusters |-> clusters, cores |-> cores, l |-> l]

Gemm(m, n, k, mt, nt, kt) ==
    [m |-> m, n |-> n, k |-> k, m_tiles |-> mt, n_tiles |-> nt, k_tiles |-> kt,
     parallelize_m |-> FALSE, parallelize_k |-> FALSE,
     load_a |-> TRUE, load_b |-> TRUE, load_c |-> TRUE, transb |-> FALSE, beta |-> 0,
     a |-> <<"a", 0, 0>>, b |-> <<"b", 0, 0>>, c |-> <<"c", 0, 0>>, next |-> 0]

GemmLayers ==
    {Job("gemm", 1, 2, [Gemm(4, 2, 4, 2, 2, 2) EXCEPT !.beta = b]) : b \in {0, 1}}
    \cup {Job("gemm", 1, 2, [Gemm(4, 2, 2, 2, 1, 1) EXCEPT !.transb = TRUE])}
    \cup {Job("gemm", 2, 1, [Gemm(2, 2, 2, 2, 2, 1) EXCEPT !.parallelize_m = TRUE])}
    \cup {Job("gemm", 2, 1, [Gemm(1, 2, 4, 1, 1, 4) EXCEPT !.parallelize_k = TRUE, !.beta = 1])}
    \cup {Job("gemm", 2, 2, [Gemm(4, 4, 4, 1, 1, 4) EXCEPT !.parallelize_k = TRUE, !.beta = 1])}
    \cup {Job("gemm", 1, 2, [Gemm(2, 2, 2, 1, 1, 2) EXCEPT !.parallelize_k = TRUE])}

Conv(ci, co, oh, ow, f) ==
    [CI |-> ci, CO |-> co, TILE_CI |-> ci, OH |-> oh, OW |-> ow, IH |-> oh, IW |-> ow,
     FH |-> f, FW |-> f, pad |-> (f - 1) \div 2, cluster2cluster |-> FALSE, eight |-> 2]
Conv4 == [Conv(4, 4, 3, 6, 3) EXCEPT !.eight = 4]

ConvLayers ==
    {Job("conv2d", 1, 2, Conv(2, 4, 2, 3, 3)), Job("conv2d", 1, 2, Conv(2, 2, 3, 5, 1)),
     Job("conv2d", 1, 4, Conv4),
     Job("conv2d", 2, 2, [Conv(2, 2, 2, 2, 1) EXCEPT !.cluster2cluster = TRUE])}

Batchnorm(ci, tile, ih, iw) == [CI |-> ci, TILE_CI |-> tile, IH |-> ih, IW |-> iw]
Maxpool(ci, tile, oh, ow, f) ==
    [CI |-> ci, tile_ci |-> tile, OH |-> oh, OW |-> ow, FH |-> f, FW |-> f, IW |-> ow * f]
Concat(inputs, rows, cols, n) ==
    [num_inputs |-> inputs, input_shape |-> <<rows, cols>>, output_shape |-> <<rows, n>>]

OtherLayers ==
    {Job("batchnorm", 2, 1, Batchnorm(2, 2, 4, 1)), Job("batchnorm", 1, 2, Batchnorm(4, 2, 2, 2)),
     Job("batchnorm", 2, 2, Batchnorm(4, 2, 4, 2)),
     Job("maxpool", 1, 2, Maxpool(4, 2, 1, 2, 2)),
     Job("softmax", 1, 2, [batch_size |-> 2, seq_len |-> 4, input_samples |-> 2, eight |-> 2]),
     Job("layernorm", 2, 1, [batch_size |-> 2, seq_len |-> 4, embeddings |-> 2, n_tiles |-> 4]),
     Job("gelu", 2, 2, [size |-> 4]),
     Job("concat", 3, 1, Concat(2, 2, 2, 1)),
     Job("fcl_baseline", 2, 1, Concat(2, 2, 2, 2)),
     Job("fcl_optimized", 2, 2, Concat(2, 2, 2, 2))}

(* Rows of scores whose maximum is in the first block of keys. *)
Attention4 == [N |-> 4, d |-> 2, B_r |-> 2, B_c |-> 2,
               score |-> <<<<3, 1, 2, 3>>, <<0, 2, 1, 0>>, <<1, 1, 1, 1>>, <<2, 5, 4, 3>>>>]
AttentionLayers == {Job("flashattention", 1, 2, Attention4)}

(* Whole and several blocks of four words; two rows for each core. *)
LayernormJobs ==
    {Job(kernel, 1, 2, [batch_size |-> 2, seq_len |-> 4, embeddings |-> n]) :
        kernel \in K!LayernormNames, n \in {16, 32}}

(* Grids on which every core has points, of unequal number. *)
Stencil(kernel, nz, n, r, t, pz) ==
    Job("stencil", 1, 4, [kernel |-> kernel, nx |-> n, ny |-> n, nz |-> nz, r |-> r, t |-> t,
                          px |-> IF pz = 2 THEN 1 ELSE 2, py |-> 2, pz |-> pz])
Stencils2d ==
    {Stencil("istcp_pb_jacobi_2d", 1, 5, 1, 2, 1), Stencil("istcp_an5d_j2d5pt", 1, 5, 1, 2, 1),
     Stencil("istcp_an5d_j2d9pt", 1, 7, 2, 2, 1), Stencil("istcp_an5d_j2d9pt_gol", 1, 5, 1, 2, 1),
     Stencil("istcp_an5d_star2dXr", 1, 7, 2, 2, 1), Stencil("istcp_an5d_box2dXr", 1, 7, 2, 2, 1)}
Stencils3d ==
    {Stencil("istcp_an5d_star3dXr", 4, 4, 1, 2, 2), Stencil("istcp_an5d_box3dXr", 4, 4, 1, 1, 2),
     Stencil("istcp_an5d_j3d27pt", 5, 5, 1, 1, 2),
     Stencil("istcp_minimod_acoustic_iso_cd", 10, 10, 4, 2, 2)}

MCJobs == SingleCoreConvs \cup GemmJobs \cup LayernormJobs
              \cup Stencils2d \cup Stencils3d \cup GemmLayers \cup ConvLayers \cup OtherLayers \cup AttentionLayers

(* Two tiles of C and two clusters that share the accumulation over k. *)
MCReduction == {Job("gemm", 2, 1, [Gemm(1, 2, 2, 1, 2, 2) EXCEPT !.parallelize_k = TRUE])}
=============================================================================
