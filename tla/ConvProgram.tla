---------------------------- MODULE ConvProgram ----------------------------
(***************************************************************************)
(* conv2d_layer of sw/dnn/conv2d/src/conv2d.h: a convolution as im2col and *)
(* matrix multiplication, with double buffering, and with cluster2cluster  *)
(* a hand-over of input rows from one cluster to the next through flags.   *)
(*                                                                         *)
(* The layer is the record l.  The code's 8 (the output channels of a tile *)
(* and the doubles of a line of the DMA engine) is l.eight.                *)
(***************************************************************************)
EXTENDS ClusterProgram

min(a, b) == IF a < b THEN a ELSE b

(* The buffers in the TCDM. *)
im2col_row_stride(l) == l.FW * l.FH * l.TILE_CI + 1
im2col_mat_stride(e, l) == im2col_row_stride(l) * e.compute_num
ifmap_row_stride(e, l) == l.TILE_CI * (e.compute_num + l.FW - 1)
ifmap_stride(e, l) == ifmap_row_stride(e, l) * l.FH
weights_co_stride(l) == l.FH * l.FW * l.TILE_CI + 1
ofmap_stride(e, l) == e.compute_num * l.eight

im2col(e, l, buf) == L1(e.cluster_idx, buf * im2col_mat_stride(e, l))
ifmap(e, l, cluster, buf) == L1(cluster, 2 * im2col_mat_stride(e, l) + buf * ifmap_stride(e, l))
weights(e, l) == Off(ifmap(e, l, e.cluster_idx, 0), 2 * ifmap_stride(e, l))
ofmap(e, l, buf) ==
    Off(weights(e, l), e.compute_num * weights_co_stride(l) + buf * ofmap_stride(e, l))
synch_flag(e, l, cluster, buf) == L1(cluster, ofmap(e, l, 2)[3] + buf)

InMemory(l, oh, ow, co) == <<"ofmap", 0, (oh * l.OW + ow) * l.CO + co>>

cluster_per_quadrant(e) == min(4, e.cluster_num)
InQuadrant(e) == e.cluster_idx % cluster_per_quadrant(e)
FirstOfQuadrant(e) == InQuadrant(e) = 0
LastOfQuadrant(e) == InQuadrant(e) = cluster_per_quadrant(e) - 1

One == <<"one", 0, 0>>

-----------------------------------------------------------------------------
(* The iterations of one (co, ci) of a cluster in order, as <<ow, _oh>>;   *)
(* i is the number of an iteration over all of the loops, from 0, and its  *)
(* buffers are i % 2.                                                      *)
Pixels(e, l) ==
    ForEach(Upto(0, l.OW, e.compute_num), LAMBDA ow : [h \in 1..l.OH |-> <<ow, h - 1>>])

RowOf(e, l, _oh) == ((cluster_per_quadrant(e) - 1) - InQuadrant(e) + _oh) % l.OH

(* Mutant: without the padding. *)
n_ifmap_pixel_unpadded(e, l, ow) == min(e.compute_num + l.FW - 1, l.IW - ow)

n_ifmap_pixel_read(e, l, ow) == min(e.compute_num + l.FW - 1, l.IW - ow + 2 * l.pad)

load_weights(e, l, co, ci) ==
    ForEach(Upto(0, l.eight, 1), LAMBDA _co :
        LET dst == Off(weights(e, l), _co * weights_co_stride(l))
            src == <<"weights", 0, (co + _co) * l.FH * l.FW * l.CI>>
        IN  IF l.TILE_CI = l.CI
            THEN snrt_dma_start_1d(dst, src, l.CI * l.FH * l.FW)
            ELSE snrt_dma_start_2d(dst, Off(src, ci), l.TILE_CI, l.TILE_CI, l.CI, l.FH * l.FW))
    \o snrt_dma_wait_all

(* The intermediate outputs, or zeros. *)
load_ofmap(e, l, co, ci, oh, ow, i) ==
    LET pixels == min(e.compute_num, l.OW - ow)
    IN  IF ci # 0
        THEN snrt_dma_start_2d(ofmap(e, l, i % 2), InMemory(l, oh, ow, co),
                               l.eight, l.eight, l.CO, pixels)
             \o snrt_dma_wait_all
        ELSE snrt_dma_memset(ofmap(e, l, i % 2), l.eight * pixels, l.eight)

(* A row of the filter window from main memory, padded with zeros. *)
load_row(e, l, ci, oh, ow, i, fh) ==
    LET dst == Off(ifmap(e, l, e.cluster_idx, i % 2), fh * ifmap_row_stride(e, l))
        n == n_ifmap_pixel_read(e, l, ow)
        left == IF ow < l.pad THEN l.pad - ow ELSE 0
        right == IF ow + e.compute_num + l.pad <= l.OW THEN 0
                 ELSE n - ((l.FW - 1) \div 2) - (l.IW - ow)
    IN  IF oh + fh < l.pad \/ oh + fh >= l.IH + ((l.FH - 1) \div 2)
        THEN snrt_dma_memset(dst, l.TILE_CI * n, l.eight)
        ELSE When(left # 0 \/ right # 0,
                  snrt_dma_memset(dst, ifmap_row_stride(e, l), l.eight))
             \o snrt_dma_start_2d(Off(dst, left * l.TILE_CI),
                    <<"ifmap", 0, ((oh + fh - l.pad) * l.IW + ow - (l.pad - left)) * l.CI + ci>>,
                    l.TILE_CI, l.TILE_CI, l.CI, n - left - right)
             \o snrt_dma_wait_all

(* The window from the buffer of the previous cluster, once it is marked   *)
(* as produced; then the mark is cleared.                                  *)
load_from_cluster(e, l, ow, i) ==
    SpinUntil(synch_flag(e, l, e.cluster_idx - 1, (i + 1) % 2), One)
    \o snrt_dma_start_1d(ifmap(e, l, e.cluster_idx, i % 2),
                         ifmap(e, l, e.cluster_idx - 1, (i + 1) % 2),
                         n_ifmap_pixel_read(e, l, ow) * l.TILE_CI * l.FH)
    \o snrt_dma_wait_all
    \o Set(synch_flag(e, l, e.cluster_idx - 1, (i + 1) % 2), 1, Zero)

load_ifmap(e, l, ci, ow, _oh, i) ==
    LET oh == RowOf(e, l, _oh)
    IN  When(l.cluster2cluster /\ ~LastOfQuadrant(e),
             SpinUntil(synch_flag(e, l, e.cluster_idx, i % 2), Zero))
        \o (IF ~l.cluster2cluster \/ _oh = 0 \/ FirstOfQuadrant(e)
            THEN ForEach(Upto(0, l.FH, 1), LAMBDA fh : load_row(e, l, ci, oh, ow, i, fh))
            ELSE load_from_cluster(e, l, ow, i))
        \o When(l.cluster2cluster, Set(synch_flag(e, l, e.cluster_idx, i % 2), 1, One))

(* Mutant: the transfers are not waited for. *)
load_im2col_nowait(e, l, ow, i) ==
    ForEach(Upto(0, min(e.compute_num, l.OW - ow), 1), LAMBDA n :
        snrt_dma_start_2d(Off(im2col(e, l, i % 2), n * im2col_row_stride(l)),
            Off(ifmap(e, l, e.cluster_idx, i % 2), n * l.TILE_CI),
            l.FW * l.TILE_CI, l.FW * l.TILE_CI, ifmap_row_stride(e, l), l.FH))

(* The window of every output pixel as a row of the im2col matrix. *)
load_im2col(e, l, ow, i) ==
    ForEach(Upto(0, min(e.compute_num, l.OW - ow), 1), LAMBDA n :
        snrt_dma_start_2d(Off(im2col(e, l, i % 2), n * im2col_row_stride(l)),
            Off(ifmap(e, l, e.cluster_idx, i % 2), n * l.TILE_CI),
            l.FW * l.TILE_CI, l.FW * l.TILE_CI, ifmap_row_stride(e, l), l.FH))
    \o snrt_dma_wait_all

(* The outputs of iteration prev from buffer buf, at the channels co. *)
store_ofmap(e, l, co, buf, prev) ==
    snrt_dma_start_2d(InMemory(l, RowOf(e, l, prev[2]), prev[1], co), ofmap(e, l, buf),
                      l.eight, l.CO, l.eight, min(e.compute_num, l.OW - prev[1]))
    \o snrt_dma_wait_all

(* What the rows of the im2col matrix hold when the data mover core hands  *)
(* them over in iteration <<ow, _oh>>: the input, or zero outside of it.   *)
Window(e, l, ci, ow, _oh, i) ==
    LET At(n, o) ==
            LET y == RowOf(e, l, _oh) + (o \div (l.FW * l.TILE_CI)) - l.pad
                x == ow + n + ((o \div l.TILE_CI) % l.FW) - l.pad
                c == ci + (o % l.TILE_CI)
            IN  IF y \in 0..(l.IH - 1) /\ x \in 0..(l.IW - 1)
                THEN <<"ifmap", 0, (y * l.IW + x) * l.CI + c>> ELSE Zero
        row == im2col_row_stride(l)
    IN  [p \in {Off(im2col(e, l, i % 2), n * row + o) :
                    n \in 0..(min(e.compute_num, l.OW - ow) - 1), o \in 0..(row - 2)} |->
            LET q == p[3] - im2col(e, l, i % 2)[3] IN At(q \div row, q % row)]

(* Iteration i of the data mover core; prev is the iteration before it, of *)
(* an earlier (co, ci) for the first one.                                  *)
DmIteration(e, l, co, ci, pixel, i, prev) ==
    load_ofmap(e, l, co, ci, RowOf(e, l, pixel[2]), pixel[1], i)
    \o load_ifmap(e, l, ci, pixel[1], pixel[2], i)
    \o load_im2col(e, l, pixel[1], i)
    \o <<[op |-> "barrier", ready |-> Window(e, l, ci, pixel[1], pixel[2], i)]>>
    \o When(prev # <<>>, store_ofmap(e, l, co, (i + 1) % 2, prev))

(* A compute core multiplies its row of the im2col matrix with the         *)
(* weights.  Its compute_id is the global core index.  The intermediate    *)
(* outputs are added if the factor alpha is not 0.                         *)
ComputeIteration(e, l, ci, pixel, i) ==
    LET compute_id == snrt_global_core_idx(e)
        alpha == IF ci # 0 /\ l.TILE_CI # l.CI THEN 0 ELSE 1
        k == l.FH * l.FW * l.TILE_CI
        c == Off(ofmap(e, l, i % 2), compute_id * l.eight)
        a == Off(im2col(e, l, i % 2), compute_id * im2col_row_stride(l))
        Element(o) ==
            Term("dot", (IF alpha = 0 THEN <<>> ELSE <<Off(c, o)>>)
                            \o [x \in 1..(2 * k) |->
                                  IF x % 2 = 1 THEN Off(a, x \div 2)
                                  ELSE Off(weights(e, l), o * weights_co_stride(l) + x \div 2 - 1)])
    IN  snrt_cluster_hw_barrier
        \o When(pixel[1] + compute_id < l.OW, Compute(Assign(c, l.eight, l.eight, 1, Element)))

(* All cores clear the flags of their cluster when a new column begins. *)
reset_flags(e, l, _oh) ==
    When(l.cluster2cluster /\ _oh = 0, Set(synch_flag(e, l, e.cluster_idx, 0), 2, Zero))

(* One (co, ci), whose iterations start at number first. *)
conv2d_tile(e, l, co, ci, first) ==
    LET pixels == Pixels(e, l)
        n == Len(pixels)
        Prev(i) == IF i > 1 THEN pixels[i - 1] ELSE IF first = 0 THEN <<>> ELSE pixels[n]
        Iteration(i) ==
            reset_flags(e, l, pixels[i][2])
            \o (IF IsDm(e)
                THEN DmIteration(e, l, co, ci, pixels[i], first + i - 1, Prev(i))
                ELSE ComputeIteration(e, l, ci, pixels[i], first + i - 1))
    IN  When(IsDm(e), load_weights(e, l, co, ci))
        \o ForEach(Upto(1, n + 1, 1), Iteration)
        \o snrt_cluster_hw_barrier
        \o When(IsDm(e), store_ofmap(e, l, co, (first + n - 1) % 2, pixels[n]))

conv2d_layer(e, l) ==
    LET cos == Upto(e.cluster_idx * e.compute_num, l.CO, e.cluster_num * e.compute_num)
        cis == Upto(0, l.CI, l.TILE_CI)
        size == Len(Pixels(e, l))
    IN  ForEach(Upto(0, Len(cos), 1), LAMBDA x :
            ForEach(Upto(0, Len(cis), 1), LAMBDA y :
                conv2d_tile(e, l, cos[x + 1], cis[y + 1], (x * Len(cis) + y) * size)))
=============================================================================
