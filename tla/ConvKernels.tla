---------------------------- MODULE ConvKernels ----------------------------
(***************************************************************************)
(* The direct convolution kernels of sw/dnn/conv2d/src/conv2d.h:           *)
(* conv2d_fp64, conv2d_fp32, conv2d_dw_fp32 (depthwise), conv2d_chw_fp32   *)
(* and bn_relu (batch normalisation and ReLU).  A kernel is a function     *)
(* from the layer k, the number n of compute cores and the state s of the  *)
(* core (ssr, its data movers, and out, the output buffer) to its new      *)
(* state.  The data movers keep what they are programmed with from block   *)
(* to block, channel to channel and kernel to kernel.                      *)
(*                                                                         *)
(* A layer k is a record with the fields of kernel_fp64 and kernel_fp32.   *)
(***************************************************************************)
EXTENDS Ssr

max_unroll == 8

dim_in_eff_x(k) == k.dim_in_x + k.padding_x
dim_in_eff_y(k) == k.dim_in_y + k.padding_y

(* Strides of the layouts H x W x C and Co x Fh x Fw x Ci.                 *)
input_h_stride(k) == k.ch_in * dim_in_eff_x(k)
output_h_stride(k) == k.ch_out * k.dim_out_x
kernel_h_stride(k) == k.ch_in * k.dim_kernel_x
kernel_co_stride(k) == kernel_h_stride(k) * k.dim_kernel_y

cleanup_unroll(k) == k.dim_out_y % max_unroll

(* The row, column and channel of an output element.                       *)
Row(k, a) == a \div output_h_stride(k)
Col(k, a) == (a % output_h_stride(k)) \div k.ch_out
Chan(k, a) == a % k.ch_out

(* compute_id and compute_num of every core of a cluster with n compute    *)
(* cores: both are snrt_cluster_compute_core_num().                        *)
compute_id(n) == n
compute_num(n) == IF n = 0 THEN 1 ELSE n

Channels(k, n) == {co \in 0..(k.ch_out - 1) :
                      co >= compute_id(n) /\ (co - compute_id(n)) % compute_num(n) = 0}

(* What the accumulator of element a starts from.                          *)
Start(k, out, a) == IF k.flag_y_accumulate_start THEN Zero ELSE out[a]

(* Rows are computed max_unroll at a time, then the rows that are left.    *)
InBlock(k, a) == Row(k, a) < max_unroll * (k.dim_out_y \div max_unroll)
h0(k, a) == IF InBlock(k, a) THEN Row(k, a) \div max_unroll ELSE k.dim_out_y \div max_unroll
h1(k, a) == Row(k, a) - max_unroll * h0(k, a)

(* The body of the loop over the channels, for the elements that are Mine: *)
(* the streams are restored, the blocks of rows computed, the streams      *)
(* reprogrammed for the rows that are left and these computed.             *)
ChannelBody(k, s, Mine(_), Restore(_), Reprogram(_), Sum(_, _, _)) ==
    LET full == Restore(s.ssr)
        rest == Reprogram(full)
    IN  [ssr |-> snrt_ssr_disable(rest),
         out |-> [a \in DOMAIN s.out |->
                    CASE ~Mine(a) -> s.out[a]
                      [] Mine(a) /\ InBlock(k, a) -> Sum(full, a, max_unroll)
                      [] OTHER -> Sum(rest, a, cleanup_unroll(k))]]

(* The visited channels (or pairs of them) in the order of the loop.       *)
InOrder(S) == SetToSortSeq(S, LAMBDA x, y : x < y)

-----------------------------------------------------------------------------
(* conv2d_fp64.  Both streams start anew for every block of u rows and     *)
(* column, with the kernel element repeated for the u accumulators.        *)
conv2d_fp64_ssr0(ssr, k, u) ==
    snrt_ssr_loop(1, ssr, DM0, <<u, k.ch_in, k.dim_kernel_x, k.dim_kernel_y>>,
        <<input_h_stride(k) * k.stride_y, 1, k.ch_in, input_h_stride(k)>>)
conv2d_fp64_ssr1(ssr, k, u) ==
    snrt_ssr_repeat(
        snrt_ssr_loop(1, ssr, DM1, <<k.ch_in, k.dim_kernel_x, k.dim_kernel_y>>,
            <<1, k.ch_in, kernel_h_stride(k)>>), DM1, u)
conv2d_fp64_setup(ssr, k, u) == conv2d_fp64_ssr1(conv2d_fp64_ssr0(ssr, k, u), k, u)

conv2d_fp64_restore(ssr, k) ==
    IF cleanup_unroll(k) # 0 THEN conv2d_fp64_setup(ssr, k, max_unroll) ELSE ssr
conv2d_fp64_cleanup(ssr, k) ==
    IF cleanup_unroll(k) # 0 THEN conv2d_fp64_setup(ssr, k, cleanup_unroll(k)) ELSE ssr

conv2d_fp64_acc(k, ssr, a, u, sum) ==
    LET n_frep == k.dim_kernel_y * k.dim_kernel_x * k.ch_in
        ft0 == snrt_ssr_start(1, ssr, DM0, 4,
                   h0(k, a) * max_unroll * k.stride_y * input_h_stride(k)
                       + Col(k, a) * k.stride_x * k.ch_in)
        ft1 == snrt_ssr_start(1, ssr, DM1, 3, Chan(k, a) * kernel_co_stride(k))
    IN  Plus(sum, Frep(ft0, ft1, 0, u, h1(k, a), n_frep, {0}, u * n_frep))

conv2d_fp64(k, n, s) ==
    LET Step(t, co) ==
            ChannelBody(k, t, LAMBDA a : Chan(k, a) = co,
                LAMBDA ssr : conv2d_fp64_restore(ssr, k),
                LAMBDA ssr : conv2d_fp64_cleanup(ssr, k),
                LAMBDA ssr, a, u : conv2d_fp64_acc(k, ssr, a, u, Start(k, t.out, a)))
    IN  FoldLeft(Step, [s EXCEPT !.ssr = conv2d_fp64_setup(@, k, max_unroll)],
                 InOrder(Channels(k, n)))

-----------------------------------------------------------------------------
(* conv2d_fp32: the same with pairs of input channels; the lanes of the    *)
(* sum are added up (vfsum).                                               *)
conv2d_fp32_ssr0(ssr, k, u) ==
    snrt_ssr_loop(2, ssr, DM0, <<u, k.ch_in \div 2, k.dim_kernel_x, k.dim_kernel_y>>,
        <<input_h_stride(k) * k.stride_y, 2, k.ch_in, input_h_stride(k)>>)
conv2d_fp32_ssr1(ssr, k, u) ==
    snrt_ssr_repeat(
        snrt_ssr_loop(2, ssr, DM1, <<k.ch_in \div 2, k.dim_kernel_x, k.dim_kernel_y>>,
            <<2, k.ch_in, kernel_h_stride(k)>>), DM1, u)
conv2d_fp32_setup(ssr, k, u) == conv2d_fp32_ssr1(conv2d_fp32_ssr0(ssr, k, u), k, u)

(* Mutant: the streams stay those of the rows left of the last channel. *)
conv2d_fp32_restore_forgotten(ssr, k) == ssr

conv2d_fp32_restore(ssr, k) ==
    IF cleanup_unroll(k) # 0 THEN conv2d_fp32_setup(ssr, k, max_unroll) ELSE ssr
conv2d_fp32_cleanup(ssr, k) ==
    IF cleanup_unroll(k) # 0 THEN conv2d_fp32_setup(ssr, k, cleanup_unroll(k)) ELSE ssr

conv2d_fp32_acc(k, ssr, a, u, sum) ==
    LET n_frep == (k.dim_kernel_y * k.dim_kernel_x * k.ch_in) \div 2
        ft0 == snrt_ssr_start(2, ssr, DM0, 4,
                   h0(k, a) * max_unroll * k.stride_y * input_h_stride(k)
                       + Col(k, a) * k.stride_x * k.ch_in)
        ft1 == snrt_ssr_start(2, ssr, DM1, 3, Chan(k, a) * kernel_co_stride(k))
    IN  Plus(sum, Frep(ft0, ft1, 0, u, h1(k, a), n_frep, {0, 1}, u * n_frep))

conv2d_fp32(k, n, s) ==
    LET Step(t, co) ==
            ChannelBody(k, t, LAMBDA a : Chan(k, a) = co,
                LAMBDA ssr : conv2d_fp32_restore(ssr, k),
                LAMBDA ssr : conv2d_fp32_cleanup(ssr, k),
                LAMBDA ssr, a, u : conv2d_fp32_acc(k, ssr, a, u, Start(k, t.out, a)))
    IN  FoldLeft(Step, [s EXCEPT !.ssr = conv2d_fp32_setup(@, k, max_unroll)],
                 InOrder(Channels(k, n)))

-----------------------------------------------------------------------------
(* conv2d_dw_fp32: pairs of channels in the lanes, one stream for all of   *)
(* the columns of a block of rows; the weights are Fh x Fw x C.            *)
conv2d_dw_fp32_ssr0(ssr, k, u) ==
    snrt_ssr_loop(2, ssr, DM0, <<u, k.dim_kernel_x, k.dim_kernel_y, k.dim_out_x>>,
        <<input_h_stride(k) * k.stride_y, k.ch_in, input_h_stride(k),
          k.ch_in * k.stride_x>>)
conv2d_dw_fp32_ssr1(ssr, k, u) ==
    snrt_ssr_repeat(
        snrt_ssr_loop(2, ssr, DM1, <<k.dim_kernel_x, k.dim_kernel_y, k.dim_out_x>>,
            <<k.ch_in, kernel_h_stride(k), 0>>), DM1, u)
conv2d_dw_fp32_setup(ssr, k, u) == conv2d_dw_fp32_ssr1(conv2d_dw_fp32_ssr0(ssr, k, u), k, u)

conv2d_dw_fp32_restore(ssr, k) ==
    IF cleanup_unroll(k) # 0 THEN conv2d_dw_fp32_setup(ssr, k, max_unroll) ELSE ssr
conv2d_dw_fp32_cleanup(ssr, k) ==
    IF cleanup_unroll(k) # 0 THEN conv2d_dw_fp32_setup(ssr, k, cleanup_unroll(k)) ELSE ssr

conv2d_dw_fp32_acc(k, ssr, a, u, sum) ==
    LET lane == Chan(k, a) % 2
        co == Chan(k, a) - lane
        n_frep == k.dim_kernel_y * k.dim_kernel_x
        ft0 == snrt_ssr_start(2, ssr, DM0, 4,
                   h0(k, a) * max_unroll * k.stride_y * input_h_stride(k) + co)
        ft1 == snrt_ssr_start(2, ssr, DM1, 3, co)
    IN  Plus(sum, Frep(ft0, ft1, Col(k, a) * u * n_frep, u, h1(k, a), n_frep, {lane},
                       k.dim_out_x * u * n_frep))

(* co = compute_id * 2; co < ch_out; co += compute_num * 2 *)
ChannelPairs(k, n) ==
    {co \in 0..(k.ch_out - 1) :
        co >= compute_id(n) * 2 /\ (co - compute_id(n) * 2) % (compute_num(n) * 2) = 0}

conv2d_dw_fp32(k, n, s) ==
    LET Step(t, co) ==
            ChannelBody(k, t, LAMBDA a : Chan(k, a) \in {co, co + 1},
                LAMBDA ssr : conv2d_dw_fp32_restore(ssr, k),
                LAMBDA ssr : conv2d_dw_fp32_cleanup(ssr, k),
                LAMBDA ssr, a, u : conv2d_dw_fp32_acc(k, ssr, a, u, Start(k, t.out, a)))
    IN  FoldLeft(Step, [s EXCEPT !.ssr = conv2d_dw_fp32_setup(@, k, max_unroll)],
                 InOrder(ChannelPairs(k, n)))

-----------------------------------------------------------------------------
(* conv2d_chw_fp32: the input is Ci x H x W and the weights Co x Ci x Fh x *)
(* Fw; pairs of columns in the lanes, one pass over the output for each    *)
(* input channel.                                                          *)
chw_input_ci_stride(k) == dim_in_eff_x(k) * dim_in_eff_y(k)
chw_kernel_ci_stride(k) == k.dim_kernel_x * k.dim_kernel_y

conv2d_chw_fp32_ssr0(ssr, k, u) ==
    snrt_ssr_loop(2, ssr, DM0, <<u, k.dim_kernel_x \div 2, k.dim_kernel_y, k.dim_out_x>>,
        <<dim_in_eff_x(k) * k.stride_y, 2, dim_in_eff_x(k), k.stride_x>>)
conv2d_chw_fp32_ssr1(ssr, k, u) ==
    snrt_ssr_repeat(
        snrt_ssr_loop(2, ssr, DM1, <<k.dim_kernel_x \div 2, k.dim_kernel_y, k.dim_out_x>>,
            <<2, k.dim_kernel_x, 0>>), DM1, u)
conv2d_chw_fp32_setup(ssr, k, u) ==
    conv2d_chw_fp32_ssr1(conv2d_chw_fp32_ssr0(ssr, k, u), k, u)

conv2d_chw_fp32_restore(ssr, k) ==
    IF cleanup_unroll(k) # 0 THEN conv2d_chw_fp32_setup(ssr, k, max_unroll) ELSE ssr
conv2d_chw_fp32_cleanup(ssr, k) ==
    IF cleanup_unroll(k) # 0 THEN conv2d_chw_fp32_setup(ssr, k, cleanup_unroll(k)) ELSE ssr

conv2d_chw_fp32_acc(k, ssr, a, u, ci, sum) ==
    LET n_frep == (k.dim_kernel_x \div 2) * k.dim_kernel_y
        ft0 == snrt_ssr_start(2, ssr, DM0, 4,
                   h0(k, a) * max_unroll * k.stride_y * dim_in_eff_x(k)
                       + ci * chw_input_ci_stride(k))
        ft1 == snrt_ssr_start(2, ssr, DM1, 3,
                   ci * chw_kernel_ci_stride(k)
                       + Chan(k, a) * chw_kernel_ci_stride(k) * k.ch_in)
    IN  Plus(sum, Frep(ft0, ft1, Col(k, a) * u * n_frep, u, h1(k, a), n_frep, {0, 1},
                       k.dim_out_x * u * n_frep))

(* Pass m of the two loops over output and input channels; all but the     *)
(* first pass over an output channel accumulate.                           *)
conv2d_chw_fp32(k, n, s) ==
    LET cos == InOrder(Channels(k, n))
        Step(t, m) ==
            LET co == cos[m \div k.ch_in + 1]
                ci == m % k.ch_in
                First(a) == IF ci = 0 THEN Start(k, t.out, a) ELSE t.out[a]
            IN  ChannelBody(k, t, LAMBDA a : Chan(k, a) = co,
                    LAMBDA ssr : conv2d_chw_fp32_restore(ssr, k),
                    LAMBDA ssr : conv2d_chw_fp32_cleanup(ssr, k),
                    LAMBDA ssr, a, u : conv2d_chw_fp32_acc(k, ssr, a, u, ci, First(a)))
    IN  FoldLeft(Step, [s EXCEPT !.ssr = conv2d_chw_fp32_setup(@, k, max_unroll)],
                 [m \in 1..(Len(cos) * k.ch_in) |-> m - 1])

-----------------------------------------------------------------------------
(* What normalisation and activation append to an element of channel c.    *)
Post(k, c) ==
    (IF k.flag_batch_norm THEN <<[op |-> "bn", ch |-> c]>> ELSE <<>>)
        \o (IF k.flag_relu THEN <<[op |-> "relu", ch |-> 0]>> ELSE <<>>)

(* Element from of a buffer, with f appended to what was applied to it, is *)
(* written to element to.                                                  *)
Apply(out, from, to, f) ==
    [x \in DOMAIN out |->
        IF x = to /\ from \in DOMAIN out THEN [out[from] EXCEPT !.post = @ \o f] ELSE out[x]]

(* The tail of conv2d_fp64: one stream reads and one writes,               *)
(* dim_out_x * dim_out_y elements for each channel of the loop.  Without   *)
(* ReLU the result goes to a register and nothing is written.              *)
conv2d_fp64_bn_setup(ssr, k, n) ==
    LET b == <<k.dim_out_x * k.dim_out_y, k.ch_out \div compute_num(n)>>
        i == <<k.ch_out, 1>>
    IN  snrt_ssr_repeat(snrt_ssr_loop(1, snrt_ssr_loop(1, ssr, DM0, b, i), DM1, b, i), DM1, 1)

conv2d_fp64_bn(k, n, s) ==
    LET ssr == conv2d_fp64_bn_setup(s.ssr, k, n)
        ft0 == snrt_ssr_start(1, ssr, DM0, 2, compute_id(n))
        ft1 == snrt_ssr_start(1, ssr, DM1, 2, compute_id(n))
        cos == InOrder(Channels(k, n))
        size == k.dim_out_x * k.dim_out_y
        Step(o, m) == Apply(o, At(ft0, m), At(ft1, m), Post(k, cos[m \div size + 1]))
    IN  [ssr |-> snrt_ssr_disable(ssr),
         out |-> IF k.flag_relu
                 THEN FoldLeft(Step, s.out, [m \in 1..(Len(cos) * size) |-> m - 1])
                 ELSE s.out]

(* bn_relu: pairs of channels in the lanes, four rows at a time.           *)
n_unroll == 4

bn_relu_setup(ssr, k, n, u, blocks) ==
    LET b == <<u, k.dim_out_x, blocks,
               ((k.ch_out + compute_num(n) - 1) \div compute_num(n)) \div 2>>
        i == <<output_h_stride(k), k.ch_out, u * output_h_stride(k), compute_num(n) * 2>>
    IN  snrt_ssr_repeat(snrt_ssr_loop(2, snrt_ssr_loop(2, ssr, DM0, b, i), DM1, b, i), DM1, 1)

(* The pairs co = compute_id, compute_id + compute_num, ... below ch / 2.  *)
bn_relu_pairs(k, n) ==
    InOrder({co \in 0..(k.ch_out \div 2 - 1) :
                co >= compute_id(n) /\ (co - compute_id(n)) % compute_num(n) = 0})

(* The m-th access of a part of the kernel reads the word From(m) and      *)
(* writes To(m), for the pair of channels pairs[m \div size + 1].          *)
bn_relu_apply(k, out, pairs, size, From(_), To(_)) ==
    LET Step(o, m) ==
            LET co == pairs[m \div size + 1]
            IN  Apply(Apply(o, From(m), To(m), Post(k, 2 * co)),
                      From(m) + 1, To(m) + 1, Post(k, 2 * co + 1))
    IN  FoldLeft(Step, out, [m \in 1..(Len(pairs) * size) |-> m - 1])

bn_relu_regular_size(k) ==
    IF k.dim_out_y >= n_unroll THEN n_unroll * k.dim_out_x * (k.dim_out_y \div n_unroll) ELSE 0

bn_relu_regular(k, n, s) ==
    LET ssr == bn_relu_setup(s.ssr, k, n, n_unroll, k.dim_out_y \div n_unroll)
        Stream(dm) == snrt_ssr_start(2, ssr, dm, 4, compute_id(n) * 2)
    IN  [ssr |-> snrt_ssr_disable(ssr),
         out |-> bn_relu_apply(k, s.out, bn_relu_pairs(k, n), bn_relu_regular_size(k),
                     LAMBDA m : At(Stream(DM0), m), LAMBDA m : At(Stream(DM1), m))]

(* The rows that are left, after a regular part that left s.  The data     *)
(* movers finish one stream before they take the next: what the regular    *)
(* part did not consume comes first.                                       *)
bn_relu_cleanup(k, n, s) ==
    LET u == k.dim_out_y % n_unroll
        ssr == bn_relu_setup(s.ssr, k, n, u, 1)
        used == Len(bn_relu_pairs(k, n)) * bn_relu_regular_size(k)
        Address(dm, m) ==
            LET first == snrt_ssr_start(2, s.ssr, dm, 4, compute_id(n) * 2)
                st == snrt_ssr_start(2, ssr, dm, 4,
                          (k.dim_out_y - u) * output_h_stride(k) + compute_id(n) * 2)
            IN  IF used + m < Length(first) THEN At(first, used + m)
                ELSE At(st, used + m - Length(first))
    IN  IF u = 0 THEN s
        ELSE [ssr |-> snrt_ssr_disable(ssr),
              out |-> bn_relu_apply(k, s.out, bn_relu_pairs(k, n), u * k.dim_out_x,
                          LAMBDA m : Address(DM0, m), LAMBDA m : Address(DM1, m))]

bn_relu(k, n, s) == bn_relu_cleanup(k, n, bn_relu_regular(k, n, s))
=============================================================================
