------------------------------ MODULE Kernels ------------------------------
(***************************************************************************)
(* What a core of a cluster does to an output buffer and to its data       *)
(* movers when it calls a floating point kernel on operands that are       *)
(* already in the TCDM: sc_st_gemm (sw/blas/gemm/src/gemm.h) for a         *)
(* sequence of tiles, or a kernel it does not choose, a layer              *)
(* normalisation (sw/dnn/layernorm/src), or one of the convolutions of     *)
(* sw/dnn/conv2d/src/conv2d.h up to its barrier and after it; and what the *)
(* result should be.                                                       *)
(*                                                                         *)
(* A job is a record: layer (the name of the function), cores (the compute *)
(* cores of the cluster) and the tiles, the layer k or the layer l.  A     *)
(* convolution of a cluster without compute cores is run by its only core. *)
(***************************************************************************)
EXTENDS GemmKernels, ConvKernels, LayernormKernels

GemmNames == {"sc_st_gemm", "gemm_fp32_naive_unrolled", "gemm_fp32_baseline",
              "gemm_fp16_baseline", "gemm_fp8_baseline"}
ConvNames == {"conv2d_fp64", "conv2d_fp32", "conv2d_dw_fp32", "conv2d_chw_fp32"}

LayernormNames == {"layernorm_fp32_naive", "layernorm_fp32_opt", "layernorm_fp16_naive"}

OutputSize(j) ==
    CASE j.layer \in GemmNames -> Max({t.c + t.m * t.ldc : t \in Range(j.tiles)})
      [] j.layer \in ConvNames -> j.k.dim_out_y * output_h_stride(j.k)
      [] j.layer \in LayernormNames -> j.l.batch_size * batch_offset(j.l)

(* The output buffer before the call. *)
OldOutput(j) ==
    [a \in 0..(OutputSize(j) - 1) |-> IF j.layer \in LayernormNames THEN LnOld ELSE Old]

(* Core c's call for tile t of a matrix multiplication. *)
GemmCall(j, t, c, s) ==
    LET g == CallOf(t, c, j.cores)
    IN  CASE j.layer = "sc_st_gemm" -> sc_st_gemm(t, c, j.cores, s)
          [] j.layer = "gemm_fp32_naive_unrolled" -> gemm_fp32_naive_unrolled(g, s)
          [] j.layer = "gemm_fp32_baseline" -> gemm_fp32_baseline(g, s)
          [] j.layer = "gemm_fp16_baseline" -> gemm_fp16_baseline(g, s)
          [] j.layer = "gemm_fp8_baseline" -> gemm_fp8_baseline(g, s)

LayernormCall(j, c, s) ==
    CASE j.layer = "layernorm_fp32_naive" -> layernorm_fp32_naive(j.l, c, j.cores, s)
      [] j.layer = "layernorm_fp32_opt" -> layernorm_fp32_opt(j.l, c, j.cores, s)
      [] j.layer = "layernorm_fp16_naive" -> layernorm_fp16_naive(j.l, c, j.cores, s)

(* The loops of a convolution before the barrier. *)
ConvCall(j, s) ==
    CASE j.layer = "conv2d_fp64" -> conv2d_fp64(j.k, j.cores, s)
      [] j.layer = "conv2d_fp32" -> conv2d_fp32(j.k, j.cores, s)
      [] j.layer = "conv2d_dw_fp32" -> conv2d_dw_fp32(j.k, j.cores, s)
      [] j.layer = "conv2d_chw_fp32" -> conv2d_chw_fp32(j.k, j.cores, s)

(* Batch normalisation and ReLU after it, if the layer has them. *)
NormAndRelu(j, s) ==
    CASE ~(j.k.flag_batch_norm \/ j.k.flag_relu) -> s
      [] (j.k.flag_batch_norm \/ j.k.flag_relu) /\ j.layer = "conv2d_fp64" ->
             conv2d_fp64_bn(j.k, j.cores, s)
      [] OTHER -> bn_relu(j.k, j.cores, s)

-----------------------------------------------------------------------------
(* The matrices of a tile, row by row. *)
ProductsOfGemm(t, m, n) ==
    {<<t.a + m * t.lda + k, t.b + (IF t.transb THEN n * t.ldb + k ELSE k * t.ldb + n)>> :
        k \in 0..(t.k - 1)}

IsProduct(t, out) ==
    \A m \in 0..(t.m - 1), n \in 0..(t.n - 1) :
        IsExactly(out[t.c + m * t.ldc + n], t.beta, ProductsOfGemm(t, m, n), <<>>)

(* Input location and weight location of every product of output (h, w,    *)
(* co), by the layouts the comments of conv2d.h give.                      *)
ProductsOfConv(kernel, k, h, w, co) ==
    LET y(fh) == h * k.stride_y + fh
        x(fw) == w * k.stride_x + fw
        HWC(fh, fw, ci) == (y(fh) * dim_in_eff_x(k) + x(fw)) * k.ch_in + ci
        CHW(fh, fw, ci) == (ci * dim_in_eff_y(k) + y(fh)) * dim_in_eff_x(k) + x(fw)
        Fh == 0..(k.dim_kernel_y - 1)
        Fw == 0..(k.dim_kernel_x - 1)
        Ci == 0..(k.ch_in - 1)
    IN  CASE kernel = "conv2d_dw_fp32" ->
               {<<HWC(fh, fw, co), (fh * k.dim_kernel_x + fw) * k.ch_in + co>> :
                    fh \in Fh, fw \in Fw}
          [] kernel = "conv2d_chw_fp32" ->
               {<<CHW(fh, fw, ci),
                  ((co * k.ch_in + ci) * k.dim_kernel_y + fh) * k.dim_kernel_x + fw>> :
                    fh \in Fh, fw \in Fw, ci \in Ci}
          [] OTHER ->
               {<<HWC(fh, fw, ci),
                  ((co * k.dim_kernel_y + fh) * k.dim_kernel_x + fw) * k.ch_in + ci>> :
                    fh \in Fh, fw \in Fw, ci \in Ci}

(* Element (h, w, co) is the convolution, followed by post. *)
IsConvAt(j, out, h, w, co, post) ==
    IsExactly(out[h * output_h_stride(j.k) + w * j.k.ch_out + co],
              IF j.k.flag_y_accumulate_start THEN 0 ELSE 1,
              ProductsOfConv(j.layer, j.k, h, w, co), post)

OutputIndices(k) == (0..(k.dim_out_y - 1)) \X (0..(k.dim_out_x - 1)) \X (0..(k.ch_out - 1))

IsConvolution(j, out) ==
    \A x \in OutputIndices(j.k) : IsConvAt(j, out, x[1], x[2], x[3], Post(j.k, x[3]))
=============================================================================
