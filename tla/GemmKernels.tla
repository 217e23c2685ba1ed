---------------------------- MODULE GemmKernels ----------------------------
(***************************************************************************)
(* The matrix multiplication kernels of sw/blas/gemm/src: one tile, all    *)
(* operands in the TCDM.  A kernel is a function from the call g and the   *)
(* state s of the core (ssr, its data movers, and out, where C is) to its  *)
(* new state.  A call is a record:                                         *)
(*   M, N, K       the size of the part of the tile the core computes      *)
(*   a, ldA, ta    where A starts, its leading dimension, A transposed     *)
(*   b, ldB, tb    the same for B                                          *)
(*   c, ldC        the same for C                                          *)
(*   beta          the factor of the old C                                 *)
(*   setup         setup_SSR                                               *)
(* sc_st_gemm makes the calls of the cores of a cluster.                   *)
(***************************************************************************)
EXTENDS Ssr

unroll == 8

(* The row and column of C that location x is for the call, if it is one   *)
(* of the call's.                                                          *)
RowOf(g, x) == (x - g.c) \div g.ldC
ColOf(g, x) == (x - g.c) % g.ldC
Covers(g, x) == x >= g.c /\ RowOf(g, x) < g.M /\ ColOf(g, x) < g.N

(* Every element of C that the call covers gets Element of its row and     *)
(* column; all else is unchanged.                                          *)
Store(g, s, Element(_, _, _)) ==
    [s EXCEPT !.out =
        [x \in DOMAIN @ |->
            IF Covers(g, x) THEN Element(RowOf(g, x), ColOf(g, x), @[x]) ELSE @[x]]]

(* Where the scalar loops find A[m][k] and B[k][n].                        *)
AddrA(g, m, k) == g.a + (IF g.ta THEN k * g.M * g.ldA + m * g.ldA ELSE k + m * g.ldA)
AddrB(g, k, n) == g.b + (IF g.tb THEN k + n * g.ldB ELSE k * g.ldB + n)

(* The products of a scalar loop over k in ks.                             *)
Loop(g, m, n, ks) ==
    [n |-> Cardinality(ks), p |-> {<<AddrA(g, m, k), AddrB(g, k, n)>> : k \in ks}]

(* "Load intermediate result": C itself, whatever the factor.              *)
Load(g, old) == IF g.beta # 0 THEN old ELSE Zero

-----------------------------------------------------------------------------
(* gemm_fp64_naive and gemm_fp32_naive. *)
gemm_fp64_naive(g, s) ==
    Store(g, s, LAMBDA m, n, old : Plus(Scale(old, g.beta), Loop(g, m, n, 0..(g.K - 1))))
gemm_fp32_naive(g, s) ==
    Store(g, s, LAMBDA m, n, old : Plus(Scale(old, g.beta), Loop(g, m, n, 0..(g.K - 1))))

(* gemm_fp32_naive_unrolled: four values of k at a time, also when K is    *)
(* not a multiple of four.                                                 *)
gemm_fp32_naive_unrolled(g, s) ==
    LET Bound == IF g.ta /\ g.tb THEN g.K ELSE 4 * ((g.K + 3) \div 4)
    IN  Store(g, s, LAMBDA m, n, old : Plus(Scale(old, g.beta), Loop(g, m, n, 0..(Bound - 1))))

(* The SIMD loops without streams take w values of k at a time, both       *)
(* operands row by row.  The one of fp32 multiplies the first pair before  *)
(* a loop that tests at its end.                                           *)
SimdLoop(g, m, n, words, w) ==
    [n |-> words * w,
     p |-> {<<g.a + m * g.ldA + k, g.b + n * g.ldB + k>> : k \in 0..(words * w - 1)}]

gemm_fp32_baseline(g, s) ==
    LET words == IF g.K <= 4 THEN 2 ELSE (g.K + 1) \div 2
    IN  Store(g, s, LAMBDA m, n, old : Plus(Load(g, old), SimdLoop(g, m, n, words, 2)))
gemm_fp16_baseline(g, s) ==
    Store(g, s, LAMBDA m, n, old : Plus(Load(g, old), SimdLoop(g, m, n, (g.K + 3) \div 4, 4)))

(* gemm_fp8_naive has no use for beta and wants B transposed.              *)
gemm_fp8_naive(g, s) ==
    Store(g, s, LAMBDA m, n, old : Plus(Zero, SimdLoop(g, m, n, g.K, 1)))
(* beta is taken for an address: what is loaded from there decides whether *)
(* C is added.                                                             *)
gemm_fp8_baseline(g, s) ==
    Store(g, s, LAMBDA m, n, old : Plus(IF g.betaLoads THEN old ELSE Zero,
                                        SimdLoop(g, m, n, (g.K + 7) \div 8, 8)))

-----------------------------------------------------------------------------
(* The streams of the optimised kernels, for words of w elements: A is     *)
(* read row by row, each word repeated for the eight accumulators, B eight *)
(* columns at a time.  The kernels start both as four loops; the fourth of *)
(* the first and the repetition of the second are not programmed.          *)
gemm_fp64_opt_ssr0(ssr, g) ==
    snrt_ssr_repeat(
        snrt_ssr_loop(1, ssr, DM0, <<g.K, g.N \div unroll, g.M>>,
            IF g.ta THEN <<g.ldA, 0, 8>> ELSE <<1, 0, g.ldA>>), DM0, unroll)
gemm_fp64_opt_ssr1(ssr, g) ==
    snrt_ssr_loop(1, ssr, DM1, <<unroll, g.K, g.N \div unroll, g.M>>,
        IF g.tb THEN <<g.ldB, 1, g.ldB * unroll, 0>> ELSE <<1, g.ldB, unroll, 0>>)
gemm_fp64_opt_setup(ssr, g) == gemm_fp64_opt_ssr1(gemm_fp64_opt_ssr0(ssr, g), g)

simd_ssr0(ssr, g, w) ==
    snrt_ssr_repeat(
        snrt_ssr_loop(w, ssr, DM0, <<g.K \div w, g.N \div unroll, g.M>>, <<w, 0, g.ldA>>),
        DM0, unroll)
simd_ssr1(ssr, g, w) ==
    snrt_ssr_loop(w, ssr, DM1, <<unroll, g.K \div w, g.N \div unroll, g.M>>,
        <<g.ldB, w, unroll * g.ldB, 0>>)

gemm_fp32_opt_setup(ssr, g) == simd_ssr1(simd_ssr0(ssr, g, 2), g, 2)
gemm_fp16_opt_setup(ssr, g) == simd_ssr1(simd_ssr0(ssr, g, 4), g, 4)
gemm_fp16_ex_opt_setup(ssr, g) == simd_ssr1(simd_ssr0(ssr, g, 4), g, 4)
gemm_fp8_ex_opt_setup(ssr, g) == simd_ssr1(simd_ssr0(ssr, g, 8), g, 8)

(* The accumulator of column n of row m: a frep of words iterations for    *)
(* each block of eight columns, over streams that last the whole call and  *)
(* run as the data movers were programmed, by this call or an earlier one. *)
Streamed(g, w, ssr, m, n, words) ==
    LET blocks == g.N \div unroll
    IN  Frep(snrt_ssr_start(w, ssr, DM0, 4, g.a), snrt_ssr_start(w, ssr, DM1, 4, g.b),
             (m * blocks + n \div unroll) * unroll * words,
             unroll, n % unroll, words, 0..(w - 1), g.M * blocks * unroll * words)

Blocked(g, n) == n < unroll * (g.N \div unroll)

(* The leftover columns of fp64 and fp32 read B as if it were transposed.  *)
Leftover(g, m, n) == Loop([g EXCEPT !.ta = FALSE, !.tb = TRUE], m, n, 0..(g.K - 1))

(* The core after a call that ran with the data movers ssr.                *)
After(s, ssr) == [s EXCEPT !.ssr = snrt_ssr_disable(ssr)]

gemm_fp64_opt(g, s) ==
    LET ssr == IF g.setup THEN gemm_fp64_opt_setup(s.ssr, g) ELSE s.ssr
    IN  Store(g, After(s, ssr), LAMBDA m, n, old :
            Plus(Load(g, old), IF Blocked(g, n) THEN Streamed(g, 1, ssr, m, n, g.K)
                               ELSE Leftover(g, m, n)))

(* n advances by 16 for a block of 8 columns: the clean-up loop starts     *)
(* where 16 columns per block would end.                                   *)
gemm_fp32_opt(g, s) ==
    LET ssr == IF g.setup THEN gemm_fp32_opt_setup(s.ssr, g) ELSE s.ssr
    IN  Store(g, After(s, ssr), LAMBDA m, n, old :
            CASE Blocked(g, n) -> Plus(Load(g, old), Streamed(g, 2, ssr, m, n, g.K \div 2))
              [] ~Blocked(g, n) /\ n >= 2 * unroll * (g.N \div unroll) ->
                     Plus(Load(g, old), Leftover(g, m, n))
              [] OTHER -> old)

(* The clean-up loops of the narrower types are commented out.             *)
gemm_fp16_opt(g, s) ==
    LET ssr == IF g.setup THEN gemm_fp16_opt_setup(s.ssr, g) ELSE s.ssr
    IN  Store(g, After(s, ssr), LAMBDA m, n, old :
            IF Blocked(g, n) THEN Plus(Load(g, old), Streamed(g, 4, ssr, m, n, g.K \div 4))
            ELSE old)
gemm_fp16_ex_opt(g, s) ==
    LET ssr == IF g.setup THEN gemm_fp16_ex_opt_setup(s.ssr, g) ELSE s.ssr
    IN  Store(g, After(s, ssr), LAMBDA m, n, old :
            IF Blocked(g, n) THEN Plus(Load(g, old), Streamed(g, 4, ssr, m, n, g.K \div 4))
            ELSE old)
gemm_fp8_ex_opt(g, s) ==
    LET ssr == IF g.setup THEN gemm_fp8_ex_opt_setup(s.ssr, g) ELSE s.ssr
    IN  Store(g, After(s, ssr), LAMBDA m, n, old :
            IF Blocked(g, n)
            THEN Plus(IF g.betaLoads THEN old ELSE Zero, Streamed(g, 8, ssr, m, n, g.K \div 8))
            ELSE old)

-----------------------------------------------------------------------------
(* The call of core id of compute_num cores for a tile t: the cores work   *)
(* on strided rows.                                                        *)
CallOf(t, id, compute_num) ==
    [M |-> t.m \div compute_num, N |-> t.n, K |-> t.k,
     a |-> t.a + id * t.lda, ldA |-> compute_num * t.lda, ta |-> t.transa,
     b |-> t.b, ldB |-> t.ldb, tb |-> t.transb,
     c |-> t.c + id * t.ldc, ldC |-> compute_num * t.ldc,
     beta |-> t.beta, betaLoads |-> t.betaLoads, setup |-> t.setup_ssr]

sc_st_gemm(t, id, compute_num, s) ==
    LET g == CallOf(t, id, compute_num)
    IN  CASE t.prec = "FP64" /\ t.baseline -> gemm_fp64_naive(g, s)
          [] t.prec = "FP64" /\ ~t.baseline -> gemm_fp64_opt(g, s)
          [] t.prec = "FP32" /\ t.baseline -> gemm_fp32_naive(g, s)
          [] t.prec = "FP32" /\ ~t.baseline -> gemm_fp32_opt(g, s)
          [] t.prec = "FP16" /\ t.expand -> gemm_fp16_ex_opt(g, s)
          [] t.prec = "FP16" /\ ~t.expand -> gemm_fp16_opt(g, s)
          [] t.prec = "FP8" /\ t.baseline -> gemm_fp8_naive(g, s)
          [] OTHER -> gemm_fp8_ex_opt(g, s)
=============================================================================
