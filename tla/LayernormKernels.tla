-------------------------- MODULE LayernormKernels --------------------------
(***************************************************************************)
(* The layer normalisation kernels of sw/dnn/layernorm/src: the naive ones *)
(* and the one of fp32 with streams.  A kernel is a function from the      *)
(* layer l (batch_size, seq_len and embeddings of the tile), the core id,  *)
(* the number n of compute cores and the state s of the core (ssr, its     *)
(* data movers, and out, the output tile) to its new state.  An element of *)
(* the output is                                                           *)
(*   of      the input element it is computed from                         *)
(*   mean    the number of elements in the mean, and which they are        *)
(*   var     the same for the variance                                     *)
(* w elements are a 64-bit word.                                           *)
(***************************************************************************)
EXTENDS Ssr

UNROLL == 4

(* The cores take the rows in turns. *)
ln_offset(l, id) == id * l.embeddings
ln_stride(l, n) == n * l.embeddings
ln_rows(l, n) == l.seq_len \div n
batch_offset(l) == l.seq_len * l.embeddings

NoSum == <<0, {}>>
LnOld == [of |-> -1, mean |-> NoSum, var |-> NoSum]

(* The scalar loops over the row of element a, if it is one of the core's. *)
layernorm_fp32_naive(l, id, n, s) ==
    LET InBatch(a) == a % batch_offset(l)
        r(a) == InBatch(a) \div l.embeddings - id
        Mine(a) == r(a) >= 0 /\ r(a) % n = 0 /\ r(a) \div n < ln_rows(l, n)
        RowAt(a) == <<l.embeddings,
                      {a - (a % l.embeddings) + i : i \in 0..(l.embeddings - 1)}>>
    IN  [s EXCEPT !.out = [a \in DOMAIN @ |->
            IF Mine(a) THEN [of |-> a, mean |-> RowAt(a), var |-> RowAt(a)] ELSE @[a]]]
layernorm_fp16_naive(l, id, n, s) == layernorm_fp32_naive(l, id, n, s)

-----------------------------------------------------------------------------
n_frep(l, w) == l.embeddings \div (UNROLL * w)

(* Mutant: the next row of the core is taken to be the next row. *)
ln_rows_setup_adjacent(ssr, dm, l, n, w) ==
    snrt_ssr_loop(w, ssr, dm, <<UNROLL, n_frep(l, w), 2, ln_rows(l, n)>>,
                  <<w, UNROLL * w, 0, l.embeddings>>)

(* The input is read, and the output written, in two passes over each row; *)
(* the third stream reads back a row of the output.                        *)
ln_rows_setup(ssr, dm, l, n, w) ==
    snrt_ssr_loop(w, ssr, dm, <<UNROLL, n_frep(l, w), 2, ln_rows(l, n)>>,
                  <<w, UNROLL * w, 0, ln_stride(l, n)>>)
ln_back_setup(ssr, l, w) ==
    snrt_ssr_loop(w, ssr, DM2, <<UNROLL, n_frep(l, w)>>, <<w, UNROLL * w>>)

layernorm_fp32_opt_setup(ssr, l, n, w) ==
    ln_back_setup(ln_rows_setup(ln_rows_setup(ssr, DM0, l, n, w), DM1, l, n, w), l, w)

(* The sum of the lanes of the words of a stream from number first on. *)
SumOfLanes(st, first, words, w) ==
    <<words * w, {At(st, first + m) + i : m \in 0..(words - 1), i \in 0..(w - 1)}>>

(* out after the words of a stream from number first on were written:      *)
(* Value(m, i) in lane i of the m-th of them.                              *)
WriteStream(out, st, first, words, w, Value(_, _)) ==
    [a \in DOMAIN out |->
        LET Hits == {m \in 0..(words - 1) : At(st, first + m) = Word(w, a)}
        IN  IF Hits = {} THEN out[a] ELSE Value(CHOOSE m \in Hits : TRUE, a % w)]

(* Row r of a batch b: the sum of the row; then the differences from the   *)
(* mean written to the output, and their squares added; then the output    *)
(* read back, scaled and written again.  That the first words are in       *)
(* memory when they are read back is assumed: the kernel waits for the     *)
(* FPU, not for the write stream, but a division and a square root come in *)
(* between.                                                                *)
ln_row(l, id, n, w, b, r, ssr, out) ==
    LET base == ln_offset(l, id) + b * batch_offset(l)
        words == UNROLL * n_frep(l, w)
        first == 2 * r * words
        ft0 == snrt_ssr_start(w, ssr, DM0, 4, base)
        ft1 == snrt_ssr_start(w, ssr, DM1, 4, base)
        ft2 == snrt_ssr_start(w, ssr, DM2, 2, base + r * ln_stride(l, n))
        mean == SumOfLanes(ft0, first, words, w)
        squares == SumOfLanes(ft0, first + words, words, w)
        shifted == WriteStream(out, ft1, first, words, w, LAMBDA m, i :
                       [of |-> At(ft0, first + words + m) + i, mean |-> mean, var |-> NoSum])
    IN  IF /\ Consumed(ft0, 2 * ln_rows(l, n) * words)
           /\ Consumed(ft1, 2 * ln_rows(l, n) * words)
           /\ Consumed(ft2, words)
        THEN WriteStream(shifted, ft1, first + words, words, w, LAMBDA m, i :
                 [shifted[At(ft2, m) + i] EXCEPT !.var = squares])
        ELSE out

(* The rows of the core, batch by batch; the streams are programmed and    *)
(* started for every batch.                                                *)
layernorm_fp32_opt(l, id, n, s) ==
    LET w == 2
        rows == ln_rows(l, n)
        Batch(t, b) ==
            LET ssr == layernorm_fp32_opt_setup(t.ssr, l, n, w)
            IN  [ssr |-> snrt_ssr_disable(ssr),
                 out |-> FoldLeft(LAMBDA out, r : ln_row(l, id, n, w, b - 1, r - 1, ssr, out),
                                  t.out, [r \in 1..rows |-> r])]
    IN  FoldLeft(Batch, s, [b \in 1..l.batch_size |-> b])

-----------------------------------------------------------------------------
(* Every element is computed from itself and the mean and the variance of  *)
(* its row.                                                                *)
IsLayernorm(l, out) ==
    \A a \in DOMAIN out :
        LET row == {a - (a % l.embeddings) + i : i \in 0..(l.embeddings - 1)}
        IN  out[a] = [of |-> a, mean |-> <<l.embeddings, row>>, var |-> <<l.embeddings, row>>]
=============================================================================
