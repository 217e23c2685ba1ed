----------------------------- MODULE Attention -----------------------------
(***************************************************************************)
(* flashattention_2_layer of sw/dnn/flashattention_2/src: attention block  *)
(* by block, with the maxima m_i and the sums l_i of a row kept from one   *)
(* block of keys to the next.  l.score[i][j] is the product of query i and *)
(* key j, an integer, and what is computed from it is kept as exponents.   *)
(* The values of locations:                                                *)
(*   S_fa    <<key, score>>                                                *)
(*   m_i     an integer                                                    *)
(*   P_fa    <<key, x>> for e^x                                            *)
(*   l_i     a function from keys to exponents, for the sum of e^x         *)
(*   O_fa    a function from <<key, row of V>> to exponents, for the sum   *)
(*           of e^x times the row of V; after the last division with l_i   *)
(***************************************************************************)
EXTENDS ClusterProgram

NegInf == -100

(* Terms that are in both sums are added twice, which no single power of e *)
(* stands for.                                                             *)
Twice == 100
Merge(f, g) ==
    [x \in DOMAIN f \cup DOMAIN g |->
        IF x \in DOMAIN f \cap DOMAIN g THEN Twice ELSE IF x \in DOMAIN f THEN f[x] ELSE g[x]]
ShiftBy(f, d) == [x \in DOMAIN f |-> f[x] + d]

(* The steps on a row of S take the values v: v[1] is the old value or an  *)
(* element of the row, v[2] the old maximum, the others are the row.       *)
Scores(v) == SubSeq(v, 3, Len(v))
RowMax(v) == FoldLeft(LAMBDA m, s : IF s[2] > m THEN s[2] ELSE m, v[2], Scores(v))
shifted_exp(v) == v[2] - RowMax(v)
row_sum(v) ==
    FoldLeft(LAMBDA f, s : Merge(f, [key \in {s[1]} |-> s[2] - RowMax(v)]), <<>>, Scores(v))

(* The product of a row of P with a column of V, added to O. *)
PV(O, P, V, d) ==
    Merge(O, [x \in {<<P[i][1], V[i][2][1] \div d>> : i \in 1..Len(P)} |->
                P[CHOOSE i \in 1..Len(P) : P[i][1] = x[1]][2]])

Score(l, q, k) ==
    LET i == q[1][2][1] \div l.d
        j == k[1][2][1] % l.N
    IN  IF \A t \in 1..l.d : q[t] = <<"Q", <<i * l.d + t - 1>>>> /\ k[t] = <<"K", <<(t - 1) * l.N + j>>>>
        THEN <<j, l.score[i + 1][j + 1]>> ELSE <<-1, 0>>

AttentionValue(l, f, v) ==
    CASE f = "neginf" -> NegInf
      [] f = "empty" -> <<>>
      [] f = "score" -> Score(l, SubSeq(v, 1, l.d), SubSeq(v, l.d + 1, 2 * l.d))
      [] f = "max" -> RowMax(v)
      [] f = "p" -> <<v[1][1], v[1][2] - RowMax(v)>>
      [] f = "sum0" -> row_sum(v)
      [] f = "sum" -> Merge(ShiftBy(v[1], shifted_exp(v)), row_sum(v))
      [] f = "rescale" -> ShiftBy(v[1], -shifted_exp(v))
      [] f = "pv0" -> PV(<<>>, SubSeq(v, 2, l.B_c + 1), SubSeq(v, l.B_c + 2, 2 * l.B_c + 1), l.d)
      [] f = "pv" -> PV(v[1], SubSeq(v, 2, l.B_c + 1), SubSeq(v, l.B_c + 2, 2 * l.B_c + 1), l.d)
      [] f = "divide" -> [O |-> v[1], l |-> v[2]]

-----------------------------------------------------------------------------
(* The buffers in the TCDM. *)
Q_fa(e, l) == L1(e.cluster_idx, 0)
K_fa(e, l) == Off(Q_fa(e, l), l.B_r * l.d)
V_fa(e, l) == Off(K_fa(e, l), l.B_c * l.d)
S_fa(e, l) == Off(V_fa(e, l), l.B_c * l.d)
P_fa(e, l) == Off(S_fa(e, l), l.B_r * l.B_c)
O_fa(e, l) == Off(P_fa(e, l), l.B_r * l.B_c)
m_i(e, l) == Off(O_fa(e, l), l.B_r * l.d)
l_i(e, l) == Off(m_i(e, l), 2 * l.B_r)

rows_per_core(e, l) == l.B_r \div e.compute_num
start_row(e, l) == rows_per_core(e, l) * snrt_global_core_idx(e)

(* An effect on rows of n elements of p: those of this core in the loops   *)
(* over its rows, and those sc_st_gemm gives it.                           *)
OwnRows(e, l, p, n, How(_)) ==
    [x \in Range2d(Off(p, start_row(e, l) * n), n, n, rows_per_core(e, l)) |-> How(x[3] - p[3])]
GemmRows(e, l, p, n, How(_)) ==
    [x \in Range2d(Off(p, e.core_idx * n), n, e.compute_num * n, l.B_r \div e.compute_num) |->
        How(x[3] - p[3])]

init_rows(e, l) ==
    Compute(Merge(OwnRows(e, l, m_i(e, l), 1, LAMBDA o : Term("neginf", <<>>)),
                  OwnRows(e, l, l_i(e, l), 1, LAMBDA o : Term("empty", <<>>))))

Elems(p, n, stride) == [i \in 1..n |-> Off(p, (i - 1) * stride)]

(* S = Q K^T *)
gemm_S(e, l) ==
    Compute(GemmRows(e, l, S_fa(e, l), l.B_c, LAMBDA o :
        Term("score", Elems(Off(Q_fa(e, l), (o \div l.B_c) * l.d), l.d, 1)
                          \o Elems(Off(K_fa(e, l), o % l.B_c), l.d, l.B_c))))

(* The maximum, P, l_i and O of the rows. *)
update_rows(e, l, t_c) ==
    LET Row(r) == <<Off(m_i(e, l), r)>> \o Elems(Off(S_fa(e, l), r * l.B_c), l.B_c, 1)
        m == OwnRows(e, l, m_i(e, l), 1, LAMBDA o : Term("max", <<Off(m_i(e, l), o)>> \o Row(o)))
        P == OwnRows(e, l, P_fa(e, l), l.B_c, LAMBDA o :
                 Term("p", <<Off(S_fa(e, l), o)>> \o Row(o \div l.B_c)))
        s == OwnRows(e, l, l_i(e, l), 1, LAMBDA o :
                 Term(IF t_c = 0 THEN "sum0" ELSE "sum", <<Off(l_i(e, l), o)>> \o Row(o)))
        O == OwnRows(e, l, O_fa(e, l), l.d, LAMBDA o :
                 Term("rescale", <<Off(O_fa(e, l), o)>> \o Row(o \div l.d)))
    IN  Compute(Merge(Merge(m, P), IF t_c = 0 THEN s ELSE Merge(s, O)))

(* O = P V, or O + P V *)
gemm_O(e, l, t_c) ==
    Compute(GemmRows(e, l, O_fa(e, l), l.d, LAMBDA o :
        Term(IF t_c = 0 THEN "pv0" ELSE "pv",
             <<Off(O_fa(e, l), o)>>
                 \o Elems(Off(P_fa(e, l), (o \div l.d) * l.B_c), l.B_c, 1)
                 \o Elems(Off(V_fa(e, l), o % l.d), l.B_c, l.d))))

(* One block of keys. *)
key_block(e, l, t_c) ==
    snrt_cluster_hw_barrier
    \o When(IsDm(e),
            snrt_dma_start_2d(K_fa(e, l), <<"K", 0, t_c * l.B_c>>, l.B_c, l.B_c, l.N, l.d)
            \o snrt_dma_start_2d(V_fa(e, l), <<"V", 0, t_c * l.B_c * l.d>>, l.d, l.d, l.d, l.B_c)
            \o snrt_dma_wait_all)
    \o snrt_cluster_hw_barrier
    \o When(~IsDm(e), gemm_S(e, l)) \o snrt_cluster_hw_barrier
    \o When(~IsDm(e), update_rows(e, l, t_c)) \o snrt_cluster_hw_barrier
    \o snrt_cluster_hw_barrier
    \o When(~IsDm(e), gemm_O(e, l, t_c)) \o snrt_cluster_hw_barrier

(* One block of queries. *)
query_block(e, l, t_r) ==
    When(IsDm(e),
         snrt_dma_start_2d(Q_fa(e, l), <<"Q", 0, t_r * l.B_r * l.d>>, l.d, l.d, l.d, l.B_r)
         \o snrt_dma_wait_all)
    \o snrt_cluster_hw_barrier
    \o When(~IsDm(e), init_rows(e, l))
    \o snrt_cluster_hw_barrier \o snrt_cluster_hw_barrier
    \o ForEach(Upto(0, l.N \div l.B_c, 1), LAMBDA t_c : key_block(e, l, t_c))
    \o snrt_cluster_hw_barrier
    \o When(~IsDm(e),
            Compute(OwnRows(e, l, O_fa(e, l), l.d, LAMBDA o :
                Term("divide", <<Off(O_fa(e, l), o), Off(l_i(e, l), o \div l.d)>>))))
    \o snrt_cluster_hw_barrier \o snrt_cluster_hw_barrier
    \o When(IsDm(e),
            snrt_dma_start_2d(<<"O", 0, t_r * l.B_r * l.d>>, O_fa(e, l), l.d, l.d, l.d, l.B_r)
            \o snrt_dma_wait_all)

flashattention_2_layer(e, l) ==
    ForEach(Upto(0, l.N \div l.B_r, 1), LAMBDA t_r : query_block(e, l, t_r))
    \o snrt_cluster_hw_barrier

(* The element of a row of O that is the attention over all N keys: every  *)
(* row of V with the exponent of its key, over the sum of the same.        *)
IsAttention(l, o, i) ==
    LET keys == 0..(l.N - 1)
        highest == CHOOSE j \in 1..l.N : \A k \in 1..l.N : l.score[i + 1][k] <= l.score[i + 1][j]
        Exponent(key) == l.score[i + 1][key + 1] - l.score[i + 1][highest]
    IN  o = [O |-> [x \in {<<key, key>> : key \in keys} |-> Exponent(x[1])],
             l |-> [key \in keys |-> Exponent(key)]]
=============================================================================
