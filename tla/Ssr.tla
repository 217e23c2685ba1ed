-------------------------------- MODULE Ssr --------------------------------
(***************************************************************************)
(* The stream semantic registers as the kernels program them through       *)
(* sw/snRuntime/src/ssr.h: a data mover has up to four nested loops, each  *)
(* with a bound and a stride register, and a repetition register; starting *)
(* it makes every access of its floating point register the next element   *)
(* of the stream.  Addresses and strides are counted in elements, w of     *)
(* which make a 64-bit word.                                               *)
(*                                                                         *)
(* What a kernel computes is kept as a symbolic value: how often the old   *)
(* content of the location is in it, the products that were added (as a    *)
(* set and as a count, so that a product added twice shows), and what was  *)
(* applied afterwards.  Rounding is left out.                              *)
(***************************************************************************)
EXTENDS Integers, Sequences, FiniteSets, SequencesExt

(* The data movers of a core. *)
DM0 == 1
DM1 == 2
DM2 == 3

(* The registers of a data mover.  A bound register holds the number of    *)
(* iterations less one, a stride register the distance in words from the   *)
(* last address of the inner loops to the next address.                    *)
ResetReg == [b |-> <<0, 0, 0, 0>>, j |-> <<0, 0, 0, 0>>, rep |-> 0]
ResetSsr == [dm \in {DM0, DM1, DM2} |-> ResetReg]

(* The iterations of a loop whose bound register wrapped below 0: more     *)
(* than any kernel consumes.                                               *)
Endless == 4096

(* WordAddrMask: the hardware keeps strides a multiple of the word, and    *)
(* the memory ignores the low bits of an address.                          *)
Word(w, a) == (a \div w) * w

(* snrt_ssr_loop_1d ... snrt_ssr_loop_4d: the registers of the loops that  *)
(* are not named keep what an earlier kernel left in them.                 *)
snrt_ssr_loop(w, ssr, dm, b, s) ==
    LET d == Len(b)
        a[i \in 1..d] == IF i = 1 THEN 0 ELSE a[i - 1] + s[i - 1] * (b[i - 1] - 1)
        reg == ssr[dm]
    IN  [ssr EXCEPT
            ![dm].b = [i \in 1..4 |-> IF i <= d THEN b[i] - 1 ELSE reg.b[i]],
            ![dm].j = [i \in 1..4 |-> IF i <= d THEN (s[i] - a[i]) \div w ELSE reg.j[i]]]

snrt_ssr_repeat(ssr, dm, count) == [ssr EXCEPT ![dm].rep = count - 1]

(* Mutant: disabling the streams clears what they were programmed with. *)
snrt_ssr_disable_resets(ssr) == ResetSsr

(* The floating point registers are registers again; the data movers keep  *)
(* what they were programmed with.                                         *)
snrt_ssr_disable(ssr) == ssr

(* snrt_ssr_read and snrt_ssr_write: the stream that starts at base and    *)
(* runs the innermost dim loops.                                           *)
snrt_ssr_start(w, ssr, dm, dim, base) ==
    LET reg == ssr[dm]
    IN  [w |-> w, base |-> base, rep |-> reg.rep + 1,
         b |-> [i \in 1..dim |-> IF reg.b[i] < 0 THEN Endless ELSE reg.b[i] + 1],
         j |-> [i \in 1..dim |-> w * reg.j[i]]]

(* The number of elements below loop i, and the length of the stream.      *)
Period(st, i) ==
    LET p[k \in 1..(Len(st.b) + 1)] == IF k = 1 THEN 1 ELSE p[k - 1] * st.b[k - 1]
    IN  p[i]
Length(st) == st.rep * Period(st, Len(st.b) + 1)

(* A kernel has to take all of a stream: what it leaves comes before the   *)
(* next stream of the data mover.                                          *)
Consumed(st, n) == Length(st) = n

NoData == -1

(* The address of element n: each step takes the stride of the outermost   *)
(* loop that advances (snitch_ssr_addr_gen.sv).  Beyond the end of the     *)
(* stream there is no data and the core waits for ever.                    *)
At(st, n) ==
    LET q == n \div st.rep
        d == Len(st.b)
        Steps(i) == q \div Period(st, i)
                      - (IF i < d THEN q \div Period(st, i + 1) ELSE 0)
        sum[i \in 0..d] == IF i = 0 THEN 0 ELSE sum[i - 1] + Steps(i) * st.j[i]
    IN  IF n >= Length(st) THEN NoData ELSE Word(st.w, st.base + sum[d])

-----------------------------------------------------------------------------
Zero == [old |-> 0, n |-> 0, p |-> {}, post |-> <<>>]
Old == [Zero EXCEPT !.old = 1]

Plus(v, d) == [v EXCEPT !.n = @ + d.n, !.p = @ \cup d.p]
Scale(v, s) == IF s = 0 THEN Zero ELSE [v EXCEPT !.old = @ * s]

(* The products of accumulator i of u in n iterations of a frep over u     *)
(* multiply-accumulate instructions: in every iteration instruction i      *)
(* takes one word of each stream, of which it multiplies the given lanes.  *)
(* The freps of a stream take total words of it; if the streams are of     *)
(* another length nothing is known of the sums.                            *)
Frep(x, y, first, u, i, n, lanes, total) ==
    LET Position(t) == first + t * u + i
    IN  IF Consumed(x, total) /\ Consumed(y, total)
        THEN [n |-> n * Cardinality(lanes),
              p |-> {<<At(x, Position(t)) + l, At(y, Position(t)) + l>> :
                         t \in 0..(n - 1), l \in lanes}]
        ELSE [n |-> 1, p |-> {<<NoData, NoData>>}]

(* v is the old content s times plus each product of p once, then post.    *)
IsExactly(v, s, p, post) == v = [old |-> s, n |-> Cardinality(p), p |-> p, post |-> post]
=============================================================================
