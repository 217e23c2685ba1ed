----------------------------- MODULE KmpStatic ------------------------------
(***************************************************************************)
(* __kmpc_for_static_init_4 (and _4u, which only converts the types) of    *)
(* sw/snRuntime/src/omp/kmp.c: each thread of a parallel region asks which *)
(* part of a loop "for (i = lower; i <= upper; i += incr)" is its own.     *)
(*                                                                         *)
(* The loops are small enough for the 32-bit arithmetic of the code to be  *)
(* exact.                                                                  *)
(***************************************************************************)
EXTENDS Integers, FiniteSets

CONSTANTS
    MaxThreads,     \* team sizes 1..MaxThreads
    Lowers,         \* lower bounds of the loops
    MaxSize,        \* loops of 1..MaxSize iterations
    Incrs,          \* increments
    Chunks          \* chunk sizes of schedule(static, chunk)

ASSUME KmpAssumption ==
    /\ MaxThreads \in Nat \ {0} /\ MaxSize \in Nat \ {0}
    /\ Lowers \subseteq Int /\ Incrs \subseteq Nat \ {0}
    /\ Chunks \subseteq Nat \ {0}

VARIABLES
    loop,           \* the loop: [lower, upper, incr, nbThreads, sched, chunk]
    bounds          \* what each thread that has asked was given

vars == <<loop, bounds>>

NotAsked == [lower |-> 0, upper |-> 0, stride |-> 0, last |-> FALSE, asked |-> FALSE]

Init ==
    /\ \E l \in Lowers, size \in 1..MaxSize, i \in Incrs, nt \in 1..MaxThreads,
          s \in {"static", "static_chunked"}, ch \in Chunks :
           loop = [lower |-> l, upper |-> l + (size - 1) * i, incr |-> i,
                   nbThreads |-> nt, sched |-> s, chunk |-> ch]
    /\ bounds = [t \in 0..(loop.nbThreads - 1) |-> NotAsked]

loopSize == (loop.upper - loop.lower) \div loop.incr + 1

(* sched == kmp_sch_static_chunked *)
Chunked(t) ==
    LET span == loop.incr * loop.chunk
        stride == span * loop.nbThreads
        lower == loop.lower + span * t
        beginLastChunk == loop.upper - (loop.upper % span)
    IN  [lower |-> lower, upper |-> lower + span - loop.incr, stride |-> stride,
         last |-> (beginLastChunk - lower) % stride = 0, asked |-> TRUE]

(* Mutant: the left-over iterations are not spread. *)
StaticNoLeftOver(t) ==
    LET chunk == loopSize \div loop.nbThreads
        lower == loop.lower + t * chunk * loop.incr
        upper == lower + chunk * loop.incr - loop.incr
    IN  [lower |-> lower, upper |-> upper, stride |-> loopSize,
         last |-> upper = loop.upper /\ lower <= loop.upper, asked |-> TRUE]

(* Mutant: an empty part that ends at the upper bound counts as the last.  *)
StaticLastIgnoresLower(t) ==
    LET base == loopSize \div loop.nbThreads
        leftOver == loopSize - base * loop.nbThreads
        chunk == IF t < leftOver THEN base + 1 ELSE base
        lower == loop.lower + t * chunk * loop.incr
                     + (IF t < leftOver THEN 0 ELSE leftOver)
        upper == lower + chunk * loop.incr - loop.incr
    IN  [lower |-> lower, upper |-> upper, stride |-> loopSize,
         last |-> upper = loop.upper, asked |-> TRUE]

(* sched == kmp_sch_static: chunks as equal as possible, the first         *)
(* leftOver threads take one iteration more.                               *)
Static(t) ==
    LET base == loopSize \div loop.nbThreads
        leftOver == loopSize - base * loop.nbThreads
        chunk == IF t < leftOver THEN base + 1 ELSE base
        lower == loop.lower + t * chunk * loop.incr
                     + (IF t < leftOver THEN 0 ELSE leftOver)
        upper == lower + chunk * loop.incr - loop.incr
    IN  [lower |-> lower, upper |-> upper, stride |-> loopSize,
         last |-> upper = loop.upper /\ lower <= loop.upper, asked |-> TRUE]

(* Thread t calls the function. *)
StaticInit(t) ==
    /\ ~bounds[t].asked
    /\ bounds' = [bounds EXCEPT ![t] =
                    IF loop.sched = "static_chunked" THEN Chunked(t) ELSE Static(t)]
    /\ UNCHANGED loop

Next == \E t \in DOMAIN bounds : StaticInit(t)

Spec == Init /\ [][Next]_vars

-----------------------------------------------------------------------------
(* The iterations of the loop. *)
Iterations == {loop.lower + k * loop.incr : k \in 0..(loopSize - 1)}

(* What a thread executes with its bounds.  External: the code the         *)
(* compiler generates around the call.  A static part is one run of the    *)
(* loop from lower to upper; a chunked one is repeated stride further on   *)
(* until it leaves the loop; both are cut at the upper bound of the loop.  *)
Executes(t) ==
    LET b == bounds[t]
        Starts == IF loop.sched = "static_chunked"
                  THEN {b.lower + k * b.stride : k \in 0..loopSize} ELSE {b.lower}
    IN  {i \in loop.lower..loop.upper :
            \E s \in Starts :
                /\ i >= s
                /\ i <= s + (b.upper - b.lower)
                /\ (i - s) % loop.incr = 0}

(* "compute the upper and lower bounds and stride to be used for the set   *)
(* of iterations to be executed by the current thread" (kmp.c:226): the    *)
(* parts of the threads are disjoint, and together they are the loop.      *)
Partition ==
    (\A t \in DOMAIN bounds : bounds[t].asked) =>
        /\ UNION {Executes(t) : t \in DOMAIN bounds} = Iterations
        /\ \A t, u \in DOMAIN bounds :
               t # u => Executes(t) \cap Executes(u) = {}

(* The "last iteration" flag goes to the one thread that executes the last *)
(* iteration: a lastprivate variable is written back once.                 *)
LastIterationFlag ==
    \A t \in DOMAIN bounds :
        bounds[t].asked => (bounds[t].last <=> loop.upper \in Executes(t))
=============================================================================
