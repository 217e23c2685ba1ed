-------------------------- MODULE KmpStaticProofs ---------------------------
(***************************************************************************)
(* Proofs about the static schedules of kmp.c, for loops of any size, any  *)
(* number of threads and any chunk size.                                   *)
(***************************************************************************)
EXTENDS KmpStatic, TLAPS

Threads == 0..(loop.nbThreads - 1)

Answer(t) == IF loop.sched = "static_chunked" THEN Chunked(t) ELSE Static(t)

LoopOK ==
    /\ loop \in [lower : Lowers, upper : Int, incr : Incrs,
                 nbThreads : 1..MaxThreads, sched : {"static", "static_chunked"},
                 chunk : Chunks]
    /\ loop.upper >= loop.lower
    /\ (loop.upper - loop.lower) % loop.incr = 0

(* The loop is as the program wrote it, and a thread that has asked was    *)
(* told what the function computes for it.                                 *)
IInv ==
    /\ LoopOK
    /\ DOMAIN bounds = Threads
    /\ \A t \in Threads : bounds[t].asked => bounds[t] = Answer(t)

-----------------------------------------------------------------------------
(* Division. *)
LEMMA Division ==
    ASSUME NEW a \in Int, NEW b \in Nat \ {0}
    PROVE  /\ a \div b \in Int
           /\ a % b \in 0..(b - 1)
           /\ a = b * (a \div b) + (a % b)
<1>1. a \div b \in Int
  BY Z3
<1>2. a % b \in 0..(b - 1)
  BY Z3
<1>3. a = b * (a \div b) + (a % b)
  BY Z3
<1> QED
  BY <1>1, <1>2, <1>3

(* Quotient and remainder are unique. *)
LEMMA Unique ==
    ASSUME NEW a \in Int, NEW b \in Nat \ {0}, NEW q \in Int, NEW r \in 0..(b - 1),
           a = b * q + r
    PROVE  a \div b = q /\ a % b = r
BY Z3

(* The same for the remainder of an expression with a name. *)
LEMMA ModIs ==
    \A a, q \in Int : \A b \in Nat \ {0} : \A r \in 0..(b - 1) :
        a = b * q + r => a % b = r
BY Unique

(* Multiplication keeps the order. *)
LEMMA Monotone ==
    ASSUME NEW a \in Int, NEW b \in Int, NEW c \in Nat \ {0}
    PROVE  /\ a < b => c * a + c <= c * b
           /\ a <= b <=> c * a <= c * b
BY Z3

-----------------------------------------------------------------------------
(* What is known of the loop. *)
LEMMA LoopFacts ==
    ASSUME IInv
    PROVE  /\ loopSize \in Nat \ {0}
           /\ loop.nbThreads \in Nat \ {0}
           /\ loop.incr \in Nat \ {0} /\ loop.chunk \in Nat \ {0}
           /\ loop.lower \in Int
           /\ loop.upper = loop.lower + loop.incr * (loopSize - 1)
           /\ \A t \in Threads : t \in Nat
           /\ Iterations = {loop.lower + loop.incr * n : n \in 0..(loopSize - 1)}
<1>1. /\ loop.nbThreads \in Nat \ {0}
      /\ loop.incr \in Nat \ {0} /\ loop.chunk \in Nat \ {0}
      /\ loop.lower \in Int /\ loop.upper \in Int /\ loop.upper >= loop.lower
  <2>1. /\ loop.nbThreads \in 1..MaxThreads /\ loop.incr \in Incrs
        /\ loop.chunk \in Chunks /\ loop.lower \in Lowers /\ loop.upper \in Int
        /\ loop.upper >= loop.lower
    BY DEF IInv, LoopOK
  <2>2. loop.nbThreads \in Nat \ {0}
    BY <2>1, KmpAssumption
  <2>3. loop.incr \in Nat \ {0} /\ loop.chunk \in Nat \ {0} /\ loop.lower \in Int
    BY <2>1, KmpAssumption, Zenon
  <2> QED
    BY <2>1, <2>2, <2>3
<1>2. PICK d \in Int : /\ d = (loop.upper - loop.lower) \div loop.incr
                      /\ loop.upper - loop.lower = loop.incr * d
  <2>1. PICK a \in Int : a = loop.upper - loop.lower
    BY <1>1
  <2>2. a % loop.incr = 0
    BY <2>1 DEF IInv, LoopOK
  <2>3. PICK d \in Int : d = a \div loop.incr /\ a = loop.incr * d + 0
    BY <1>1, <2>2, Division
  <2> QED
    BY <1>1, <2>1, <2>3
<1>3. loop.upper - loop.lower = loop.incr * d
  BY <1>2
<1>4. d >= 0
  BY <1>1, <1>3, Monotone
<1>5. loopSize = d + 1
  BY <1>2 DEF loopSize
<1>6. loop.upper = loop.lower + loop.incr * (loopSize - 1)
  BY <1>1, <1>3, <1>5
<1>7. \A n \in 0..(loopSize - 1) : n * loop.incr = loop.incr * n
  BY <1>1, <1>4, <1>5
<1>8. Iterations = {loop.lower + loop.incr * n : n \in 0..(loopSize - 1)}
  BY <1>7 DEF Iterations
<1> QED
  BY <1>1, <1>4, <1>5, <1>6, <1>8 DEF Threads

-----------------------------------------------------------------------------
(* schedule(static, chunk): iteration n is in chunk n \div chunk, and the  *)
(* chunks go round the threads.                                            *)
LEMMA ChunkedOwner ==
    ASSUME IInv, loop.sched = "static_chunked",
           NEW t \in Threads, bounds[t] = Chunked(t), NEW n \in 0..(loopSize - 1)
    PROVE  loop.lower + loop.incr * n \in Executes(t) <=>
               (n \div loop.chunk) % loop.nbThreads = t
<1> DEFINE lo == loop.lower
           inc == loop.incr
           ch == loop.chunk
           T == loop.nbThreads
           N == loopSize
           i == lo + inc * n
<1>1. /\ N \in Nat \ {0} /\ T \in Nat \ {0} /\ inc \in Nat \ {0}
      /\ ch \in Nat \ {0} /\ lo \in Int /\ loop.upper = lo + inc * (N - 1)
      /\ t \in 0..(T - 1) /\ n \in 0..(N - 1)
  BY LoopFacts DEF Threads
<1>2. /\ bounds[t].lower = lo + (inc * ch) * t
      /\ bounds[t].upper = bounds[t].lower + inc * ch - inc
      /\ bounds[t].stride = (inc * ch) * T
  BY DEF Chunked
<1> HIDE DEF lo, inc, ch, T, N
<1>3. i \in lo..loop.upper
  BY <1>1, Monotone
<1>4. i \in Executes(t) <=>
          \E k \in 0..N : LET s == bounds[t].lower + k * bounds[t].stride
                          IN  /\ i >= s
                              /\ i <= s + (bounds[t].upper - bounds[t].lower)
                              /\ (i - s) % inc = 0
  BY <1>3 DEF Executes, N, lo, inc
<1>5. \A k \in 0..N :
         /\ bounds[t].lower + k * bounds[t].stride
                = lo + inc * (ch * (t + T * k))
         /\ bounds[t].upper - bounds[t].lower = inc * (ch - 1)
  BY <1>1, <1>2, Z3
<1>6. \A k \in 0..N :
         LET s == bounds[t].lower + k * bounds[t].stride
             x == n - ch * (t + T * k)
         IN  /\ i - s = inc * x /\ x \in Int
             /\ (i >= s /\ i <= s + (bounds[t].upper - bounds[t].lower)
                     /\ (i - s) % inc = 0) <=> x \in 0..(ch - 1)
  <2> SUFFICES ASSUME NEW k \in 0..N, NEW s \in Int, NEW x \in Int,
                      s = lo + inc * (ch * (t + T * k)),
                      x = n - ch * (t + T * k)
               PROVE  /\ i - s = inc * x
                      /\ (i >= s /\ i <= s + inc * (ch - 1) /\ (i - s) % inc = 0)
                             <=> x \in 0..(ch - 1)
    BY <1>1, <1>5
  <2>1. i - s = inc * x
    BY <1>1, Z3
  <2>2. (i - s) % inc = 0
    BY <1>1, <2>1, Unique
  <2>3. i >= s <=> x >= 0
    BY <1>1, <2>1, Monotone
  <2>4. i - s <= inc * (ch - 1) <=> x <= ch - 1
    BY <1>1, <2>1, Monotone
  <2> QED
    BY <1>1, <2>1, <2>2, <2>3, <2>4
<1>7. i \in Executes(t) <=>
          \E k \in 0..N : n - ch * (t + T * k) \in 0..(ch - 1)
  BY <1>4, <1>6
<1>8. ASSUME NEW k \in 0..N, n - ch * (t + T * k) \in 0..(ch - 1)
      PROVE  (n \div ch) % T = t
  <2>1. PICK m \in Int, r \in 0..(ch - 1) : m = t + T * k /\ n = ch * m + r
    BY <1>1, <1>8
  <2>2. n \div ch = m
    <3>1. n \in Int /\ ch \in Nat \ {0}
      BY <1>1
    <3> QED
      BY <2>1, <3>1, Unique
  <2>3. m % T = t
    BY <1>1, <2>1, Unique
  <2> QED
    BY <2>2, <2>3
<1>9. ASSUME (n \div ch) % T = t
      PROVE  \E k \in 0..N : n - ch * (t + T * k) \in 0..(ch - 1)
  <2>1. PICK m \in Int, r \in 0..(ch - 1) : m = n \div ch /\ n = ch * m + r
    <3>1. n \in Int /\ ch \in Nat \ {0}
      BY <1>1
    <3> QED
      BY <3>1, Division
  <2>2. m \in 0..n
    BY <1>1, <2>1, Z3
  <2>3. PICK k \in Int : m = T * k + t
    BY <1>1, <1>9, <2>1, Division
  <2>4. k \in 0..m
    BY <1>1, <2>2, <2>3, Z3
  <2>5. k \in 0..N /\ n - ch * m = r /\ t + T * k = m
    BY <1>1, <2>1, <2>2, <2>3, <2>4
  <2> QED
    BY <2>1, <2>5
<1> QED
  BY <1>7, <1>8, <1>9 DEF ch, T, lo, inc

(* A thread executes iterations of the loop only. *)
LEMMA ChunkedWithin ==
    ASSUME IInv, loop.sched = "static_chunked",
           NEW t \in Threads, bounds[t] = Chunked(t)
    PROVE  Executes(t) \subseteq Iterations
<1> DEFINE lo == loop.lower
           inc == loop.incr
           ch == loop.chunk
           T == loop.nbThreads
           N == loopSize
<1> SUFFICES ASSUME NEW i \in Executes(t)
             PROVE  \E n \in 0..(N - 1) : i = lo + inc * n
  BY LoopFacts
<1>1. /\ N \in Nat \ {0} /\ T \in Nat \ {0} /\ inc \in Nat \ {0}
      /\ ch \in Nat \ {0} /\ lo \in Int /\ loop.upper = lo + inc * (N - 1)
      /\ t \in 0..(T - 1)
  BY LoopFacts DEF Threads
<1>2. /\ bounds[t].lower = lo + (inc * ch) * t
      /\ bounds[t].stride = (inc * ch) * T
  BY DEF Chunked
<1>3. PICK k \in 0..N : /\ i \in lo..loop.upper
                        /\ (i - (bounds[t].lower + k * bounds[t].stride)) % inc = 0
  BY DEF Executes
<1> HIDE DEF lo, inc, ch, T, N
<1>4. PICK x \in Int : bounds[t].lower + k * bounds[t].stride = lo + inc * x
  <2>1. /\ ch * (t + T * k) \in Int
        /\ lo + (inc * ch) * t + k * ((inc * ch) * T) = lo + inc * (ch * (t + T * k))
    BY <1>1, Z3
  <2> QED
    BY <1>2, <2>1
<1>5. PICK y \in Int : i - (lo + inc * x) = inc * y
  <2>1. PICK a \in Int : a = i - (lo + inc * x)
    BY <1>1, <1>3
  <2>2. a % inc = 0
    BY <1>3, <1>4, <2>1
  <2>3. PICK y \in Int : a = inc * y + 0
    BY <1>1, <2>2, Division
  <2>4. inc * y + 0 = inc * y
    BY <1>1
  <2> QED
    BY <2>1, <2>3, <2>4
<1>6. i = lo + inc * (x + y)
  BY <1>1, <1>3, <1>5, Z3
<1>7. x + y \in 0..(N - 1)
  <2>1. PICK n \in Int : n = x + y
    OBVIOUS
  <2>2. inc * n >= 0 /\ inc * n <= inc * (N - 1)
    BY <1>1, <1>3, <1>6, <2>1
  <2>3. n >= 0 /\ n <= N - 1
    BY <1>1, <2>2, Z3
  <2> QED
    BY <1>1, <2>1, <2>3
<1> QED
  BY <1>6, <1>7

-----------------------------------------------------------------------------
(* schedule(static): the share of thread t and where it begins. *)
Base == loopSize \div loop.nbThreads
LeftOver == loopSize - Base * loop.nbThreads
Share(t) == IF t < LeftOver THEN Base + 1 ELSE Base
First(t) == t * Share(t) + IF t < LeftOver THEN 0 ELSE LeftOver

(* The left-over iterations are fewer than the threads. *)
LEMMA Shares ==
    ASSUME IInv
    PROVE  /\ Base \in Nat
           /\ LeftOver \in 0..(loop.nbThreads - 1)
           /\ loopSize = loop.nbThreads * Base + LeftOver
<1>1. /\ loopSize \in Nat \ {0} /\ loopSize \in Int
      /\ loop.nbThreads \in Nat \ {0}
  BY LoopFacts
<1>2. /\ Base \in Int
      /\ loopSize % loop.nbThreads \in 0..(loop.nbThreads - 1)
      /\ loopSize = loop.nbThreads * Base + (loopSize % loop.nbThreads)
  BY <1>1, Division DEF Base
<1>3. LeftOver = loopSize % loop.nbThreads
  BY <1>1, <1>2, Z3 DEF LeftOver
<1>4. Base >= 0
  BY <1>1, <1>2, Z3
<1> QED
  BY <1>2, <1>3, <1>4

(* The shares follow each other without a gap and end with the loop. *)
LEMMA SharesFollow ==
    ASSUME IInv, NEW t \in Threads
    PROVE  /\ Share(t) \in Nat /\ First(t) \in Nat
           /\ \A u \in Threads : t < u => First(t) + Share(t) <= First(u)
           /\ First(t) + Share(t) <= loopSize
<1> DEFINE T == loop.nbThreads
           B == Base
           L == LeftOver
<1>1. /\ B \in Nat /\ L \in 0..(T - 1) /\ T \in Nat \ {0}
      /\ loopSize = T * B + L /\ t \in 0..(T - 1)
  BY Shares, LoopFacts DEF Threads
<1>2. \A u \in 0..(T - 1) : First(u) = IF u < L THEN u * (B + 1) ELSE u * B + L
  BY <1>1 DEF First, Share
<1>3. Share(t) = IF t < L THEN B + 1 ELSE B
  BY DEF Share
<1> HIDE DEF T, B, L
<1>4. Share(t) \in Nat
  BY <1>1, <1>3
<1>5. First(t) \in Nat
  BY <1>1, <1>2
<1>6. ASSUME NEW u \in 0..(T - 1), t < u
      PROVE  First(t) + Share(t) <= First(u)
  <2>1. CASE u < L
    BY <1>1, <1>2, <1>3, <1>6, <2>1, Z3
  <2>2. CASE t < L /\ ~(u < L)
    BY <1>1, <1>2, <1>3, <1>6, <2>2, Z3
  <2>3. CASE ~(t < L)
    BY <1>1, <1>2, <1>3, <1>6, <2>3, Z3
  <2> QED
    BY <1>1, <1>6, <2>1, <2>2, <2>3
<1>7. First(t) + Share(t) <= T * B + L
  <2>1. CASE t < L
    BY <1>1, <1>2, <1>3, <2>1, Z3
  <2>2. CASE ~(t < L)
    BY <1>1, <1>2, <1>3, <2>2, Z3
  <2> QED
    BY <2>1, <2>2
<1> QED
  BY <1>1, <1>4, <1>5, <1>6, <1>7 DEF T, Threads

(* Every iteration is in a share. *)
LEMMA SharesCover ==
    ASSUME IInv, NEW n \in 0..(loopSize - 1)
    PROVE  \E t \in Threads : n \in First(t)..(First(t) + Share(t) - 1)
<1> DEFINE T == loop.nbThreads
           B == Base
           L == LeftOver
<1>1. /\ B \in Nat /\ L \in 0..(T - 1) /\ T \in Nat \ {0}
      /\ n \in Nat /\ n < T * B + L
  BY Shares, LoopFacts
<1>2. \A u \in 0..(T - 1) : /\ First(u) = IF u < L THEN u * (B + 1) ELSE u * B + L
                            /\ Share(u) = IF u < L THEN B + 1 ELSE B
  BY <1>1 DEF First, Share
<1> HIDE DEF T, B, L
<1> SUFFICES \E t \in 0..(T - 1) : n \in First(t)..(First(t) + Share(t) - 1)
  BY DEF Threads, T
<1>3. CASE n < L * (B + 1)
  <2>1. n \in Int /\ B + 1 \in Nat \ {0}
    BY <1>1
  <2>2. PICK t \in Int, r \in 0..((B + 1) - 1) : n = (B + 1) * t + r
    BY <2>1, Division
  <2>3. t \in 0..(L - 1)
    BY <1>1, <1>3, <2>2, Z3
  <2>4. First(t) = t * (B + 1) /\ Share(t) = B + 1 /\ t \in 0..(T - 1)
    BY <1>1, <1>2, <2>3
  <2>5. n \in (t * (B + 1))..(t * (B + 1) + (B + 1) - 1)
    BY <1>1, <2>2, <2>3, Z3
  <2> QED
    BY <2>4, <2>5
<1>4. CASE ~(n < L * (B + 1))
  <2>1. n - L \in Int /\ B \in Nat \ {0}
    BY <1>1, <1>4, Z3
  <2>2. PICK t \in Int, r \in 0..(B - 1) : n - L = B * t + r
    BY <2>1, Division
  <2>3. t >= L /\ t < T
    BY <1>1, <1>4, <2>1, <2>2, Z3
  <2>4. First(t) = t * B + L /\ Share(t) = B /\ t \in 0..(T - 1)
    BY <1>1, <1>2, <2>3
  <2>5. n \in (t * B + L)..(t * B + L + B - 1)
    BY <1>1, <2>1, <2>2, Z3
  <2> QED
    BY <2>4, <2>5
<1> QED
  BY <1>3, <1>4

(* With increment 1 a thread executes its share. *)
LEMMA StaticOwner ==
    ASSUME IInv, loop.sched = "static", loop.incr = 1,
           NEW t \in Threads, bounds[t] = Static(t)
    PROVE  /\ \A n \in 0..(loopSize - 1) :
                 loop.lower + n \in Executes(t) <=>
                     n \in First(t)..(First(t) + Share(t) - 1)
           /\ Executes(t) \subseteq Iterations
           /\ bounds[t].lower = loop.lower + First(t)
           /\ bounds[t].upper = loop.lower + First(t) + Share(t) - 1
           /\ bounds[t].last <=> /\ bounds[t].upper = loop.upper
                                 /\ bounds[t].lower <= loop.upper
<1>1. /\ loopSize \in Nat \ {0} /\ loop.lower \in Int
      /\ loop.upper = loop.lower + (loopSize - 1)
      /\ First(t) \in Nat /\ Share(t) \in Nat /\ t \in Nat
      /\ Base \in Nat /\ LeftOver \in Nat
  BY LoopFacts, SharesFollow, Shares
<1>2. /\ bounds[t].lower = loop.lower + t * Share(t) * 1
                               + (IF t < LeftOver THEN 0 ELSE LeftOver)
      /\ bounds[t].upper = bounds[t].lower + Share(t) * 1 - 1
      /\ bounds[t].last <=> bounds[t].upper = loop.upper
                                /\ bounds[t].lower <= loop.upper
  <2> DEFINE lower == loop.lower + t * Share(t) * loop.incr
                          + (IF t < LeftOver THEN 0 ELSE LeftOver)
             upper == lower + Share(t) * loop.incr - loop.incr
  <2>1. bounds[t] = [lower |-> lower, upper |-> upper, stride |-> loopSize,
                     last |-> upper = loop.upper /\ lower <= loop.upper,
                     asked |-> TRUE]
    BY DEF Static, Share, Base, LeftOver
  <2> HIDE DEF lower, upper
  <2>2. /\ bounds[t].lower = lower /\ bounds[t].upper = upper
        /\ bounds[t].last = (upper = loop.upper /\ lower <= loop.upper)
    BY <2>1
  <2> QED
    BY <2>2 DEF lower, upper
<1>3. /\ bounds[t].lower = loop.lower + First(t)
      /\ bounds[t].upper = loop.lower + First(t) + Share(t) - 1
  BY <1>1, <1>2 DEF First
<1>4. \A a \in Int : a % 1 = 0
  BY Z3
<1>5. Executes(t) = {i \in loop.lower..loop.upper :
                       /\ i >= bounds[t].lower
                       /\ i <= bounds[t].lower + (bounds[t].upper - bounds[t].lower)
                       /\ (i - bounds[t].lower) % 1 = 0}
  BY DEF Executes
<1>6. Executes(t) = {i \in loop.lower..loop.upper :
                       i >= bounds[t].lower /\ i <= bounds[t].upper}
  BY <1>1, <1>3, <1>4, <1>5
<1>7. \A n \in 0..(loopSize - 1) :
         loop.lower + n \in Executes(t) <=>
             n \in First(t)..(First(t) + Share(t) - 1)
  BY <1>1, <1>3, <1>6
<1>8. ASSUME NEW i \in Executes(t)
      PROVE  i \in Iterations
  <2>1. i \in loop.lower..loop.upper
    BY <1>6
  <2>2. PICK n \in 0..(loopSize - 1) : i = loop.lower + n
    <3>1. i - loop.lower \in 0..(loopSize - 1) /\ i = loop.lower + (i - loop.lower)
      BY <1>1, <2>1
    <3> QED
      BY <3>1
  <2>3. n = n * loop.incr
    BY <1>1
  <2> QED
    BY <2>2, <2>3 DEF Iterations
<1> QED
  BY <1>2, <1>3, <1>7, <1>8

-----------------------------------------------------------------------------
(* The parts of the threads make up the loop.  The code for                *)
(* schedule(static) leaves the increment out where it skips the left-over  *)
(* iterations, so there it has to be 1.                                    *)
UnitIncrement == loop.sched = "static" => loop.incr = 1

(* Every iteration belongs to a thread. *)
LEMMA EachHasOwner ==
    ASSUME IInv, UnitIncrement, \A t \in Threads : bounds[t].asked,
           NEW i \in Iterations
    PROVE  \E t \in Threads : i \in Executes(t)
<1>1. PICK n \in 0..(loopSize - 1) : i = loop.lower + loop.incr * n
  BY LoopFacts
<1>2. CASE loop.sched = "static_chunked"
  <2>1. PICK m \in Int : m = n \div loop.chunk
    <3>1. n \in Int /\ loop.chunk \in Nat \ {0}
      BY LoopFacts
    <3> QED
      BY <3>1, Division
  <2>2. m % loop.nbThreads \in Threads
    BY LoopFacts, Division DEF Threads
  <2>3. \A t \in Threads : bounds[t] = Chunked(t)
    BY <1>2 DEF IInv, Answer
  <2> QED
    BY <1>1, <1>2, <2>1, <2>2, <2>3, ChunkedOwner
<1>3. CASE loop.sched = "static"
  <2>1. loop.incr = 1 /\ \A t \in Threads : bounds[t] = Static(t)
    BY <1>3 DEF IInv, Answer, UnitIncrement
  <2>2. i = loop.lower + n
    BY <1>1, <2>1, LoopFacts
  <2> QED
    BY <1>3, <2>1, <2>2, SharesCover, StaticOwner
<1> QED
  BY <1>2, <1>3 DEF IInv, LoopOK

(* A thread executes nothing else. *)
LEMMA PartWithin ==
    ASSUME IInv, UnitIncrement, NEW t \in Threads, bounds[t].asked
    PROVE  Executes(t) \subseteq Iterations
<1>1. CASE loop.sched = "static_chunked"
  BY <1>1, ChunkedWithin DEF IInv, Answer
<1>2. CASE loop.sched = "static"
  BY <1>2, StaticOwner DEF IInv, Answer, UnitIncrement
<1> QED
  BY <1>1, <1>2 DEF IInv, LoopOK

(* No iteration belongs to two threads. *)
LEMMA OneOwner ==
    ASSUME IInv, UnitIncrement, NEW t \in Threads, NEW u \in Threads, t # u,
           bounds[t].asked, bounds[u].asked
    PROVE  Executes(t) \cap Executes(u) = {}
<1>1. CASE loop.sched = "static_chunked"
  <2>1. bounds[t] = Chunked(t) /\ bounds[u] = Chunked(u)
    BY <1>1 DEF IInv, Answer
  <2>2. Executes(t) \subseteq Iterations
    BY PartWithin
  <2>3. ASSUME NEW i \in Executes(t), i \in Executes(u)
        PROVE  FALSE
    <3>1. PICK n \in 0..(loopSize - 1) : i = loop.lower + loop.incr * n
      BY <2>2, LoopFacts
    <3>2. (n \div loop.chunk) % loop.nbThreads = t
      BY <1>1, <2>1, <2>3, <3>1, ChunkedOwner
    <3>3. (n \div loop.chunk) % loop.nbThreads = u
      BY <1>1, <2>1, <2>3, <3>1, ChunkedOwner
    <3> QED
      BY <3>2, <3>3
  <2> QED
    BY <2>3
<1>2. CASE loop.sched = "static"
  <2>1. loop.incr = 1 /\ bounds[t] = Static(t) /\ bounds[u] = Static(u)
    BY <1>2 DEF IInv, Answer, UnitIncrement
  <2>2. Executes(t) \subseteq Iterations
    BY PartWithin
  <2>3. ASSUME NEW i \in Executes(t), i \in Executes(u)
        PROVE  FALSE
    <3>1. PICK n \in 0..(loopSize - 1) : i = loop.lower + loop.incr * n
      BY <2>2, LoopFacts
    <3>2. i = loop.lower + n
      BY <2>1, <3>1, LoopFacts
    <3>3. n \in First(t)..(First(t) + Share(t) - 1)
      BY <1>2, <2>1, <2>3, <3>2, StaticOwner
    <3>4. n \in First(u)..(First(u) + Share(u) - 1)
      BY <1>2, <2>1, <2>3, <3>2, StaticOwner
    <3>5. /\ t \in Nat /\ u \in Nat
          /\ First(t) \in Nat /\ Share(t) \in Nat
          /\ First(u) \in Nat /\ Share(u) \in Nat
          /\ First(t) + Share(t) <= First(u) \/ First(u) + Share(u) <= First(t)
      BY LoopFacts, SharesFollow
    <3> QED
      BY <3>3, <3>4, <3>5
  <2> QED
    BY <2>3
<1> QED
  BY <1>1, <1>2 DEF IInv, LoopOK

(* schedule(static, chunk): the code finds the begin of the last chunk     *)
(* from the upper bound alone, so the loop has to begin at 0.              *)
LEMMA ChunkedLast ==
    ASSUME IInv, loop.sched = "static_chunked", loop.lower = 0,
           NEW t \in Threads, bounds[t] = Chunked(t)
    PROVE  bounds[t].last <=> loop.upper \in Executes(t)
<1> DEFINE inc == loop.incr
           ch == loop.chunk
           T == loop.nbThreads
           N == loopSize
           span == inc * ch
<1>1. /\ N \in Nat \ {0} /\ T \in Nat \ {0} /\ inc \in Nat \ {0}
      /\ ch \in Nat \ {0} /\ loop.upper = 0 + inc * (N - 1)
      /\ t \in 0..(T - 1)
  BY LoopFacts DEF Threads
<1>2. bounds[t].last <=>
          ((loop.upper - (loop.upper % span)) - (0 + span * t)) % (span * T) = 0
  <2> DEFINE begin == loop.upper - (loop.upper % span)
  <2>1. bounds[t] = [lower |-> 0 + span * t, upper |-> 0 + span * t + span - inc,
                     stride |-> span * T,
                     last |-> (begin - (0 + span * t)) % (span * T) = 0,
                     asked |-> TRUE]
    BY DEF Chunked
  <2> HIDE DEF begin, span
  <2>2. bounds[t].last = ((begin - (0 + span * t)) % (span * T) = 0)
    BY <2>1
  <2> QED
    BY <2>2 DEF begin
<1>3. 0 + inc * (N - 1) \in Executes(t) <=> ((N - 1) \div ch) % T = t
  <2>1. N - 1 \in 0..(N - 1)
    BY <1>1
  <2> QED
    BY <2>1, ChunkedOwner
<1> HIDE DEF inc, ch, T, N
<1>4. PICK m \in Int, r \in 0..(ch - 1) : m = (N - 1) \div ch /\ N - 1 = ch * m + r
  <2>1. PICK a \in Int : a = N - 1
    BY <1>1
  <2>2. \E m \in Int, r \in 0..(ch - 1) : m = a \div ch /\ a = ch * m + r
    <3>1. a \in Int /\ ch \in Nat \ {0}
      BY <1>1, <2>1
    <3>2. /\ a \div ch \in Int /\ a % ch \in 0..(ch - 1)
          /\ a = ch * (a \div ch) + (a % ch)
      BY <3>1, Division
    <3> QED
      BY <3>2, Zenon
  <2> QED
    BY <2>1, <2>2
<1>5. /\ span \in Nat \ {0} /\ span * T \in Nat \ {0} /\ loop.upper \in Int
      /\ inc * r \in 0..(span - 1)
  BY <1>1, <1>4, Z3
<1>6. loop.upper = span * m + inc * r
  <2>1. inc * (ch * m + r) = (inc * ch) * m + inc * r
    <3>1. inc \in Int /\ ch \in Int /\ m \in Int /\ r \in Int
      BY <1>1, <1>4
    <3> QED
      BY <3>1, Z3
  <2> QED
    BY <1>1, <1>4, <1>5, <2>1
<1> HIDE DEF span
<1>7. loop.upper % span = inc * r
  <2>1. PICK a \in Int, d \in Nat \ {0}, z \in Nat :
           a = loop.upper /\ d = span /\ z = inc * r
    BY <1>5
  <2>2. z \in 0..(d - 1) /\ a = d * m + z
    BY <1>5, <1>6, <2>1
  <2>3. a % d = z
    BY <1>4, <2>1, <2>2, ModIs, Zenon
  <2> QED
    BY <2>1, <2>3
<1>8. (loop.upper - (loop.upper % span)) - (0 + span * t) = span * (m - t)
  BY <1>1, <1>5, <1>6, <1>7, Z3
<1>9. PICK x \in Int, y \in 0..(T - 1) : y = (m - t) % T /\ m - t = T * x + y
  <2>1. PICK a \in Int : a = m - t
    BY <1>1
  <2>2. \E x \in Int, y \in 0..(T - 1) : y = a % T /\ a = T * x + y
    <3>1. a \in Int /\ T \in Nat \ {0}
      BY <1>1, <2>1
    <3>2. /\ a \div T \in Int /\ a % T \in 0..(T - 1)
          /\ a = T * (a \div T) + (a % T)
      BY <3>1, Division
    <3> QED
      BY <3>2, Zenon
  <2> QED
    BY <2>1, <2>2
<1>10. (span * (m - t)) % (span * T) = span * y
  <2>1. span * (m - t) = (span * T) * x + span * y
    <3>1. span * (T * x + y) = (span * T) * x + span * y
      BY <1>1, <1>5, <1>9, Z3
    <3> QED
      BY <1>9, <3>1
  <2>2. span * y \in 0..(span * T - 1) /\ span * (m - t) \in Int
    BY <1>1, <1>5, <1>9, Z3
  <2>3. PICK a \in Int, d \in Nat \ {0}, z \in Nat :
           a = span * (m - t) /\ d = span * T /\ z = span * y
    BY <1>5, <2>2
  <2>4. /\ a \in Int /\ x \in Int /\ d \in Nat \ {0}
        /\ z \in 0..(d - 1) /\ a = d * x + z
    BY <1>9, <2>1, <2>2, <2>3
  <2>5. a % d = z
    BY <2>4, ModIs, Zenon
  <2> QED
    BY <2>3, <2>5
<1>11. span * y = 0 <=> y = 0
  BY <1>5, <1>9, Z3
<1>12. y = 0 <=> m % T = t
  <2>1. y = 0 => m = T * x + t
    BY <1>1, <1>9
  <2>2. y = 0 => m % T = t
    BY <1>1, <2>1, Unique
  <2>3. ASSUME m % T = t
        PROVE  y = 0
    <3>1. PICK k \in Int : m = T * k + t
      <4>1. T \in Nat \ {0}
        BY <1>1
      <4> QED
        BY <2>3, <4>1, Division, Zenon
    <3>2. m - t = T * k + 0 /\ m - t \in Int /\ 0 \in 0..(T - 1)
      BY <1>1, <3>1
    <3>3. (m - t) % T = 0
      BY <1>1, <3>2, Unique
    <3> QED
      BY <1>9, <3>3
  <2> QED
    BY <2>2, <2>3
<1> QED
  BY <1>1, <1>2, <1>3, <1>4, <1>8, <1>10, <1>11, <1>12

(* schedule(static) with increment 1: the flag goes to the thread whose    *)
(* share ends the loop, and to no thread with an empty share.              *)
LEMMA StaticLast ==
    ASSUME IInv, loop.sched = "static", loop.incr = 1,
           NEW t \in Threads, bounds[t] = Static(t)
    PROVE  bounds[t].last <=> loop.upper \in Executes(t)
<1>1. /\ loopSize \in Nat \ {0} /\ loop.lower \in Int
      /\ loop.upper = loop.lower + (loopSize - 1)
      /\ First(t) \in Nat /\ Share(t) \in Nat
      /\ First(t) + Share(t) <= loopSize
  BY LoopFacts, SharesFollow
<1>2. /\ bounds[t].lower = loop.lower + First(t)
      /\ bounds[t].upper = loop.lower + First(t) + Share(t) - 1
      /\ bounds[t].last <=> /\ bounds[t].upper = loop.upper
                            /\ bounds[t].lower <= loop.upper
  BY StaticOwner
<1>3. loop.lower + (loopSize - 1) \in Executes(t) <=>
          loopSize - 1 \in First(t)..(First(t) + Share(t) - 1)
  <2>1. loopSize - 1 \in 0..(loopSize - 1)
    BY <1>1
  <2> QED
    BY <2>1, StaticOwner
<1> QED
  BY <1>1, <1>2, <1>3

-----------------------------------------------------------------------------
(* The loop the compiler hands over: at least one iteration, and the upper *)
(* bound is the last one.                                                  *)
LEMMA InitIInv ==
    ASSUME Init
    PROVE  IInv
<1>1. PICK l \in Lowers, size \in 1..MaxSize, i \in Incrs, nt \in 1..MaxThreads,
           s \in {"static", "static_chunked"}, ch \in Chunks :
         loop = [lower |-> l, upper |-> l + (size - 1) * i, incr |-> i,
                 nbThreads |-> nt, sched |-> s, chunk |-> ch]
  BY DEF Init
<1>2. /\ l \in Int /\ i \in Nat \ {0} /\ size \in Nat \ {0} /\ nt \in Nat \ {0}
  BY <1>1, KmpAssumption
<1>3. PICK d \in Int : d = (size - 1) * i /\ d >= 0
  BY <1>2, Z3
<1>4. d % i = 0
  <2>1. PICK q \in Int : q = size - 1
    BY <1>2
  <2>2. d = i * q + 0 /\ 0 \in 0..(i - 1)
    BY <1>2, <1>3, <2>1, Z3
  <2> QED
    BY <1>2, <2>2, Unique
<1>5. /\ loop.lower = l /\ loop.upper = l + d /\ loop.incr = i
      /\ loop.nbThreads = nt
      /\ loop \in [lower : Lowers, upper : Int, incr : Incrs,
                   nbThreads : 1..MaxThreads,
                   sched : {"static", "static_chunked"}, chunk : Chunks]
  <2>1. l + (size - 1) * i = l + d /\ l + d \in Int
    BY <1>2, <1>3
  <2> QED
    BY <1>1, <2>1
<1>6. LoopOK
  <2>1. loop.upper - loop.lower = d
    BY <1>2, <1>3, <1>5
  <2> QED
    BY <1>2, <1>3, <1>4, <1>5, <2>1 DEF LoopOK
<1>7. /\ DOMAIN bounds = Threads
      /\ \A t \in Threads : ~bounds[t].asked
  BY DEF Init, Threads, NotAsked
<1> QED
  BY <1>6, <1>7 DEF IInv

(* A call answers for the thread that makes it and leaves the loop alone.  *)
LEMMA NextIInv ==
    ASSUME IInv, [Next]_vars
    PROVE  IInv'
<1>1. CASE Next
  <2>1. PICK t \in Threads : StaticInit(t)
    BY <1>1 DEF Next, IInv
  <2>2. /\ loop' = loop
        /\ bounds' = [bounds EXCEPT ![t] = Answer(t)]
    BY <2>1 DEF StaticInit, Answer
  <2>3. LoopOK' /\ Threads' = Threads
    BY <2>2 DEF IInv, LoopOK, Threads
  <2>4. ASSUME NEW u
        PROVE  Answer(u)' = Answer(u)
    <3>1. loopSize' = loopSize
      BY <2>2 DEF loopSize
    <3>2. Chunked(u)' = Chunked(u) /\ Static(u)' = Static(u)
      BY <2>2, <3>1, Zenon DEF Chunked, Static
    <3> QED
      BY <2>2, <3>2, Zenon DEF Answer
  <2>5. /\ DOMAIN bounds' = Threads
        /\ bounds'[t] = Answer(t)
        /\ \A u \in Threads \ {t} : bounds'[u] = bounds[u]
    BY <2>1, <2>2 DEF IInv
  <2>6. \A u \in Threads : bounds'[u].asked => bounds'[u] = Answer(u)
    BY <2>5 DEF IInv
  <2> QED
    BY <2>3, <2>4, <2>5, <2>6, Zenon DEF IInv
<1>2. CASE UNCHANGED vars
  BY <1>2 DEF IInv, LoopOK, Threads, Answer, Chunked, Static, loopSize, vars
<1> QED
  BY <1>1, <1>2

(* In every reachable state the loop is well formed, and every thread that *)
(* called __kmpc_for_static_init_4 holds what the function computes from   *)
(* the loop and the thread's number alone, whatever the order of the calls.*)
THEOREM Invariance == Spec => []IInv
<1>1. Init => IInv
  BY InitIInv
<1>2. IInv /\ [Next]_vars => IInv'
  BY NextIInv
<1> QED
  BY <1>1, <1>2, PTL DEF Spec

(* The parts partition the loop: for any loop under                        *)
(* schedule(static, chunk), and for one with increment 1 under             *)
(* schedule(static).                                                       *)
LEMMA PartitionFromIInv ==
    ASSUME IInv, UnitIncrement
    PROVE  Partition
<1> SUFFICES ASSUME \A t \in Threads : bounds[t].asked
             PROVE  /\ UNION {Executes(t) : t \in Threads} = Iterations
                    /\ \A t, u \in Threads :
                           t # u => Executes(t) \cap Executes(u) = {}
  BY DEF Partition, IInv
<1>1. \A t \in Threads : Executes(t) \subseteq Iterations
  BY PartWithin
<1>2. \A i \in Iterations : \E t \in Threads : i \in Executes(t)
  BY EachHasOwner
<1>3. \A t, u \in Threads : t # u => Executes(t) \cap Executes(u) = {}
  BY OneOwner
<1>4. UNION {Executes(t) : t \in Threads} = Iterations
  <2>1. UNION {Executes(t) : t \in Threads} \subseteq Iterations
    BY <1>1
  <2>2. Iterations \subseteq UNION {Executes(t) : t \in Threads}
    BY <1>2
  <2> QED
    BY <2>1, <2>2
<1> QED
  BY <1>3, <1>4

(* Once every thread of the team has called __kmpc_for_static_init_4, the  *)
(* parts it handed out are disjoint and together are the loop: under       *)
(* schedule(static, chunk) whatever the loop, under schedule(static) when  *)
(* its increment is 1.                                                     *)
THEOREM PartitionWhenUnit == Spec => [](UnitIncrement => Partition)
<1>1. IInv => (UnitIncrement => Partition)
  BY PartitionFromIInv
<1> QED
  BY <1>1, Invariance, PTL

(* For the loops clang hands to __kmpc_for_static_init_4, which it         *)
(* normalises to increment 1, the threads' parts are disjoint and together *)
(* are the loop, for any loop, team and chunk size.                        *)
THEOREM Partitions ==
    ASSUME Incrs = {1}
    PROVE  Spec => []Partition
<1>1. IInv => UnitIncrement
  BY DEF IInv, LoopOK, UnitIncrement
<1>2. IInv => Partition
  BY <1>1, PartitionFromIInv
<1> QED
  BY <1>2, Invariance, PTL

-----------------------------------------------------------------------------
(* When the flag is exact. *)
FlagExact == IF loop.sched = "static" THEN loop.incr = 1 ELSE loop.lower = 0

(* The flag goes to the thread that executes the last iteration. *)
LEMMA FlagFromIInv ==
    ASSUME IInv, FlagExact
    PROVE  LastIterationFlag
<1> SUFFICES ASSUME NEW t \in Threads, bounds[t].asked
             PROVE  bounds[t].last <=> loop.upper \in Executes(t)
  BY DEF LastIterationFlag, IInv
<1>1. CASE loop.sched = "static"
  <2>1. loop.incr = 1 /\ bounds[t] = Static(t)
    BY <1>1 DEF IInv, Answer, FlagExact
  <2> QED
    BY <1>1, <2>1, StaticLast
<1>2. CASE loop.sched = "static_chunked"
  <2>1. loop.lower = 0 /\ bounds[t] = Chunked(t)
    BY <1>2 DEF IInv, Answer, FlagExact
  <2> QED
    BY <1>2, <2>1, ChunkedLast
<1> QED
  BY <1>1, <1>2 DEF IInv, LoopOK

(* The flag that __kmpc_for_static_init_4 returns is true for the thread   *)
(* that executes the last iteration of the loop and for no other: under    *)
(* schedule(static) when the increment is 1, under schedule(static, chunk) *)
(* when the loop begins at 0.                                              *)
THEOREM FlagWhenExact == Spec => [](FlagExact => LastIterationFlag)
<1>1. IInv => (FlagExact => LastIterationFlag)
  BY FlagFromIInv
<1> QED
  BY <1>1, Invariance, PTL

(* For the normalised loops (from 0, increment 1) clang hands to           *)
(* __kmpc_for_static_init_4, a lastprivate variable is written back by the *)
(* thread that executes the last iteration and by no other.                *)
THEOREM FlagIsExact ==
    ASSUME Incrs = {1}, Lowers = {0}
    PROVE  Spec => []LastIterationFlag
<1>1. IInv => FlagExact
  BY DEF IInv, LoopOK, FlagExact
<1>2. IInv => LastIterationFlag
  BY <1>1, FlagFromIInv
<1> QED
  BY <1>2, Invariance, PTL
=============================================================================
