----------------------------- MODULE Crt0Proofs -----------------------------
(***************************************************************************)
(* For any number of clusters and cores and any depth of the DMA engines:  *)
(* a core that calls main finds its sections initialised, although the DM  *)
(* core waits for the transfers only once; .bss is cleared for the cores   *)
(* of the cluster that clears it.                                          *)
(***************************************************************************)
EXTENDS Crt0, TLAPS

Dm(c) == pc[<<c, DmCore>>]

(* Before the barrier of snrt_init_tls. *)
Early == {"tls", "barrier1", "stall1"}

Places == Early \cup {"bss", "clsptr", "cls", "wait", "libs", "barrier2", "stall2", "main"}

Transfers == ({"tdata", "tbss"} \X CoreIds) \cup {<<"bss">>, <<"cdata">>, <<"cbss">>}

TypeOK ==
    /\ Hw!HwTypeOK
    /\ pc \in [Cores -> Places]
    /\ todo \in [Clusters -> Seq(Transfers)]
    /\ dma \in [Clusters -> Seq(Transfers)]
    /\ cls_ptr \in [Cores -> {"junk", "null", "base"}]

ArrivalsAreStalls ==
    \A c \in Clusters :
        /\ arrival[c] = csr_stall[c]
        /\ \A i \in CoreIds :
               i \in csr_stall[c] <=> pc[<<c, i>>] \in {"stall1", "stall2"}

(* The cores of a cluster pass the barriers together. *)
InStep ==
    \A c \in Clusters, i \in CoreIds :
        /\ pc[<<c, i>>] \in Early <=> Dm(c) \in Early
        /\ pc[<<c, i>>] = "main" <=> Dm(c) = "main"

(* The DM core goes on only when it has issued all transfers, and from the *)
(* wait only when they are complete.                                       *)
IssuedAndComplete ==
    \A c \in Clusters :
        /\ Dm(c) \notin {"tls", "bss", "cls"} => todo[c] = <<>>
        /\ Dm(c) \in {"libs", "barrier2", "stall2", "main"} => dma[c] = <<>>

(* Transfer t of cluster c is still to come. *)
Pending(c, t) ==
    \/ \E n \in 1..Len(dma[c]) : dma[c][n] = t
    \/ \E n \in 1..Len(todo[c]) : todo[c][n] = t

(* The .tdata of the DM core, from which the others are copied, is the     *)
(* first of all.                                                           *)
DmTdataFirst ==
    \A c \in Clusters :
        \/ <<c, DmCore>> \in tdata
        \/ dma[c] # <<>> /\ dma[c][1] = <<"tdata", DmCore>>
        \/ dma[c] = <<>> /\ todo[c] # <<>> /\ todo[c][1] = <<"tdata", DmCore>>

(* What is not initialised is going to be. *)
NothingForgotten ==
    \A c \in Clusters :
        /\ \A i \in CoreIds : <<c, i>> \in tdata \/ Pending(c, <<"tdata", i>>)
        /\ Dm(c) \notin Early \cup {"bss", "clsptr"} =>
               /\ <<c, "cdata">> \in cls \/ Pending(c, <<"cdata">>)
               /\ <<c, "cbss">> \in cls \/ Pending(c, <<"cbss">>)
        /\ c = 0 /\ Dm(c) \notin Early => bss \/ Pending(c, <<"bss">>)

AllocatorSet ==
    \A c \in Clusters :
        /\ Dm(c) \in {"barrier2", "stall2", "main"}
        /\ cls_ptr[<<c, DmCore>>] = "base"
        => c \in l1_allocator

(* The inductive invariant. *)
IInv ==
    /\ TypeOK
    /\ ArrivalsAreStalls
    /\ InStep
    /\ IssuedAndComplete
    /\ DmTdataFirst
    /\ NothingForgotten
    /\ AllocatorSet
-----------------------------------------------------------------------------
(* The clusters, the cores, and the parts of a transfer. *)
LEMMA Shape ==
    /\ DmCore \in CoreIds /\ CoreIds # {}
    /\ \A c \in Clusters, i \in CoreIds : <<c, i>> \in Cores
    /\ \A c \in Clusters : <<c, DmCore>> \in Cores
    /\ \A x \in Cores : x[1] \in Clusters /\ x[2] \in CoreIds /\ x = <<x[1], x[2]>>
<1>1. DmCore \in CoreIds
  BY Crt0Assumption DEF DmCore, CoreIds
<1> QED
  BY <1>1 DEF Cores

(* Giving a transfer to the engine keeps it pending. *)
LEMMA StartKeepsPending ==
    ASSUME TypeOK, NEW c \in Clusters, StartTransfer(c)
    PROVE  \A d \in Clusters : \A t : Pending(d, t) => Pending(d, t)'
<1> SUFFICES ASSUME NEW d \in Clusters, NEW t, Pending(d, t)
             PROVE  Pending(d, t)'
  OBVIOUS
<1>1. /\ dma[c] \in Seq(Transfers) /\ todo[c] \in Seq(Transfers) /\ todo[c] # <<>>
      /\ dma'[c] = Append(dma[c], Head(todo[c])) /\ todo'[c] = Tail(todo[c])
      /\ \A e \in Clusters \ {c} : dma'[e] = dma[e] /\ todo'[e] = todo[e]
  BY DEF TypeOK, StartTransfer
<1>2. CASE d # c
  BY <1>1, <1>2 DEF Pending
<1>3. CASE d = c
  <2>1. /\ Len(dma'[c]) = Len(dma[c]) + 1 /\ Len(dma[c]) \in Nat
        /\ \A n \in 1..Len(dma[c]) : dma'[c][n] = dma[c][n]
        /\ dma'[c][Len(dma[c]) + 1] = todo[c][1]
        /\ Len(todo'[c]) = Len(todo[c]) - 1 /\ Len(todo[c]) \in Nat
        /\ \A n \in 1..(Len(todo[c]) - 1) : todo'[c][n] = todo[c][n + 1]
    BY <1>1
  <2>2. ASSUME NEW n \in 1..Len(dma[c]), dma[c][n] = t
        PROVE  Pending(c, t)'
    <3>1. n \in 1..Len(dma'[c]) /\ dma'[c][n] = t
      BY <2>1, <2>2
    <3> QED
      BY <3>1 DEF Pending
  <2>3. ASSUME NEW n \in 1..Len(todo[c]), todo[c][n] = t
        PROVE  Pending(c, t)'
    <3>1. CASE n = 1
      <4>1. Len(dma[c]) + 1 \in 1..Len(dma'[c])
        BY <2>1
      <4> QED
        BY <2>1, <2>3, <3>1, <4>1 DEF Pending
    <3>2. CASE n # 1
      <4>1. n - 1 \in 1..Len(todo'[c]) /\ todo'[c][n - 1] = t
        BY <2>1, <2>3, <3>2
      <4> QED
        BY <4>1 DEF Pending
    <3> QED
      BY <3>1, <3>2
  <2> QED
    BY <1>3, <2>2, <2>3 DEF Pending
<1> QED
  BY <1>2, <1>3

(* A transfer that completes was the oldest of its engine; the others stay *)
(* pending.                                                                *)
LEMMA TransferKeepsPending ==
    ASSUME TypeOK, NEW c \in Clusters, Transfer(c)
    PROVE  \A d \in Clusters : \A t :
               Pending(d, t) => Pending(d, t)' \/ (d = c /\ t = dma[c][1])
<1> SUFFICES ASSUME NEW d \in Clusters, NEW t, Pending(d, t)
             PROVE  Pending(d, t)' \/ (d = c /\ t = dma[c][1])
  OBVIOUS
<1>1. /\ dma[c] \in Seq(Transfers) /\ dma[c] # <<>>
      /\ dma'[c] = Tail(dma[c]) /\ UNCHANGED todo
      /\ \A e \in Clusters \ {c} : dma'[e] = dma[e]
  BY DEF TypeOK, Transfer
<1>2. CASE d # c
  BY <1>1, <1>2 DEF Pending
<1>3. CASE d = c
  <2>1. /\ Len(dma'[c]) = Len(dma[c]) - 1 /\ Len(dma[c]) \in Nat
        /\ \A n \in 1..(Len(dma[c]) - 1) : dma'[c][n] = dma[c][n + 1]
    BY <1>1
  <2>2. ASSUME NEW n \in 1..Len(dma[c]), dma[c][n] = t, n # 1
        PROVE  Pending(c, t)'
    <3>1. n - 1 \in 1..Len(dma'[c]) /\ dma'[c][n - 1] = t
      BY <2>1, <2>2
    <3> QED
      BY <3>1 DEF Pending
  <2> QED
    BY <1>1, <1>3, <2>2 DEF Pending
<1> QED
  BY <1>2, <1>3

(* A step that leaves the transfers of the other clusters alone, and gives *)
(* cluster c new ones to issue when it had none, keeps what is pending.    *)
LEMMA NewTodoKeepsPending ==
    ASSUME TypeOK, NEW c \in Clusters, UNCHANGED dma,
           \A d \in Clusters \ {c} : todo'[d] = todo[d],
           todo[c] = <<>> \/ todo'[c] = todo[c]
    PROVE  \A d \in Clusters : \A t : Pending(d, t) => Pending(d, t)'
<1> SUFFICES ASSUME NEW d \in Clusters, NEW t, Pending(d, t)
             PROVE  Pending(d, t)'
  OBVIOUS
<1>1. CASE d = c /\ todo[c] = <<>>
  BY <1>1 DEF Pending
<1>2. CASE todo'[d] = todo[d]
  BY <1>2 DEF Pending
<1> QED
  BY <1>1, <1>2

(* The transfers the functions issue. *)
LEMMA TransfersIssued ==
    /\ TlsTransfers \in Seq(Transfers) /\ TlsTransfers # <<>>
    /\ TlsTransfers[1] = <<"tdata", DmCore>>
    /\ \A i \in CoreIds : \E n \in 1..Len(TlsTransfers) : TlsTransfers[n] = <<"tdata", i>>
    /\ ClsTransfers \in Seq(Transfers) /\ Len(ClsTransfers) = 2
    /\ ClsTransfers[1] = <<"cdata">> /\ ClsTransfers[2] = <<"cbss">>
    /\ \A c \in Clusters : BssTransfers(c) \in Seq(Transfers)
    /\ BssTransfers(0) = <<<<"bss">>>>
<1>1. TlsTransfers \in Seq(Transfers) /\ Len(TlsTransfers) = 2 * NumCores
  <2>1. 2 * NumCores \in Nat
    BY Crt0Assumption
  <2>2. \A k \in 1..(2 * NumCores) :
           (IF k <= NumCores THEN <<"tdata", NumCores - k>>
                             ELSE <<"tbss", 2 * NumCores - k>>) \in Transfers
    BY Crt0Assumption DEF Transfers, CoreIds
  <2>3. TlsTransfers \in [1..(2 * NumCores) -> Transfers]
    BY <2>2 DEF TlsTransfers
  <2> QED
    BY <2>1, <2>3
<1>2. \A i \in CoreIds : /\ NumCores - i \in 1..Len(TlsTransfers)
                         /\ TlsTransfers[NumCores - i] = <<"tdata", i>>
  BY <1>1, Crt0Assumption DEF TlsTransfers, CoreIds
<1>3. TlsTransfers[1] = <<"tdata", DmCore>> /\ TlsTransfers # <<>>
  <2>1. 1 \in 1..(2 * NumCores) /\ 1 <= NumCores /\ Len(TlsTransfers) # 0
    BY <1>1, Crt0Assumption
  <2> QED
    BY <1>1, <2>1 DEF TlsTransfers, DmCore
<1>4. /\ ClsTransfers \in Seq(Transfers) /\ Len(ClsTransfers) = 2
      /\ ClsTransfers[1] = <<"cdata">> /\ ClsTransfers[2] = <<"cbss">>
  BY DEF ClsTransfers, Transfers
<1>5. /\ \A c \in Clusters : BssTransfers(c) \in Seq(Transfers)
      /\ BssTransfers(0) = <<<<"bss">>>>
  <2>1. <<<<"bss">>>> \in Seq(Transfers) /\ <<>> \in Seq(Transfers)
    BY DEF Transfers
  <2> QED
    BY <2>1 DEF BssTransfers
<1> QED
  BY <1>1, <1>2, <1>3, <1>4, <1>5
-----------------------------------------------------------------------------
(* snrt_dma_start_1d keeps the invariant: the transfer is pending as before. *)
LEMMA StartTransferKeeps ==
    ASSUME IInv, NEW c \in Clusters, StartTransfer(c)
    PROVE  IInv'
<1> USE DEF IInv
<1>1. /\ dma[c] \in Seq(Transfers) /\ todo[c] \in Seq(Transfers) /\ todo[c] # <<>>
      /\ dma'[c] = Append(dma[c], Head(todo[c])) /\ todo'[c] = Tail(todo[c])
      /\ \A e \in Clusters \ {c} : dma'[e] = dma[e] /\ todo'[e] = todo[e]
      /\ Dm(c) \in {"tls", "bss", "cls"}
      /\ UNCHANGED <<hw, pc, mem>>
  BY DEF TypeOK, StartTransfer, Dm
<1>2. TypeOK'
  BY <1>1 DEF TypeOK, StartTransfer, hw, mem, Hw!HwTypeOK
<1>3. ArrivalsAreStalls' /\ InStep' /\ AllocatorSet'
  BY <1>1 DEF ArrivalsAreStalls, InStep, AllocatorSet, Dm, hw, mem
<1>4. IssuedAndComplete'
  BY <1>1 DEF IssuedAndComplete, Dm
<1>5. DmTdataFirst'
  <2> SUFFICES ASSUME NEW d \in Clusters
               PROVE  \/ <<d, DmCore>> \in tdata'
                      \/ dma'[d] # <<>> /\ dma'[d][1] = <<"tdata", DmCore>>
                      \/ dma'[d] = <<>> /\ todo'[d] # <<>> /\ todo'[d][1] = <<"tdata", DmCore>>
    BY DEF DmTdataFirst
  <2>1. CASE d # c
    BY <1>1, <2>1 DEF DmTdataFirst, mem
  <2>2. dma'[c] # <<>> /\ (dma[c] = <<>> => dma'[c][1] = todo[c][1])
        /\ (dma[c] # <<>> => dma'[c][1] = dma[c][1])
    BY <1>1
  <2> QED
    BY <1>1, <2>1, <2>2 DEF DmTdataFirst, mem
<1>6. NothingForgotten'
  BY <1>1, StartKeepsPending DEF NothingForgotten, Dm, mem
<1> QED
  BY <1>2, <1>3, <1>4, <1>5, <1>6

(* The DM core goes on, without an access to memory, to a place that its   *)
(* transfers allow.                                                        *)
LEMMA DmGoes ==
    ASSUME IInv, NEW c \in Clusters, NEW l \in Places \ {"main", "stall1", "stall2", "barrier2"},
           Goto(<<c, DmCore>>, l), UNCHANGED <<hw, todo, dma, mem>>,
           Dm(c) \notin {"main", "stall1", "stall2", "barrier2"},
           Dm(c) \in Early <=> l \in Early,
           Dm(c) \in Early \cup {"bss", "clsptr"} <=> l \in Early \cup {"bss", "clsptr"},
           todo[c] = <<>>,
           l = "libs" => dma[c] = <<>>
    PROVE  IInv'
<1> USE DEF IInv
<1>1. /\ Dm(c)' = l
      /\ \A d \in Clusters \ {c} : Dm(d)' = Dm(d)
      /\ \A x \in Cores \ {<<c, DmCore>>} : pc'[x] = pc[x]
  BY Shape DEF TypeOK, Goto, Dm
<1>2. TypeOK'
  BY DEF TypeOK, Goto, hw, mem, Hw!HwTypeOK
<1>3. \A d \in Clusters, i \in CoreIds :
         \/ pc'[<<d, i>>] = pc[<<d, i>>]
         \/ d = c /\ i = DmCore /\ pc[<<d, i>>] = Dm(c) /\ pc'[<<d, i>>] = l
  BY <1>1, Shape DEF Dm
<1>4. ArrivalsAreStalls'
  BY <1>3 DEF ArrivalsAreStalls, hw
<1>5. InStep'
  <2>1. \A d \in Clusters : \/ Dm(d)' = Dm(d)
                            \/ d = c /\ Dm(d)' = l
    BY <1>1
  <2> QED
    BY <1>3, <2>1 DEF InStep
<1>6. IssuedAndComplete'
  BY <1>1 DEF IssuedAndComplete, Places
<1>7. DmTdataFirst'
  BY DEF DmTdataFirst, mem
<1>8. \A d \in Clusters : \A t : Pending(d, t) => Pending(d, t)'
  BY DEF Pending
<1>9. NothingForgotten'
  BY <1>1, <1>8 DEF NothingForgotten, mem
<1>10. AllocatorSet'
  BY <1>1 DEF AllocatorSet, mem
<1> QED
  BY <1>2, <1>4, <1>5, <1>6, <1>7, <1>9, <1>10

(* The DM core has issued the transfers of a function, or waited for all   *)
(* of them.                                                                *)
LEMMA IssuedKeeps ==
    ASSUME IInv, NEW c \in Clusters,
           TlsIssued(c) \/ BssIssued(c) \/ ClsIssued(c) \/ DmaWaitAll(c)
    PROVE  IInv'
<1>1. CASE TlsIssued(c)
  BY <1>1, DmGoes DEF TlsIssued, Dm, Early, Places
<1>2. CASE BssIssued(c)
  BY <1>2, DmGoes DEF BssIssued, Dm, Early, Places
<1>3. CASE ClsIssued(c)
  BY <1>3, DmGoes DEF ClsIssued, Dm, Early, Places
<1>4. CASE DmaWaitAll(c)
  <2>1. todo[c] = <<>>
    BY <1>4 DEF DmaWaitAll, IInv, IssuedAndComplete, Dm
  <2> QED
    BY <1>4, <2>1, DmGoes DEF DmaWaitAll, Dm, Early, Places
<1> QED
  BY <1>1, <1>2, <1>3, <1>4

(* snrt_init_libs keeps the invariant: the allocator is set up when no     *)
(* transfer is left that could clear it.                                   *)
LEMMA InitLibsKeeps ==
    ASSUME IInv, NEW c \in Clusters, InitLibs(c)
    PROVE  IInv'
<1> USE DEF IInv
<1>1. /\ Dm(c) = "libs" /\ Dm(c)' = "barrier2"
      /\ \A d \in Clusters \ {c} : Dm(d)' = Dm(d)
      /\ \A x \in Cores \ {<<c, DmCore>>} : pc'[x] = pc[x]
      /\ UNCHANGED <<hw, todo, dma, tdata, cls_ptr, cls, bss>>
  BY Shape DEF TypeOK, InitLibs, Goto, Dm
<1>2. TypeOK'
  BY <1>1 DEF TypeOK, InitLibs, Goto, Places, hw, Hw!HwTypeOK
<1>3. \A d \in Clusters, i \in CoreIds :
         \/ pc'[<<d, i>>] = pc[<<d, i>>]
         \/ d = c /\ i = DmCore /\ pc[<<d, i>>] = "libs" /\ pc'[<<d, i>>] = "barrier2"
  BY <1>1, Shape DEF Dm
<1>4. ArrivalsAreStalls'
  BY <1>1, <1>3 DEF ArrivalsAreStalls, hw
<1>5. InStep'
  <2>1. \A d \in Clusters : \/ Dm(d)' = Dm(d)
                            \/ d = c /\ Dm(d) = "libs" /\ Dm(d)' = "barrier2"
    BY <1>1
  <2>2. \A d \in Clusters : /\ Dm(d)' \in Early <=> Dm(d) \in Early
                            /\ Dm(d)' = "main" <=> Dm(d) = "main"
    BY <2>1 DEF Early
  <2>3. \A d \in Clusters, i \in CoreIds :
            /\ pc'[<<d, i>>] \in Early <=> pc[<<d, i>>] \in Early
            /\ pc'[<<d, i>>] = "main" <=> pc[<<d, i>>] = "main"
    BY <1>3 DEF Early
  <2> QED
    BY <2>2, <2>3 DEF InStep
<1>6. IssuedAndComplete'
  BY <1>1 DEF IssuedAndComplete
<1>7. DmTdataFirst'
  BY <1>1 DEF DmTdataFirst
<1>8. \A d \in Clusters : \A t : Pending(d, t) => Pending(d, t)'
  BY <1>1 DEF Pending
<1>9. NothingForgotten'
  BY <1>1, <1>8 DEF NothingForgotten, Early
<1>10. AllocatorSet'
  BY <1>1 DEF AllocatorSet, InitLibs
<1> QED
  BY <1>2, <1>4, <1>5, <1>6, <1>7, <1>9, <1>10

(* snrt_init_cls keeps the invariant: the DM core begins to issue the      *)
(* transfers of the cluster-local sections.                                *)
LEMMA SetClsPtrKeeps ==
    ASSUME IInv, NEW c \in Clusters, NEW i \in CoreIds, SetClsPtr(c, i)
    PROVE  IInv'
<1> USE DEF IInv
<1>1. /\ pc[<<c, i>>] = "clsptr"
      /\ pc'[<<c, i>>] = IF i = DmCore THEN "cls" ELSE "barrier2"
      /\ \A x \in Cores \ {<<c, i>>} : pc'[x] = pc[x] /\ cls_ptr'[x] = cls_ptr[x]
      /\ \A d \in Clusters \ {c} : Dm(d)' = Dm(d) /\ todo'[d] = todo[d]
      /\ i = DmCore => Dm(c) = "clsptr" /\ Dm(c)' = "cls"
      /\ i # DmCore => Dm(c)' = Dm(c) /\ todo'[c] = todo[c]
      /\ UNCHANGED <<hw, dma, tdata, cls, l1_allocator, bss>>
  BY Shape DEF TypeOK, SetClsPtr, Goto, Dm
<1>2. i = DmCore => todo[c] = <<>> /\ todo'[c] = ClsTransfers
  BY <1>1 DEF IssuedAndComplete, SetClsPtr, TypeOK
<1>3. TypeOK'
  <2>1. /\ pc' \in [Cores -> Places]
        /\ cls_ptr' \in [Cores -> {"junk", "null", "base"}]
    BY Shape DEF TypeOK, SetClsPtr, Goto, Places
  <2>2. todo' \in [Clusters -> Seq(Transfers)]
    BY TransfersIssued DEF TypeOK, SetClsPtr
  <2> QED
    BY <1>1, <2>1, <2>2 DEF TypeOK, hw, Hw!HwTypeOK
<1>4. \A d \in Clusters, j \in CoreIds :
         \/ pc'[<<d, j>>] = pc[<<d, j>>]
         \/ /\ d = c /\ j = i /\ pc[<<d, j>>] = "clsptr"
            /\ pc'[<<d, j>>] = IF i = DmCore THEN "cls" ELSE "barrier2"
  BY <1>1, Shape
<1>5. ArrivalsAreStalls'
  BY <1>1, <1>4 DEF ArrivalsAreStalls, hw
<1>6. \A d \in Clusters : \/ Dm(d)' = Dm(d)
                          \/ d = c /\ i = DmCore /\ Dm(d) = "clsptr" /\ Dm(d)' = "cls"
  BY <1>1
<1>7. InStep'
  <2>2. \A d \in Clusters : /\ Dm(d)' \in Early <=> Dm(d) \in Early
                            /\ Dm(d)' = "main" <=> Dm(d) = "main"
    BY <1>6 DEF Early
  <2>3. \A d \in Clusters, j \in CoreIds :
            /\ pc'[<<d, j>>] \in Early <=> pc[<<d, j>>] \in Early
            /\ pc'[<<d, j>>] = "main" <=> pc[<<d, j>>] = "main"
    BY <1>4 DEF Early
  <2> QED
    BY <2>2, <2>3 DEF InStep
<1>8. IssuedAndComplete'
  BY <1>1, <1>2, <1>6 DEF IssuedAndComplete
<1>9. DmTdataFirst'
  BY <1>1, <1>2 DEF DmTdataFirst
<1>10. \A d \in Clusters : \A t : Pending(d, t) => Pending(d, t)'
  BY <1>1, <1>2, NewTodoKeepsPending
<1>11. i = DmCore => Pending(c, <<"cdata">>)' /\ Pending(c, <<"cbss">>)'
  <2>1. 1 \in 1..Len(ClsTransfers) /\ 2 \in 1..Len(ClsTransfers)
    BY TransfersIssued
  <2> QED
    BY <1>2, <2>1, TransfersIssued DEF Pending
<1>12. NothingForgotten'
  BY <1>1, <1>6, <1>10, <1>11 DEF NothingForgotten, Early
<1>13. AllocatorSet'
  <2> SUFFICES ASSUME NEW d \in Clusters, Dm(d)' \in {"barrier2", "stall2", "main"},
                      cls_ptr'[<<d, DmCore>>] = "base"
               PROVE  d \in l1_allocator
    BY <1>1 DEF AllocatorSet
  <2>1. Dm(d)' = Dm(d) /\ cls_ptr'[<<d, DmCore>>] = cls_ptr[<<d, DmCore>>]
    BY <1>1, <1>6, Shape
  <2> QED
    BY <2>1 DEF AllocatorSet
<1> QED
  BY <1>3, <1>5, <1>7, <1>8, <1>9, <1>12, <1>13
(* A core that arrives at a barrier keeps the invariant. *)
LEMMA EnterBarrierKeeps ==
    ASSUME IInv, NEW c \in Clusters, NEW i \in CoreIds, EnterBarrier(c, i)
    PROVE  IInv'
<1> USE DEF IInv
<1>1. /\ \/ pc[<<c, i>>] = "barrier1" /\ pc'[<<c, i>>] = "stall1"
         \/ pc[<<c, i>>] = "barrier2" /\ pc'[<<c, i>>] = "stall2"
      /\ \A x \in Cores \ {<<c, i>>} : pc'[x] = pc[x]
      /\ UNCHANGED <<todo, dma, mem>>
  BY Shape DEF TypeOK, EnterBarrier, Goto
<1>2. \A d \in Clusters, j \in CoreIds :
         \/ pc'[<<d, j>>] = pc[<<d, j>>] /\ (d # c \/ j # i)
         \/ d = c /\ j = i /\ pc[<<d, j>>] = "barrier1" /\ pc'[<<d, j>>] = "stall1"
         \/ d = c /\ j = i /\ pc[<<d, j>>] = "barrier2" /\ pc'[<<d, j>>] = "stall2"
  BY <1>1, Shape
<1>3. \A d \in Clusters : \/ Dm(d)' = Dm(d)
                          \/ Dm(d) = "barrier1" /\ Dm(d)' = "stall1"
                          \/ Dm(d) = "barrier2" /\ Dm(d)' = "stall2"
  BY <1>2, Shape DEF Dm
<1>4. /\ arrival[c] # CoreIds
      /\ arrival' = [arrival EXCEPT ![c] = @ \cup {i}]
      /\ csr_stall' = [csr_stall EXCEPT ![c] = @ \cup {i}]
  BY DEF EnterBarrier, Hw!ReadBarrierCsr, Hw!Fires, ArrivalsAreStalls
<1>5. TypeOK'
  <2>1. pc' \in [Cores -> Places]
    BY DEF TypeOK, EnterBarrier, Goto, Places, Early
  <2> QED
    BY <1>1, <1>4, <2>1 DEF TypeOK, mem, Hw!HwTypeOK
<1>6. ArrivalsAreStalls'
  <2>1. /\ arrival'[c] = arrival[c] \cup {i} /\ csr_stall'[c] = csr_stall[c] \cup {i}
        /\ \A d \in Clusters \ {c} : arrival'[d] = arrival[d] /\ csr_stall'[d] = csr_stall[d]
    BY <1>4 DEF TypeOK, Hw!HwTypeOK
  <2>2. \A d \in Clusters, j \in CoreIds :
            j \in csr_stall'[d] <=> pc'[<<d, j>>] \in {"stall1", "stall2"}
    <3> SUFFICES ASSUME NEW d \in Clusters, NEW j \in CoreIds
                 PROVE  j \in csr_stall'[d] <=> pc'[<<d, j>>] \in {"stall1", "stall2"}
      OBVIOUS
    <3>1. CASE d = c /\ j = i
      BY <1>2, <2>1, <3>1
    <3>2. CASE d # c \/ j # i
      BY <1>2, <2>1, <3>2 DEF ArrivalsAreStalls
    <3> QED
      BY <3>1, <3>2
  <2> QED
    BY <2>1, <2>2 DEF ArrivalsAreStalls
<1>7. InStep'
  <2>1. \A d \in Clusters : /\ Dm(d)' \in Early <=> Dm(d) \in Early
                            /\ Dm(d)' = "main" <=> Dm(d) = "main"
    BY <1>3 DEF Early
  <2>2. \A d \in Clusters, j \in CoreIds :
            /\ pc'[<<d, j>>] \in Early <=> pc[<<d, j>>] \in Early
            /\ pc'[<<d, j>>] = "main" <=> pc[<<d, j>>] = "main"
    BY <1>2 DEF Early
  <2> QED
    BY <2>1, <2>2 DEF InStep
<1>8. IssuedAndComplete'
  BY <1>1, <1>3 DEF IssuedAndComplete
<1>9. DmTdataFirst'
  BY <1>1 DEF DmTdataFirst, mem
<1>10. \A d \in Clusters : \A t : Pending(d, t) => Pending(d, t)'
  BY <1>1 DEF Pending
<1>11. NothingForgotten'
  BY <1>1, <1>3, <1>10 DEF NothingForgotten, Early, mem
<1>12. AllocatorSet'
  BY <1>1, <1>3 DEF AllocatorSet, mem
<1> QED
  BY <1>5, <1>6, <1>7, <1>8, <1>9, <1>11, <1>12

(* The barrier of a cluster fires when all its cores are at the same one.  *)
LEMMA BarrierFiresKeeps ==
    ASSUME IInv, NEW c \in Clusters, BarrierFires(c)
    PROVE  IInv'
<1> USE DEF IInv
<1>1. /\ \A i \in CoreIds : pc[<<c, i>>] \in {"stall1", "stall2"}
      /\ arrival' = [arrival EXCEPT ![c] = {}]
      /\ csr_stall' = [csr_stall EXCEPT ![c] = {}]
      /\ \A d \in Clusters \ {c} : todo'[d] = todo[d]
      /\ UNCHANGED <<dma, mem>>
  BY DEF BarrierFires, Hw!Fire, Hw!Fires, ArrivalsAreStalls, TypeOK
<1>2. \A d \in Clusters \ {c}, i \in CoreIds : pc'[<<d, i>>] = pc[<<d, i>>]
  BY Shape DEF BarrierFires
<1>3. \A d \in Clusters \ {c} : Dm(d)' = Dm(d)
  BY <1>2, Shape DEF Dm
<1>4. Dm(c) \in {"stall1", "stall2"} /\ todo[c] = <<>>
  BY <1>1, Shape DEF Dm, IssuedAndComplete
<1>5. TypeOK'
  <2>1. pc' \in [Cores -> Places]
    BY DEF BarrierFires, AfterBarrier, TypeOK, Places
  <2>2. todo' \in [Clusters -> Seq(Transfers)]
    BY TransfersIssued DEF TypeOK, BarrierFires
  <2> QED
    BY <1>1, <2>1, <2>2 DEF TypeOK, mem, Hw!HwTypeOK
<1>6. \A d \in Clusters : \A t : Pending(d, t) => Pending(d, t)'
  BY <1>1, <1>4, NewTodoKeepsPending
<1>7. CASE Dm(c) = "stall1"
  <2>1. \A i \in CoreIds : pc[<<c, i>>] = "stall1"
    BY <1>1, <1>7 DEF InStep, Early
  <2>2. \A i \in CoreIds : pc'[<<c, i>>] = IF i = DmCore THEN "bss" ELSE "clsptr"
    BY <2>1, Shape DEF BarrierFires, AfterBarrier
  <2>3. Dm(c)' = "bss" /\ todo'[c] = BssTransfers(c)
    BY <1>7, <2>2, Shape DEF Dm, BarrierFires, TypeOK
  <2>4. ArrivalsAreStalls'
    <3>1. /\ arrival'[c] = {} /\ csr_stall'[c] = {}
          /\ \A d \in Clusters \ {c} : arrival'[d] = arrival[d] /\ csr_stall'[d] = csr_stall[d]
      BY <1>1 DEF TypeOK, Hw!HwTypeOK
    <3> QED
      BY <1>2, <2>2, <3>1 DEF ArrivalsAreStalls
  <2>5. InStep'
    <3>1. \A i \in CoreIds : /\ pc'[<<c, i>>] \notin Early /\ pc'[<<c, i>>] # "main"
                             /\ Dm(c)' \notin Early /\ Dm(c)' # "main"
      BY <2>2, <2>3 DEF Early
    <3>2. \A d \in Clusters \ {c}, i \in CoreIds :
              /\ pc'[<<d, i>>] \in Early <=> Dm(d)' \in Early
              /\ pc'[<<d, i>>] = "main" <=> Dm(d)' = "main"
      BY <1>2, <1>3 DEF InStep
    <3> QED
      BY <3>1, <3>2 DEF InStep
  <2>6. IssuedAndComplete'
    BY <1>1, <1>3, <2>3 DEF IssuedAndComplete
  <2>7. DmTdataFirst'
    BY <1>1, <1>4 DEF DmTdataFirst, mem
  <2>8. c = 0 => Pending(c, <<"bss">>)'
    <3>1. c = 0 => Len(todo'[c]) = 1 /\ todo'[c][1] = <<"bss">>
      BY <2>3, TransfersIssued
    <3> QED
      BY <3>1 DEF Pending
  <2>9. NothingForgotten'
    BY <1>1, <1>3, <1>6, <2>3, <2>8 DEF NothingForgotten, mem
  <2>10. AllocatorSet'
    BY <1>1, <1>3, <2>3 DEF AllocatorSet, mem
  <2> QED
    BY <1>5, <2>4, <2>5, <2>6, <2>7, <2>9, <2>10
<1>8. CASE Dm(c) = "stall2"
  <2>1. \A i \in CoreIds : pc[<<c, i>>] = "stall2"
    BY <1>1, <1>8 DEF InStep, Early
  <2>2. \A i \in CoreIds : pc'[<<c, i>>] = "main"
    BY <2>1, Shape DEF BarrierFires, AfterBarrier
  <2>3. Dm(c)' = "main" /\ todo'[c] = todo[c]
    BY <1>8, <2>2, Shape DEF Dm, BarrierFires, TypeOK
  <2>4. ArrivalsAreStalls'
    <3>1. /\ arrival'[c] = {} /\ csr_stall'[c] = {}
          /\ \A d \in Clusters \ {c} : arrival'[d] = arrival[d] /\ csr_stall'[d] = csr_stall[d]
      BY <1>1 DEF TypeOK, Hw!HwTypeOK
    <3> QED
      BY <1>2, <2>2, <3>1 DEF ArrivalsAreStalls
  <2>5. InStep'
    <3>1. \A i \in CoreIds : /\ pc'[<<c, i>>] \notin Early /\ pc'[<<c, i>>] = "main"
                             /\ Dm(c)' \notin Early /\ Dm(c)' = "main"
      BY <2>2, <2>3 DEF Early
    <3>2. \A d \in Clusters \ {c}, i \in CoreIds :
              /\ pc'[<<d, i>>] \in Early <=> Dm(d)' \in Early
              /\ pc'[<<d, i>>] = "main" <=> Dm(d)' = "main"
      BY <1>2, <1>3 DEF InStep
    <3> QED
      BY <3>1, <3>2 DEF InStep
  <2>6. IssuedAndComplete'
    BY <1>1, <1>3, <1>4, <1>8, <2>3 DEF IssuedAndComplete
  <2>7. DmTdataFirst'
    BY <1>1, <2>3 DEF DmTdataFirst, mem
  <2>8. NothingForgotten'
    BY <1>1, <1>3, <1>6, <1>8, <2>3 DEF NothingForgotten, mem, Early
  <2>9. AllocatorSet'
    BY <1>1, <1>3, <1>8, <2>3 DEF AllocatorSet, mem
  <2> QED
    BY <1>5, <2>4, <2>5, <2>6, <2>7, <2>8, <2>9
<1> QED
  BY <1>4, <1>7, <1>8

(* A transfer that completes initialises its section; by the time it could *)
(* clear the allocator there is none left.                                 *)
LEMMA TransferKeeps ==
    ASSUME IInv, NEW c \in Clusters, Transfer(c)
    PROVE  IInv'
<1> USE DEF IInv
<1> DEFINE t == dma[c][1]
<1>1. /\ dma[c] \in Seq(Transfers) /\ dma[c] # <<>>
      /\ dma'[c] = Tail(dma[c]) /\ UNCHANGED todo
      /\ \A e \in Clusters \ {c} : dma'[e] = dma[e]
      /\ UNCHANGED <<hw, pc>>
      /\ t = Head(dma[c]) /\ t \in Transfers
  BY DEF TypeOK, Transfer
<1>2. /\ tdata \subseteq tdata' /\ cls \subseteq cls'
      /\ bss' <=> bss \/ t[1] = "bss"
      /\ t[1] = "cdata" => <<c, "cdata">> \in cls'
      /\ t[1] = "cbss" => <<c, "cbss">> \in cls'
  BY <1>1 DEF Transfer
<1>3. \A d \in Clusters : Dm(d)' = Dm(d)
  BY <1>1 DEF Dm
<1>4. Dm(c) \notin {"libs", "barrier2", "stall2", "main"}
  BY <1>1 DEF IssuedAndComplete
<1>5. TypeOK'
  <2>1. t[1] = "tbss" => t[2] \in CoreIds
    BY <1>1 DEF Transfers
  <2>2. cls_ptr' \in [Cores -> {"junk", "null", "base"}]
    BY <1>1, <2>1, Shape DEF TypeOK, Transfer
  <2>3. dma' \in [Clusters -> Seq(Transfers)]
    BY <1>1 DEF TypeOK, Transfer
  <2> QED
    BY <1>1, <2>2, <2>3 DEF TypeOK, hw, Hw!HwTypeOK
<1>6. ArrivalsAreStalls' /\ InStep'
  BY <1>1 DEF ArrivalsAreStalls, InStep, hw, Dm
<1>7. IssuedAndComplete'
  BY <1>1, <1>3, <1>4 DEF IssuedAndComplete
<1>8. ASSUME NEW i \in CoreIds, t = <<"tdata", i>>
      PROVE  <<c, i>> \in tdata'
  <2>1. i = DmCore \/ <<c, DmCore>> \in tdata
    BY <1>1, <1>8 DEF DmTdataFirst
  <2> QED
    BY <1>1, <1>8, <2>1 DEF Transfer
<1>9. DmTdataFirst'
  <2>1. <<c, DmCore>> \in tdata'
    BY <1>1, <1>2, <1>8, Shape DEF DmTdataFirst
  <2> QED
    BY <1>1, <1>2, <2>1 DEF DmTdataFirst
<1>10. NothingForgotten'
  <2>1. \A d \in Clusters : \A u : Pending(d, u) => Pending(d, u)' \/ (d = c /\ u = t)
    BY TransferKeepsPending
  <2>2. \A d \in Clusters, i \in CoreIds :
            <<d, i>> \in tdata' \/ Pending(d, <<"tdata", i>>)'
    BY <1>2, <1>8, <2>1 DEF NothingForgotten
  <2>3. \A d \in Clusters : Dm(d) \notin Early \cup {"bss", "clsptr"} =>
            /\ <<d, "cdata">> \in cls' \/ Pending(d, <<"cdata">>)'
            /\ <<d, "cbss">> \in cls' \/ Pending(d, <<"cbss">>)'
    BY <1>2, <2>1 DEF NothingForgotten
  <2>4. ASSUME NEW d \in Clusters, d = 0, Dm(d) \notin Early
        PROVE  bss' \/ Pending(d, <<"bss">>)'
    <3>1. bss \/ Pending(d, <<"bss">>)
      BY <2>4 DEF NothingForgotten
    <3>2. Pending(d, <<"bss">>) => Pending(d, <<"bss">>)' \/ t = <<"bss">>
      BY <2>1
    <3>3. t = <<"bss">> => t[1] = "bss"
      OBVIOUS
    <3> QED
      BY <1>2, <3>1, <3>2, <3>3
  <2> QED
    BY <1>3, <2>2, <2>3, <2>4 DEF NothingForgotten
<1>11. AllocatorSet'
  <2> SUFFICES ASSUME NEW d \in Clusters, Dm(d) \in {"barrier2", "stall2", "main"},
                      cls_ptr'[<<d, DmCore>>] = "base"
               PROVE  d \in l1_allocator'
    BY <1>3 DEF AllocatorSet
  <2>1. d # c
    BY <1>4
  <2>2. t[1] = "tbss" => <<c, t[2]>> # <<d, DmCore>>
    BY <2>1
  <2>3. cls_ptr'[<<d, DmCore>>] = cls_ptr[<<d, DmCore>>]
    BY <1>1, <2>2, Shape DEF Transfer, TypeOK
  <2> QED
    BY <2>1, <2>3 DEF AllocatorSet, Transfer
<1> QED
  BY <1>5, <1>6, <1>7, <1>9, <1>10, <1>11

-----------------------------------------------------------------------------
(* At the start everything is still to be issued. *)
LEMMA InitIInv == Init => IInv
<1> SUFFICES ASSUME Init
             PROVE  IInv
  OBVIOUS
<1>1. /\ \A c \in Clusters, i \in CoreIds :
            pc[<<c, i>>] = IF i = DmCore THEN "tls" ELSE "barrier1"
      /\ \A c \in Clusters : Dm(c) = "tls"
      /\ \A c \in Clusters : todo[c] = TlsTransfers /\ dma[c] = <<>>
  BY Shape DEF Init, Dm
<1>2. TypeOK
  BY TransfersIssued DEF Init, TypeOK, Places, Early, Hw!HwInit, Hw!HwTypeOK
<1>3. ArrivalsAreStalls
  BY <1>1 DEF Init, Hw!HwInit, ArrivalsAreStalls
<1>4. InStep /\ IssuedAndComplete /\ AllocatorSet
  BY <1>1 DEF InStep, IssuedAndComplete, AllocatorSet, Early
<1>5. DmTdataFirst
  BY <1>1, TransfersIssued DEF DmTdataFirst
<1>6. NothingForgotten
  <2>1. \A c \in Clusters, i \in CoreIds : Pending(c, <<"tdata", i>>)
    BY <1>1, TransfersIssued DEF Pending
  <2> QED
    BY <1>1, <2>1 DEF NothingForgotten, Early
<1> QED
  BY <1>2, <1>3, <1>4, <1>5, <1>6 DEF IInv

(* Every step of the start of a program keeps the invariant. *)
LEMMA NextIInv ==
    ASSUME IInv, [Next]_vars
    PROVE  IInv'
<1>1. CASE UNCHANGED vars
  <2> USE <1>1 DEF vars, hw, mem
  <2>1. TypeOK' /\ ArrivalsAreStalls' /\ InStep' /\ IssuedAndComplete' /\ AllocatorSet'
    BY DEF IInv, TypeOK, Hw!HwTypeOK, ArrivalsAreStalls, InStep,
       IssuedAndComplete, AllocatorSet, Dm
  <2>2. DmTdataFirst' /\ NothingForgotten'
    BY DEF IInv, DmTdataFirst, NothingForgotten, Pending, Dm
  <2> QED
    BY <2>1, <2>2 DEF IInv
<1>2. ASSUME NEW c \in Clusters, CoreStep(c) \/ BarrierFires(c) \/ Transfer(c)
      PROVE  IInv'
  BY <1>2, StartTransferKeeps, IssuedKeeps, InitLibsKeeps, BarrierFiresKeeps,
     TransferKeeps
  DEF CoreStep
<1>3. ASSUME NEW c \in Clusters, NEW i \in CoreIds, EnterBarrier(c, i) \/ SetClsPtr(c, i)
      PROVE  IInv'
  BY <1>3, EnterBarrierKeeps, SetClsPtrKeeps
<1> QED
  BY <1>1, <1>2, <1>3 DEF Next

(* In every reachable state of the start of a program, what a core needs   *)
(* in main is initialised or still to be transferred before the wait of    *)
(* its DM core ends.                                                       *)
THEOREM Invariance == Spec => []IInv
<1>1. Init => IInv
  BY InitIInv
<1>2. IInv /\ [Next]_vars => IInv'
  BY NextIInv
<1> QED
  BY <1>1, <1>2, PTL DEF Spec

(* A cluster whose DM core is in main has no transfer left. *)
LEMMA NothingPendingInMain ==
    ASSUME IInv, NEW c \in Clusters, Dm(c) = "main"
    PROVE  \A t : ~Pending(c, t)
<1>1. todo[c] = <<>> /\ dma[c] = <<>>
  BY DEF IInv, IssuedAndComplete
<1> QED
  BY <1>1 DEF Pending

(* A core in main finds its thread-local data and the cluster-local        *)
(* sections of its cluster, and the L1 allocator as snrt_alloc_init left   *)
(* it, with any number of clusters.                                        *)
THEOREM SectionsReady == Spec => []SectionsReadyInMain
<1>1. IInv => SectionsReadyInMain
  <2> SUFFICES ASSUME IInv, NEW x \in Cores, InMain(x)
               PROVE  /\ x \in tdata
                      /\ {<<x[1], "cdata">>, <<x[1], "cbss">>} \subseteq cls
                      /\ cls_ptr[<<x[1], DmCore>>] = "base" => x[1] \in l1_allocator
    BY DEF SectionsReadyInMain
  <2>1. PICK c \in Clusters, i \in CoreIds : x = <<c, i>>
    BY Shape
  <2>2. Dm(c) = "main"
    BY <2>1 DEF IInv, InStep, InMain
  <2>3. \A t : ~Pending(c, t)
    BY <2>2, NothingPendingInMain
  <2> QED
    BY <2>1, <2>2, <2>3 DEF IInv, NothingForgotten, AllocatorSet, Early
<1> QED
  BY <1>1, Invariance, PTL

BssReadyInCluster0 ==
    \A i \in CoreIds : InMain(<<0, i>>) => bss

(* Only the DM core of cluster 0 clears .bss (start.c:62): the cores of    *)
(* that cluster find it cleared.                                           *)
THEOREM BssReadyWhereCleared == Spec => []BssReadyInCluster0
<1>1. IInv => BssReadyInCluster0
  <2> SUFFICES ASSUME IInv, NEW i \in CoreIds, InMain(<<0, i>>)
               PROVE  bss
    BY DEF BssReadyInCluster0
  <2>1. 0 \in Clusters
    BY Crt0Assumption DEF Clusters
  <2>2. Dm(0) = "main"
    BY <2>1 DEF IInv, InStep, InMain
  <2>3. \A t : ~Pending(0, t)
    BY <2>1, <2>2, NothingPendingInMain
  <2> QED
    BY <2>1, <2>2, <2>3 DEF IInv, NothingForgotten, Early
<1> QED
  BY <1>1, Invariance, PTL

(* With one cluster, as in the snitch_cluster target, these are all cores. *)
THEOREM BssReady ==
    ASSUME NumClusters = 1
    PROVE  Spec => []BssReadyInMain
<1>1. BssReadyInCluster0 => BssReadyInMain
  <2>1. Clusters = {0}
    BY DEF Clusters
  <2> QED
    BY <2>1, Shape DEF BssReadyInCluster0, BssReadyInMain, InMain
<1> QED
  BY <1>1, BssReadyWhereCleared, PTL
=============================================================================
