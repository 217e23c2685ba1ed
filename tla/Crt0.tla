-------------------------------- MODULE Crt0 --------------------------------
(***************************************************************************)
(* The start of a program: snrt_main of sw/snRuntime/src/start.c as the    *)
(* snitch_cluster runtimes configure it (SNRT_INIT_TLS, _BSS, _CLS, _LIBS  *)
(* and SNRT_CRT0_PRE_BARRIER defined), up to the call of main().           *)
(*                                                                         *)
(* Sections are initialised by transfers that the DM core of each cluster  *)
(* gives to its DMA engine.  The engine is external: it takes DmaDepth     *)
(* transfers, completes them in order, and the core that issued them does  *)
(* not wait unless it calls snrt_dma_wait_all.                             *)
(***************************************************************************)
EXTENDS Naturals, Sequences

CONSTANTS
    NumClusters,    \* the clusters that start together
    NumCores,       \* cores of a cluster; the last one is the DM core
    DmaDepth        \* transfers the DMA engine takes before it blocks

ASSUME Crt0Assumption ==
    /\ NumClusters \in Nat \ {0} /\ NumCores \in Nat \ {0}
    /\ DmaDepth \in Nat \ {0}

Clusters == 0..(NumClusters - 1)
CoreIds == 0..(NumCores - 1)
Cores == Clusters \X CoreIds
DmCore == NumCores - 1

VARIABLES
    arrival, csr_stall,     \* HwBarrier
    pc,                     \* where each core is in snrt_main
    todo,                   \* transfers the DM core is about to issue
    dma,                    \* transfers in its DMA engine, oldest first
    tdata,                  \* the .tdata copies that are initialised
    cls_ptr,                \* _cls_ptr, a variable in each core's .tbss
    cls,                    \* cluster-local sections that are initialised
    l1_allocator,           \* clusters whose L1 allocator is initialised
    bss                     \* .bss has been cleared

hw == <<arrival, csr_stall>>
mem == <<tdata, cls_ptr, cls, l1_allocator, bss>>
vars == <<hw, pc, todo, dma, mem>>

Hw == INSTANCE HwBarrier

(* Mutant: the loop over the other cores ends one core too early. *)
TlsTransfersOneShort ==
    [k \in 1..(2 * NumCores - 1) |->
        IF k < NumCores THEN <<"tdata", NumCores - k>>
                        ELSE <<"tbss", 2 * NumCores - 1 - k>>]

(* The transfers of snrt_init_tls: every core's .tdata (the DM core's      *)
(* first, the others are copied from it), then every core's .tbss.  The    *)
(* i-th TLS section after the DM core's is that of core DmCore - i.        *)
TlsTransfers ==
    [k \in 1..(2 * NumCores) |->
        IF k <= NumCores THEN <<"tdata", NumCores - k>>
                         ELSE <<"tbss", 2 * NumCores - k>>]

BssTransfers(c) == IF c = 0 THEN <<<<"bss">>>> ELSE <<>>

ClsTransfers == <<<<"cdata">>, <<"cbss">>>>

Init ==
    /\ Hw!HwInit
    /\ pc = [x \in Cores |-> IF x[2] = DmCore THEN "tls" ELSE "barrier1"]
    /\ todo = [c \in Clusters |-> TlsTransfers]
    /\ dma = [c \in Clusters |-> <<>>]
    /\ tdata = {}
    /\ cls_ptr = [x \in Cores |-> "junk"]
    /\ cls = {}
    /\ l1_allocator = {}
    /\ bss = FALSE

Goto(x, l) == pc' = [pc EXCEPT ![x] = l]

(* snrt_dma_start_1d: the DM core gives the next transfer to its engine;   *)
(* it blocks while the engine is full.                                     *)
StartTransfer(c) ==
    /\ todo[c] # <<>>
    /\ pc[<<c, DmCore>>] \in {"tls", "bss", "cls"}
    /\ Len(dma[c]) < DmaDepth
    /\ dma' = [dma EXCEPT ![c] = Append(@, Head(todo[c]))]
    /\ todo' = [todo EXCEPT ![c] = Tail(@)]
    /\ UNCHANGED <<hw, pc, mem>>

(* The DM core has issued all transfers of a function and goes on:         *)
(* snrt_init_tls to its barrier, snrt_init_bss to snrt_init_cls, and that  *)
(* to the wait.                                                            *)
TlsIssued(c) ==
    /\ pc[<<c, DmCore>>] = "tls" /\ todo[c] = <<>>
    /\ Goto(<<c, DmCore>>, "barrier1")
    /\ UNCHANGED <<hw, todo, dma, mem>>

BssIssued(c) ==
    /\ pc[<<c, DmCore>>] = "bss" /\ todo[c] = <<>>
    /\ Goto(<<c, DmCore>>, "clsptr")
    /\ UNCHANGED <<hw, todo, dma, mem>>

ClsIssued(c) ==
    /\ pc[<<c, DmCore>>] = "cls" /\ todo[c] = <<>>
    /\ Goto(<<c, DmCore>>, "wait")
    /\ UNCHANGED <<hw, todo, dma, mem>>

(* snrt_cluster_hw_barrier(), in snrt_init_tls and before main. *)
EnterBarrier(c, i) ==
    /\ pc[<<c, i>>] \in {"barrier1", "barrier2"}
    /\ Hw!ReadBarrierCsr(c, i)
    /\ Goto(<<c, i>>, IF pc[<<c, i>>] = "barrier1" THEN "stall1" ELSE "stall2")
    /\ UNCHANGED <<todo, dma, mem>>

(* After the first barrier: snrt_init_bss (the DM core), snrt_init_cls. *)
AfterBarrier(x) ==
    CASE pc[x] = "stall1" -> IF x[2] = DmCore THEN "bss" ELSE "clsptr"
      [] pc[x] = "stall2" -> "main"
      [] OTHER            -> pc[x]

BarrierFires(c) ==
    /\ Hw!Fire(c)
    /\ pc' = [x \in Cores |-> IF x[1] = c THEN AfterBarrier(x) ELSE pc[x]]
    /\ todo' = [todo EXCEPT ![c] =
                  IF pc[<<c, DmCore>>] = "stall1" THEN BssTransfers(c) ELSE @]
    /\ UNCHANGED <<dma, mem>>

(* snrt_init_cls: _cls_ptr is set to snrt_cls_base_addr() on every core; a *)
(* compute core has nothing more to do before the barrier.                 *)
SetClsPtr(c, i) ==
    /\ pc[<<c, i>>] = "clsptr"
    /\ cls_ptr' = [cls_ptr EXCEPT ![<<c, i>>] = "base"]
    /\ Goto(<<c, i>>, IF i = DmCore THEN "cls" ELSE "barrier2")
    /\ todo' = [todo EXCEPT ![c] = IF i = DmCore THEN ClsTransfers ELSE @]
    /\ UNCHANGED <<hw, dma, tdata, cls, l1_allocator, bss>>

(* Mutant: the DM core does not wait for its transfers. *)
DmaWaitAllSkipped(c) ==
    /\ pc[<<c, DmCore>>] = "wait"
    /\ Goto(<<c, DmCore>>, "libs")
    /\ UNCHANGED <<hw, todo, dma, mem>>

(* "Single DMA wait call for both snrt_init_bss() and snrt_init_cls()" *)
DmaWaitAll(c) ==
    /\ pc[<<c, DmCore>>] = "wait"
    /\ dma[c] = <<>>
    /\ Goto(<<c, DmCore>>, "libs")
    /\ UNCHANGED <<hw, todo, dma, mem>>

(* snrt_init_libs: snrt_alloc_init writes the allocator through _cls_ptr.  *)
InitLibs(c) ==
    /\ pc[<<c, DmCore>>] = "libs"
    /\ l1_allocator' = IF cls_ptr[<<c, DmCore>>] = "base"
                       THEN l1_allocator \cup {c} ELSE l1_allocator
    /\ Goto(<<c, DmCore>>, "barrier2")
    /\ UNCHANGED <<hw, todo, dma, tdata, cls_ptr, cls, bss>>

(* External: the oldest transfer of an engine completes.  Core i's .tdata  *)
(* is a copy of the DM core's; .tbss holds _cls_ptr, which is cleared, and *)
(* .cbss the L1 allocator.                                                 *)
Transfer(c) ==
    LET t == Head(dma[c])
    IN  /\ dma[c] # <<>>
        /\ dma' = [dma EXCEPT ![c] = Tail(@)]
        /\ tdata' = IF /\ t[1] = "tdata"
                       /\ t[2] = DmCore \/ <<c, DmCore>> \in tdata
                    THEN tdata \cup {<<c, t[2]>>} ELSE tdata
        /\ cls_ptr' = IF t[1] = "tbss"
                      THEN [cls_ptr EXCEPT ![<<c, t[2]>>] = "null"] ELSE cls_ptr
        /\ cls' = IF t[1] \in {"cdata", "cbss"} THEN cls \cup {<<c, t[1]>>} ELSE cls
        /\ l1_allocator' = IF t[1] = "cbss" THEN l1_allocator \ {c} ELSE l1_allocator
        /\ bss' = (bss \/ t[1] = "bss")
        /\ UNCHANGED <<hw, pc, todo>>

CoreStep(c) ==
    \/ StartTransfer(c) \/ TlsIssued(c) \/ BssIssued(c) \/ ClsIssued(c)
    \/ DmaWaitAll(c) \/ InitLibs(c)

Next ==
    \/ \E c \in Clusters : CoreStep(c) \/ BarrierFires(c) \/ Transfer(c)
    \/ \E c \in Clusters, i \in CoreIds : EnterBarrier(c, i) \/ SetClsPtr(c, i)

(* Every core executes its instructions; the engines make progress. *)
Fairness ==
    /\ \A c \in Clusters :
           /\ WF_vars(CoreStep(c))
           /\ WF_vars(BarrierFires(c))
           /\ WF_vars(Transfer(c))
    /\ \A c \in Clusters, i \in CoreIds :
           WF_vars(EnterBarrier(c, i)) /\ WF_vars(SetClsPtr(c, i))

Spec == Init /\ [][Next]_vars /\ Fairness

-----------------------------------------------------------------------------
InMain(x) == pc[x] = "main"

(* A core that calls main finds its own initialised thread-local data and  *)
(* the cluster-local sections of its cluster in place, although only the   *)
(* DM core has waited for the transfers, and only once; and the allocator  *)
(* that was set up in one of these sections has not been cleared again.    *)
SectionsReadyInMain ==
    \A x \in Cores :
        InMain(x) =>
            /\ x \in tdata
            /\ {<<x[1], "cdata">>, <<x[1], "cbss">>} \subseteq cls
            /\ cls_ptr[<<x[1], DmCore>>] = "base" => x[1] \in l1_allocator

(* "Only one core needs to perform the initialization" (start.c:62): when  *)
(* one core clears .bss, it is cleared for every core that calls main.     *)
BssReadyInMain ==
    \A x \in Cores : InMain(x) => bss

(* "the DM core initializes the TLS section for every core in a cluster"   *)
(* (start.c:27), and a core that has passed the barrier of snrt_init_tls   *)
(* may write its thread-local variables: _cls_ptr keeps the value that     *)
(* snrt_init_cls has stored in it.                                         *)
ClsPtrKept ==
    \A x \in Cores : InMain(x) => cls_ptr[x] = "base"

(* Every core of every cluster gets to main. *)
AllReachMain == <>[](\A x \in Cores : InMain(x))
=============================================================================
