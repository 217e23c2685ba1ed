------------------------------ MODULE ForkJoin ------------------------------
(***************************************************************************)
(* What the OpenMP layer of the runtime promises to a program: a parallel  *)
(* region is executed once by each of its threads and by no other core,    *)
(* and the program goes on when all of them have; at the end every core    *)
(* leaves.  EventUnit is shown to implement it.                            *)
(***************************************************************************)
EXTENDS Naturals

CONSTANTS
    NumCores,       \* compute cores of the cluster; core 0 is the master
    MaxRegions      \* model bound: parallel regions of a program

VARIABLES
    phase,          \* "seq": the master alone; "par": in a region; "over"
    regions,        \* regions begun
    team,           \* threads of the region set up or being run, 0 if there is none
    ran             \* ran[i]: times core i has executed the current region

fjvars == <<phase, regions, team, ran>>

FJInit ==
    /\ phase = "seq"
    /\ regions = 0
    /\ team = 0
    /\ ran = [i \in 0..(NumCores - 1) |-> 0]

(* The master sets up a region for nt threads; one that was set up before  *)
(* and not begun is forgotten.                                             *)
Push(nt) ==
    /\ phase = "seq"
    /\ regions < MaxRegions
    /\ regions' = regions + 1
    /\ team' = nt
    /\ ran' = [i \in 0..(NumCores - 1) |-> 0]
    /\ UNCHANGED phase

Begin ==
    /\ phase = "seq"
    /\ team # 0
    /\ phase' = "par"
    /\ UNCHANGED <<regions, team, ran>>

Run(i) ==
    /\ phase = "par"
    /\ i < team
    /\ ran[i] = 0
    /\ ran' = [ran EXCEPT ![i] = 1]
    /\ UNCHANGED <<phase, regions, team>>

Join ==
    /\ phase = "par"
    /\ \A i \in 0..(team - 1) : ran[i] = 1
    /\ phase' = "seq"
    /\ team' = 0
    /\ UNCHANGED <<regions, ran>>

Finish ==
    /\ phase = "seq"
    /\ phase' = "over"
    /\ UNCHANGED <<regions, team, ran>>

FJNext ==
    \/ \E nt \in 1..NumCores : Push(nt)
    \/ Begin
    \/ \E i \in 0..(NumCores - 1) : Run(i)
    \/ Join
    \/ Finish

(* A region that was begun is executed and joined. *)
FJFairness ==
    /\ \A i \in 0..(NumCores - 1) : WF_fjvars(Run(i))
    /\ WF_fjvars(Join)

FJSafe == FJInit /\ [][FJNext]_fjvars

FJSpec == FJSafe /\ FJFairness
=============================================================================
