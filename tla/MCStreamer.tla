----------------------------- MODULE MCStreamer -----------------------------
(***************************************************************************)
(* Two jobs for the streamer, one after the other, with two nested loops   *)
(* and two ports: four words that are written transposed, then two words   *)
(* of the outer loop only.                                                 *)
(***************************************************************************)
EXTENDS Streamer

Transpose ==
    [loopBounds |-> <<2, 2>>,
     strides |-> ("reader" :> <<2, 4>>) @@ ("writer" :> <<4, 2>>),
     spatialStrides |-> ("reader" :> 1) @@ ("writer" :> 1),
     ptr |-> ("reader" :> 0) @@ ("writer" :> 8)]

Column ==
    [loopBounds |-> <<1, 2>>,
     strides |-> ("reader" :> <<2, 4>>) @@ ("writer" :> <<4, 2>>),
     spatialStrides |-> ("reader" :> 1) @@ ("writer" :> 1),
     ptr |-> ("reader" :> 16) @@ ("writer" :> 28)]

MCPlans == {<<Transpose, Column>>}
=============================================================================
