------------------------------ MODULE Stencils ------------------------------
(***************************************************************************)
(* The parallel stencil kernels of sw/saris/stencils/istc.par.hpp: the     *)
(* cores of a cluster divide the points of a grid between them and compute *)
(* time step after time step from one buffer into the other, with one      *)
(* barrier after a step.                                                   *)
(*                                                                         *)
(* l is a record: kernel, the sizes nx, ny, nz of the grid (nz = 1 in two  *)
(* dimensions), the radius r, the steps t and the cores px, py, pz along   *)
(* each axis.  The coefficients are left out.                              *)
(***************************************************************************)
EXTENDS ClusterProgram

Two == {"istcp_pb_jacobi_2d", "istcp_an5d_j2d5pt", "istcp_an5d_j2d9pt", "istcp_an5d_j2d9pt_gol",
        "istcp_an5d_star2dXr", "istcp_an5d_box2dXr"}
Three == {"istcp_an5d_star3dXr", "istcp_an5d_box3dXr", "istcp_an5d_j3d27pt",
          "istcp_minimod_acoustic_iso_cd"}

(* The offsets <<dz, dy, dx>> a kernel reads, in the order of its text. *)
Ring2d(d) == <<<<0, 0, -d>>, <<0, 0, d>>, <<0, -d, 0>>, <<0, d, 0>>>>
Ring3d(d) == Ring2d(d) \o <<<<-d, 0, 0>>, <<d, 0, 0>>>>
Line(r) == [i \in 1..(2 * r + 1) |-> i - r - 1]
Rectangle(r) == ForEach(Line(r), LAMBDA dy : [i \in 1..(2 * r + 1) |-> <<0, dy, Line(r)[i]>>])
Cuboid(r) ==
    ForEach(Line(r), LAMBDA dz :
        [i \in 1..Len(Rectangle(r)) |-> <<dz, Rectangle(r)[i][2], Rectangle(r)[i][3]>>])
Centre == <<<<0, 0, 0>>>>

istcp_pb_jacobi_2d == <<<<0, 0, 0>>, <<0, 0, -1>>, <<0, 0, 1>>, <<0, 1, 0>>, <<0, -1, 0>>>>
istcp_an5d_j2d5pt == <<<<0, -1, 0>>, <<0, 0, -1>>, <<0, 0, 0>>, <<0, 0, 1>>, <<0, 1, 0>>>>
istcp_an5d_j2d9pt ==
    <<<<0, -1, 0>>, <<0, -2, 0>>, <<0, 0, -1>>, <<0, 0, -2>>, <<0, 0, 0>>,
      <<0, 0, 1>>, <<0, 0, 2>>, <<0, 1, 0>>, <<0, 2, 0>>>>
istcp_an5d_j2d9pt_gol == Rectangle(1)
istcp_an5d_star2dXr(r) == Centre \o ForEach(Upto(0, r, 1), LAMBDA dr : Ring2d(1 + dr))
istcp_an5d_box2dXr(r) == Rectangle(r)
istcp_an5d_star3dXr(r) == Centre \o ForEach(Upto(0, r, 1), LAMBDA dr : Ring3d(1 + dr))
istcp_an5d_box3dXr(r) == Cuboid(r)
istcp_an5d_j3d27pt == Cuboid(1)
istcp_minimod_acoustic_iso_cd == Centre \o ForEach(Upto(1, 5, 1), LAMBDA m : Ring3d(m))

Taps(l) ==
    CASE l.kernel = "istcp_pb_jacobi_2d" -> istcp_pb_jacobi_2d
      [] l.kernel = "istcp_an5d_j2d5pt" -> istcp_an5d_j2d5pt
      [] l.kernel = "istcp_an5d_j2d9pt" -> istcp_an5d_j2d9pt
      [] l.kernel = "istcp_an5d_j2d9pt_gol" -> istcp_an5d_j2d9pt_gol
      [] l.kernel = "istcp_an5d_star2dXr" -> istcp_an5d_star2dXr(l.r)
      [] l.kernel = "istcp_an5d_box2dXr" -> istcp_an5d_box2dXr(l.r)
      [] l.kernel = "istcp_an5d_star3dXr" -> istcp_an5d_star3dXr(l.r)
      [] l.kernel = "istcp_an5d_box3dXr" -> istcp_an5d_box3dXr(l.r)
      [] l.kernel = "istcp_an5d_j3d27pt" -> istcp_an5d_j3d27pt
      [] l.kernel = "istcp_minimod_acoustic_iso_cd" -> istcp_minimod_acoustic_iso_cd

-----------------------------------------------------------------------------
(* A point <<z, y, x>> of buffer b, and of the impulse f of minimod, which *)
(* has no margin.                                                          *)
PointOf(l, b, p) == <<IF b = 0 THEN "A" ELSE "B", 0, (p[1] * l.ny + p[2]) * l.nx + p[3]>>
ImpulseOf(l, p) ==
    <<"f", 0, ((p[1] - l.r) * (l.ny - 2 * l.r) + p[2] - l.r) * (l.nx - 2 * l.r) + p[3] - l.r>>
Shift(p, d) == <<p[1] + d[1], p[2] + d[2], p[3] + d[3]>>

(* KNL_IDS: the place of core cid in the grid of cores. *)
KNL_IDS(l, cid) == [ix |-> cid % l.px, iy |-> (cid \div l.px) % l.py, iz |-> cid \div (l.px * l.py)]

(* forpx: from the core's place on, the margin left out, in steps of the   *)
(* number of cores.                                                        *)
forpx(i, margin, size, par) == {v \in (i + margin)..(size - margin - 1) : (v - i - margin) % par = 0}

PointsOf(l, cid) ==
    LET ids == KNL_IDS(l, cid)
    IN  (IF l.kernel \in Two THEN {0} ELSE forpx(ids.iz, l.r, l.nz, l.pz))
            \X forpx(ids.iy, l.r, l.ny, l.py) \X forpx(ids.ix, l.r, l.nx, l.px)

(* Step t goes from buffer t % 2 to the other one; in jacobi_2d from A to  *)
(* B.  minimod also adds the impulse and subtracts what it overwrites.     *)
source(l, t) == IF l.kernel = "istcp_pb_jacobi_2d" THEN 0 ELSE t % 2

StencilStep(l, cid, t) ==
    LET from == source(l, t)
        Reads(p) == [i \in 1..Len(Taps(l)) |-> PointOf(l, from, Shift(p, Taps(l)[i]))]
        Extra(p) == When(l.kernel = "istcp_minimod_acoustic_iso_cd",
                         <<ImpulseOf(l, p), PointOf(l, 1 - from, p)>>)
        At(x) == CHOOSE p \in PointsOf(l, cid) : PointOf(l, 1 - from, p) = x
    IN  Compute([x \in {PointOf(l, 1 - from, p) : p \in PointsOf(l, cid)} |->
                    Term("stencil", Reads(At(x)) \o Extra(At(x)))])

(* Mutant: no barrier after a step. *)
istcp_unsynchronised(e, l) ==
    When(~IsDm(e), ForEach(Upto(0, l.t, 1), LAMBDA t : StencilStep(l, e.core_idx, t)))
        \o snrt_cluster_hw_barrier

(* The time steps of a kernel.  The data mover core takes part in the      *)
(* barriers (__rt_barrier).                                                *)
istcp(e, l) ==
    ForEach(Upto(0, l.t, 1), LAMBDA t :
        When(~IsDm(e), StencilStep(l, e.core_idx, t)) \o snrt_cluster_hw_barrier)

-----------------------------------------------------------------------------
(* The value of the points after t steps, from the definition of the       *)
(* stencils: stars have the points at distance up to r along an axis,      *)
(* boxes all points of a cube.                                             *)
Abs(i) == IF i < 0 THEN -i ELSE i
IsBox(l) == l.kernel \in {"istcp_an5d_j2d9pt_gol", "istcp_an5d_box2dXr", "istcp_an5d_box3dXr",
                          "istcp_an5d_j3d27pt"}
Neighbours(l) ==
    {d \in (IF l.kernel \in Two THEN {0} ELSE -l.r..l.r) \X (-l.r..l.r) \X (-l.r..l.r) :
        IsBox(l) \/ Cardinality({i \in 1..3 : d[i] # 0}) <= 1}
Inner(l) == (IF l.kernel \in Two THEN {0} ELSE l.r..(l.nz - l.r - 1))
                \X (l.r..(l.ny - l.r - 1)) \X (l.r..(l.nx - l.r - 1))
GridPoints(l) == (0..(l.nz - 1)) \X (0..(l.ny - 1)) \X (0..(l.nx - 1))

(* Initial(x) is what location x held at first.                            *)
After(l, Initial(_)) ==
    LET g[t \in 0..l.t] ==
            [p \in GridPoints(l) |->
                IF t = 0 \/ p \notin Inner(l) THEN Initial(PointOf(l, t % 2, p))
                ELSE LET before == {g[t - 1][Shift(p, d)] : d \in Neighbours(l)}
                         older == IF t = 1 THEN Initial(PointOf(l, 1, p)) ELSE g[t - 2][p]
                         extra == IF l.kernel = "istcp_minimod_acoustic_iso_cd"
                                  THEN {Initial(ImpulseOf(l, p)), older} ELSE {}
                     IN  <<"stencil", Cardinality(Neighbours(l)) + Cardinality(extra), before \cup extra>>]
    IN  g
=============================================================================
