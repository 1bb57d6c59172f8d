---------------------------- MODULE AutodiffTests ----------------------------
(***************************************************************************)
(* The kernel bodies of tests/autodiff.rs as traces for AutodiffTape.     *)
(* Node i of a program is the i-th value the body creates: the buffer      *)
(* reads (and vars) before autodiff(|| ...) first, then the scope's        *)
(* operations in program order.  A float literal in an arithmetic          *)
(* expression is a constant node; a load of a var or of a struct / vector  *)
(* field is a Copy.  Inputs range over a few exact values inside the       *)
(* test's range; where a branch of the test is unreachable from its range  *)
(* (x > 3 for x in [0, 1)) one value outside it is added so that the       *)
(* branch is exercised.  expect is what the test's assert_eq! lines check. *)
(***************************************************************************)
EXTENDS AutodiffTape, TLC

H     == Q(1, 2)        \* 0.5
Qtr   == Q(1, 4)        \* 0.25
Two   == Q(2, 1)
Three == Q(3, 1)
Four  == Q(4, 1)
Eight == Q(8, 1)

Prog(names, dom, nodes, outer, lv, o) ==
  [names |-> names, dom |-> dom, nodes |-> nodes, outer |-> outer,
   leaves |-> lv, out |-> o, asserted |-> FALSE, expect |-> <<>>]

Asserted(p, E(_)) ==
  [p EXCEPT !.asserted = TRUE,
            !.expect = [i \in InputChoices(p.dom) |-> E(i)]]

(* Gradients (dx, dy) of the two inputs x = node 1, y = node 2.            *)
DxDy(dx, dy) == (1 :> dx) @@ (2 :> dy)

XY(dx, dy) == [x |-> dx, y |-> dy]
Unit == {Zero, Qtr, H}                 \* rng.gen() in [0, 1)
Far  == {Q(10, 1), Q(21, 2)}           \* rng.gen() + 10.0

(* select(x > y, x * 4, y * 0.5).                                          *)
SelectExpect(i) == IF FGt(i.x, i.y) THEN DxDy(Four, Zero) ELSE DxDy(Zero, H)
autodiff_select ==
  Asserted(Prog({"x", "y"}, XY(Unit, Unit),
    << In("x"), In("y"), Gt(1, 2), Lit(Four), Mul(1, 4), Lit(H), Mul(2, 6),
       Select(3, 5, 7) >>, 2, <<1, 2>>, 8), SelectExpect)

(* k = detach(x * y); z = (x + y) * k.                                    *)
DetachExpect(i) == DxDy(FMul(i.x, i.y), FMul(i.x, i.y))
autodiff_detach ==
  Asserted(Prog({"x", "y"}, XY(Unit, Unit),
    << In("x"), In("y"), Mul(1, 2), Detach(3), Add(1, 2), Mul(5, 4) >>,
    2, <<1, 2>>, 6), DetachExpect)

(* z = select(x > y, sqrt(x - y), y * 0.5) with x < y: the sqrt is NaN.    *)
NanExpect(i) == DxDy(Zero, H)
autodiff_select_nan ==
  Asserted(Prog({"x", "y"}, XY({Zero, H}, Far),
    << In("x"), In("y"), Gt(1, 2), Sub(1, 2), Sqrt(4), Lit(H), Mul(2, 6),
       Select(3, 5, 7) >>, 2, <<1, 2>>, 8), NanExpect)

(* z = if x > y { sqrt(x - y) } else { y * 0.5 }.                          *)
autodiff_if_nan ==
  Asserted(Prog({"x", "y"}, XY({Zero, H}, Far),
    << In("x"), In("y"), Gt(1, 2), Sub(1, 2), Sqrt(4), Not(3), Lit(H),
       Mul(2, 7), Phi(<<3, 6>>, <<5, 8>>) >>, 2, <<1, 2>>, 9), NanExpect)

(* z = if x > y { x * 4 } else { y * 0.5 }.                                *)
autodiff_if_phi ==
  Asserted(Prog({"x", "y"}, XY(Unit, Unit),
    << In("x"), In("y"), Gt(1, 2), Not(3), Lit(Four), Mul(1, 5), Lit(H),
       Mul(2, 7), Phi(<<3, 4>>, <<6, 8>>) >>, 2, <<1, 2>>, 9), SelectExpect)

(* Nested: if x > y { if x > 3 { x * 4 } else { x * 2 } } else { y * 0.5 } *)
Phi2Expect(i) ==
  CASE FGt(i.x, i.y) /\ FGt(i.x, Three) -> DxDy(Four, Zero)
    [] FGt(i.x, i.y)                    -> DxDy(Two, Zero)
    [] OTHER                            -> DxDy(Zero, H)
autodiff_if_phi2 ==
  Asserted(Prog({"x", "y"}, XY({Zero, H, Four}, {Qtr, H}),
    << In("x"), In("y"), Gt(1, 2), Lit(Three), Gt(1, 4), Not(5), Lit(Four),
       Mul(1, 7), Lit(Two), Mul(1, 9), Phi(<<5, 6>>, <<8, 10>>), Not(3),
       Lit(H), Mul(2, 13), Phi(<<3, 12>>, <<11, 14>>) >>, 2, <<1, 2>>, 15),
    Phi2Expect)

(* Vars const_two, const_three made before the scope, const_four stored    *)
(* inside it; c = (x > const_three) as int; inside if x > y a switch on c  *)
(* with case 0 (x * two) and default (x * four), times two.               *)
Phi3Expect(i) ==
  CASE FGt(i.x, i.y) /\ FGt(i.x, Three) -> DxDy(Eight, Zero)
    [] FGt(i.x, i.y)                    -> DxDy(Four, Zero)
    [] OTHER                            -> DxDy(Zero, H)
autodiff_if_phi3 ==
  Asserted(Prog({"x", "y"}, XY({Zero, H, Four}, {Qtr, H}),
    << In("x"), In("y"), Lit(Two), Lit(Three),
       Lit(Four), Copy(4), Gt(1, 6), ToInt(7), Gt(1, 2),
       Eqk(8, 0), Not(10), Copy(3), Mul(1, 12), Copy(5), Mul(1, 14),
       Phi(<<10, 11>>, <<13, 15>>), Copy(3), Mul(16, 17),
       Not(9), Lit(H), Mul(2, 20), Phi(<<9, 19>>, <<18, 21>>) >>,
    4, <<1, 2>>, 22), Phi3Expect)

(* As phi3, the constants stored as one float3 var inside the scope and    *)
(* read back through its fields.                                           *)
autodiff_if_phi4 ==
  Asserted(Prog({"x", "y"}, XY({Zero, H, Four}, {Qtr, H}),
    << In("x"), In("y"),
       Lit(Two), Lit(Three), Lit(Four), Copy(3), Copy(4), Copy(5),
       Gt(1, 7), ToInt(9), Gt(1, 2), Eqk(10, 0), Not(12),
       Mul(1, 6), Mul(1, 8), Phi(<<12, 13>>, <<14, 15>>), Mul(16, 6),
       Not(11), Lit(H), Mul(2, 19), Phi(<<11, 18>>, <<17, 20>>) >>,
    2, <<1, 2>>, 21), Phi3Expect)

(* switch t { 0 => x * 4, 1 => x * 2, 2 => y * 0.5 }.                      *)
SwitchExpect(i) ==
  CASE i.t = Zero -> DxDy(Four, Zero)
    [] i.t = One  -> DxDy(Two, Zero)
    [] OTHER      -> DxDy(Zero, H)
autodiff_switch ==
  Asserted(Prog({"t", "x", "y"}, [t |-> {Zero, One, Two}, x |-> {H}, y |-> {Qtr}],
    << In("x"), In("y"), In("t"), Eqk(3, 0), Eqk(3, 1), Eqk(3, 2),
       Lit(Four), Mul(1, 7), Lit(Two), Mul(1, 9), Lit(H), Mul(2, 11),
       Phi(<<4, 5, 6>>, <<8, 10, 12>>) >>, 3, <<1, 2>>, 13), SwitchExpect)

-----------------------------------------------------------------------------
(* Bodies run through autodiff_helper, whose gradients the test compares   *)
(* with finite differences; here they are compared with RefD only.         *)

(* k = 2 / const(3); x * k + y * k.                                        *)
autodiff_const ==
  Prog({"x", "y"}, XY({One, Two}, {One, Two}),
    << In("x"), In("y"), Lit(Two), Lit(Three), Div(3, 4), Mul(1, 5),
       Mul(2, 5), Add(6, 7) >>, 2, <<1, 2>>, 8)

(* foo = Foo { x, y }; foo.x = 1 + foo.x; foo.x + foo.y.                   *)
autodiff_struct ==
  Prog({"x", "y"}, XY({One, Two}, {One, Two}),
    << In("x"), In("y"), Copy(1), Copy(2), Lit(One), Add(5, 3), Add(6, 4) >>,
    2, <<1, 2>>, 7)

(* x / y.                                                                  *)
autodiff_div ==
  Prog({"x", "y"}, XY({One, Two}, {One, Two}),
    << In("x"), In("y"), Div(1, 2) >>, 2, <<1, 2>>, 3)

(* v = (x, y, z); v.x * v.y * v.z.                                         *)
autodiff_vec3_reduce_prod_manual ==
  Prog({"x", "y", "z"}, [x |-> {One, Two}, y |-> {Q(-1, 1), H}, z |-> {Two}],
    << In("x"), In("y"), In("z"), Copy(1), Copy(2), Copy(3), Mul(4, 5),
       Mul(7, 6) >>, 3, <<1, 2, 3>>, 8)

(* v = (x, y, z); v . v: every component is used twice.                   *)
autodiff_vec3_dot ==
  Prog({"x", "y", "z"}, [x |-> {Q(-1, 1), H}, y |-> {One, Two}, z |-> {H}],
    << In("x"), In("y"), In("z"), Copy(1), Copy(2), Copy(3),
       Mul(4, 4), Mul(5, 5), Mul(6, 6), Add(7, 8), Add(10, 9) >>,
    3, <<1, 2, 3>>, 11)

(* a = (ax, ay, az); c = a with y replaced by b; a . c.                    *)
autodiff_vec3_replace ==
  Prog({"ax", "ay", "az", "b"},
    [ax |-> {One}, ay |-> {Q(-1, 1), H}, az |-> {Two}, b |-> {One, Two}],
    << In("ax"), In("ay"), In("az"), In("b"), Copy(1), Copy(2), Copy(3),
       Copy(5), Copy(4), Copy(7), Mul(5, 8), Mul(6, 9), Mul(7, 10),
       Add(11, 12), Add(14, 13) >>, 4, <<1, 2, 3, 4>>, 15)

(* autodiff_1 / autodiff_3 bodies: x = inputs[0], y = inputs[1], ...       *)
OneIn(dom, nd) == Prog({"x"}, [x |-> dom], <<In("x"), nd>>, 1, <<1>>, 2)
Squares == {Qtr, One, Four}            \* in 0.1..10, exact square roots

autodiff_sqrt  == OneIn(Squares, Sqrt(1))
autodiff_rsqrt == OneIn(Squares, Rsqrt(1))
autodiff_abs   == OneIn({H, Two}, AbsOf(1))
autodiff_abs2  == OneIn({Q(-2, 1), Q(-1, 2)}, AbsOf(1))

(* x.lerp(y, z) over 0..1.                                                 *)
autodiff_lerp ==
  Prog({"x", "y", "z"}, [x |-> {Zero, H}, y |-> {Qtr, H}, z |-> {Qtr}],
    << In("x"), In("y"), In("z"), Lerp(1, 2, 3) >>, 3, <<1, 2, 3>>, 4)

(* v = (x, y, z); v.x + v.y + v.z.  reduce_sum and reduce_prod record the  *)
(* same sums and products as these manual forms.                           *)
autodiff_vec3_reduce_add_manual ==
  Prog({"x", "y", "z"}, [x |-> {One, Two}, y |-> {Q(-1, 1)}, z |-> {H, Two}],
    << In("x"), In("y"), In("z"), Copy(1), Copy(2), Copy(3), Add(4, 5),
       Add(7, 6) >>, 3, <<1, 2, 3>>, 8)

(* Inputs with |v| = 3: (+-2, 1, 2).                                       *)
Len3 == [x |-> {Two, Q(-2, 1)}, y |-> {One}, z |-> {Two}]
(* v = (x, y, z); the nodes of v . v, 7..11.                               *)
Vec3Dot == << In("x"), In("y"), In("z"), Copy(1), Copy(2), Copy(3),
              Mul(4, 4), Mul(5, 5), Mul(6, 6), Add(7, 8), Add(10, 9) >>

(* v.length() = sqrt(v . v).                                               *)
autodiff_vec3_length ==
  Prog({"x", "y", "z"}, Len3, Vec3Dot \o <<Sqrt(11)>>, 3, <<1, 2, 3>>, 12)

(* v.length_squared() = v . v, over -2..2.                                 *)
autodiff_vec3_length_squared ==
  Prog({"x", "y", "z"}, [x |-> {Q(-3, 2)}, y |-> {Q(-1, 2), One}, z |-> {Q(3, 2)}],
    Vec3Dot, 3, <<1, 2, 3>>, 11)

(* v.normalize().x / .y / .z = v.c * rsqrt(v . v), c = 4, 5, 6.            *)
Normalize(c) ==
  Prog({"x", "y", "z"}, Len3, Vec3Dot \o <<Rsqrt(11), Mul(c, 12)>>,
    3, <<1, 2, 3>>, 13)
autodiff_vec3_normalize_x == Normalize(4)
autodiff_vec3_normalize_y == Normalize(5)
autodiff_vec3_normalize_z == Normalize(6)

(* a = (ax, ay, az), b = (bx, by, bz) read as inputs 1..6, their fields    *)
(* as nodes 7..12.                                                         *)
AB == << In("ax"), In("ay"), In("az"), In("bx"), In("by"), In("bz"),
         Copy(1), Copy(2), Copy(3), Copy(4), Copy(5), Copy(6) >>
ABNames == {"ax", "ay", "az", "bx", "by", "bz"}
Six == [i \in 1..6 |-> i]

(* a, b and v = a.cross(b) are vars (def); *v.x = a.y * b.z - a.z * b.y   *)
(* is loaded from v.                                                       *)
autodiff_vec3_cross_x ==
  Prog(ABNames, [ax |-> {One}, ay |-> {One, Two}, az |-> {H},
                 bx |-> {One}, by |-> {Two}, bz |-> {Q(-1, 1)}],
    AB \o << Mul(8, 12), Mul(9, 11), Sub(13, 14), Copy(15) >>, 6, Six, 16)

(* a.cross(b).z = a.x * b.y - a.y * b.x.                                  *)
autodiff_vec3_cross_z ==
  Prog(ABNames, [ax |-> {Q(-1, 1), Two}, ay |-> {H}, az |-> {One},
                 bx |-> {Three}, by |-> {Two}, bz |-> {One}],
    AB \o << Mul(7, 11), Mul(8, 10), Sub(13, 14), Copy(15) >>, 6, Six, 16)

(* a.distance(b) = |a - b|, inputs with a - b = (2, +-1, 2).               *)
autodiff_vec3_distance ==
  Prog(ABNames, [ax |-> {Two}, ay |-> {One}, az |-> {Two},
                 bx |-> {Zero}, by |-> {Zero, Two}, bz |-> {Zero}],
    AB \o << Sub(7, 10), Sub(8, 11), Sub(9, 12), Mul(13, 13), Mul(14, 14),
             Mul(15, 15), Add(16, 17), Add(19, 18), Sqrt(20) >>, 6, Six, 21)

(* Mat3Expr::new(a, b, c) has columns a, b, c; d is a vector.  Inputs 1..12 *)
(* are ax, ay, az, bx, ..., dz.  The matrix products are recorded as their *)
(* scalar products and sums; only the entries that reach the output are    *)
(* listed (the others are never active), and the copies of make_float3    *)
(* and of the field reads are left out (a copy forwards its adjoint).      *)
Mat == << In("ax"), In("ay"), In("az"), In("bx"), In("by"), In("bz"),
          In("cx"), In("cy"), In("cz"), In("dx"), In("dy"), In("dz") >>
MatNames == {"ax", "ay", "az", "bx", "by", "bz", "cx", "cy", "cz", "dx", "dy", "dz"}
(* Exact values in -2..2, two of them varying.                             *)
MatDom ==
  [ax |-> {One, Q(-3, 2)}, ay |-> {Two}, az |-> {Q(-1, 2)},
   bx |-> {Q(3, 2)}, by |-> {Q(-1, 1)}, bz |-> {One},
   cx |-> {H}, cy |-> {Q(-2, 1)}, cz |-> {One},
   dx |-> {Two}, dy |-> {Q(3, 2)}, dz |-> {Q(-1, 2), One}]
MatProg(names, nodes) ==
  Prog(names, [k \in names |-> MatDom[k]], nodes, Cardinality(names),
       [i \in 1..Cardinality(names) |-> i], Len(nodes))

(* (m * d).x = ax * dx + bx * dy + cx * dz.                                *)
autodiff_matmul ==
  MatProg(MatNames, Mat \o << Mul(1, 10), Mul(4, 11), Mul(7, 12), Add(13, 14),
                              Add(16, 15) >>)

(* (m.transpose() * d).y = b . d.                                          *)
autodiff_matmul_transpose ==
  MatProg(MatNames, Mat \o << Mul(4, 10), Mul(5, 11), Mul(6, 12), Add(13, 14),
                              Add(16, 15) >>)

(* (m * m * d).z: row z of m * m is (a.z, b.z, c.z) times the columns;    *)
(* autodiff_matmul_4, (m * m) * d, is the same expression.                 *)
autodiff_matmul_2 ==
  MatProg(MatNames, Mat \o
    << Mul(3, 1), Mul(6, 2), Mul(9, 3), Add(13, 14), Add(16, 15),
       Mul(3, 4), Mul(6, 5), Mul(9, 6), Add(18, 19), Add(21, 20),
       Mul(3, 7), Mul(6, 8), Mul(9, 9), Add(23, 24), Add(26, 25),
       Mul(17, 10), Mul(22, 11), Mul(27, 12), Add(28, 29), Add(31, 30) >>)

(* (m.comp_mul(m) * d).z = az^2 dx + bz^2 dy + cz^2 dz.                    *)
autodiff_matmul_5 ==
  MatProg(MatNames, Mat \o
    << Mul(3, 3), Mul(6, 6), Mul(9, 9), Mul(13, 10), Mul(14, 11), Mul(15, 12),
       Add(16, 17), Add(19, 18) >>)

(* m.determinant() = a . (b x c), inputs 1..9.                             *)
autodiff_mat_det ==
  MatProg(MatNames \ {"dx", "dy", "dz"}, SubSeq(Mat, 1, 9) \o
    << Mul(5, 9), Mul(6, 8), Sub(10, 11), Mul(6, 7), Mul(4, 9), Sub(13, 14),
       Mul(4, 8), Mul(5, 7), Sub(16, 17), Mul(1, 12), Mul(2, 15), Mul(3, 18),
       Add(19, 20), Add(22, 21) >>)

TestPrograms ==
  { autodiff_select, autodiff_detach, autodiff_select_nan, autodiff_if_nan,
    autodiff_if_phi, autodiff_if_phi2, autodiff_if_phi3, autodiff_if_phi4,
    autodiff_switch }

HelperPrograms ==
  { autodiff_const, autodiff_struct, autodiff_div,
    autodiff_vec3_reduce_prod_manual, autodiff_vec3_dot, autodiff_vec3_replace,
    autodiff_sqrt, autodiff_rsqrt, autodiff_abs, autodiff_abs2, autodiff_lerp,
    autodiff_vec3_reduce_add_manual, autodiff_vec3_length,
    autodiff_vec3_length_squared, autodiff_vec3_normalize_x,
    autodiff_vec3_normalize_y, autodiff_vec3_normalize_z,
    autodiff_vec3_cross_x, autodiff_vec3_cross_z, autodiff_vec3_distance,
    autodiff_matmul, autodiff_matmul_transpose, autodiff_matmul_2,
    autodiff_matmul_5, autodiff_mat_det }

=============================================================================
