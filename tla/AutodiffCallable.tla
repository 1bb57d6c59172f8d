--------------------------- MODULE AutodiffCallable ---------------------------
(***************************************************************************)
(* autodiff_callable (tests/autodiff.rs): a kernel (the caller) and a      *)
(* callable (the callee) that opens its own differentiation scope.  The    *)
(* kernel reads x, y, t, copies x and y into local vars dx, dy (def) and   *)
(* passes them to the callable by reference (Var<f32>).  The callable       *)
(* loads x = *vx, y = *vy, differentiates the switch of autodiff_switch    *)
(* inside autodiff(|| ...), and writes gradient(x) into *vx and            *)
(* gradient(y) into *vy before its scope ends.  After the call the kernel  *)
(* writes *dx, *dy to its output buffers.  The callee's scope is the       *)
(* AutodiffTape scope; the caller has no trace of its own, so gradients    *)
(* reach it only through the two out-parameters.                           *)
(***************************************************************************)
EXTENDS AutodiffTests

VARIABLES
  cpc,   \* caller position: "kernel", "call" (inside the callable), "returned", "written"
  vx,    \* vx[l]: the kernel's var dx, passed as the callable's vx
  vy,    \* vy[l]: the kernel's var dy, passed as vy
  bdx,   \* bdx[l]: what the kernel wrote to buffer dx ("none" before)
  bdy

cvars == <<cpc, vx, vy, bdx, bdy>>
allVars == <<vars, cvars>>

(* The callable's body: x = *vx, y = *vy and the parameter t are made      *)
(* before its scope; then the switch of autodiff_switch.                   *)
autodiff_callable_body ==
  Prog({"t", "x", "y"}, [t |-> {Zero, One, Two}, x |-> {H}, y |-> {Qtr}],
    << In("x"), In("y"), In("t"), Eqk(3, 0), Eqk(3, 1), Eqk(3, 2),
       Lit(Four), Mul(1, 7), Lit(Two), Mul(1, 9), Lit(H), Mul(2, 11),
       Phi(<<4, 5, 6>>, <<8, 10, 12>>) >>, 3, <<1, 2>>, 13)

(* The kernel reads x, y, t and defines dx = def(x), dy = def(y).          *)
CInit ==
  /\ Init
  /\ cpc = "kernel"
  /\ vx = [l \in Lanes |-> inputs[l].x]
  /\ vy = [l \in Lanes |-> inputs[l].y]
  /\ bdx = [l \in Lanes |-> "none"]
  /\ bdy = [l \in Lanes |-> "none"]

(* callable.call(dx, dy, t): control passes to the callee, which opens    *)
(* its own scope.                                                          *)
Call ==
  /\ cpc = "kernel"
  /\ Enter
  /\ cpc' = "call"
  /\ UNCHANGED <<vx, vy, bdx, bdy>>

(* requires_grad, the switch and backward inside the callee's scope.       *)
CalleeStep ==
  /\ cpc = "call"
  /\ RequiresGrad \/ RecordNode \/ Backward
  /\ UNCHANGED cvars

(* Mutant of CalleeGradient: the out-parameters are copies, as if the      *)
(* Var<f32> arguments were passed by value.                                *)
CalleeGradientByValue ==
  /\ cpc = "call"
  /\ Gradient
  /\ UNCHANGED cvars

(* *vx.get_mut() = gradient(x); *vy.get_mut() = gradient(y): each gradient *)
(* read is stored through the reference into the caller's var.             *)
CalleeGradient ==
  /\ cpc = "call"
  /\ Gradient
  /\ vx' = IF Item.n = 1 THEN [l \in Lanes |-> grad'[l][1]] ELSE vx
  /\ vy' = IF Item.n = 2 THEN [l \in Lanes |-> grad'[l][2]] ELSE vy
  /\ UNCHANGED <<cpc, bdx, bdy>>

(* The callable's scope ends (its trace is discarded) and it returns.     *)
Return ==
  /\ cpc = "call"
  /\ Exit
  /\ cpc' = "returned"
  /\ UNCHANGED <<vx, vy, bdx, bdy>>

(* buf_dx.write(tid, *dx); buf_dy.write(tid, *dy).                        *)
CallerWrite ==
  /\ cpc = "returned"
  /\ bdx' = vx
  /\ bdy' = vy
  /\ cpc' = "written"
  /\ UNCHANGED <<vars, vx, vy>>

CNext == Call \/ CalleeStep \/ CalleeGradient \/ Return \/ CallerWrite

CSpec == CInit /\ [][CNext]_allVars

-----------------------------------------------------------------------------
(* What autodiff_callable asserts: the values the kernel writes for a lane *)
(* are the gradients of that lane's switch case (dx = 4, 2, 0 and dy = 0,  *)
(* 0, 0.5 for t = 0, 1, 2), although they were computed in the callee's    *)
(* own scope and crossed the call boundary only through vx and vy.        *)
CallerReadsCalleeGradients ==
  cpc = "written" =>
    \A l \in Lanes : /\ bdx[l] = SwitchExpect(inputs[l])[1]
                     /\ bdy[l] = SwitchExpect(inputs[l])[2]

=============================================================================
