---------------------------- MODULE AutodiffTape ----------------------------
(***************************************************************************)
(* One differentiation scope (autodiff(|| { ... }) of luisa_compute) over  *)
(* a SIMT launch: a single trace shared by all Lanes, each lane with its    *)
(* own inputs, branch outcomes and adjoints.                                *)
(*                                                                         *)
(* The engine is not part of this repository; it is modelled from the spec *)
(* (sections 3, 4.3, 4.4): nodes recorded in creation order, requires_grad  *)
(* leaves, backward walking the trace in reverse creation order and         *)
(* accumulating node.adjoint * local derivative into every operand, select  *)
(* and the phi of if_!/switch routing the adjoint only to the case whose    *)
(* predicate holds in the lane, detach with no backward edge.  Masking is   *)
(* by predicate propagation: a node is active in a lane only if an active   *)
(* user reaches it through an edge whose mask holds, and only active nodes  *)
(* propagate.  The kernel bodies run through it are those of                *)
(* tests/autodiff.rs (module AutodiffTests).                               *)
(*                                                                         *)
(* Numbers are f32 values that are exact rationals on the inputs used, or  *)
(* NaN; arithmetic propagates NaN as IEEE 754 does (0 * NaN = NaN).        *)
(***************************************************************************)
EXTENDS Integers, Sequences, FiniteSets, TLC

CONSTANTS
  Programs,        \* kernel bodies (records built with the constructors below)
  Lanes,           \* SIMT lanes of one launch
  StrictUntracked, \* BOOLEAN: requires_grad of a value made outside the scope fails
  NaN

-----------------------------------------------------------------------------
(* f32 values: reduced fractions [n, d] with d > 0, or NaN.                *)
RECURSIVE Gcd(_, _)
Gcd(a, b) == IF b = 0 THEN a ELSE Gcd(b, a % b)

Abs(a) == IF a < 0 THEN -a ELSE a

Q(n, d) ==
  LET g == Gcd(Abs(n), Abs(d))
      s == IF d < 0 THEN -1 ELSE 1
  IN [n |-> s * (n \div g), d |-> Abs(d) \div g]

Zero == Q(0, 1)
One  == Q(1, 1)

FAdd(p, q) == IF p = NaN \/ q = NaN THEN NaN ELSE Q(p.n * q.d + q.n * p.d, p.d * q.d)
FNeg(p)    == IF p = NaN THEN NaN ELSE [n |-> -p.n, d |-> p.d]
FSub(p, q) == FAdd(p, FNeg(q))
FMul(p, q) == IF p = NaN \/ q = NaN THEN NaN ELSE Q(p.n * q.n, p.d * q.d)
\* x / 0 is an infinity in f32; no program here divides by zero, NaN stands for it.
FDiv(p, q) == IF p = NaN \/ q = NaN \/ q.n = 0 THEN NaN ELSE Q(p.n * q.d, p.d * q.n)
FGt(p, q)  == p /= NaN /\ q /= NaN /\ p.n * q.d > q.n * p.d
\* sqrt of a negative number is NaN; the inputs used only take square roots of
\* negative numbers or of perfect squares.
ISqrt(k) == CHOOSE r \in 0..k : r * r = k
FSqrt(p) == IF p = NaN \/ p.n < 0 THEN NaN ELSE Q(ISqrt(p.n), ISqrt(p.d))

-----------------------------------------------------------------------------
(* Trace nodes.  args are indices of earlier nodes (creation order is a    *)
(* topological order); c is the literal, the input name, the switch key or *)
(* the sequence of case predicates of a phi.                               *)
Node(op, args, c) == [op |-> op, args |-> args, c |-> c]
In(name)      == Node("in", <<>>, name)
Lit(v)        == Node("lit", <<>>, v)
Add(a, b)     == Node("add", <<a, b>>, 0)
Sub(a, b)     == Node("sub", <<a, b>>, 0)
Mul(a, b)     == Node("mul", <<a, b>>, 0)
Div(a, b)     == Node("div", <<a, b>>, 0)
Sqrt(a)       == Node("sqrt", <<a>>, 0)
Rsqrt(a)      == Node("rsqrt", <<a>>, 0)
AbsOf(a)      == Node("abs", <<a>>, 0)
Lerp(a, b, t) == Node("lerp", <<a, b, t>>, 0)   \* a.lerp(b, t) = a + t * (b - a)
Copy(a)       == Node("copy", <<a>>, 0)          \* load of a local var / field
Detach(a)     == Node("detach", <<a>>, 0)
Gt(a, b)      == Node("gt", <<a, b>>, 0)
Not(a)        == Node("not", <<a>>, 0)
ToInt(a)      == Node("int", <<a>>, 0)
Eqk(a, k)     == Node("eqk", <<a>>, k)
Select(p, a, b) == Node("select", <<p, a, b>>, 0)
Phi(preds, vals) == Node("phi", vals, preds)

(* A kernel body p is a record: p.names, the inputs read from buffers     *)
(* before the scope; p.dom, the values an input takes; p.nodes; p.outer,   *)
(* how many leading nodes are made outside the scope; p.leaves, the values *)
(* marked requires_grad; p.out, the output passed to backward.             *)
VARIABLES
  prog,    \* the kernel body being traced
  inputs,  \* inputs[l][name]: the values lane l reads
  phase,   \* "idle", "recording", "done" (backward ran), "closed" or "error"
  err,     \* the misuse error that aborted the pass, or "none"
  pcS,     \* position of the next call of the scope body
  rec,     \* nodes recorded so far (the outer ones before the scope)
  leaves,  \* nodes marked requires_grad
  out,     \* the node backward was called on (0 before)
  adj,     \* adj[l][n]: adjoint of node n in lane l after backward
  grad     \* grad[l][n]: what gradient(n) returned in lane l

vars == <<prog, inputs, phase, err, pcS, rec, leaves, out, adj, grad>>

-----------------------------------------------------------------------------
(* The calls of a scope body: requires_grad for every input, the nodes of  *)
(* f, backward(output), gradient of every input (autodiff_helper).         *)
ScriptOf(p) ==
  [i \in 1..Len(p.leaves) |-> [k |-> "rg", n |-> p.leaves[i]]]
  \o [i \in 1..(Len(p.nodes) - p.outer) |-> [k |-> "node", n |-> p.outer + i]]
  \o << [k |-> "bwd", n |-> p.out] >>
  \o [i \in 1..Len(p.leaves) |-> [k |-> "grad", n |-> p.leaves[i]]]

(* Forward value of node n of program p on a lane that read inputs x.     *)
RECURSIVE Val(_, _, _)
Val(p, x, n) ==
  LET nd == p.nodes[n]
      A(i) == Val(p, x, nd.args[i])
  IN CASE nd.op = "in"     -> x[nd.c]
       [] nd.op = "lit"    -> nd.c
       [] nd.op = "add"    -> FAdd(A(1), A(2))
       [] nd.op = "sub"    -> FSub(A(1), A(2))
       [] nd.op = "mul"    -> FMul(A(1), A(2))
       [] nd.op = "div"    -> FDiv(A(1), A(2))
       [] nd.op = "sqrt"   -> FSqrt(A(1))
       [] nd.op = "rsqrt"  -> FDiv(One, FSqrt(A(1)))
       [] nd.op = "abs"    -> IF FGt(Zero, A(1)) THEN FNeg(A(1)) ELSE A(1)
       [] nd.op = "lerp"   -> FAdd(A(1), FMul(A(3), FSub(A(2), A(1))))
       [] nd.op \in {"copy", "detach"} -> A(1)
       [] nd.op = "gt"     -> FGt(A(1), A(2))
       [] nd.op = "not"    -> ~A(1)
       [] nd.op = "int"    -> IF A(1) THEN One ELSE Zero
       [] nd.op = "eqk"    -> A(1) = Q(nd.c, 1)
       [] nd.op = "select" -> IF A(1) THEN A(2) ELSE A(3)
       [] nd.op = "phi"    -> LET i == CHOOSE i \in DOMAIN nd.args : Val(p, x, nd.c[i])
                              IN A(i)

(* Backward edges of node n: argument positions with a derivative, and     *)
(* whether the edge's mask holds in lane l (select / phi case predicate).  *)
(* Mutant of HasEdge: detach keeps its backward edge.                      *)
HasEdgeThroughDetach(n, i) ==
  LET op == prog.nodes[n].op
  IN \/ op \in {"add", "sub", "mul", "div", "sqrt", "rsqrt", "abs", "lerp",
               "copy", "phi", "detach"}
     \/ op = "select" /\ i \in {2, 3}

HasEdge(n, i) ==
  LET op == prog.nodes[n].op
  IN \/ op \in {"add", "sub", "mul", "div", "sqrt", "rsqrt", "abs", "lerp",
               "copy", "phi"}
     \/ op = "select" /\ i \in {2, 3}

EdgeOn(l, n, i) ==
  LET nd == prog.nodes[n]
  IN CASE nd.op = "select" -> Val(prog, inputs[l], nd.args[1]) = (i = 2)
       [] nd.op = "phi"    -> Val(prog, inputs[l], nd.c[i])
       [] OTHER            -> TRUE

(* Local partial derivative of node n with respect to its i-th argument.   *)
LocalD(l, n, i) ==
  LET nd == prog.nodes[n]
      A(j) == Val(prog, inputs[l], nd.args[j])
  IN CASE nd.op = "sub" /\ i = 2 -> FNeg(One)
       [] nd.op = "mul"          -> A(3 - i)
       [] nd.op = "div" /\ i = 1 -> FDiv(One, A(2))
       [] nd.op = "div" /\ i = 2 -> FNeg(FDiv(A(1), FMul(A(2), A(2))))
       [] nd.op = "sqrt"         -> FDiv(One, FMul(Q(2, 1), Val(prog, inputs[l], n)))
       [] nd.op = "rsqrt"        -> FNeg(FDiv(Val(prog, inputs[l], n), FMul(Q(2, 1), A(1))))
       [] nd.op = "abs"          -> IF FGt(Zero, A(1)) THEN FNeg(One) ELSE One
       [] nd.op = "lerp" /\ i = 1 -> FSub(One, A(3))
       [] nd.op = "lerp" /\ i = 2 -> A(3)
       [] nd.op = "lerp" /\ i = 3 -> FSub(A(2), A(1))
       [] OTHER                  -> One

(***************************************************************************)
(* backward, for one lane.  st.adj holds adjoints, st.act whether a node   *)
(* is active (reached from the output through edges whose mask holds).     *)
(* Visiting node n: if active, each backward edge whose mask holds adds    *)
(* adj[n] * local derivative to the operand's adjoint (accumulation: an    *)
(* operand used twice, as in x * x, receives both contributions) and makes *)
(* the operand active.                                                     *)
(***************************************************************************)
AddInto(st, o, v) ==
  [adj |-> [st.adj EXCEPT ![o] = FAdd(@, v)], act |-> [st.act EXCEPT ![o] = TRUE]]

(* Mutant of Propagate: masks applied by multiplying with 0 or 1 and every *)
(* node propagating, active or not, as a straight IEEE translation would.  *)
PropagateUnmasked(l, n, st) ==
  LET args == prog.nodes[n].args
      Mask(i) == IF EdgeOn(l, n, i) THEN One ELSE Zero
      RECURSIVE Go(_, _)
      Go(i, s) ==
        IF i > Len(args) THEN s
        ELSE Go(i + 1, IF HasEdge(n, i)
                       THEN AddInto(s, args[i],
                              FMul(FMul(s.adj[n], Mask(i)), LocalD(l, n, i)))
                       ELSE s)
  IN Go(1, st)

Propagate(l, n, st) ==
  LET args == prog.nodes[n].args
      RECURSIVE Go(_, _)
      Go(i, s) ==
        IF i > Len(args) THEN s
        ELSE Go(i + 1, IF HasEdge(n, i) /\ EdgeOn(l, n, i)
                       THEN AddInto(s, args[i], FMul(s.adj[n], LocalD(l, n, i)))
                       ELSE s)
  IN IF st.act[n] THEN Go(1, st) ELSE st

(* Walk the recorded nodes in reverse creation order, from node n down.    *)
RECURSIVE BackFrom(_, _, _)
BackFrom(l, n, st) == IF n = 0 THEN st ELSE BackFrom(l, n - 1, Propagate(l, n, st))

(* backward(o) in lane l: seed adj[o] = 1 and walk the trace.              *)
Backprop(l, o) ==
  LET seed == [adj |-> [n \in 1..rec |-> IF n = o THEN One ELSE Zero],
               act |-> [n \in 1..rec |-> n = o]]
  IN BackFrom(l, rec, seed).adj

(***************************************************************************)
(* Reference definition: the derivative of node n with respect to leaf v   *)
(* on a lane that read x, by the chain rule applied forwards along the lane's taken     *)
(* path only (select and phi follow the case that holds; detach is a       *)
(* constant).                                                              *)
(***************************************************************************)
RECURSIVE RefD(_, _, _, _)
RefD(p, x, n, v) ==
  LET nd == p.nodes[n]
      A(i) == Val(p, x, nd.args[i])
      D(i) == RefD(p, x, nd.args[i], v)
  IN IF n = v THEN One
     ELSE CASE nd.op = "add"    -> FAdd(D(1), D(2))
            [] nd.op = "sub"    -> FSub(D(1), D(2))
            [] nd.op = "mul"    -> FAdd(FMul(A(2), D(1)), FMul(A(1), D(2)))
            [] nd.op = "div"    -> FDiv(FSub(FMul(D(1), A(2)), FMul(A(1), D(2))),
                                        FMul(A(2), A(2)))
            [] nd.op = "sqrt"   -> FDiv(D(1), FMul(Q(2, 1), Val(p, x, n)))
            [] nd.op = "rsqrt"  -> FNeg(FDiv(FMul(D(1), Val(p, x, n)), FMul(Q(2, 1), A(1))))
            [] nd.op = "abs"    -> IF FGt(Zero, A(1)) THEN FNeg(D(1)) ELSE D(1)
            [] nd.op = "lerp"   -> FAdd(FAdd(D(1), FMul(A(3), FSub(D(2), D(1)))),
                                        FMul(FSub(A(2), A(1)), D(3)))
            [] nd.op = "copy"   -> D(1)
            [] nd.op = "select" -> IF A(1) THEN D(2) ELSE D(3)
            [] nd.op = "phi"    -> LET i == CHOOSE i \in DOMAIN nd.args : Val(p, x, nd.c[i])
                                   IN D(i)
            [] OTHER            -> Zero

-----------------------------------------------------------------------------
(* The values a lane can read: one value of dom[k] for every input k.      *)
(* Built one input at a time.                                             *)
RECURSIVE Choices(_, _)
Choices(dom, ks) ==
  IF ks = {} THEN {[k \in {} |-> Zero]}
  ELSE LET k == CHOOSE k \in ks : TRUE
       IN {f @@ (k :> v) : f \in Choices(dom, ks \ {k}), v \in dom[k]}

InputChoices(dom) == Choices(dom, DOMAIN dom)

Item == ScriptOf(prog)[pcS]

Init ==
  /\ prog \in Programs
  /\ inputs \in [Lanes -> InputChoices(prog.dom)]
  /\ phase = "idle"
  /\ err = "none"
  /\ pcS = 1
  /\ rec = prog.outer
  /\ leaves = {}
  /\ out = 0
  /\ adj = [l \in Lanes |-> <<>>]
  /\ grad = [l \in Lanes |-> <<>>]

(* Mutant of Enter: the scope's trace numbers its nodes from zero, as if  *)
(* the values made before the scope were not part of the kernel.          *)
EnterFreshTrace ==
  /\ phase = "idle"
  /\ phase' = "recording"
  /\ rec' = 0
  /\ UNCHANGED <<prog, inputs, err, pcS, leaves, out, adj, grad>>

(* autodiff(|| ...): open the scope; its trace starts empty.               *)
Enter ==
  /\ phase = "idle"
  /\ phase' = "recording"
  /\ UNCHANGED <<prog, inputs, err, pcS, rec, leaves, out, adj, grad>>

(* requires_grad(v): v becomes a leaf with a zero adjoint.  Under the      *)
(* spec's rule a value not created inside the active trace is rejected     *)
(* with UntrackedValue, which aborts the authoring pass.                   *)
RequiresGrad ==
  LET v == Item.n
  IN /\ phase = "recording"
     /\ pcS <= Len(ScriptOf(prog)) /\ Item.k = "rg"
     /\ IF StrictUntracked /\ v <= prog.outer
        THEN /\ phase' = "error" /\ err' = "UntrackedValue"
             /\ UNCHANGED leaves
        ELSE /\ leaves' = leaves \cup {v}
             /\ UNCHANGED <<phase, err>>
     /\ pcS' = pcS + 1
     /\ UNCHANGED <<prog, inputs, rec, out, adj, grad>>

(* A differentiable operation inside the scope appends its node.           *)
RecordNode ==
  /\ phase = "recording"
  /\ pcS <= Len(ScriptOf(prog)) /\ Item.k = "node"
  /\ rec' = rec + 1
  /\ pcS' = pcS + 1
  /\ UNCHANGED <<prog, inputs, phase, err, leaves, out, adj, grad>>

(* backward(o): every lane's adjoints, computed over the shared trace.     *)
Backward ==
  /\ phase = "recording"
  /\ pcS <= Len(ScriptOf(prog)) /\ Item.k = "bwd"
  /\ adj' = [l \in Lanes |-> Backprop(l, Item.n)]
  /\ out' = Item.n
  /\ phase' = "done"
  /\ pcS' = pcS + 1
  /\ UNCHANGED <<prog, inputs, err, rec, leaves, grad>>

(* gradient(v): the accumulated adjoint of leaf v; NoActiveBackwardPass    *)
(* before backward, NotALeaf for a value never marked requires_grad.       *)
Gradient ==
  LET v == Item.n
  IN /\ phase \in {"recording", "done"}
     /\ pcS <= Len(ScriptOf(prog)) /\ Item.k = "grad"
     /\ CASE phase /= "done" ->
               phase' = "error" /\ err' = "NoActiveBackwardPass" /\ UNCHANGED grad
          [] v \notin leaves ->
               phase' = "error" /\ err' = "NotALeaf" /\ UNCHANGED grad
          [] OTHER ->
               /\ grad' = [l \in Lanes |->
                             [m \in DOMAIN grad[l] \cup {v} |->
                                IF m = v THEN adj[l][v] ELSE grad[l][m]]]
               /\ UNCHANGED <<phase, err>>
     /\ pcS' = pcS + 1
     /\ UNCHANGED <<prog, inputs, rec, leaves, out, adj>>

(* The scope body returns: the trace is discarded.                         *)
Exit ==
  /\ phase \in {"recording", "done"}
  /\ pcS > Len(ScriptOf(prog))
  /\ phase' = "closed"
  /\ UNCHANGED <<prog, inputs, err, pcS, rec, leaves, out, adj, grad>>

Next == Enter \/ RequiresGrad \/ RecordNode \/ Backward \/ Gradient \/ Exit

Spec == Init /\ [][Next]_vars

-----------------------------------------------------------------------------
TypeOK ==
  /\ prog \in Programs
  /\ phase \in {"idle", "recording", "done", "closed", "error"}
  /\ err \in {"none", "UntrackedValue", "NoActiveBackwardPass", "NotALeaf"}
  /\ pcS \in 1..(Len(ScriptOf(prog)) + 1)
  /\ rec \in prog.outer..Len(prog.nodes)
  /\ leaves \subseteq 1..Len(prog.nodes)
  /\ out \in 0..Len(prog.nodes)
  /\ \A l \in Lanes : DOMAIN grad[l] \subseteq leaves

(* What the tests assert: in every lane, the gradient written for each    *)
(* input is the value the test's assert_eq! expects for that lane's inputs *)
(* (dx = 4 where x > y, else dy = 0.5, and so on).                        *)
GradientsAsAsserted ==
  prog.asserted =>
    \A l \in Lanes : \A v \in DOMAIN grad[l] : grad[l][v] = prog.expect[inputs[l]][v]

(* The trace implements the scope's contract: every step of the traced    *)
(* scope body (requires_grad, node recording, backward, gradient, exit) is *)
(* a step of AutodiffScope or leaves its state unchanged, with the         *)
(* derivative the contract promises taken to be the reference RefD of the *)
(* body's output.                                                          *)
Scope == INSTANCE AutodiffScope
           WITH InputsOf <- LAMBDA p : InputChoices(p.dom),
                Deriv <- LAMBDA p, x, v : RefD(p, x, p.out, v)

ScopeRefinement == Scope!Spec

(* The scope bodies of the tests are legal uses of the differentiation    *)
(* API: no call of theirs is rejected with a misuse error.                 *)
ScopeBodiesLegal == err = "none"

=============================================================================
