---------------------------- MODULE AutodiffScope ----------------------------
(***************************************************************************)
(* What one differentiation scope promises to the kernel body that uses   *)
(* it (spec sections 4.3, 4.4, 7): the scope's state machine              *)
(* Idle -> Recording -> BackwardDone -> Closed, the misuse errors, and     *)
(* that gradient(v) in a lane is the derivative of the output with respect *)
(* to v along that lane's own taken path.  How the derivative is computed *)
(* (a trace, reverse accumulation, masks) is not visible here: Deriv is a  *)
(* parameter.  AutodiffTape implements this module.                        *)
(***************************************************************************)
EXTENDS Integers, Sequences

CONSTANTS
  Programs,         \* kernel bodies: records with nodes, outer, ...
  Lanes,
  StrictUntracked,
  InputsOf(_),      \* InputsOf(p): the inputs a lane may read for body p
  Deriv(_, _, _)    \* Deriv(p, x, v): d(output of p)/dv on a lane that read x

VARIABLES prog, inputs, phase, err, leaves, grad

avars == <<prog, inputs, phase, err, leaves, grad>>

Values == 1..Len(prog.nodes)

Init ==
  /\ prog \in Programs
  /\ inputs \in [Lanes -> InputsOf(prog)]
  /\ phase = "idle"
  /\ err = "none"
  /\ leaves = {}
  /\ grad = [l \in Lanes |-> <<>>]

Open ==
  /\ phase = "idle"
  /\ phase' = "recording"
  /\ UNCHANGED <<prog, inputs, err, leaves, grad>>

(* requires_grad(v); a value made outside the scope is untracked.         *)
MarkLeaf(v) ==
  /\ phase = "recording"
  /\ IF StrictUntracked /\ v <= prog.outer
     THEN phase' = "error" /\ err' = "UntrackedValue" /\ UNCHANGED leaves
     ELSE leaves' = leaves \cup {v} /\ UNCHANGED <<phase, err>>
  /\ UNCHANGED <<prog, inputs, grad>>

RunBackward ==
  /\ phase = "recording"
  /\ phase' = "done"
  /\ UNCHANGED <<prog, inputs, err, leaves, grad>>

(* gradient(v): each lane gets its own derivative.                         *)
ReadGradient(v) ==
  /\ phase \in {"recording", "done"}
  /\ CASE phase /= "done" ->
            phase' = "error" /\ err' = "NoActiveBackwardPass" /\ UNCHANGED grad
       [] v \notin leaves ->
            phase' = "error" /\ err' = "NotALeaf" /\ UNCHANGED grad
       [] OTHER ->
            /\ grad' = [l \in Lanes |->
                          [m \in DOMAIN grad[l] \cup {v} |->
                             IF m = v THEN Deriv(prog, inputs[l], v)
                             ELSE grad[l][m]]]
            /\ UNCHANGED <<phase, err>>
  /\ UNCHANGED <<prog, inputs, leaves>>

Close ==
  /\ phase \in {"recording", "done"}
  /\ phase' = "closed"
  /\ UNCHANGED <<prog, inputs, err, leaves, grad>>

Next ==
  \/ Open
  \/ \E v \in Values : MarkLeaf(v) \/ ReadGradient(v)
  \/ RunBackward
  \/ Close

Spec == Init /\ [][Next]_avars

=============================================================================
