------------------------- MODULE MCAutodiffCallable -------------------------
(* Model-checking instance of the autodiff_callable composition.          *)
EXTENDS AutodiffCallable

MCCallablePrograms == {autodiff_callable_body}

=============================================================================
