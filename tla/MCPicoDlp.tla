------------------------------ MODULE MCPicoDlp ------------------------------
(* Instances of PicoDlp for TLC: command lines that differ in each argument. *)
EXTENDS PicoDlp, TLC

Line(a, b, c, d) == 3 :> a @@ 4 :> b @@ 5 :> c @@ 6 :> d
MCParams == {Line("x", "x", "y", "x"), Line("y", "y", "x", Missing)}
=============================================================================
