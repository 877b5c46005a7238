--------------------------- MODULE MCInitProgram ---------------------------
(* Up to three modes: the one that is looked for, lower and narrower ones, one *)
(* larger, and one of the right size without a framebuffer to draw in.         *)
EXTENDS InitProgram

Rgb(w, h, stride) == [rgb |-> TRUE, w |-> w, h |-> h, stride |-> stride]
SomeModes ==
  { Rgb(W, H, W + 1), Rgb(W, H - 1, W), Rgb(W - 1, H - 1, W - 1), Rgb(W - 1, H, W),
    Rgb(W + 1, H + 1, W + 1), [Rgb(W, H, W) EXCEPT !.rgb = FALSE] }
SmallTables == UNION {[0 .. max -> SomeModes] : max \in 0 .. 2}
=============================================================================
