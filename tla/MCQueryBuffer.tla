--------------------------- MODULE MCQueryBuffer ---------------------------
(* Sizes for the runs of QueryBuffer: an empty body, one shorter and one longer
   than the header; the mark is beyond every request, as 65535 is. *)
EXTENDS QueryBuffer

MCBodyLengths == {0, 2, 5}
=============================================================================
