-------------------------- MODULE MCHistoryPaging --------------------------
(* HistoryPaging with the sizes of the program: 20 records of 24 bytes in a
   package of 512, at most 24 * 31 records. *)
EXTENDS HistoryPaging

\* every size up to five packages, and the sizes around the maximum
AnyCount == (0 .. 101) \cup (738 .. 746) \cup {2000}
=============================================================================
