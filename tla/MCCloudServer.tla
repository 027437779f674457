--------------------------- MODULE MCCloudServer ---------------------------
(* Small instances of CloudServer: descriptors, threads, connections and devices are
   interchangeable. *)
EXTENDS CloudServer, TLC

Symmetry == Permutations(Fd) \cup Permutations(Thread)
              \cup Permutations(Conn) \cup Permutations(Dev)
=============================================================================
