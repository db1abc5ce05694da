--------------------------- MODULE MCStabSearch ---------------------------
EXTENDS StabSearch

(* A stab of another type is only looked at for its type, so one value     *)
(* stands for all.                                                         *)
MCEntries == [n_type : {"FUN"}, n_value : 0 .. AddrSpace - 1]
               \union [n_type : {"PSYM"}, n_value : {0}]

(* Tables in which the functions are in order everywhere, not only within  *)
(* the searched part.                                                      *)
MCTables ==
  { t \in [0 .. NStabs - 1 -> MCEntries] :
      \A i, k \in 0 .. NStabs - 1 :
        i < k /\ t[i].n_type = "FUN" /\ t[k].n_type = "FUN"
          => t[i].n_value <= t[k].n_value }
=============================================================================
