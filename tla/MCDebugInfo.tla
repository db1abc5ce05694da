---------------------------- MODULE MCDebugInfo ----------------------------
EXTENDS DebugInfo

(* The tables are enumerated by types first, then by values: files and     *)
(* functions in order, then the lines.  The value of a stab that is none   *)
(* of these is never read.                                                 *)
MCHeads ==
  { [i \in Index |-> IF i = 0 THEN "UNDF" ELSE IF i = 1 THEN "SO" ELSE ty[i]] :
      ty \in [2 .. NStabs - 1 -> Types \ {"UNDF"}] }

MCTypes == { ty \in MCHeads : Layout(ty) }

MCAnchors(ty) ==
  LET anchors == At(ty, "SO") \union At(ty, "FUN")
  IN { v \in [anchors -> ULIM .. AddrSpace - 2] :
         \A i, k \in anchors : i < k => v[i] <= v[k] }

MCValues(ty) ==
  LET lines == [At(ty, "SLINE") -> 0 .. AddrSpace - 2]
      all(v, w) == [i \in Index |-> IF i \in DOMAIN v THEN v[i]
                                    ELSE IF i \in DOMAIN w THEN w[i] ELSE 0]
  IN { x \in { all(v, w) : v \in MCAnchors(ty), w \in lines } : Placed(ty, x) }

MCPlaced == UNION { { <<ty, v>> : v \in MCValues(ty) } : ty \in MCTypes }

MCTables ==
  { [i \in Index |-> [n_type |-> p[1][i], n_value |-> p[2][i]]] : p \in MCPlaced }
=============================================================================
