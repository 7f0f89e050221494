------------------------------ MODULE Vectors ------------------------------
(***************************************************************************)
(* std::vector idioms of the source, as operators without recursion.       *)
(*                                                                         *)
(* SelectSeq and RemoveAll of the libraries are recursive and nothing      *)
(* about their value can be proved with the installed provers, so the      *)
(* erase loop of the source is stated by what it returns: the kept         *)
(* elements, in their old order.  MCPlatform compares Kept with SelectSeq.  *)
(***************************************************************************)
EXTENDS Naturals, Sequences

(* The elements of a sequence. *)
Elems(s) == {s[i] : i \in DOMAIN s}

(* f lists the positions in I, in increasing order and each exactly once. *)
Lists(f, I) ==
    /\ \A j, k \in DOMAIN f : j < k => f[j] < f[k]
    /\ \A i \in I : \E j \in DOMAIN f : f[j] = i

(***************************************************************************)
(* The sequences left when only the positions in I survive; there is       *)
(* exactly one.  for (it = v.begin(); ...) it = erase ? v.erase(it) : ++it *)
(***************************************************************************)
Kept(s, I) ==
    UNION { { [j \in 1..n |-> s[f[j]]] :
                f \in {g \in [1..n -> I] : Lists(g, I)} } : n \in 0..Len(s) }

(* No element occurs at two positions. *)
Distinct(s) == \A i, j \in DOMAIN s : s[i] = s[j] => i = j

(* if (std::find(...) == v.end()) v.push_back(e) *)
PushOnce(s, e) == IF e \in Elems(s) THEN s ELSE Append(s, e)
=============================================================================
