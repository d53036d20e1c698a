------------------------------ MODULE Subsequences ------------------------------
(* What a loop with a condition around its append makes of a sequence.  The condition
   is membership of a set and the loop a recursive function, so that theorems can be
   proved about it, which they cannot about SelectSeq. *)
EXTENDS Naturals, Sequences

(* The elements of s that are in S, in their order. *)
Kept(s, S) ==
    LET kept[i \in 0..Len(s)] ==
          IF i = 0 THEN <<>> ELSE IF s[i] \in S THEN Append(kept[i - 1], s[i]) ELSE kept[i - 1]
    IN kept[Len(s)]

(* The elements of s that are not in S, in their order. *)
Dropped(s, S) == Kept(s, {s[i] : i \in DOMAIN s} \ S)
=================================================================================
