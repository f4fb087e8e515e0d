------------------------------ MODULE Vectors -------------------------------
(***************************************************************************)
(* What the code does with its vectors: the order and the prefixes of       *)
(* object identifiers, which are vectors of numbers, the filtering of a     *)
(* vector, and the vectors of a vector put one after the other.            *)
(***************************************************************************)
EXTENDS Integers, Sequences

\* starts_with.
IsWithin(oid, root) == Len(root) <= Len(oid) /\ SubSeq(oid, 1, Len(root)) = root

IsBelow(oid, root) == IsWithin(oid, root) /\ oid # root

\* The order of the vectors' numbers, a prefix before what goes on from it.
Before(a, b) ==
    \/ IsBelow(b, a)
    \/ \E i \in 1..(IF Len(a) < Len(b) THEN Len(a) ELSE Len(b)) :
           a[i] < b[i] /\ \A j \in 1..(i - 1) : a[j] = b[j]

\* The elements at some positions of a sequence, in their order.
Picked(s, positions) ==
    LET upto[n \in 0..Len(s)] ==
            IF n = 0 THEN <<>>
            ELSE IF n \in positions THEN Append(upto[n - 1], s[n]) ELSE upto[n - 1]
    IN  upto[Len(s)]

\* The sequences of a sequence, one after the other: flat_map.
Flattened(sequences) ==
    LET upto[n \in 0..Len(sequences)] == IF n = 0 THEN <<>> ELSE upto[n - 1] \o sequences[n]
    IN  upto[Len(sequences)]
=============================================================================
