-------------------------- MODULE MCReconstruction --------------------------
(***************************************************************************)
(* Instances of Reconstruction for TLC.                                    *)
(***************************************************************************)
EXTENDS Reconstruction

CONSTANTS a, b, d, x1, x2, x3, f1, f2, f3, s1, s2, s3

\* Serialised and unpacked lengths differ, in both directions.
StoredLen == [c \in {a, b, d} |-> IF c = b THEN 1 ELSE 2]
UnpackedLen == [c \in {a, b, d} |-> IF c = b THEN 2 ELSE 1]

ChunksOf == [x \in {x1, x2, x3} |->
    CASE x = x1 -> <<a, b, d>> [] x = x2 -> <<d, b>> [] x = x3 -> <<b, a>>]

ContentOf == [f \in {f1, f2, f3} |->
    CASE f = f1 -> <<a, b, d, d, a>> [] f = f2 -> <<a, d>> [] f = f3 -> <<b, a>>]

Seg(x, i, j) == [xorb |-> x, first |-> i, last |-> j]

\* s1: f1 with a nested and f2 with a separate range of x1.  s2: f1 cut into
\* more terms, adjacent ones among them, with xorbs it does not list.  s3: f3
\* in a xorb without boundaries.  The rows of f1 from s1 and s2, less the one
\* in x2, have the length of f1 and not its content.
SegmentsOf == [s \in {s1, s2, s3} |->
    CASE s = s1 ->
            [f \in {f1, f2} |->
               IF f = f1 THEN <<Seg(x1, 0, 3), Seg(x2, 0, 1), Seg(x1, 0, 1)>>
               ELSE <<Seg(x1, 0, 1), Seg(x1, 2, 3)>>]
      [] s = s2 ->
            [f \in {f1} |-> <<Seg(x1, 0, 1), Seg(x1, 1, 3), Seg(x2, 0, 1),
                              Seg(x1, 0, 1)>>]
      [] s = s3 -> [f \in {f3} |-> <<Seg(x3, 0, 1), Seg(x3, 1, 2)>>]]

ListedIn == [s \in {s1, s2, s3} |-> IF s = s1 THEN {x1, x2} ELSE {}]

Full(i, j) == [form |-> "full", s |-> i, e |-> j]
Open(i) == [form |-> "open", s |-> i]
Suffix(n) == [form |-> "suffix", n |-> n]

\* Headers inside, across and outside the grants the instances mint.
Headers == {<<>>, <<Full(0, 1)>>, <<Full(1, 4)>>, <<Full(2, 2), Full(4, 9)>>,
            <<Full(3, 1)>>, <<Full(0, 0), Full(3, 4)>>, <<Open(2)>>, <<Open(7)>>,
            <<Suffix(0)>>, <<Suffix(1)>>, <<Suffix(9)>>}

=============================================================================
