---------------------------- MODULE MCLineFetch ----------------------------
(***************************************************************************)
(* Small instances of LineFetch.                                           *)
(***************************************************************************)
EXTENDS LineFetch

At(r, w, o) == [row |-> r, start |-> w, odd |-> o]

(* A line that ends with its row, and one that wraps.                       *)
EveryStart == {At(0, 1, FALSE), At(1, 2, FALSE)}
(* The fine scroll moves by one pixel.                                      *)
BothParities == {At(0, 0, FALSE), At(0, 0, TRUE)}
(* A piece is read or written. *)
ReadAndWrite == {[we |-> FALSE, addr |-> 10, len |-> 2], [we |-> TRUE, addr |-> 12, len |-> 1]}
=============================================================================
