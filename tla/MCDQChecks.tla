---------------------------- MODULE MCDQChecks ----------------------------
(***************************************************************************)
(* A table with up to two columns: clean, emptied, cut by a third and by   *)
(* less, with a spike of nulls, with a null rate below, at and above half  *)
(* a unit of the stored rate, with a column gone.                          *)
(***************************************************************************)
EXTENDS DQChecks

CONSTANTS kyc, apr

Holding(rows, columns, kyc_nulls, apr_nulls) ==
    [rows |-> rows, columns |-> columns,
     nulls |-> [c \in Columns |-> IF c = kyc THEN kyc_nulls ELSE apr_nulls]]

MCContents ==
    {Holding(10, {kyc, apr}, 0, 2),     \* clean
     Holding(7, {kyc, apr}, 0, 1),      \* 30% lost
     Holding(6, {kyc, apr}, 0, 1),      \* 40% lost
     Holding(10, {kyc, apr}, 0, 6),     \* a spike
     Holding(10, {kyc, apr}, 1, 2),     \* a null that is stored as none
     Holding(8, {kyc, apr}, 1, 2),      \* a null just at half a unit
     Holding(5, {kyc, apr}, 1, 0),      \* a null just above half a unit
     Holding(10, {kyc}, 0, 0),          \* a column gone
     Holding(0, {kyc, apr}, 0, 0)}      \* emptied
=============================================================================
