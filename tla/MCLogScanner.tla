---------------------------- MODULE MCLogScanner ----------------------------
(***************************************************************************)
(* One source with two files, for LogScanner.                              *)
(***************************************************************************)
EXTENDS LogScanner

OneSource == <<"s">>
TwoFiles == [s \in {"s"} |-> <<"b", "a">>]

=============================================================================
