---------------------------- MODULE MCPagination ----------------------------
(***************************************************************************)
(* Pagination for TLC: two creation times one microsecond and one second   *)
(* boundary apart.                                                         *)
(***************************************************************************)
EXTENDS Pagination

MCTimes ==
    {[days |-> 0, seconds |-> 0, micros |-> 999999],
     [days |-> 0, seconds |-> 1, micros |-> 0]}

=============================================================================
