----------------------------- MODULE MCQtModbus -----------------------------
(* Requests for the run of QtModbus.                                       *)
EXTENDS QtModbus

(* A write of both rows of a table, which changes two, one or none.        *)
MCPdus == {[table |-> "HoldingRegisters", cells |-> [r \in {0, 1} |-> 1]]}
=============================================================================
