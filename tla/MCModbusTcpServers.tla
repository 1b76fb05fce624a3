-------------------------- MODULE MCModbusTcpServers --------------------------
(* Clients for the runs of ModbusTcpServers.                               *)
EXTENDS ModbusTcpServers

CONSTANTS a, b
=============================================================================
