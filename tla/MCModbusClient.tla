--------------------------- MODULE MCModbusClient ---------------------------
(* Instances of ModbusClient for TLC: the two polling loops and two writes, *)
(* one of them with arguments that are refused.                             *)
EXTENDS ModbusClient, TLC

CONSTANTS prime, base, w1, w2
=============================================================================
