------------------------------- MODULE MCVoltSpi -------------------------------
(* VoltSpi for TLC, with the program's numbers. *)
EXTENDS VoltSpi

\* "Writes digital data at given address" (spi/common.h): write_data writes to
\* the module it selected, whoever else uses the bus.
WritesAtGivenAddress == pc["cmd"] = "data" => selected = "outlets"
===============================================================================
