---------------------------- MODULE MCContentLog -------------------------------
(* Instance of ContentLog: the constants are in the configuration.             *)
EXTENDS ContentLog
===============================================================================
