---------------------------- MODULE MCModemLock -----------------------------
(* Small instances of ModemLock for TLC.                                   *)
EXTENDS ModemLock

CONSTANTS uroot, udfota, ping1, ping2, per1

\* rpc-dfota runs dfota as root, dfota.init as dfota; cron runs the others.
UserOf == [p \in Procs |-> IF p = uroot THEN "root" ELSE
                           IF p = udfota THEN "dfota" ELSE "preboot"]
=============================================================================
