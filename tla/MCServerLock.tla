---------------------------- MODULE MCServerLock ----------------------------
(* Three servers, two of them with clocks that are off by one second.      *)
EXTENDS ServerLock

CONSTANTS s1, s2, s3

MCServers == {s1, s2, s3}
MCSkew == [s \in MCServers |-> IF s = s1 THEN 0 ELSE 1]
=============================================================================
