---------------------------- MODULE MCErpcDatapath ----------------------------
(* ErpcDatapath for TLC: requests and responses of one to three packets. *)
EXTENDS ErpcDatapath

MCReqPkts == [r \in Requests |-> CASE r % 4 = 1 -> 2 [] r % 4 = 3 -> 3 [] OTHER -> 1]
MCRespPkts == [r \in Requests |-> CASE r % 4 = 1 -> 3 [] r % 4 = 2 -> 2 [] OTHER -> 1]

(* Short ones, for the run that checks liveness. *)
MCShortReqPkts == [r \in Requests |-> IF r = 1 THEN 2 ELSE 1]
MCShortRespPkts == [r \in Requests |-> IF r = 2 THEN 2 ELSE 1]
===============================================================================
