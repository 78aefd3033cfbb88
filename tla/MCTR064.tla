------------------------------ MODULE MCTR064 -------------------------------
(* Small instances of TR064 for TLC.                                        *)
EXTENDS TR064

\* Two protected actions, one of which faults.
MCActions == {"GetInfo", "GetStatistics"}
MCNoAuth  == {}
MCAnswer  == [a \in MCActions |-> IF a = "GetInfo" THEN "ok" ELSE "fault"]

\* Every kind of answer, and an action open to clients without credentials.
AllActions == {"GetInfo", "GetStatistics", "GetSecurityPort", "GetGone",
               "GetGarbled"}
AllNoAuth  == {"GetSecurityPort"}
AllAnswer  == [a \in AllActions |->
                  CASE a = "GetStatistics" -> "fault"
                    [] a = "GetGone"       -> "notfound"
                    [] a = "GetGarbled"    -> "malformed"
                    [] OTHER               -> "ok"]
=============================================================================
