---------------------------- MODULE MCIwmBaTask ----------------------------
EXTENDS IwmBaTask

(* The frames and events that move a station's link.                       *)
MCMoves == {<<"SCAN", "AUTH">>, <<"AUTH", "ASSOC">>, <<"ASSOC", "RUN">>,
            <<"RUN", "ASSOC">>, <<"RUN", "SCAN">>}

(* Those on the way to RUN: the link comes down only with the device.      *)
MCMovesUp == {m \in MCMoves : m[1] # "RUN"}
=============================================================================
