------------------------------ MODULE MCPlatform ------------------------------
EXTENDS Platform

(* Values of the constants.                                                   *)

LegacyBatch(from, to, passed) == [days |-> from .. to, passed |-> passed]
MCLegacy ==
    {<< >>, <<LegacyBatch(1, 7, FALSE)>>,
     <<LegacyBatch(1, 6, TRUE), LegacyBatch(1, 7, TRUE)>>,
     <<LegacyBatch(1, 7, TRUE), LegacyBatch(3, 7, TRUE)>>,
     <<LegacyBatch(3, 7, TRUE), LegacyBatch(1, 4, TRUE)>>,
     <<LegacyBatch(1, 7, FALSE), LegacyBatch(2, 7, TRUE)>>}

Plan(test, step, purge) ==
    [train |-> 2, test |-> test, step |-> step, purge |-> purge, holdout |-> 1]
MCPlans == {Plan(1, 1, 2), Plan(2, 1, 2), Plan(1, 2, 1)}

Seen(day) == [day |-> day, evidence |-> "seen"]
Other(day) == [day |-> day, evidence |-> "other"]
Stretch(from, to) == [i \in 1 .. to + 1 - from |-> Seen(from + i - 1)]
MCPageRows ==
    {Stretch(from, to) : from \in 1 .. 5, to \in 1 .. 5}
    \cup {<<Other(2)>>, <<Seen(1), Seen(3)>>, <<Seen(3), Seen(3)>>, <<Seen(3), Seen(2)>>,
          <<Seen(2), Other(3)>>, <<Seen(Untimed), Seen(2)>>,
          <<[day |-> 3, evidence |-> Malformed]>>}

MCFeedWindows == {<<2, 7>>, <<1, 6>>, <<1, 2>>, <<4, 7>>}

Request(path, method, fault) ==
    [path |-> path, method |-> method, fault |-> fault, features |-> 7]
MCRequests ==
    {Request("predict", "POST", f) : f \in {"none", "SCHEMA_HASH_MISMATCH", "REQUEST_TOO_LARGE"}}
    \cup {Request("dashboard", "GET", "none"), Request("predict", "PREFLIGHT", "none")}

MCAcquisitions == {[id |-> 1, tf |-> "5m", started |-> 1, stamp |-> 1]}

MCIngestPages == {<<"5m", {1}>>, <<"10m", {1}>>}
=============================================================================
