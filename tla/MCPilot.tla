------------------------------ MODULE MCPilot ------------------------------
(* Two onboardings and two setters of one tenant, whose flags start as a   *)
(* default that is on and one that is off; one setter may ask for a key    *)
(* that is no flag.  The dashboard's tenant has two jobs and two           *)
(* recommendations, another tenant has one job.  What settings and         *)
(* dashboards do is not related, so that a history has the ones with no    *)
(* commit beside them, or the others with all of them.                     *)
EXTENDS Pilot

MCDefault == [k \in Keys |-> k = "discovery"]

MCOwner == [row \in Jobs \cup Recs \cup Boards |-> IF row = "j3" THEN "t2" ELSE "t1"]

Set(key, enabled) == [tenant |-> "t1", key |-> key, enabled |-> enabled]
MCAsked ==
    {[q \in Calls |-> IF q = "s1" THEN first ELSE IF q = "s2" THEN second
                      ELSE Set("discovery", TRUE)] :
        first \in {Set("external_mutations", TRUE), Set("other", TRUE)},
        second \in {Set("external_mutations", FALSE), Set("discovery", FALSE)}}

MCHistories ==
    [asked : MCAsked, come : {Calls}, commits : {MaxCommits}]
        \cup [asked : {CHOOSE asked \in MCAsked : TRUE}, come : {Boards}, commits : {0}]
=============================================================================
