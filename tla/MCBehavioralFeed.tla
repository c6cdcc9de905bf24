-------------------------- MODULE MCBehavioralFeed --------------------------
(* Instances of BehavioralFeed for TLC: the lines are about v1, whose         *)
(* indicator is ingested late; that of v2 is known from the start.           *)
EXTENDS BehavioralFeed, TLC

CONSTANTS v1, v2, i1, i2

TwoIndicators == (i1 :> v1) @@ (i2 :> v2)
AboutV1 == [kind : {"event", "poison", "answer"}, dst : {v1}]
=============================================================================
