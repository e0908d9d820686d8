---------------------------- MODULE MCPushInbox ----------------------------
(* Two pushes: a dated marking with a photo, and an undated marking of      *)
(* another person that shares its body with an unparseable part.            *)
EXTENDS PushInbox

CONSTANTS ana, luis, dated, undated, broken, beat

MCParts   == {dated, undated, broken, beat}
MCBodies  == <<<<dated, beat>>, <<undated, broken>>>>
MCPerson  == [p \in MCParts |-> IF p = dated THEN ana ELSE luis]
MCBuckets == [p \in MCParts |-> IF p = undated THEN {1, 2} ELSE {1}]
=============================================================================
