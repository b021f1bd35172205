------------------------------ MODULE MCDispatch -----------------------------
(* An instance of Dispatch: one member, dragged to another room by a       *)
(* moderator, who then hops on by themselves.                              *)
EXTENDS Dispatch

CONSTANTS drag, hop, member

MCKind     == [j \in Jobs |-> IF j = drag THEN "voiceModeration" ELSE "voiceChurn"]
MCMemberOf == [j \in Jobs |-> member]
=============================================================================
