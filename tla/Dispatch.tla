------------------------------ MODULE Dispatch -------------------------------
(***************************************************************************)
(* The dispatcher (apps/bot/src/events/dispatch.ts) in front of the        *)
(* pipeline: it gives every loggable gateway event its priority and its    *)
(* timing.  A job is the log entry of one event.  Events of types the      *)
(* dispatcher does not log change none of this state and are left out.     *)
(***************************************************************************)
EXTENDS EventPipeline

CONSTANTS
    Kind,       \* the kind of each event
    MemberOf    \* the member a voice event is about: its debounce key

VARIABLE arrived    \* history: the events in the order the gateway sent them

dvars == <<vars, arrived>>

(* The rows of priorityOf that differ in priority or in route.             *)
Kinds == {"moderation", "voiceModeration", "activity", "voiceChurn", "reaction"}

VoiceKinds == {"voiceModeration", "voiceChurn"}

PriorityOf(kind) ==
    CASE kind \in {"moderation", "voiceModeration"} -> 1
      [] kind = "activity" -> 2
      [] kind \in {"voiceChurn", "reaction"} -> 3

Voice == {j \in Jobs : Kind[j] \in VoiceKinds}

(* Every voice event is debounced at priority 3 under its member's key,    *)
(* whatever the table says of its type.                                    *)
DispatchEvent(j) ==
    /\ \/ j \in Voice /\ Debounce(3, MemberOf[j], j)
       \/ j \notin Voice /\ Enqueue(PriorityOf(Kind[j]), j)
    /\ arrived' = Append(arrived, j)

Internal == DrainMicrotask \/ Timers \/ JobFinish \/ Tick \/ Shutdown

DInit == Init /\ arrived = <<>>

DNext ==
    \/ \E j \in Jobs : DispatchEvent(j)
    \/ Internal /\ UNCHANGED arrived

DSpec == DInit /\ [][DNext]_dvars /\ Fairness

-----------------------------------------------------------------------------
(* Properties                                                              *)

Earlier(i, j) == \E a, b \in DOMAIN arrived : a < b /\ arrived[a] = i /\ arrived[b] = j

SameMember(i, j) == {i, j} \subseteq Voice /\ MemberOf[i] = MemberOf[j]

(* "a member hopping rooms produces one entry" after it settles: the last  *)
(* voice event of a member is never the one that is coalesced away.        *)
LastVoiceEventSurvives ==
    \A j \in Voice \cap accepted :
        j \in superseded => \E i \in accepted \ superseded : SameMember(i, j) /\ Earlier(j, i)

(* Rule 11, "An event is never silently dropped", and dispatch.ts: "A      *)
(* moderator's drag and a moderator's disconnect sit with the moderation   *)
(* actions they are, ahead of the member's own voice churn": a moderation  *)
(* action on a member in voice is not replaced by that member's churn.     *)
ModerationSurvivesChurn ==
    \A j \in superseded : Kind[j] # "voiceModeration"
=============================================================================
