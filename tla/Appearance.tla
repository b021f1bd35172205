------------------------------- MODULE Appearance -------------------------------
(***************************************************************************)
(* The bot's appearance in one guild (PUT /api/guilds/:id/customization    *)
(* and dashboard/server/appearance.ts).  A save reads the row, checks what *)
(* it was sent against the guild's boost level and the bot's permission,   *)
(* upserts the whole row, and then sends Discord what changed between the  *)
(* two rows: the member's fields in one call, the role's in another.  Each *)
(* field reports whether it reached Discord; the row is kept either way.   *)
(***************************************************************************)
EXTENDS Naturals, FiniteSets

CONSTANTS
    Saves,         \* saves in flight at once
    Values,        \* what a field may hold; Cleared is one of them
    Cleared,       \* no nickname, no image, no colour
    Bodies,        \* which fields the forms send
    MaxSaves,      \* bound: saves
    MaxMishaps     \* bound: calls and writes that fail

MemberFields == {"nickname"}
RoleFields   == {"roleColor", "roleIconUrl"}
Fields       == MemberFields \cup RoleFields

VARIABLES
    row,           \* guild_customization: the switch and the fields
    shown,         \* what Discord shows of each field
    save,          \* the saves in flight
    told,          \* fields of which an operator was told that they may not be as stored
    asked, mishaps

vars == <<row, shown, save, told, asked, mishaps>>

-----------------------------------------------------------------------------
Rows  == [enabled : BOOLEAN, of : [Fields -> Values]]
Steps == {"idle", "read", "gate", "permission", "store", "member", "role", "write role", "audit", "answer"}
Nothing == [at |-> "idle", body |-> [f \in Fields |-> Cleared], sent |-> {}, enabled |-> TRUE,
            previous |-> [enabled |-> TRUE, of |-> [f \in Fields |-> Cleared]],
            next |-> [enabled |-> TRUE, of |-> [f \in Fields |-> Cleared]], failed |-> {}, alone |-> TRUE]

TypeOK ==
    /\ row \in Rows /\ shown \in [Fields -> Values]
    /\ \A s \in Saves :
          /\ save[s].at \in Steps /\ save[s].previous \in Rows /\ save[s].next \in Rows
          /\ save[s].sent \subseteq Fields /\ save[s].failed \subseteq Fields
    /\ told \subseteq Fields
    /\ asked \in 0 .. MaxSaves /\ mishaps \in 0 .. MaxMishaps

Mishap     == mishaps < MaxMishaps /\ mishaps' = mishaps + 1
Goto(s, p) == save' = [save EXCEPT ![s].at = p]
Busy       == {s \in Saves : save[s].at # "idle"}

(* effectiveCustomization: switched off, the member's fields read as       *)
(* cleared; the role's stay.                                               *)
Effective(r) == [f \in Fields |-> IF ~r.enabled /\ f \in MemberFields THEN Cleared ELSE r.of[f]]

(* Earlier saves may have left any row, shown as it is stored.             *)
Init ==
    /\ row \in Rows /\ shown = Effective(row)
    /\ save = [s \in Saves |-> Nothing]
    /\ told = {} /\ asked = 0 /\ mishaps = 0

(* changedAppearanceFields.                                                *)
Changed(previous, next) == {f \in Fields : Effective(previous)[f] # Effective(next)[f]}

-----------------------------------------------------------------------------
(* The request is let in and its body is sound.                            *)
Put(s) ==
    /\ save[s].at = "idle" /\ asked < MaxSaves
    /\ asked' = asked + 1
    /\ \E enabled \in BOOLEAN, sent \in Bodies, v \in Values :
          save' = [t \in Saves |->
                     IF t = s THEN [Nothing EXCEPT !.at = "read", !.enabled = enabled, !.sent = sent, !.alone = Busy = {},
                                                   !.body = [f \in Fields |-> v]]
                     ELSE [save[t] EXCEPT !.alone = FALSE]]
    /\ UNCHANGED <<row, shown, told, mishaps>>

(* The nickname and the colour are what the body says, absent or not; the  *)
(* other fields keep what is stored unless they were sent.                 *)
NextRow(s, current, icon) ==
    [enabled |-> save[s].enabled,
     of |-> [f \in Fields |->
               CASE f = "roleIconUrl"                                     -> icon
                 [] f \in save[s].sent                                    -> save[s].body[f]
                 [] f \notin save[s].sent /\ f \in {"nickname", "roleColor"} -> Cleared
                 [] OTHER                                                 -> current.of[f]]]

(* The row as it is now; an icon that changes is a question to Discord.    *)
ReadCurrent(s) ==
    /\ save[s].at = "read"
    /\ LET wanted == "roleIconUrl" \in save[s].sent /\ save[s].body["roleIconUrl"] # row.of["roleIconUrl"]
       IN  save' = [save EXCEPT ![s].previous = row, ![s].at = IF wanted THEN "gate" ELSE "permission",
                                ![s].next = NextRow(s, row, row.of["roleIconUrl"])]
    /\ UNCHANGED <<row, shown, told, asked, mishaps>>

(* resolveRoleIconWrite: below the boost level the stored icon stays and   *)
(* the refusal is reported; the rest of the form is saved.                 *)
IconGate(s) ==
    /\ save[s].at = "gate"
    /\ \E locked \in BOOLEAN :
          IF locked
          THEN /\ Mishap
               /\ save' = [save EXCEPT ![s].at = "permission", ![s].failed = @ \cup {"roleIconUrl"}]
          ELSE /\ save' = [save EXCEPT ![s].at = "permission",
                                       ![s].next = NextRow(s, save[s].previous, save[s].body["roleIconUrl"])]
               /\ UNCHANGED mishaps
    /\ UNCHANGED <<row, shown, told, asked>>

(* A known absence of the permission refuses a save that changes a member  *)
(* field; a list of permissions that cannot be read fails it.              *)
Permission(s) ==
    /\ save[s].at = "permission"
    /\ \/ Goto(s, "store") /\ UNCHANGED mishaps
       \/ /\ Changed(save[s].previous, save[s].next) \cap MemberFields # {}
          /\ Mishap /\ save' = [save EXCEPT ![s] = Nothing]
    /\ UNCHANGED <<row, shown, told, asked>>

(* saveCustomization: the whole row.                                       *)
Store(s) ==
    /\ save[s].at = "store"
    /\ \/ row' = save[s].next /\ Goto(s, "member") /\ UNCHANGED mishaps
       \/ Mishap /\ save' = [save EXCEPT ![s] = Nothing] /\ UNCHANGED row
    /\ UNCHANGED <<shown, told, asked>>

-----------------------------------------------------------------------------
(* applyAppearance.                                                        *)

Show(s, fields) == shown' = [f \in Fields |-> IF f \in fields THEN Effective(save[s].next)[f] ELSE shown[f]]
Fail(s, fields, p) == save' = [save EXCEPT ![s].failed = @ \cup fields, ![s].at = p]

(* Modify Current Member: one call answers for every field it carries.     *)
PatchMember(s) ==
    LET carried == Changed(save[s].previous, save[s].next) \cap MemberFields
    IN  /\ save[s].at = "member"
        /\ \/ Show(s, carried) /\ Goto(s, "role") /\ UNCHANGED mishaps
           \/ carried # {} /\ Mishap /\ Fail(s, carried, "role") /\ UNCHANGED shown
        /\ UNCHANGED <<row, told, asked>>

(* The role is looked for by its name, and a link to an icon is fetched;   *)
(* without the role nothing is sent, without the image the colour is.      *)
FindRole(s) ==
    LET touched == Changed(save[s].previous, save[s].next) \cap RoleFields
    IN  /\ save[s].at = "role"
        /\ \/ Goto(s, IF touched = {} THEN "audit" ELSE "write role") /\ UNCHANGED mishaps
           \/ touched # {} /\ Mishap /\ Fail(s, touched, "audit")
           \/ /\ "roleIconUrl" \in touched /\ save[s].next.of["roleIconUrl"] # Cleared
              /\ Mishap /\ Fail(s, {"roleIconUrl"}, IF touched = {"roleIconUrl"} THEN "audit" ELSE "write role")
        /\ UNCHANGED <<row, shown, told, asked>>

(* Mutant: an icon that could not be fetched is sent as a cleared one.     *)
PatchRoleClears(s) ==
    LET touched == Changed(save[s].previous, save[s].next) \cap RoleFields
    IN  /\ save[s].at = "write role"
        /\ \/ /\ shown' = [f \in Fields |->
                             CASE f = "roleIconUrl" /\ f \in touched \cap save[s].failed -> Cleared
                               [] f \in touched \cup {"roleColor"}                      -> save[s].next.of[f]
                               [] OTHER                                                 -> shown[f]]
              /\ save' = [save EXCEPT ![s].at = "audit", ![s].failed = @ \ touched]
              /\ UNCHANGED mishaps
           \/ Mishap /\ Fail(s, touched, "audit") /\ UNCHANGED shown
        /\ UNCHANGED <<row, told, asked>>

(* One call; it always carries the colour, and the icon if it changed and  *)
(* could be fetched.                                                       *)
PatchRole(s) ==
    LET touched == (Changed(save[s].previous, save[s].next) \cap RoleFields) \ save[s].failed
    IN  /\ save[s].at = "write role"
        /\ \/ Show(s, touched \cup {"roleColor"}) /\ Goto(s, "audit") /\ UNCHANGED mishaps
           \/ Mishap /\ Fail(s, touched, "audit") /\ UNCHANGED shown
        /\ UNCHANGED <<row, told, asked>>

-----------------------------------------------------------------------------
(* appendAudit; if it fails the operator is told that the save failed.     *)
Audit(s) ==
    /\ save[s].at = "audit"
    /\ \/ Goto(s, "answer") /\ UNCHANGED mishaps
       \/ Mishap /\ Fail(s, Fields, "answer")
    /\ UNCHANGED <<row, shown, told, asked>>

(* appearanceResponse: what failed is in the answer, whether it is an      *)
(* error (nothing landed) or not.  A field that landed is as stored,       *)
(* unless another save was under way.                                      *)
Answer(s) ==
    /\ save[s].at = "answer"
    /\ told' = IF save[s].alone
               THEN (told \ Changed(save[s].previous, save[s].next))
                      \cup (save[s].failed \cap Changed(save[s].previous, save[s].next))
               ELSE Fields
    /\ save' = [save EXCEPT ![s] = Nothing]
    /\ UNCHANGED <<row, shown, asked, mishaps>>

Next == \E s \in Saves :
    \/ Put(s) \/ ReadCurrent(s) \/ IconGate(s) \/ Permission(s) \/ Store(s)
    \/ PatchMember(s) \/ FindRole(s) \/ PatchRole(s) \/ Audit(s) \/ Answer(s)

Spec == Init /\ [][Next]_vars

-----------------------------------------------------------------------------
(* Between saves Discord shows what the row says, but for the fields an    *)
(* operator was told of: the ones an answer named as failed, and those of  *)
(* saves that met ("a failed field is reported, never swallowed",          *)
(* dashboard/server/index.ts).                                             *)
DifferencesAreReported ==
    Busy = {} => \A f \in Fields \ told : shown[f] = Effective(row)[f]
=============================================================================
