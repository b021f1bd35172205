------------------------------- MODULE LogSetup -------------------------------
(***************************************************************************)
(* The log rooms of one guild (dashboard/server/index.ts, discord.ts): one *)
(* press creates a category and its channels and binds them, another takes *)
(* them down, and the logging form binds channels by hand.  All three read *)
(* the guild through one cached channel list.  Every await is a step,      *)
(* except that reads which follow each other find the same list.           *)
(***************************************************************************)
EXTENDS Integers, FiniteSets

CONSTANTS
    Presses,       \* requests in flight at once
    Planned,       \* plannedBindings: the room names of each mode
    ChannelCap,    \* DISCORD_GUILD_CHANNEL_CAP
    MaxPresses,    \* bound: requests
    MaxMishaps,    \* bound: failing reads and writes, rooms deleted by hand
    MaxIds,        \* bound: channels ever created
    None

VARIABLES
    rooms,     \* text channels at Discord: [id, name, parent]
    cats,      \* categories named LOG_CATEGORY_NAME at Discord, by id
    cached,    \* guildRawChannelCache: [rooms, cats], or None
    fresh,     \* it is inside its TTL
    bound,     \* guild_logging: the channels bound, [name, id]
    press,     \* the requests
    minted, pressed, mishaps,
    why        \* what has disturbed the rooms: "blind" a list that could not be read taken for an
               \* empty one, "stale" rooms made behind a list that is kept, "met" two requests at
               \* once, "hand" a person, "cut" a teardown or a save that did not get to its end

vars == <<rooms, cats, cached, fresh, bound, press, minted, pressed, mishaps, why>>

Ids    == 1 .. MaxIds
Names  == UNION {Planned[mode] : mode \in DOMAIN Planned}
Pairs  == [name : Names, id : Ids]
Steps  == {"idle", "list", "cap", "find", "make", "rooms", "bind",
           "orphans", "existing", "delete", "children", "clear", "check", "save"}
Idle   == [at |-> "idle", names |-> {}, cat |-> 0, known |-> {}, made |-> {}, todo |-> {}, failed |-> FALSE]

TypeOK ==
    /\ rooms \subseteq [id : Ids, name : Names, parent : {0} \cup Ids] /\ cats \subseteq Ids
    /\ cached = None \/ (cached.rooms \subseteq [id : Ids, name : Names, parent : {0} \cup Ids] /\ cached.cats \subseteq Ids)
    /\ fresh \in BOOLEAN /\ (cached = None => ~fresh) /\ bound \subseteq Pairs
    /\ \A p \in Presses : press[p].at \in Steps /\ press[p].made \subseteq Pairs /\ press[p].known \subseteq Pairs
    /\ minted \in 0 .. MaxIds /\ pressed \in 0 .. MaxPresses /\ mishaps \in 0 .. MaxMishaps
    /\ why \subseteq {"blind", "stale", "met", "hand", "cut"}

Init ==
    /\ rooms = {} /\ cats = {} /\ cached = None /\ fresh = FALSE /\ bound = {}
    /\ press = [p \in Presses |-> Idle]
    /\ minted = 0 /\ pressed = 0 /\ mishaps = 0 /\ why = {}

Guild    == [rooms |-> rooms, cats |-> cats]
Empty    == [rooms |-> {}, cats |-> {}]
To(p, r) == press' = [press EXCEPT ![p] = r]
Done(p)  == To(p, Idle)
Calm     == UNCHANGED <<mishaps, why>>
Mishap(reasons) == mishaps < MaxMishaps /\ mishaps' = mishaps + 1 /\ why' = why \cup reasons

Begin(p, r) ==
    /\ press[p] = Idle /\ pressed < MaxPresses
    /\ pressed' = pressed + 1
    /\ To(p, r)
    /\ why' = IF \E q \in Presses \ {p} : press[q] # Idle THEN why \cup {"met"} ELSE why

(* fetchRawChannels: the list that is kept; or Discord's, kept from now on;*)
(* or, when the read fails, the one that was kept last.  A load that an    *)
(* invalidation overtakes is in GuildReadCache.                            *)
Lists == IF fresh THEN {cached} ELSE {Guild, cached} \ {None}

ReadsList(list) ==
    \/ fresh /\ list = cached /\ UNCHANGED <<cached, fresh>> /\ Calm
    \/ ~fresh /\ list = Guild /\ cached' = Guild /\ fresh' = TRUE /\ Calm
    \/ ~fresh /\ list = cached /\ UNCHANGED <<cached, fresh>> /\ Mishap({"stale"})

CannotRead == cached = None /\ UNCHANGED <<cached, fresh>>
Invalidate == cached' = None /\ fresh' = FALSE

Expire ==
    /\ fresh /\ fresh' = FALSE
    /\ UNCHANGED <<rooms, cats, cached, bound, press, minted, pressed, mishaps, why>>

-----------------------------------------------------------------------------
(* POST logging/setup                                                      *)

Setup(p) ==
    /\ \E mode \in DOMAIN Planned : Begin(p, [Idle EXCEPT !.at = "list", !.names = Planned[mode]])
    /\ UNCHANGED <<rooms, cats, cached, fresh, bound, minted, mishaps>>

(* existingByName: of two channels with one name, one is taken.            *)
Reused(list, names) ==
    LET there == {n \in names : \E r \in list.rooms : r.name = n}
    IN  {{[name |-> n, id |-> f[n]] : n \in there} :
           f \in {g \in [there -> Ids] : \A n \in there : \E r \in list.rooms : r.name = n /\ r.id = g[n]}}

(* A list that cannot be read is an empty list.                            *)
ListRooms(p) ==
    /\ press[p].at = "list"
    /\ \/ \E list \in Lists : \E known \in Reused(list, press[p].names) :
             ReadsList(list) /\ To(p, [press[p] EXCEPT !.at = "cap", !.known = known])
       \/ CannotRead /\ To(p, [press[p] EXCEPT !.at = "cap"]) /\ Mishap({"blind"})
    /\ UNCHANGED <<rooms, cats, bound, minted, pressed>>

NamesOf(pairs) == {b.name : b \in pairs}

(* Counted first, so that a guild without room is refused before anything  *)
(* is built; a count that cannot be read is zero.                          *)
CheckCap(p) ==
    /\ press[p].at = "cap"
    /\ \/ \E list \in Lists :
             LET new   == Cardinality(press[p].names \ NamesOf(press[p].known)) + (IF list.cats = {} THEN 1 ELSE 0)
                 count == Cardinality(list.rooms) + Cardinality(list.cats)
             IN  /\ ReadsList(list)
                 /\ IF count + new > ChannelCap THEN Done(p) ELSE To(p, [press[p] EXCEPT !.at = "find"])
       \/ CannotRead /\ To(p, [press[p] EXCEPT !.at = "find"]) /\ Mishap({})
    /\ UNCHANGED <<rooms, cats, bound, minted, pressed>>

(* findGuildCategory; the routes end with an error when it cannot read.    *)
FindCategory(p) ==
    /\ press[p].at = "find"
    /\ \/ \E list \in Lists :
             /\ ReadsList(list)
             /\ \/ list.cats = {} /\ To(p, [press[p] EXCEPT !.at = "make"])
                \/ \E c \in list.cats : To(p, [press[p] EXCEPT !.at = "rooms", !.cat = c])
       \/ CannotRead /\ Done(p) /\ Mishap({})
    /\ UNCHANGED <<rooms, cats, bound, minted, pressed>>

MakeCategory(p) ==
    /\ press[p].at = "make"
    /\ \/ /\ minted < MaxIds /\ minted' = minted + 1
          /\ cats' = cats \cup {minted'}
          /\ To(p, [press[p] EXCEPT !.at = "rooms", !.cat = minted'])
          /\ Calm
       \/ Done(p) /\ Mishap({}) /\ UNCHANGED <<cats, minted>>
    /\ UNCHANGED <<rooms, cached, fresh, bound, pressed>>

(* One channel after the other; one that is refused, or whose category is  *)
(* gone, is reported and the next one tried.                               *)
MakeRoom(p) ==
    /\ press[p].at = "rooms"
    /\ \E n \in press[p].names \ NamesOf(press[p].known) :
          /\ \/ /\ press[p].cat \in cats /\ minted < MaxIds /\ minted' = minted + 1
                /\ rooms' = rooms \cup {[id |-> minted', name |-> n, parent |-> press[p].cat]}
                /\ To(p, [press[p] EXCEPT !.names = @ \ {n}, !.made = @ \cup {[name |-> n, id |-> minted']}])
                /\ Calm
             \/ press[p].cat \in cats /\ To(p, [press[p] EXCEPT !.names = @ \ {n}])
                /\ Mishap({}) /\ UNCHANGED <<rooms, minted>>
             \/ press[p].cat \notin cats /\ To(p, [press[p] EXCEPT !.names = @ \ {n}])
                /\ Calm /\ UNCHANGED <<rooms, minted>>
    /\ UNCHANGED <<cats, cached, fresh, bound, pressed>>

(* The list is dropped once the rooms are bound, or when none was made; a  *)
(* save that fails keeps it.                                               *)
BindRooms(p) ==
    /\ press[p].at = "rooms" /\ press[p].names \subseteq NamesOf(press[p].known)
    /\ LET created == press[p].made \cup press[p].known
       IN  \/ created = {} /\ Invalidate /\ Calm /\ UNCHANGED bound
           \/ created # {} /\ bound' = created /\ Invalidate /\ Calm
           \/ created # {} /\ Mishap(IF cached = None THEN {"cut"} ELSE {"cut", "stale"}) /\ UNCHANGED <<bound, cached, fresh>>
    /\ Done(p)
    /\ UNCHANGED <<rooms, cats, minted, pressed>>

-----------------------------------------------------------------------------
(* DELETE logging/channels                                                 *)

Teardown(p) ==
    /\ Begin(p, [Idle EXCEPT !.at = "orphans", !.known = bound])
    /\ UNCHANGED <<rooms, cats, cached, fresh, bound, minted, mishaps>>

IdsOf(pairs) == {b.id : b \in pairs}

(* The category and what it holds are looked up; no bound channel and no   *)
(* orphan ends the request.                                                *)
ListOrphans(p) ==
    /\ press[p].at = "orphans"
    /\ \/ \E list \in Lists : \E c \in IF list.cats = {} THEN {0} ELSE list.cats :
             LET orphans == {r.id : r \in {q \in list.rooms : q.parent = c /\ c # 0}}
                 all     == IdsOf(press[p].known) \cup orphans
             IN  /\ ReadsList(list)
                 /\ IF all = {} THEN Done(p)
                    ELSE To(p, [press[p] EXCEPT !.at = "existing", !.cat = c, !.todo = all])
       \/ CannotRead /\ Done(p) /\ Mishap({})
    /\ UNCHANGED <<rooms, cats, bound, minted, pressed>>

(* A channel that is not on the list counts as deleted.                    *)
ListExisting(p) ==
    /\ press[p].at = "existing"
    /\ \/ \E list \in Lists :
             /\ ReadsList(list)
             /\ To(p, [press[p] EXCEPT !.at = "delete", !.todo = @ \cap {r.id : r \in list.rooms}])
       \/ CannotRead /\ Done(p) /\ Mishap({})
    /\ UNCHANGED <<rooms, cats, bound, minted, pressed>>

DeleteRoom(p) ==
    /\ press[p].at = "delete"
    /\ \E id \in press[p].todo :
          \/ /\ \E r \in rooms : r.id = id
             /\ rooms' = {r \in rooms : r.id # id}
             /\ To(p, [press[p] EXCEPT !.todo = @ \ {id}]) /\ Calm
          \/ /\ To(p, [press[p] EXCEPT !.todo = @ \ {id}, !.failed = TRUE])
             /\ UNCHANGED rooms
             /\ IF \E r \in rooms : r.id = id THEN Mishap({"cut"}) ELSE Calm
    /\ UNCHANGED <<cats, cached, fresh, bound, minted, pressed>>

(* The category goes when nothing refused and a fresh list shows it empty; *)
(* a refusal of that is reported.                                          *)
DeleteCategory(p) ==
    /\ press[p].at = "delete" /\ press[p].todo = {}
    /\ IF press[p].cat = 0 THEN UNCHANGED <<cats, rooms, cached, fresh>> /\ To(p, [press[p] EXCEPT !.at = "clear"]) /\ Calm
       ELSE \/ /\ cached' = Guild /\ fresh' = TRUE /\ To(p, [press[p] EXCEPT !.at = "clear"]) /\ UNCHANGED rooms
               /\ LET keeps == press[p].failed \/ \E r \in rooms : r.parent = press[p].cat
                  IN  \/ keeps /\ UNCHANGED cats /\ Calm
                      \/ ~keeps /\ cats' = cats \ {press[p].cat} /\ Calm
                      \/ ~keeps /\ UNCHANGED cats /\ Mishap({})
            \/ Invalidate /\ Done(p) /\ Mishap({"cut"}) /\ UNCHANGED <<cats, rooms>>
    /\ UNCHANGED <<bound, minted, pressed>>

(* Mutant: a teardown leaves the bindings as they are.                     *)
ClearNothing(p) ==
    /\ press[p].at = "clear"
    /\ Invalidate /\ Calm
    /\ Done(p)
    /\ UNCHANGED <<rooms, cats, bound, minted, pressed>>

ClearBindings(p) ==
    /\ press[p].at = "clear"
    /\ \/ bound' = {} /\ Invalidate /\ Calm
       \/ Mishap({"cut", "stale"}) /\ UNCHANGED <<bound, cached, fresh>>
    /\ Done(p)
    /\ UNCHANGED <<rooms, cats, minted, pressed>>

-----------------------------------------------------------------------------
(* PUT logging: the form as it was opened.  A channel has one purpose, and *)
(* every one must be in the guild's list; a list that cannot be read       *)
(* refuses the save.                                                       *)
OpenForm(p) ==
    /\ Begin(p, [Idle EXCEPT !.at = "check", !.known = bound])
    /\ UNCHANGED <<rooms, cats, cached, fresh, bound, minted, mishaps>>

CheckForm(p) ==
    /\ press[p].at = "check"
    /\ \/ \E list \in Lists :
             /\ ReadsList(list)
             /\ IF IdsOf(press[p].known) \subseteq {r.id : r \in list.rooms}
                THEN \E b \in {press[p].known} \cup {press[p].known \ {q} : q \in press[p].known} :
                       To(p, [press[p] EXCEPT !.at = "save", !.known = b])
                ELSE Done(p)
       \/ CannotRead /\ Done(p) /\ Mishap({})
    /\ UNCHANGED <<rooms, cats, bound, minted, pressed>>

SaveForm(p) ==
    /\ press[p].at = "save"
    /\ \/ bound' = press[p].known /\ Calm
       \/ Mishap({}) /\ UNCHANGED bound
    /\ Done(p)
    /\ UNCHANGED <<rooms, cats, cached, fresh, minted, pressed>>

(* A person deletes a channel or the category in Discord.                  *)
DeletedByHand ==
    /\ \/ \E r \in rooms : rooms' = rooms \ {r} /\ UNCHANGED cats
       \/ \E c \in cats : cats' = cats \ {c}
            /\ rooms' = {[r EXCEPT !.parent = IF @ = c THEN 0 ELSE @] : r \in rooms}
    /\ Mishap({"hand"})
    /\ UNCHANGED <<cached, fresh, bound, press, minted, pressed>>

Next ==
    \/ \E p \in Presses :
          \/ Setup(p) \/ ListRooms(p) \/ CheckCap(p) \/ FindCategory(p) \/ MakeCategory(p)
          \/ MakeRoom(p) \/ BindRooms(p)
          \/ Teardown(p) \/ ListOrphans(p) \/ ListExisting(p) \/ DeleteRoom(p)
          \/ DeleteCategory(p) \/ ClearBindings(p)
          \/ OpenForm(p) \/ CheckForm(p) \/ SaveForm(p)
    \/ Expire \/ DeletedByHand

Spec == Init /\ [][Next]_vars

-----------------------------------------------------------------------------
NoDoubles == Cardinality(cats) <= 1 /\ \A r, q \in rooms : r.name = q.name => r = q

(* Between requests that neither met nor failed halfway, the rooms and the *)
(* routing agree: nothing exists twice however often setup is pressed, and *)
(* every binding names a channel that exists ("a second press repairs a    *)
(* partial setup instead of doubling the list", dashboard index.ts).       *)
RoomsMatchRouting ==
    (\A p \in Presses : press[p] = Idle) =>
        /\ why \cap {"blind", "stale", "met", "hand"} = {} => NoDoubles
        /\ why \cap {"met", "hand", "cut", "stale"} = {} => \A b \in bound : \E r \in rooms : r.id = b.id
=============================================================================
