------------------------------- MODULE Lobby -------------------------------
(***************************************************************************)
(* What a room promises its players, without its tables: a host, at most   *)
(* one guest, who of them is ready, and a match that starts only between   *)
(* two ready players and returns them to the room they left.  There is no  *)
(* status "ready" here: whether a match can start follows from who is      *)
(* ready.  Rooms implements this module.                                   *)
(***************************************************************************)
CONSTANTS Room, User, Null

VARIABLES
    phase,      \* phase[r]: "unused", "open", "playing" or "over"
    owner,      \* owner[r]: the host
    members,    \* members[r]: the users in the room
    ready       \* ready[r]: those of them who are ready

vars == <<phase, owner, members, ready>>

Init ==
    /\ phase = [r \in Room |-> "unused"]
    /\ owner = [r \in Room |-> Null]
    /\ members = [r \in Room |-> {}]
    /\ ready = [r \in Room |-> {}]

Create(r, u) ==
    /\ phase[r] = "unused"
    /\ phase' = [phase EXCEPT ![r] = "open"]
    /\ owner' = [owner EXCEPT ![r] = u]
    /\ members' = [members EXCEPT ![r] = {u}]
    /\ UNCHANGED ready

\* One place is free, and the room is the host's: the newcomer is the guest.
Enter(r, u) ==
    /\ phase[r] = "open"
    /\ members[r] = {owner[r]}
    /\ u # owner[r]
    /\ members' = [members EXCEPT ![r] = @ \cup {u}]
    /\ UNCHANGED <<phase, owner, ready>>

SetReady(r, u, isReady) ==
    /\ phase[r] = "open"
    /\ u \in members[r]
    /\ ready' = [ready EXCEPT ![r] = IF isReady THEN @ \cup {u} ELSE @ \ {u}]
    /\ UNCHANGED <<phase, owner, members>>

Depart(r, u) ==
    /\ phase[r] = "open"
    /\ u \in members[r] \ {owner[r]}
    /\ members' = [members EXCEPT ![r] = @ \ {u}]
    /\ ready' = [ready EXCEPT ![r] = @ \ {u}]
    /\ UNCHANGED <<phase, owner>>

\* The host closes the room, or the rooms in S have been idle for too long.
Dissolve(S) ==
    /\ \A r \in S : phase[r] = "open"
    /\ phase' = [r \in Room |-> IF r \in S THEN "over" ELSE phase[r]]
    /\ members' = [r \in Room |-> IF r \in S THEN {} ELSE members[r]]
    /\ ready' = [r \in Room |-> IF r \in S THEN {} ELSE ready[r]]
    /\ UNCHANGED owner

Start(r) ==
    /\ phase[r] = "open"
    /\ members[r] # {owner[r]}
    /\ ready[r] = members[r]
    /\ phase' = [phase EXCEPT ![r] = "playing"]
    /\ UNCHANGED <<owner, members, ready>>

Finish(r) ==
    /\ phase[r] = "playing"
    /\ phase' = [phase EXCEPT ![r] = "open"]
    /\ UNCHANGED <<owner, members, ready>>

Next ==
    \/ \E r \in Room, u \in User : Create(r, u) \/ Enter(r, u) \/ Depart(r, u)
    \/ \E r \in Room, u \in User, b \in BOOLEAN : SetReady(r, u, b)
    \/ \E S \in SUBSET Room : Dissolve(S)
    \/ \E r \in Room : Start(r) \/ Finish(r)

Spec == Init /\ [][Next]_vars
=============================================================================
