----------------------------- MODULE MCRoomsTx -----------------------------
(* RoomsTx on small instances: two requests at a time and the worker. *)
EXTENDS RoomsTx, TLC

Symmetry ==
    Permutations(Room) \cup Permutations(User) \cup Permutations(Code)
        \cup Permutations(Battle) \cup Permutations(Call)
=============================================================================
