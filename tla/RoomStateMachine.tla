-------------------------- MODULE RoomStateMachine --------------------------
(***************************************************************************)
(* The state machine of a live room, as the type model.Room promises it:   *)
(* pending -> live -> ended, each by the owner, banned from pending or     *)
(* live, ended and banned terminal.                                        *)
(***************************************************************************)
CONSTANTS Rooms, Users, NoUser

VARIABLES status,  \* "absent" until the room is created
          owner,
          mover    \* who changed the room last; nobody of ours when it is banned

Statuses == {"absent", "pending", "live", "ended", "banned"}

Init ==
    /\ status = [r \in Rooms |-> "absent"]
    /\ owner = [r \in Rooms |-> NoUser]
    /\ mover = [r \in Rooms |-> NoUser]

Create(r, u) ==
    /\ status[r] = "absent"
    /\ status' = [status EXCEPT ![r] = "pending"]
    /\ owner' = [owner EXCEPT ![r] = u]
    /\ mover' = [mover EXCEPT ![r] = u]

\* User u moves the room along the edge from -> to, and u is its owner.
Move(r, u, from, to) ==
    /\ status[r] = from
    /\ owner[r] = u
    /\ status' = [status EXCEPT ![r] = to]
    /\ mover' = [mover EXCEPT ![r] = u]
    /\ UNCHANGED owner

Ban(r) ==
    /\ status[r] \in {"pending", "live"}
    /\ status' = [status EXCEPT ![r] = "banned"]
    /\ mover' = [mover EXCEPT ![r] = NoUser]
    /\ UNCHANGED owner

Next ==
    \E r \in Rooms :
        \/ \E u \in Users :
              \/ Create(r, u)
              \/ Move(r, u, "pending", "live")
              \/ Move(r, u, "live", "ended")
        \/ Ban(r)

Spec == Init /\ [][Next]_<<status, owner, mover>>

=============================================================================
