--------------------------- MODULE RoomLifecycle ---------------------------
(***************************************************************************)
(* RoomService (service/room.go) over a RoomStore (store/room.go,          *)
(* store/room_mysql.go): concurrent calls of Create, StartRoom and EndRoom *)
(* that read the room first and then update it conditionally, and sends    *)
(* that look at the room's status (validateRoomForSend) before they are    *)
(* acknowledged.  The status "banned" is reserved: the code checks for it   *)
(* everywhere and writes it nowhere, so banning is an external action that *)
(* follows the diagram of model/room.go.                                   *)
(***************************************************************************)
EXTENDS FiniteSets

CONSTANTS Rooms, Users, NoUser,
          Calls    \* the calls of one history

ASSUME UsersAssumption == NoUser \notin Users

VARIABLES status, owner,   \* the rooms table; "absent": no such row
          pc,              \* program point of a call
          op, target, user,\* what the call does, to which room, for whom
          result,          \* what the call returned
          late,            \* history: sends begun after an EndRoom returned ok
          mover            \* history: whose call changed the room last

tableVars == <<status, owner, mover>>
callVars  == <<op, target, user>>
vars == <<tableVars, callVars, pc, result, late>>

Ops == {"none", "create", "start", "end", "send"}
Results == {"none", "ok", "failed", "not_found", "forbidden", "banned",
            "invalid_transition", "not_live"}
Statuses == {"absent", "pending", "live", "ended", "banned"}

\* The edge that a transition call takes.
From(o) == IF o = "start" THEN "pending" ELSE "live"
To(o)   == IF o = "start" THEN "live" ELSE "ended"

TypeOK ==
    /\ status \in [Rooms -> Statuses]
    /\ owner \in [Rooms -> Users \cup {NoUser}]
    /\ pc \in [Calls -> {"idle", "updating", "sending", "done"}]
    /\ op \in [Calls -> Ops]
    /\ target \in [Calls -> Rooms]
    /\ user \in [Calls -> Users]
    /\ result \in [Calls -> Results]
    /\ late \in SUBSET Calls
    /\ mover \in [Rooms -> Users \cup {NoUser}]

Init ==
    /\ status = [r \in Rooms |-> "absent"]
    /\ owner = [r \in Rooms |-> NoUser]
    /\ pc = [c \in Calls |-> "idle"]
    /\ op = [c \in Calls |-> "none"]
    /\ target \in [Calls -> Rooms]
    /\ user \in [Calls -> Users]
    /\ result = [c \in Calls |-> "none"]
    /\ late = {}
    /\ mover = [r \in Rooms |-> NoUser]

-----------------------------------------------------------------------------
Return(c, res) ==
    /\ pc' = [pc EXCEPT ![c] = "done"]
    /\ result' = [result EXCEPT ![c] = res]

Go(c, point) ==
    /\ pc' = [pc EXCEPT ![c] = point]
    /\ UNCHANGED result

Begin(c, o) ==
    /\ pc[c] = "idle"
    /\ op' = [op EXCEPT ![c] = o]
    /\ UNCHANGED <<target, user>>

\* RoomService.Create with a fresh id: the row appears, or the title or the
\* store refuses it (an insert whose answer is lost leaves the row).
Create(c) ==
    /\ Begin(c, "create")
    /\ status[target[c]] = "absent"
    /\ \/ /\ status' = [status EXCEPT ![target[c]] = "pending"]
          /\ owner' = [owner EXCEPT ![target[c]] = user[c]]
          /\ mover' = [mover EXCEPT ![target[c]] = user[c]]
          /\ Return(c, "ok") \/ Return(c, "failed")
       \/ /\ Return(c, "failed")
          /\ UNCHANGED tableVars
    /\ UNCHANGED late

\* Mutant: the room is not compared with the user of the call.
CheckAnyone(c, o) ==
    LET s == status[target[c]]
    IN  \/ s = "absent" /\ Return(c, "not_found")
        \/ s = "banned" /\ Return(c, "banned")
        \/ s \notin {"absent", "banned", From(o)} /\ Return(c, "invalid_transition")
        \/ s = From(o) /\ Go(c, "updating")

\* The checks of StartRoom and EndRoom on the room that FindByID returned.
Check(c, o) ==
    LET s    == status[target[c]]
        mine == owner[target[c]] = user[c]
    IN  \/ s = "absent" /\ Return(c, "not_found")
        \/ s # "absent" /\ ~mine /\ Return(c, "forbidden")
        \/ s = "banned" /\ mine /\ Return(c, "banned")
        \/ s \notin {"absent", "banned", From(o)} /\ mine /\ Return(c, "invalid_transition")
        \/ s = From(o) /\ mine /\ Go(c, "updating")

\* StartRoom and EndRoom up to UpdateStatus.
ReadRoom(c, o) ==
    /\ o \in {"start", "end"}
    /\ Begin(c, o)
    /\ Check(c, o) \/ Return(c, "failed")
    /\ UNCHANGED <<tableVars, late>>

\* Mutant: the update does not compare the status with the one expected.
UpdateStatusUnconditional(c) ==
    /\ pc[c] = "updating"
    /\ status' = [status EXCEPT ![target[c]] = To(op[c])]
    /\ mover' = [mover EXCEPT ![target[c]] = user[c]]
    /\ Return(c, "ok")
    /\ UNCHANGED <<owner, callVars, late>>

\* UpdateStatus: the row changes only if its status still is the one expected
\* (one locked step in memory, one conditional UPDATE in MySQL); the database
\* may fail before or after the row changed.  Rows are never deleted, so the
\* row that FindByID returned is still there; but MySQL answers "not found" for
\* an update without effect when the query that tells the reasons apart fails.
UpdateStatus(c) ==
    LET r == target[c]
    IN  /\ pc[c] = "updating"
        /\ \/ /\ status[r] = From(op[c])
              /\ status' = [status EXCEPT ![r] = To(op[c])]
              /\ mover' = [mover EXCEPT ![r] = user[c]]
              /\ Return(c, "ok") \/ Return(c, "failed")
           \/ /\ status[r] # From(op[c])
              /\ Return(c, "invalid_transition") \/ Return(c, "not_found")
              /\ UNCHANGED <<status, mover>>
           \/ /\ Return(c, "failed")
              /\ UNCHANGED <<status, mover>>
        /\ UNCHANGED <<owner, callVars, late>>

\* The calls of EndRoom for room r that have told their caller it ended.
EndedOK(r) == {c \in Calls : op[c] = "end" /\ target[c] = r /\ result[c] = "ok"}

\* Mutant: ended rooms still take messages.
SendAllowedEnded(s) == s \in {"live", "ended"}

\* The status that lets a send through.
SendAllowed(s) == s = "live"

\* validateRoomForSend of a HandleMessage or CreateDanmaku call.
ValidateRoomForSend(c) ==
    LET s == status[target[c]]
    IN  /\ Begin(c, "send")
        /\ \/ SendAllowed(s) /\ Go(c, "sending")
           \/ s = "absent" /\ Return(c, "not_found")
           \/ s = "banned" /\ Return(c, "banned")
           \/ ~SendAllowed(s) /\ s \notin {"absent", "banned"} /\ Return(c, "not_live")
           \/ Return(c, "failed")
        /\ late' = IF EndedOK(target[c]) # {} THEN late \cup {c} ELSE late
        /\ UNCHANGED tableVars

\* The rest of the send: it is acknowledged or refused for another reason.
FinishSend(c) ==
    /\ pc[c] = "sending"
    /\ Return(c, "ok") \/ Return(c, "failed")
    /\ UNCHANGED <<tableVars, callVars, late>>

\* External: somebody sets the reserved status in the database.
BanRoom(r) ==
    /\ status[r] \in {"pending", "live"}
    /\ status' = [status EXCEPT ![r] = "banned"]
    /\ mover' = [mover EXCEPT ![r] = NoUser]
    /\ UNCHANGED <<owner, callVars, pc, result, late>>

Next ==
    \/ \E c \in Calls :
          \/ Create(c)
          \/ \E o \in {"start", "end"} : ReadRoom(c, o)
          \/ UpdateStatus(c)
          \/ ValidateRoomForSend(c)
          \/ FinishSend(c)
    \/ \E r \in Rooms : BanRoom(r)

Spec == Init /\ [][Next]_vars

-----------------------------------------------------------------------------
(* Properties.                                                             *)

\* The rooms table implements the state machine of model.Room: whatever calls
\* race between their read and their update, a room only moves
\* pending -> live -> ended, and whoever made the call that moves it is its
\* owner.
Machine == INSTANCE RoomStateMachine WITH status <- status, owner <- owner, mover <- mover
ImplementsStateMachine == Machine!Spec

\* Of all calls that race to start a room, or to end it, at most one is told
\* that it did.
Won(c, o) == op[c] = o /\ pc[c] = "done" /\ result[c] = "ok"
OneWinner ==
    \A c, d \in Calls : \A o \in {"start", "end"} :
        Won(c, o) /\ Won(d, o) /\ target[c] = target[d] => c = d

\* Nobody but the owner is told to have started or ended a room.
OwnerWins ==
    \A c \in Calls : \A o \in {"start", "end"} :
        Won(c, o) => owner[target[c]] = user[c]

\* A send that begins after EndRoom returned success is never acknowledged,
\* although sends that were checked before may still be.
NoSendAfterEnd == \A c \in late : ~Won(c, "send")

-----------------------------------------------------------------------------
(* The inductive invariant.                                                *)

\* What a call at each point knows about its room for ever after.
CallKnows ==
    \A c \in Calls :
        /\ pc[c] = "idle" => op[c] = "none" /\ result[c] = "none" /\ c \notin late
        /\ pc[c] = "updating" => /\ op[c] \in {"start", "end"}
                                 /\ result[c] = "none"
                                 /\ owner[target[c]] = user[c]
                                 /\ status[target[c]] # "absent"
        /\ pc[c] = "sending" => op[c] = "send" /\ c \notin late /\ result[c] = "none"
        /\ result[c] # "none" => pc[c] = "done"
        /\ Won(c, "start") => status[target[c]] \in {"live", "ended", "banned"}
        /\ Won(c, "end") => status[target[c]] = "ended"

LifecycleInv ==
    /\ TypeOK
    /\ CallKnows
    /\ OneWinner
    /\ OwnerWins
    /\ NoSendAfterEnd

=============================================================================
