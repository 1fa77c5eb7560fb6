---------------------------- MODULE MCModeration ----------------------------
(***************************************************************************)
(* Instance of Moderation for TLC: two administrators, one of whom reports *)
(* a danmaku, and a user who sends it, in one room.  All resolutions are   *)
(* about the report of call c1, so that the other calls are symmetric.     *)
(***************************************************************************)
EXTENDS Moderation, FiniteSets, TLC

CONSTANTS a1, a2, u, nobody, c1, c2, c3, d1, r1

MCAuthor      == d1 :> u
MCRoomOf      == d1 :> r1
MCInitialRole == (a1 :> "admin") @@ (a2 :> "admin") @@ (u :> "user")

Request(op, actor, target, value) ==
    [op |-> op, actor |-> actor, target |-> target, danmaku |-> d1, room |-> r1,
     report |-> c1, value |-> value]

MCInputs ==
    {Request("setRole", a1, a2, "user"), Request("setRole", a2, a1, "moderator"),
     Request("setRole", a1, u, "admin"),
     Request("ban", a1, u, ""), Request("unban", a2, u, ""),
     Request("review", a1, u, "approved"), Request("review", a2, u, "rejected"),
     Request("mute", a1, u, ""), Request("unmute", a2, u, ""),
     Request("report", a2, u, ""),
     Request("resolve", a1, u, "dismiss"), Request("resolve", a2, u, "reject"),
     Request("resolve", a1, u, "mute"), Request("resolve", a1, u, "ban"),
     Request("send", u, u, "")}

\* Requests that are only made again.
SameReviews == {Request("review", a1, u, "approved")}
SameReports == {Request("report", a2, u, "")}

Symmetry == Permutations(Calls \ {c1})
=============================================================================
