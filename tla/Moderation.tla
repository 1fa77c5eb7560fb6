----------------------------- MODULE Moderation -----------------------------
(***************************************************************************)
(* ModerationService together with AdminService: reviews, reports and      *)
(* their resolution, mutes, bans, and the checks a sender has to pass.     *)
(*                                                                         *)
(* A call is one request, as in AdminRoles; each access to a table, and    *)
(* each broadcast, is a step.  screen[d] is what the viewers of the room   *)
(* were told last about a danmaku, in the order in which BroadcastToRoom   *)
(* was called; how messages travel from there is the subject of WsHub and  *)
(* RedisBridge.  A danmaku is named in advance, together with its author   *)
(* and room, because the code draws a fresh id for every send.             *)
(*                                                                         *)
(* Texts, times and the audit log are left out; the expiry of a mute is an *)
(* action of its own.                                                      *)
(***************************************************************************)
EXTENDS AdminRoles

CONSTANTS
    Danmakus,     \* ids of danmaku
    Author,       \* who sends each of them
    Rooms,
    RoomOf,       \* the room each danmaku is sent to
    FailClosed,   \* moderation.fail_closed of the configuration
    UniqueIndex   \* TRUE for MySQL, whose table of reports has a unique index;
                  \* FALSE for the stores in memory

ModeratorOps == {"review", "resolve", "mute", "unmute"}
Statuses     == {"none", "pending", "flagged", "approved", "rejected"}
ReportStates == {"none", "pending", "resolved", "dismissed"}

Requests ==
    [op : AdminOps \cup ModeratorOps \cup {"report", "send"},
     actor : Users, target : Users \cup {NoUser}, danmaku : Danmakus,
     room : Rooms, report : Calls, value : STRING]

ASSUME ModerationAssumption ==
    /\ Author \in [Danmakus -> Users]
    /\ RoomOf \in [Danmakus -> Rooms]
    /\ FailClosed \in BOOLEAN /\ UniqueIndex \in BOOLEAN
    /\ Inputs \subseteq Requests

VARIABLES
    status,    \* danmakus.status, "none" without a row
    screen,    \* what the room was last told: "absent", "shown", "retracted"
    reports,   \* status of the report that each call created; its danmaku,
               \* reporter and room are those of the call
    closedBy,  \* history: the decision a report was closed with
    mutes,     \* pairs of user and room with a mute that has not expired
    read,      \* the status a review read before it decided
    barred,    \* history: bans and mutes in force during the whole of a send
    skipped,   \* history: sends whose ban or mute lookup failed and was passed
    held,      \* history: sanctions that were in force at some time
    raced,     \* history: danmaku with overlapping reviews, or with a review
               \* that overtook the broadcast of the send
    lost       \* history: danmaku with a write that was answered by an error
               \* but took effect

modVars == <<status, screen, reports, closedBy, mutes, read, barred, skipped, held, raced, lost>>
vars    == <<adminVars, modVars>>

Init ==
    /\ AdminInit
    /\ status \in [Danmakus -> {"none", "flagged", "approved"}]
    /\ screen = [d \in Danmakus |-> IF status[d] = "approved" THEN "shown" ELSE "absent"]
    /\ reports = [q \in Calls |-> "none"]
    /\ closedBy = [q \in Calls |-> "none"]
    /\ mutes = {}
    /\ read = [q \in Calls |-> "none"]
    /\ barred = [q \in Calls |-> {}]
    /\ skipped = {}
    /\ held = {}
    /\ raced = {}
    /\ lost = {}

-----------------------------------------------------------------------------
(* Requests.                                                               *)

\* The danmaku a call is about.
Subject(q) == IF Op(q) = "resolve" THEN arg[arg[q].report].danmaku ELSE arg[q].danmaku

\* The sanctions a user is under in a room.
InForce(u, room) ==
    {s \in {"ban", "mute"} : \/ s = "ban" /\ u \in banned
                             \/ s = "mute" /\ <<u, room>> \in mutes}

\* A request arrives with a valid token.  The room of a send is live and its
\* text well formed; its danmaku gets an id that nobody else has.
Begin(q) ==
    /\ pc[q] = "idle"
    /\ Op(q) = "send" =>
          LET d == arg[q].danmaku IN
          /\ arg[q].actor = Author[d] /\ arg[q].room = RoomOf[d]
          /\ status[d] = "none"
          /\ \A p \in Calls \ {q} : Op(p) = "send" /\ arg[p].danmaku = d => pc[p] = "idle"
    /\ Goto(q, CASE Op(q) = "send"   -> "checkBan"
                 [] Op(q) = "report" -> "checkReporter"
                 [] OTHER            -> "route")
    /\ barred' = [barred EXCEPT ![q] =
                     IF Op(q) = "send" THEN InForce(arg[q].actor, arg[q].room) ELSE {}]
    /\ UNCHANGED <<adminState, status, screen, reports, closedBy, mutes, read, skipped, held, raced, lost>>

\* Lifting a ban or a mute frees the sends that are under way.
Lifted(sanction, u, room) ==
    [q \in Calls |-> IF arg[q].actor = u /\ (sanction = "ban" \/ arg[q].room = room)
                     THEN barred[q] \ {sanction} ELSE barred[q]]

\* The steps of AdminService, with the history they make.
Administer(q) ==
    /\ AdminStep(q)
    /\ held' = held \cup {<<"ban", u>> : u \in banned' \ banned}
    /\ barred' = IF Op(q) = "unban" /\ pc[q] = "apply" /\ arg[q].target \in banned \ banned'
                 THEN Lifted("ban", arg[q].target, arg[q].room) ELSE barred
    /\ UNCHANGED <<status, screen, reports, closedBy, mutes, read, skipped, raced, lost>>

-----------------------------------------------------------------------------
(* Send: the checks of createAndBroadcast, then the write and the          *)
(* broadcast.                                                              *)

\* A check answers, or its lookup fails; then fail_closed decides.
Check(q, point, bars, next) ==
    /\ pc[q] = point
    /\ \/ Goto(q, IF bars THEN "error" ELSE next) /\ UNCHANGED skipped
       \/ IF FailClosed
          THEN Goto(q, "error") /\ UNCHANGED skipped
          ELSE Goto(q, next) /\ skipped' = skipped \cup {q}
    /\ UNCHANGED <<adminState, status, screen, reports, closedBy, mutes, read, barred, held, raced, lost>>

CheckUserBan(q) == Check(q, "checkBan", arg[q].actor \in banned, "checkMute")
\* Mutant: the key of the mute is built the wrong way round.
CheckMuteSwapped(q) == Check(q, "checkMute", <<arg[q].room, arg[q].actor>> \in mutes, "content")

CheckMute(q)    == Check(q, "checkMute", <<arg[q].actor, arg[q].room>> \in mutes, "content")

\* The verdict of the block list; BlockList is about how it is found.
CheckContent(q) ==
    /\ pc[q] = "content"
    /\ \E next \in {"error", "persistFlagged", "persist"} : Goto(q, next)
    /\ UNCHANGED <<adminState, modVars>>

\* A danmaku is being decided upon from the moment its status was read, or
\* its row was written, until the room was told.
Deciding(q, d) ==
    /\ Subject(q) = d
    /\ \/ Op(q) = "send" /\ pc[q] = "broadcast"
       \/ pc[q] \in {"update", "notify"}

Meets(q, d) == IF \E p \in Calls \ {q} : Deciding(p, d) THEN raced \cup {d} ELSE raced

PersistDanmaku(q) ==
    LET d       == arg[q].danmaku
        flagged == pc[q] = "persistFlagged" IN
    /\ pc[q] \in {"persistFlagged", "persist"}
    /\ \E out \in Outcomes :
          /\ status' = IF out = "failed" THEN status
                       ELSE [status EXCEPT ![d] = IF flagged THEN "flagged" ELSE "approved"]
          /\ Goto(q, IF out # "ok" THEN "error" ELSE IF flagged THEN "ok" ELSE "broadcast")
          /\ raced' = IF out = "ok" /\ ~flagged THEN Meets(q, d) ELSE raced
          /\ lost' = IF out = "lost" THEN lost \cup {d} ELSE lost
    /\ UNCHANGED <<adminState, screen, reports, closedBy, mutes, read, barred, skipped, held>>

Broadcast(q) ==
    /\ pc[q] = "broadcast"
    /\ screen' = [screen EXCEPT ![arg[q].danmaku] = "shown"]
    /\ Goto(q, "ok")
    /\ UNCHANGED <<adminState, status, reports, closedBy, mutes, read, barred, skipped, held, raced, lost>>

SendStep(q) ==
    /\ Op(q) = "send"
    /\ CheckUserBan(q) \/ CheckMute(q) \/ CheckContent(q) \/ PersistDanmaku(q) \/ Broadcast(q)

-----------------------------------------------------------------------------
(* Review, called by a reviewer or for a report that is being resolved.    *)

NewStatus(q)   == IF Op(q) = "review" THEN arg[q].value ELSE "rejected"
Transitions(s) == CASE s \in {"flagged", "pending"} -> {"approved", "rejected"}
                    [] s = "approved"               -> {"rejected"}
                    [] s = "rejected"               -> {"approved"}
                    [] OTHER                        -> {}

\* Where a call goes on after a review that brought no error.
AfterReview(q) == IF Op(q) = "review" THEN "ok"
                  ELSE IF arg[q].value = "mute" THEN "mute" ELSE "close"

\* Mutant: a review that asks for the present status is carried out again.
FindDanmakuAgain(q) ==
    LET d == Subject(q) IN
    /\ pc[q] = "find"
    /\ read' = [read EXCEPT ![q] = status[d]]
    /\ Goto(q, IF status[d] = "none" THEN "error" ELSE "update")
    /\ raced' = IF status[d] # "none" THEN Meets(q, d) ELSE raced
    /\ UNCHANGED <<adminState, status, screen, reports, closedBy, mutes, barred, skipped, held, lost>>

\* The status is read, and all checks rest on what was read.  An unknown
\* danmaku is an error for a reviewer, not for the resolution of a report.
FindDanmaku(q) ==
    LET d == Subject(q) IN
    /\ pc[q] = "find"
    /\ read' = [read EXCEPT ![q] = status[d]]
    /\ LET next == IF status[d] = "none" THEN IF Op(q) = "review" THEN "error" ELSE AfterReview(q)
                   ELSE IF status[d] = NewStatus(q) THEN AfterReview(q)
                   ELSE IF NewStatus(q) \in Transitions(status[d]) THEN "update" ELSE "error"
       IN  /\ Goto(q, next)
           /\ raced' = IF next = "update" THEN Meets(q, d) ELSE raced
    /\ UNCHANGED <<adminState, status, screen, reports, closedBy, mutes, barred, skipped, held, lost>>

\* The update names the id only: it overwrites whatever the status is by now.
UpdateStatus(q) ==
    LET d == Subject(q) IN
    /\ pc[q] = "update"
    /\ \E out \in Outcomes :
          /\ status' = IF out = "failed" THEN status ELSE [status EXCEPT ![d] = NewStatus(q)]
          /\ held' = IF out # "failed" /\ NewStatus(q) = "rejected"
                     THEN held \cup {<<"reject", d>>} ELSE held
          /\ lost' = IF out = "lost" THEN lost \cup {d} ELSE lost
          /\ Goto(q, IF out = "ok" THEN "notify" ELSE "error")
    /\ UNCHANGED <<adminState, screen, reports, closedBy, mutes, read, barred, skipped, raced>>

\* Mutant: the retraction is decided from the status after the update.
NotifyFromTable(q) ==
    LET d == Subject(q) IN
    /\ pc[q] = "notify"
    /\ screen' = [screen EXCEPT ![d] = IF NewStatus(q) = "approved" THEN "shown"
                                       ELSE IF status[d] = "approved" THEN "retracted" ELSE @]
    /\ Goto(q, AfterReview(q))
    /\ UNCHANGED <<adminState, status, reports, closedBy, mutes, read, barred, skipped, held, raced, lost>>

\* The room is told what follows from the status that was read.
Notify(q) ==
    LET d == Subject(q) IN
    /\ pc[q] = "notify"
    /\ screen' = [screen EXCEPT ![d] = IF NewStatus(q) = "approved" THEN "shown"
                                       ELSE IF read[q] = "approved" THEN "retracted" ELSE @]
    /\ Goto(q, AfterReview(q))
    /\ UNCHANGED <<adminState, status, reports, closedBy, mutes, read, barred, skipped, held, raced, lost>>

ReviewStep(q) ==
    /\ Op(q) = "review" \/ Op(q) = "resolve"
    /\ FindDanmaku(q) \/ UpdateStatus(q) \/ Notify(q)

-----------------------------------------------------------------------------
(* Reports.                                                                *)

\* A banned user may not report; then the danmaku has to be one of the room,
\* and not yet reported by this user.
CheckReporter(q) ==
    /\ pc[q] = "checkReporter"
    /\ Goto(q, IF arg[q].actor \in banned THEN "error" ELSE "findReported")
    /\ UNCHANGED <<adminState, modVars>>

FindReported(q) ==
    LET d == arg[q].danmaku IN
    /\ pc[q] = "findReported"
    /\ Goto(q, IF status[d] = "none" \/ RoomOf[d] # arg[q].room THEN "error" ELSE "findDuplicate")
    /\ UNCHANGED <<adminState, modVars>>

Reported(q) ==
    \E p \in Calls : /\ reports[p] # "none"
                     /\ arg[p].actor = arg[q].actor /\ arg[p].danmaku = arg[q].danmaku

FindDuplicate(q) ==
    /\ pc[q] = "findDuplicate"
    /\ Goto(q, IF Reported(q) THEN "error" ELSE "create")
    /\ UNCHANGED <<adminState, modVars>>

\* The insert.  In MySQL the unique index over danmaku and reporter turns down
\* a second row whatever the call saw before, and the insert may fail; the map
\* in memory takes every report.
CreateReport(q) ==
    LET refused == UniqueIndex /\ Reported(q) IN
    /\ pc[q] = "create"
    /\ \E out \in IF UniqueIndex THEN Outcomes ELSE {"ok"} :
          /\ reports' = IF refused \/ out = "failed" THEN reports
                        ELSE [reports EXCEPT ![q] = "pending"]
          /\ Goto(q, IF refused \/ out # "ok" THEN "error" ELSE "ok")
    /\ UNCHANGED <<adminState, status, screen, closedBy, mutes, read, barred, skipped, held, raced, lost>>

ReportStep(q) ==
    /\ Op(q) = "report"
    /\ CheckReporter(q) \/ FindReported(q) \/ FindDuplicate(q) \/ CreateReport(q)

-----------------------------------------------------------------------------
(* Moderators: the route, and the resolution of a report with its action.  *)

\* The group of routes for moderators; an administrator is one.
Route(q) ==
    /\ Op(q) \in ModeratorOps
    /\ RequireRole(q, {"admin", "moderator"},
                   CASE Op(q) = "review"  -> "find"
                     [] Op(q) = "resolve" -> "findReport"
                     [] OTHER             -> Op(q))
    /\ UNCHANGED modVars

\* The report has to be pending when it is read.  A ban needs the role that
\* the middleware read.
FindReport(q) ==
    /\ pc[q] = "findReport"
    /\ Goto(q, IF reports[arg[q].report] # "pending" THEN "error"
               ELSE CASE arg[q].value = "dismiss"                        -> "close"
                      [] arg[q].value \in {"reject", "mute"}             -> "find"
                      [] arg[q].value = "ban" /\ user_role[q] = "admin"  -> "banTarget"
                      [] OTHER                                           -> "error")
    /\ UNCHANGED <<adminState, modVars>>

\* The same look at the target as in CanTargetUser, without one at the actor.
\* The lookup of the danmaku before it only reads the author, in a row that is
\* never deleted, so it makes no difference when it happens.
BanTarget(q) ==
    LET author == Author[Subject(q)] IN
    /\ pc[q] = "banTarget"
    /\ Goto(q, IF arg[q].actor = author \/ role[author] = "admin" THEN "error" ELSE "banAuthor")
    /\ UNCHANGED <<adminState, modVars>>

\* Mutant: the error of the ban is logged and the report closed all the same.
BanAuthorAnyway(q) ==
    LET author == Author[Subject(q)] IN
    /\ pc[q] = "banAuthor"
    /\ \E out \in Outcomes :
          /\ banned' = IF out = "failed" THEN banned ELSE banned \cup {author}
          /\ held' = IF out = "failed" THEN held ELSE held \cup {<<"ban", author>>}
    /\ Goto(q, "close")
    /\ UNCHANGED <<arg, role, user_role, overlapped,
                   status, screen, reports, closedBy, mutes, read, barred, skipped, raced, lost>>

BanAuthor(q) ==
    LET author == Author[Subject(q)] IN
    /\ pc[q] = "banAuthor"
    /\ \E out \in Outcomes :
          /\ banned' = IF out = "failed" THEN banned ELSE banned \cup {author}
          /\ held' = IF out = "failed" THEN held ELSE held \cup {<<"ban", author>>}
          /\ Goto(q, IF out = "ok" THEN "close" ELSE "error")
    /\ UNCHANGED <<arg, role, user_role, overlapped,
                   status, screen, reports, closedBy, mutes, read, barred, skipped, raced, lost>>

\* Whom a call mutes, and where.  A report keeps the room it was made in.
Muted(q) == IF Op(q) = "resolve"
            THEN <<Author[Subject(q)], arg[arg[q].report].room>>
            ELSE <<arg[q].target, arg[q].room>>

\* A mute is inserted, then the audit log is written, whose error counts.  The
\* lookup of the author for a resolution, in a row that is never deleted, fails
\* like the insert.
MuteUser(q) ==
    /\ pc[q] = "mute"
    /\ \E out \in Outcomes :
          /\ mutes' = IF out = "failed" THEN mutes ELSE mutes \cup {Muted(q)}
          /\ held' = IF out = "failed" THEN held ELSE held \cup {<<"mute", Muted(q)>>}
          /\ Goto(q, IF out # "ok" THEN "error" ELSE IF Op(q) = "resolve" THEN "close" ELSE "ok")
    /\ UNCHANGED <<adminState, status, screen, reports, closedBy, read, barred, skipped, raced, lost>>

UnmuteUser(q) ==
    /\ pc[q] = "unmute"
    /\ \E out \in Outcomes :
          /\ mutes' = IF out = "failed" THEN mutes ELSE mutes \ {Muted(q)}
          /\ barred' = IF out = "failed" THEN barred ELSE Lifted("mute", arg[q].target, arg[q].room)
          /\ Goto(q, IF out = "ok" THEN "ok" ELSE "error")
    /\ UNCHANGED <<adminState, status, screen, reports, closedBy, read, skipped, held, raced, lost>>

\* A mute runs out.
MuteExpires(u, room) ==
    /\ <<u, room>> \in mutes
    /\ mutes' = mutes \ {<<u, room>>}
    /\ barred' = Lifted("mute", u, room)
    /\ UNCHANGED <<adminVars, status, screen, reports, closedBy, read, skipped, held, raced, lost>>

\* The last step of a resolution names the id only, as the review does.
CloseReport(q) ==
    LET r == arg[q].report IN
    /\ pc[q] = "close"
    /\ \E out \in Outcomes :
          /\ reports' = IF out = "failed" THEN reports
                        ELSE [reports EXCEPT ![r] = IF arg[q].value = "dismiss"
                                                    THEN "dismissed" ELSE "resolved"]
          /\ closedBy' = IF out = "failed" THEN closedBy
                         ELSE [closedBy EXCEPT ![r] = arg[q].value]
          /\ Goto(q, IF out = "ok" THEN "ok" ELSE "error")
    /\ UNCHANGED <<adminState, status, screen, mutes, read, barred, skipped, held, raced, lost>>

ModeratorStep(q) ==
    \/ Route(q)
    \/ FindReport(q) \/ BanTarget(q) \/ BanAuthor(q) \/ CloseReport(q)
    \/ MuteUser(q) \/ UnmuteUser(q)

\* A lookup fails, and the call with it.
ReadFails(q) ==
    /\ pc[q] \in {"checkReporter", "findReported", "findDuplicate", "find", "findReport", "banTarget"}
    /\ Goto(q, "error")
    /\ UNCHANGED <<adminState, modVars>>

Next ==
    \/ \E q \in Calls : \/ Begin(q)
                        \/ Administer(q)
                        \/ SendStep(q)
                        \/ ReviewStep(q)
                        \/ ReportStep(q)
                        \/ ModeratorStep(q)
                        \/ ReadFails(q)
    \/ \E u \in Users \cup {NoUser}, room \in Rooms : MuteExpires(u, room)

Spec == Init /\ [][Next]_vars

-----------------------------------------------------------------------------
(* Properties.                                                             *)

Points ==
    {"idle", "route", "actor", "target", "others", "apply", "checkBan", "checkMute", "content",
     "persist", "persistFlagged", "broadcast", "find", "update", "notify", "checkReporter",
     "findReported", "findDuplicate", "create", "findReport", "banTarget", "banAuthor",
     "mute", "unmute", "close"} \cup Answers

TypeOK ==
    /\ pc \in [Calls -> Points]
    /\ arg \in [Calls -> Inputs]
    /\ role \in [Users -> Roles]
    /\ banned \subseteq Users
    /\ user_role \in [Calls -> Roles]
    /\ overlapped \in BOOLEAN
    /\ status \in [Danmakus -> Statuses]
    /\ screen \in [Danmakus -> {"absent", "shown", "retracted"}]
    /\ reports \in [Calls -> ReportStates]
    /\ closedBy \in [Calls -> {"none", "dismiss", "reject", "mute", "ban"}]
    /\ mutes \subseteq (Users \cup {NoUser}) \X Rooms
    /\ read \in [Calls -> Statuses]
    /\ barred \in [Calls -> SUBSET {"ban", "mute"}]
    /\ skipped \subseteq Calls
    /\ raced \subseteq Danmakus
    /\ lost \subseteq Danmakus

\* Once nobody is deciding on a danmaku any more, the room shows it exactly
\* when its status says so: every approval was broadcast and every rejection
\* of a shown danmaku retracted.  ReviewDanmaku decides from the status it
\* read and updates unconditionally, so this is promised only for reviews
\* that did not overlap, and for writes whose answer was not an error.
ScreenFollowsStatus ==
    \A d \in Danmakus \ (raced \cup lost) :
        (\A q \in Calls : ~Deciding(q, d)) => (status[d] = "approved" <=> screen[d] = "shown")

\* "Reporting the same danmaku again is forbidden", says the handler: a user
\* has one report on a danmaku at most, although ReportDanmaku looks for an
\* earlier one and inserts in two steps.
OneReportEach ==
    \A p, q \in Calls :
        /\ reports[p] # "none" /\ reports[q] # "none"
        /\ arg[p].actor = arg[q].actor /\ arg[p].danmaku = arg[q].danmaku
        => p = q

\* A report counts as resolved only when the action it was confirmed with took
\* effect: ResolveReportWithAction returns the error of an action that failed
\* and leaves the report pending, and no race of two moderators changes that.
ResolvedIsBacked ==
    \A q \in Calls :
        reports[q] = "resolved" =>
            LET d == arg[q].danmaku IN
            CASE closedBy[q] = "reject" -> <<"reject", d>> \in held
              [] closedBy[q] = "mute"   -> /\ <<"reject", d>> \in held
                                           /\ <<"mute", <<Author[d], arg[q].room>>>> \in held
              [] closedBy[q] = "ban"    -> <<"ban", Author[d]>> \in held
              [] OTHER                  -> FALSE

\* A user who was banned or muted before he began to send, and stayed so, gets
\* nothing through, unless a lookup failed and fail_closed is off.
BarredCannotSend ==
    \A q \in Calls :
        Op(q) = "send" /\ pc[q] \in {"persist", "persistFlagged", "broadcast", "ok"} /\ barred[q] # {}
        => ~FailClosed /\ q \in skipped

\* What the notice of a review says is new to the room.
TellsNews(q) ==
    screen[Subject(q)] # (IF NewStatus(q) = "approved" THEN "shown" ELSE "retracted")

\* A step that ends a review tells the room something new, apart from reviews
\* that overlapped and from writes that took effect in spite of an error.
NoticeIsNew ==
    \A q \in Calls :
        pc[q] = "notify" /\ pc'[q] # "notify" /\ Subject(q) \notin raced \cup lost => TellsNews(q)

\* The room is told only what is new to it: no danmaku is broadcast again, or
\* retracted, twice in a row.  ReviewDanmaku decides from the status it read
\* and updates unconditionally, so this is promised, as ScreenFollowsStatus
\* is, only for reviews that did not overlap and for writes whose answer was
\* not an error.
NoRepeatedNotice == [][NoticeIsNew]_vars

\* "Submitting the same status again is idempotent and notifies nobody a
\* second time", says ReviewDanmaku: a review that comes to its notice has
\* something new to tell, also when another one overlapped with it.
SameStatusNotifiesOnce ==
    \A q \in Calls : pc[q] = "notify" /\ Subject(q) \notin lost => TellsNews(q)

\* Which operations pass a program point, and what the checks before it have
\* found out about the request.
PathInv ==
    \A q \in Calls :
        /\ pc[q] = "route" => Op(q) \in AdminOps \cup ModeratorOps
        /\ pc[q] \in {"actor", "target", "others", "apply"} => Op(q) \in AdminOps
        /\ pc[q] \in {"target", "others", "apply"} => ~Malformed(q)
        /\ pc[q] \in {"others", "apply"} /\ Op(q) # "unban" => arg[q].target \in Users
        /\ pc[q] \in {"checkBan", "checkMute", "content", "persist", "persistFlagged", "broadcast"}
              => Op(q) = "send"
        /\ pc[q] \in {"checkReporter", "findReported", "findDuplicate", "create"} => Op(q) = "report"
        /\ pc[q] \in {"find", "update", "notify"} => Op(q) \in {"review", "resolve"}
        /\ pc[q] \in {"findReport", "banTarget", "banAuthor", "close"} => Op(q) = "resolve"
        /\ pc[q] = "mute" => Op(q) \in {"mute", "resolve"}
        /\ pc[q] = "unmute" => Op(q) = "unmute"
        /\ pc[q] \in {"find", "update", "notify"} /\ Op(q) = "resolve" => arg[q].value \in {"reject", "mute"}
        /\ pc[q] \in {"update", "notify"} => NewStatus(q) \in {"approved", "rejected"}
        /\ pc[q] = "mute" /\ Op(q) = "resolve" => arg[q].value = "mute"
        /\ pc[q] \in {"banTarget", "banAuthor"} => arg[q].value = "ban"
        /\ pc[q] = "close" => arg[q].value \in {"dismiss", "reject", "mute", "ban"}

\* What a role change between its checks and its update may rely on.
AdminInv ==
    ~overlapped =>
        /\ \E u \in Users : role[u] = "admin"
        /\ \A p, q \in Calls : ChangingRole(p) /\ ChangingRole(q) => p = q
        /\ \A q \in Calls : ChangingRole(q) /\ pc[q] = "apply" /\ arg[q].value # "admin"
                             => \E u \in Users \ {arg[q].target} : role[u] = "admin"

\* One send per danmaku, which finds no row before it writes its own; no row
\* disappears.
SendInv ==
    \A q \in Calls :
        /\ Op(q) = "send" /\ pc[q] # "idle" =>
              \A p \in Calls \ {q} : Op(p) = "send" /\ arg[p].danmaku = arg[q].danmaku => pc[p] = "idle"
        /\ pc[q] \in {"checkBan", "checkMute", "content", "persist", "persistFlagged"} =>
              status[arg[q].danmaku] = "none"
        /\ pc[q] \in {"update", "notify"} => status[Subject(q)] # "none"

\* A danmaku that waits for its first decision was never on the screen, nor
\* retracted from it.
Undecided(s, d) == s \in {"none", "pending", "flagged"} => screen[d] = "absent"

\* Where the status, what a review read and what the room was told stand to
\* each other while a danmaku is being decided upon.
DecidedInTurn(d) ==
    /\ Undecided(status[d], d)
    /\ \A p, q \in Calls : Deciding(p, d) /\ Deciding(q, d) => p = q
    /\ \A q \in Calls : Deciding(q, d) =>
          /\ pc[q] = "update" =>
                /\ read[q] = status[d]
                /\ status[d] = "approved" <=> screen[d] = "shown"
          /\ pc[q] = "notify" =>
                /\ status[d] = NewStatus(q)
                /\ read[q] = "approved" <=> screen[d] = "shown"
                /\ Undecided(read[q], d)
          /\ pc[q] \in {"update", "notify"} => NewStatus(q) \in Transitions(read[q])
          /\ pc[q] = "broadcast" => status[d] = "approved" /\ screen[d] # "shown"

ScreenInv == \A d \in Danmakus \ (raced \cup lost) : DecidedInTurn(d)

\* What a report, and the resolution of one, has behind it; most of all when
\* it comes to close the report.
Backed(q) ==
    /\ reports[q] # "none" => Op(q) = "report" /\ status[arg[q].danmaku] # "none"
    /\ pc[q] \in {"findDuplicate", "create"} => status[arg[q].danmaku] # "none"
    /\ Op(q) = "resolve" /\ pc[q] \notin {"idle", "route", "findReport"} \cup Answers =>
          reports[arg[q].report] # "none"
    /\ pc[q] = "notify" /\ NewStatus(q) = "rejected" => <<"reject", Subject(q)>> \in held
    /\ pc[q] = "mute" /\ Op(q) = "resolve" => <<"reject", Subject(q)>> \in held
    /\ pc[q] = "close" /\ arg[q].value \in {"reject", "mute"} => <<"reject", Subject(q)>> \in held
    /\ pc[q] = "close" /\ arg[q].value = "mute" => <<"mute", Muted(q)>> \in held
    /\ pc[q] = "close" /\ arg[q].value = "ban" => <<"ban", Author[Subject(q)]>> \in held

ReportInv ==
    /\ \A d \in Danmakus : status[d] = "rejected" => <<"reject", d>> \in held
    /\ \A q \in Calls : Backed(q)

\* The history of a send tells the truth about the tables.
BarredInv ==
    \A q \in Calls :
        /\ barred[q] \subseteq InForce(arg[q].actor, arg[q].room)
        /\ pc[q] = "checkMute" /\ "ban" \in barred[q] => ~FailClosed /\ q \in skipped
        /\ pc[q] = "content" /\ barred[q] # {} => ~FailClosed /\ q \in skipped

\* The invariant from which the properties above follow: every call holds, at
\* every program point, what its earlier lookups established, as far as other
\* calls cannot take it away.
ModerationInv ==
    /\ TypeOK
    /\ PathInv
    /\ AdminInv
    /\ SendInv
    /\ ScreenInv /\ ScreenFollowsStatus
    /\ ReportInv /\ ResolvedIsBacked
    /\ BarredInv /\ BarredCannotSend

=============================================================================
