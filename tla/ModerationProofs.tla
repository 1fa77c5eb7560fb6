-------------------------- MODULE ModerationProofs --------------------------
(***************************************************************************)
(* Proofs about Moderation and AdminRoles, for every set of users, danmaku *)
(* and rooms, every number of concurrent calls and every set of requests.  *)
(***************************************************************************)
EXTENDS Moderation, TLAPS

\* The initial states satisfy the inductive invariant.
LEMMA ModerationInit == Init => ModerationInv
<1> SUFFICES ASSUME Init PROVE ModerationInv
  OBVIOUS
<1> USE ModerationAssumption, RolesAssumption DEF Init, AdminInit
<1>1. TypeOK
  <2>1. pc \in [Calls -> Points] /\ arg \in [Calls -> Inputs] /\ role \in [Users -> Roles]
    BY DEF Points
  <2>2. user_role \in [Calls -> Roles] /\ overlapped \in BOOLEAN /\ banned \subseteq Users
    BY DEF Roles
  <2>3. /\ status \in [Danmakus -> Statuses] /\ reports \in [Calls -> ReportStates]
        /\ read \in [Calls -> Statuses]
    BY DEF Statuses, ReportStates
  <2>4. closedBy \in [Calls -> {"none", "dismiss", "reject", "mute", "ban"}]
    OBVIOUS
  <2>5. barred \in [Calls -> SUBSET {"ban", "mute"}]
    OBVIOUS
  <2>6. screen \in [Danmakus -> {"absent", "shown", "retracted"}]
    OBVIOUS
  <2> QED
    BY <2>1, <2>2, <2>3, <2>4, <2>5, <2>6 DEF TypeOK
<1>2. PathInv /\ AdminInv /\ SendInv
  BY DEF PathInv, AdminInv, SendInv, ChangingRole, Answers
<1>3. ScreenInv /\ ScreenFollowsStatus
  BY DEF ScreenInv, DecidedInTurn, ScreenFollowsStatus, Deciding, Undecided
<1>4. ReportInv /\ ResolvedIsBacked
  BY DEF ReportInv, Backed, ResolvedIsBacked, Answers
<1>5. BarredInv /\ BarredCannotSend
  BY DEF BarredInv, BarredCannotSend
<1> QED
  BY <1>1, <1>2, <1>3, <1>4, <1>5 DEF ModerationInv

\* The fields of a request.
LEMMA RequestFields ==
    ASSUME arg \in [Calls -> Inputs], NEW q \in Calls
    PROVE  /\ arg[q].op \in AdminOps \cup ModeratorOps \cup {"report", "send"}
           /\ arg[q].actor \in Users /\ arg[q].target \in Users \cup {NoUser}
           /\ arg[q].danmaku \in Danmakus /\ arg[q].room \in Rooms
           /\ arg[q].report \in Calls /\ arg[q].value \in STRING
           /\ Subject(q) \in Danmakus /\ Author[Subject(q)] \in Users
           /\ Muted(q) \in (Users \cup {NoUser}) \X Rooms
<1>1. ASSUME NEW p \in Calls PROVE arg[p] \in Requests
  BY ModerationAssumption
<1>2. /\ arg[q] \in Requests
      /\ arg[arg[q].report] \in Requests
  BY <1>1 DEF Requests
<1> QED
  BY <1>2, ModerationAssumption DEF Requests, Subject, Muted, Op

\* Every variable keeps its type.
LEMMA ModerationTypes == TypeOK /\ PathInv /\ [Next]_vars => TypeOK'
<1> SUFFICES ASSUME TypeOK, PathInv, [Next]_vars PROVE TypeOK'
  OBVIOUS
<1> USE DEF TypeOK, Points, Answers, adminState, modVars, Goto
<1>1. ASSUME NEW q \in Calls, Begin(q) PROVE TypeOK'
  BY <1>1 DEF Begin, InForce
<1>2. ASSUME NEW q \in Calls, Administer(q) PROVE TypeOK'
  <2>1. UNCHANGED <<arg, status, screen, reports, closedBy, mutes, read, skipped, raced, lost>>
    BY <1>2 DEF Administer, AdminStep, RequireRole, CheckActor, CheckTarget, CheckOthers, Apply, LookupFails
  <2>2. barred' \in [Calls -> SUBSET {"ban", "mute"}]
    BY <1>2 DEF Administer, Lifted
  <2>3. pc' \in [Calls -> Points]
    BY <1>2 DEF Administer, AdminStep, RequireRole, CheckActor, CheckTarget, CheckOthers, Apply, LookupFails,
        AfterTarget, ApplyOk, ApplyLost, ApplyFailed
  <2>4. user_role' \in [Calls -> Roles] /\ overlapped' \in BOOLEAN
    <3>1. arg[q].actor \in Users
      BY RequestFields
    <3>2. overlapped' \in BOOLEAN
      BY <1>2 DEF Administer, AdminStep, RequireRole, CheckActor, CheckTarget, CheckOthers, Apply, LookupFails
    <3> QED
      BY <1>2, <3>1, <3>2 DEF Administer, AdminStep, RequireRole, CheckActor, CheckTarget, CheckOthers,
         Apply, LookupFails
  <2>5. role' \in [Users -> Roles] /\ banned' \subseteq Users
    <3>1. CASE UNCHANGED <<role, banned>>
      BY <3>1
    <3>2. CASE pc[q] = "apply" /\ UpdateRole(q) /\ UpdateBan(q)
      <4>1. /\ Op(q) \in AdminOps
            /\ Op(q) # "unban" => arg[q].target \in Users
            /\ Op(q) = "setRole" => arg[q].value \in Roles
        BY <3>2 DEF PathInv, Malformed
      <4>2. Op(q) = "setRole" => role' = [role EXCEPT ![arg[q].target] = arg[q].value]
        BY <3>2 DEF UpdateRole
      <4>3. Op(q) # "setRole" => role' = role
        BY <3>2 DEF UpdateRole
      <4>4. role' \in [Users -> Roles]
        BY <4>1, <4>2, <4>3
      <4>5. banned' \in {banned \cup {arg[q].target}, banned \ {arg[q].target}, banned}
        BY <3>2 DEF UpdateBan
      <4>6. Op(q) = "ban" => banned' = banned \cup {arg[q].target}
        BY <3>2 DEF UpdateBan
      <4>7. Op(q) # "ban" => banned' \subseteq banned
        BY <3>2 DEF UpdateBan
      <4> QED
        BY <4>1, <4>4, <4>6, <4>7
    <3> QED
      BY <1>2, <3>1, <3>2 DEF Administer, AdminStep, RequireRole, CheckActor, CheckTarget, CheckOthers,
         Apply, LookupFails, ApplyOk, ApplyLost, ApplyFailed
  <2> QED
    BY <2>1, <2>2, <2>3, <2>4, <2>5
<1>3. ASSUME NEW q \in Calls, SendStep(q) PROVE TypeOK'
  <2>1. CASE CheckUserBan(q) \/ CheckMute(q) \/ CheckContent(q) \/ Broadcast(q)
    <3>1. arg[q].danmaku \in Danmakus
      BY RequestFields
    <3> QED
      BY <2>1, <3>1 DEF CheckUserBan, CheckMute, Check, CheckContent, Broadcast
  <2>2. CASE PersistDanmaku(q)
    <3>1. pc' \in [Calls -> Points] /\ status' \in [Danmakus -> Statuses]
      BY <2>2, RequestFields DEF PersistDanmaku, Statuses
    <3>2. raced' \subseteq Danmakus /\ lost' \subseteq Danmakus
      BY <2>2, RequestFields DEF PersistDanmaku, Meets
    <3> QED
      BY <2>2, <3>1, <3>2 DEF PersistDanmaku
  <2> QED
    BY <1>3, <2>1, <2>2 DEF SendStep
<1>4. ASSUME NEW q \in Calls, ReviewStep(q) PROVE TypeOK'
  <2>0. AfterReview(q) \in Points /\ Subject(q) \in Danmakus
    BY RequestFields DEF AfterReview
  <2>1. CASE FindDanmaku(q)
    BY <2>0, <2>1 DEF FindDanmaku, Meets
  <2>2. CASE UpdateStatus(q)
    <3>1. NewStatus(q) \in Statuses
      BY <2>2 DEF UpdateStatus, PathInv, Statuses
    <3> QED
      BY <2>0, <2>2, <3>1 DEF UpdateStatus
  <2>3. CASE Notify(q)
    BY <2>0, <2>3 DEF Notify
  <2> QED
    BY <1>4, <2>1, <2>2, <2>3 DEF ReviewStep
<1>5. ASSUME NEW q \in Calls, ReportStep(q) PROVE TypeOK'
  <2>1. CASE CheckReporter(q) \/ FindReported(q) \/ FindDuplicate(q)
    BY <2>1 DEF CheckReporter, FindReported, FindDuplicate
  <2>2. CASE CreateReport(q)
    BY <2>2 DEF CreateReport, ReportStates
  <2> QED
    BY <1>5, <2>1, <2>2 DEF ReportStep
<1>6. ASSUME NEW q \in Calls, ModeratorStep(q) PROVE TypeOK'
  <2>1. CASE Route(q)
    <3>1. arg[q].actor \in Users
      BY RequestFields
    <3> QED
      BY <2>1, <3>1 DEF Route, RequireRole, ModeratorOps
  <2>2. CASE FindReport(q)
    BY <2>2 DEF FindReport
  <2>3. CASE BanTarget(q)
    BY <2>3 DEF BanTarget
  <2>4. CASE BanAuthor(q)
    BY <2>4, RequestFields DEF BanAuthor
  <2>5. CASE CloseReport(q)
    BY <2>5, RequestFields DEF CloseReport, ReportStates, PathInv
  <2>6. CASE MuteUser(q)
    BY <2>6, RequestFields DEF MuteUser
  <2>7. CASE UnmuteUser(q)
    BY <2>7 DEF UnmuteUser, Lifted
  <2> QED
    BY <1>6, <2>1, <2>2, <2>3, <2>4, <2>5, <2>6, <2>7 DEF ModeratorStep
<1>7. ASSUME NEW q \in Calls, ReadFails(q) PROVE TypeOK'
  BY <1>7 DEF ReadFails
<1>8. ASSUME NEW u \in Users \cup {NoUser}, NEW room \in Rooms, MuteExpires(u, room) PROVE TypeOK'
  BY <1>8 DEF MuteExpires, Lifted, adminVars
<1>9. CASE UNCHANGED vars
  BY <1>9 DEF vars, adminVars
<1> QED
  BY <1>1, <1>2, <1>3, <1>4, <1>5, <1>6, <1>7, <1>8, <1>9 DEF Next

\* Requests do not change, and neither do their parts.
LEMMA ArgsStay ==
    ASSUME [Next]_vars
    PROVE  /\ arg' = arg
           /\ \A q \in Calls : /\ Op(q)' = Op(q) /\ Malformed(q)' = Malformed(q)
                               /\ Subject(q)' = Subject(q) /\ NewStatus(q)' = NewStatus(q)
                               /\ Muted(q)' = Muted(q)
<1>1. arg' = arg
  <2> USE DEF adminState, adminVars, modVars
  <2>1. ASSUME NEW q \in Calls, Administer(q) \/ Begin(q) PROVE arg' = arg
    BY <2>1 DEF Begin, Administer, AdminStep, RequireRole, CheckActor, CheckTarget, CheckOthers, Apply, LookupFails
  <2>2. ASSUME NEW q \in Calls, SendStep(q) PROVE arg' = arg
    BY <2>2 DEF SendStep, CheckUserBan, CheckMute, Check, CheckContent, PersistDanmaku, Broadcast
  <2>3. ASSUME NEW q \in Calls, ReviewStep(q) \/ ReportStep(q) PROVE arg' = arg
    BY <2>3 DEF ReviewStep, FindDanmaku, UpdateStatus, Notify, ReportStep, CheckReporter, FindReported,
       FindDuplicate, CreateReport
  <2>4. ASSUME NEW q \in Calls, ModeratorStep(q) \/ ReadFails(q) PROVE arg' = arg
    BY <2>4 DEF ModeratorStep, Route, RequireRole, FindReport, BanTarget, BanAuthor, CloseReport,
       MuteUser, UnmuteUser, ReadFails
  <2> QED
    BY <2>1, <2>2, <2>3, <2>4 DEF Next, MuteExpires, vars
<1> QED
  BY <1>1 DEF Op, Malformed, Self, Subject, NewStatus, Muted

\* Where a review leads.
LEMMA AfterReviewIs ==
    ASSUME NEW q \in Calls
    PROVE  /\ Op(q) = "review" => AfterReview(q) = "ok"
           /\ Op(q) # "review" /\ arg[q].value = "mute" => AfterReview(q) = "mute"
           /\ Op(q) # "review" /\ arg[q].value # "mute" => AfterReview(q) = "close"
  BY DEF AfterReview

\* The three ways out of the lookup of a review.
LEMMA FindDanmakuCases ==
    ASSUME NEW q \in Calls, FindDanmaku(q)
    PROVE  \/ pc' = [pc EXCEPT ![q] = "error"] /\ raced' = raced
           \/ /\ pc' = [pc EXCEPT ![q] = AfterReview(q)] /\ raced' = raced
              /\ status[Subject(q)] = "none" => Op(q) # "review"
              /\ status[Subject(q)] # "none" => status[Subject(q)] = NewStatus(q)
           \/ /\ pc' = [pc EXCEPT ![q] = "update"] /\ raced' = Meets(q, Subject(q))
              /\ status[Subject(q)] \notin {"none", NewStatus(q)}
              /\ NewStatus(q) \in Transitions(status[Subject(q)])
<1> USE DEF FindDanmaku, Goto
<1> DEFINE d    == Subject(q)
           next == IF status[d] = "none" THEN IF Op(q) = "review" THEN "error" ELSE AfterReview(q)
                   ELSE IF status[d] = NewStatus(q) THEN AfterReview(q)
                   ELSE IF NewStatus(q) \in Transitions(status[d]) THEN "update" ELSE "error"
<1>0. /\ pc' = [pc EXCEPT ![q] = next]
      /\ raced' = IF next = "update" THEN Meets(q, d) ELSE raced
  OBVIOUS
<1>1. AfterReview(q) \in {"ok", "mute", "close"}
  BY AfterReviewIs
<1>2. \/ next = "error"
      \/ /\ next = AfterReview(q)
         /\ status[d] = "none" => Op(q) # "review"
         /\ status[d] # "none" => status[d] = NewStatus(q)
      \/ /\ next = "update" /\ status[d] \notin {"none", NewStatus(q)}
         /\ NewStatus(q) \in Transitions(status[d])
  OBVIOUS
<1> HIDE DEF next, d
<1>3. \/ pc' = [pc EXCEPT ![q] = "error"] /\ raced' = raced
      \/ /\ pc' = [pc EXCEPT ![q] = AfterReview(q)] /\ raced' = raced
         /\ status[d] = "none" => Op(q) # "review"
         /\ status[d] # "none" => status[d] = NewStatus(q)
      \/ /\ pc' = [pc EXCEPT ![q] = "update"] /\ raced' = Meets(q, d)
         /\ status[d] \notin {"none", NewStatus(q)}
         /\ NewStatus(q) \in Transitions(status[d])
  BY <1>0, <1>1, <1>2
<1> QED
  BY <1>3 DEF d

\* A call is where its operation leads it.
LEMMA PathNext == TypeOK /\ PathInv /\ [Next]_vars => PathInv'
<1> SUFFICES ASSUME TypeOK, PathInv, [Next]_vars PROVE PathInv'
  OBVIOUS
<1>0. pc \in [Calls -> Points] /\ arg \in [Calls -> Inputs]
  BY DEF TypeOK
<1> USE DEF PathInv, Goto, AdminOps, ModeratorOps, Answers
<1>1. ASSUME NEW q \in Calls, Begin(q) PROVE PathInv'
  <2>1. /\ Op(q) = "send" => pc' = [pc EXCEPT ![q] = "checkBan"]
        /\ Op(q) = "report" => pc' = [pc EXCEPT ![q] = "checkReporter"]
        /\ Op(q) \notin {"send", "report"} => pc' = [pc EXCEPT ![q] = "route"]
    BY <1>1 DEF Begin
  <2>2. Op(q) \in AdminOps \cup ModeratorOps \cup {"report", "send"}
    BY <1>0, RequestFields DEF Op
  <2> QED
    BY <1>0, <2>1, <2>2, ArgsStay
<1>2. ASSUME NEW q \in Calls, Administer(q) PROVE PathInv'
  <2>1. CASE RequireRole(q, {"admin"}, "actor")
    BY <1>0, <1>2, <2>1, ArgsStay DEF RequireRole, Administer, AdminStep
  <2>2. CASE CheckActor(q)
    BY <1>0, <1>2, <2>2, ArgsStay DEF CheckActor, Administer, AdminStep, Self
  <2>3. CASE CheckTarget(q)
    BY <1>0, <1>2, <2>3, ArgsStay, RequestFields DEF CheckTarget, Administer, AdminStep, AfterTarget
  <2>4. CASE CheckOthers(q)
    BY <1>0, <1>2, <2>4, ArgsStay DEF CheckOthers, Administer, AdminStep
  <2>5. CASE Apply(q)
    BY <1>0, <1>2, <2>5, ArgsStay DEF Apply, ApplyOk, ApplyLost, ApplyFailed, Administer, AdminStep
  <2>6. CASE LookupFails(q)
    BY <1>0, <1>2, <2>6, ArgsStay DEF LookupFails, Administer, AdminStep
  <2> QED
    BY <1>2, <2>1, <2>2, <2>3, <2>4, <2>5, <2>6 DEF Administer, AdminStep
<1>3. ASSUME NEW q \in Calls, SendStep(q) PROVE PathInv'
  BY <1>0, <1>3, ArgsStay DEF SendStep, CheckUserBan, CheckMute, Check, CheckContent, PersistDanmaku, Broadcast
<1>4. ASSUME NEW q \in Calls, ReviewStep(q) PROVE PathInv'
  <2>0. Op(q) \in {"review", "resolve"}
    BY <1>4 DEF ReviewStep
  <2>1. CASE FindDanmaku(q)
    <3>1. /\ pc[q] = "find"
          /\ \/ pc' = [pc EXCEPT ![q] = "error"]
             \/ pc' = [pc EXCEPT ![q] = AfterReview(q)]
             \/ /\ pc' = [pc EXCEPT ![q] = "update"]
                /\ NewStatus(q) \in Transitions(status[Subject(q)])
      BY <2>1, FindDanmakuCases DEF FindDanmaku
    <3>2. Transitions(status[Subject(q)]) \subseteq {"approved", "rejected"}
      BY DEF Transitions
    <3> QED
      BY <1>0, <2>0, AfterReviewIs, <3>1, <3>2, ArgsStay
  <2>2. CASE UpdateStatus(q)
    BY <1>0, <1>4, <2>2, ArgsStay DEF UpdateStatus, ReviewStep
  <2>3. CASE Notify(q)
    BY <1>0, <2>0, AfterReviewIs, <2>3, ArgsStay DEF Notify
  <2> QED
    BY <1>4, <2>1, <2>2, <2>3 DEF ReviewStep
<1>5. ASSUME NEW q \in Calls, ReportStep(q) PROVE PathInv'
  BY <1>0, <1>5, ArgsStay DEF ReportStep, CheckReporter, FindReported, FindDuplicate, CreateReport
<1>6. ASSUME NEW q \in Calls, ModeratorStep(q) PROVE PathInv'
  <2>1. CASE Route(q)
    BY <1>0, <2>1, ArgsStay DEF Route, RequireRole
  <2>2. CASE FindReport(q)
    BY <1>0, <2>2, ArgsStay DEF FindReport
  <2>3. CASE BanTarget(q) \/ BanAuthor(q)
    BY <1>0, <2>3, ArgsStay DEF BanTarget, BanAuthor
  <2>4. CASE CloseReport(q) \/ MuteUser(q) \/ UnmuteUser(q)
    BY <1>0, <2>4, ArgsStay DEF CloseReport, MuteUser, UnmuteUser
  <2> QED
    BY <1>6, <2>1, <2>2, <2>3, <2>4 DEF ModeratorStep
<1>7. ASSUME NEW q \in Calls, ReadFails(q) PROVE PathInv'
  BY <1>0, <1>7, ArgsStay DEF ReadFails
<1>8. ASSUME NEW u \in Users \cup {NoUser}, NEW room \in Rooms, MuteExpires(u, room) PROVE PathInv'
  BY <1>8, ArgsStay DEF MuteExpires, adminVars
<1>9. CASE UNCHANGED vars
  BY <1>9, ArgsStay DEF vars, adminVars
<1> QED
  BY <1>1, <1>2, <1>3, <1>4, <1>5, <1>6, <1>7, <1>8, <1>9 DEF Next

\* What the steps of AdminService leave alone.
LEMMA AdminFrame ==
    ASSUME NEW q \in Calls, Administer(q)
    PROVE  /\ UNCHANGED <<status, screen, reports, closedBy, mutes, read, skipped, raced, lost>>
           /\ held \subseteq held'
           /\ Op(q) \in AdminOps
           /\ \E p \in {"actor", "target", "others", "apply", "ok", "error"} : pc' = [pc EXCEPT ![q] = p]
<1> USE DEF Administer, Goto
<1>1. AdminStep(q) => \E p \in {"actor", "target", "others", "apply", "ok", "error"} : pc' = [pc EXCEPT ![q] = p]
  BY DEF AdminStep, RequireRole, CheckActor, CheckTarget, AfterTarget, CheckOthers, Apply, ApplyOk, ApplyLost,
     ApplyFailed, LookupFails
<1> QED
  BY <1>1 DEF AdminStep

\* Only AdminService changes roles, and only its calls come to the points
\* between the look at the target and the update.
LEMMA RolesFrame ==
    ASSUME TypeOK, [Next]_vars, \A q \in Calls : ~Administer(q)
    PROVE  /\ UNCHANGED <<role, overlapped>>
           /\ \A p \in Calls : pc'[p] \in {"others", "apply"} => pc[p] = pc'[p]
<1> USE DEF adminState, adminVars, modVars, Goto
<1>0. pc \in [Calls -> Points]
  BY DEF TypeOK
<1> DEFINE G == /\ UNCHANGED <<role, overlapped>>
                /\ \A p \in Calls : pc'[p] \in {"others", "apply"} => pc[p] = pc'[p]
<1>1. ASSUME NEW q \in Calls, Begin(q) PROVE G
  <2>1. \E p \in {"checkBan", "checkReporter", "route"} : pc' = [pc EXCEPT ![q] = p]
    BY <1>1 DEF Begin
  <2> QED
    BY <1>0, <1>1, <2>1 DEF Begin
<1>2. ASSUME NEW q \in Calls, SendStep(q) PROVE G
  BY <1>0, <1>2 DEF SendStep, CheckUserBan, CheckMute, Check, CheckContent, PersistDanmaku, Broadcast
<1>3. ASSUME NEW q \in Calls, ReviewStep(q) PROVE G
  BY <1>0, <1>3 DEF ReviewStep, FindDanmaku, UpdateStatus, Notify, AfterReview
<1>4. ASSUME NEW q \in Calls, ReportStep(q) \/ ReadFails(q) PROVE G
  BY <1>0, <1>4 DEF ReportStep, CheckReporter, FindReported, FindDuplicate, CreateReport, ReadFails
<1>5. ASSUME NEW q \in Calls, ModeratorStep(q) PROVE G
  <2>1. CASE Route(q)
    BY <1>0, <2>1 DEF Route, RequireRole, ModeratorOps
  <2>2. CASE FindReport(q) \/ BanTarget(q) \/ BanAuthor(q)
    BY <1>0, <2>2 DEF FindReport, BanTarget, BanAuthor
  <2>3. CASE CloseReport(q) \/ MuteUser(q) \/ UnmuteUser(q)
    BY <1>0, <2>3 DEF CloseReport, MuteUser, UnmuteUser
  <2> QED
    BY <1>5, <2>1, <2>2, <2>3 DEF ModeratorStep
<1>6. ASSUME NEW u \in Users \cup {NoUser}, NEW room \in Rooms, MuteExpires(u, room) PROVE G
  BY <1>6 DEF MuteExpires
<1>7. CASE UNCHANGED vars
  BY <1>7 DEF vars
<1> QED
  BY <1>1, <1>2, <1>3, <1>4, <1>5, <1>6, <1>7 DEF Next

\* The site keeps an administrator, and what the checks of a role change
\* found stays true until the update.
LEMMA AdminNext == TypeOK /\ PathInv /\ AdminInv /\ [Next]_vars => AdminInv'
<1> SUFFICES ASSUME TypeOK, PathInv, AdminInv, [Next]_vars PROVE AdminInv'
  OBVIOUS
<1>0. /\ pc \in [Calls -> Points] /\ role \in [Users -> Roles] /\ overlapped \in BOOLEAN
      /\ arg' = arg /\ \A q \in Calls : Op(q)' = Op(q)
  BY ArgsStay DEF TypeOK
<1>1. CASE \A q \in Calls : ~Administer(q)
  BY <1>0, <1>1, RolesFrame DEF AdminInv, ChangingRole
<1>2. ASSUME NEW q \in Calls, Administer(q) PROVE AdminInv'
  <2> USE DEF AdminInv, ChangingRole, Goto, adminState
  <2>0. AdminStep(q)
    BY <1>2 DEF Administer
  <2>1. CASE RequireRole(q, {"admin"}, "actor") \/ LookupFails(q)
    BY <1>0, <2>1 DEF RequireRole, LookupFails
  <2>2. CASE CheckActor(q)
    BY <1>0, <2>2 DEF CheckActor
  <2>3. CASE CheckTarget(q)
    <3>1. CASE Op(q) # "setRole"
      BY <1>0, <2>3, <3>1 DEF CheckTarget
    <3>2. CASE Op(q) = "setRole" /\ ~overlapped'
      <4>1. \A p \in Calls : ~ChangingRole(p)
        BY <1>0, <2>3, <3>2 DEF CheckTarget
      <4>2. pc' = [pc EXCEPT ![q] = AfterTarget(q)] /\ role' = role /\ ~overlapped
        BY <1>0, <2>3, <3>2 DEF CheckTarget
      <4>3. AfterTarget(q) = "apply" /\ arg[q].value # "admin" => role[arg[q].target] # "admin"
        BY <3>2 DEF AfterTarget
      <4> QED
        BY <1>0, <4>1, <4>2, <4>3
    <3> QED
      BY <3>1, <3>2
  <2>4. CASE CheckOthers(q)
    BY <1>0, <2>4 DEF CheckOthers
  <2>5. CASE Apply(q)
    <3>1. Op(q) = "setRole" => arg[q].target \in Users
      BY <2>5 DEF Apply, PathInv
    <3>2. /\ pc[q] = "apply" /\ overlapped' = overlapped
          /\ pc'= [pc EXCEPT ![q] = "ok"] \/ pc' = [pc EXCEPT ![q] = "error"]
          /\ \/ role' = role
             \/ Op(q) = "setRole" /\ role' = [role EXCEPT ![arg[q].target] = arg[q].value]
      BY <2>5 DEF Apply, ApplyOk, ApplyLost, ApplyFailed, UpdateRole
    <3>3. CASE role' = role
      BY <1>0, <3>2, <3>3
    <3>4. CASE Op(q) = "setRole" /\ role' = [role EXCEPT ![arg[q].target] = arg[q].value]
      <4>1. ~overlapped => \E u \in Users : role'[u] = "admin"
        BY <1>0, <3>1, <3>2, <3>4
      <4>2. ~overlapped => \A p \in Calls : ~ChangingRole(p)'
        BY <1>0, <3>2, <3>4
      <4> QED
        BY <3>2, <4>1, <4>2
    <3> QED
      BY <3>2, <3>3, <3>4
  <2> QED
    BY <2>0, <2>1, <2>2, <2>3, <2>4, <2>5 DEF AdminStep
<1> QED
  BY <1>1, <1>2

\* The table of danmaku is written by a send, which adds a row, and by a
\* review; all other steps leave it alone, and what they move is not a call
\* that has read a row or written one.
LEMMA StatusFrame ==
    ASSUME TypeOK, [Next]_vars,
           \A q \in Calls : ~Begin(q) /\ ~SendStep(q) /\ ~ReviewStep(q)
    PROVE  /\ UNCHANGED <<status, screen, read, raced, lost>>
           /\ \A p \in Calls : \/ pc'[p] = pc[p]
                               \/ /\ pc[p] \notin {"idle", "update", "notify"}
                                  /\ pc'[p] \notin {"idle", "checkBan", "checkMute", "content", "persist",
                                                    "persistFlagged", "broadcast", "update", "notify"}
                                  /\ pc[p] = "broadcast" => Op(p) # "send"
<1> USE DEF adminState, adminVars, modVars, Goto
<1>0. pc \in [Calls -> Points]
  BY DEF TypeOK
<1> DEFINE G == /\ UNCHANGED <<status, screen, read, raced, lost>>
                /\ \A p \in Calls : \/ pc'[p] = pc[p]
                                    \/ /\ pc[p] \notin {"idle", "update", "notify"}
                                       /\ pc'[p] \notin {"idle", "checkBan", "checkMute", "content", "persist",
                                                         "persistFlagged", "broadcast", "update", "notify"}
                                       /\ pc[p] = "broadcast" => Op(p) # "send"
<1>1. ASSUME NEW q \in Calls, Administer(q) PROVE G
  <2>1. pc[q] \in {"route", "actor", "target", "others", "apply"}
    BY <1>1 DEF Administer, AdminStep, RequireRole, CheckActor, CheckTarget, CheckOthers, Apply, LookupFails
  <2> QED
    BY <1>0, <1>1, <2>1, AdminFrame
<1>2. ASSUME NEW q \in Calls, ReportStep(q) \/ ReadFails(q) PROVE G
  BY <1>0, <1>2 DEF ReportStep, CheckReporter, FindReported, FindDuplicate, CreateReport, ReadFails
<1>3. ASSUME NEW q \in Calls, ModeratorStep(q) PROVE G
  <2>1. CASE Route(q)
    BY <1>0, <2>1 DEF Route, RequireRole, ModeratorOps
  <2>2. CASE FindReport(q) \/ BanTarget(q) \/ BanAuthor(q)
    BY <1>0, <2>2 DEF FindReport, BanTarget, BanAuthor
  <2>3. CASE CloseReport(q) \/ MuteUser(q) \/ UnmuteUser(q)
    BY <1>0, <2>3 DEF CloseReport, MuteUser, UnmuteUser
  <2> QED
    BY <1>3, <2>1, <2>2, <2>3 DEF ModeratorStep
<1>4. ASSUME NEW u \in Users \cup {NoUser}, NEW room \in Rooms, MuteExpires(u, room) PROVE G
  BY <1>4 DEF MuteExpires
<1>5. CASE UNCHANGED vars
  BY <1>5 DEF vars
<1> QED
  BY <1>1, <1>2, <1>3, <1>4, <1>5 DEF Next

\* The points a request starts from.
LEMMA BeginCases ==
    ASSUME NEW q \in Calls, Begin(q)
    PROVE  /\ pc[q] = "idle"
           /\ \/ Op(q) = "send" /\ pc' = [pc EXCEPT ![q] = "checkBan"]
              \/ Op(q) = "report" /\ pc' = [pc EXCEPT ![q] = "checkReporter"]
              \/ Op(q) \notin {"send", "report"} /\ pc' = [pc EXCEPT ![q] = "route"]
           /\ UNCHANGED <<adminState, status, screen, reports, closedBy, mutes, read, skipped, held, raced, lost>>
  BY DEF Begin, Goto

\* The outcomes of the write of a send.
LEMMA PersistCases ==
    ASSUME NEW q \in Calls, PersistDanmaku(q)
    PROVE  /\ pc[q] \in {"persist", "persistFlagged"}
           /\ UNCHANGED <<screen, read, reports, closedBy, mutes, barred, skipped, held>>
           /\ \/ pc' = [pc EXCEPT ![q] = "error"] /\ UNCHANGED <<status, raced, lost>>
              \/ /\ pc' = [pc EXCEPT ![q] = "error"] /\ raced' = raced
                 /\ lost' = lost \cup {arg[q].danmaku}
                 /\ \E st \in {"flagged", "approved"} : status' = [status EXCEPT ![arg[q].danmaku] = st]
              \/ /\ pc' = [pc EXCEPT ![q] = "ok"] /\ UNCHANGED <<raced, lost>>
                 /\ status' = [status EXCEPT ![arg[q].danmaku] = "flagged"]
              \/ /\ pc' = [pc EXCEPT ![q] = "broadcast"] /\ raced' = Meets(q, arg[q].danmaku) /\ lost' = lost
                 /\ status' = [status EXCEPT ![arg[q].danmaku] = "approved"]
<1>1. PICK out \in Outcomes :
          /\ status' = IF out = "failed" THEN status
                       ELSE [status EXCEPT ![arg[q].danmaku] =
                                IF pc[q] = "persistFlagged" THEN "flagged" ELSE "approved"]
          /\ Goto(q, IF out # "ok" THEN "error" ELSE IF pc[q] = "persistFlagged" THEN "ok" ELSE "broadcast")
          /\ raced' = IF out = "ok" /\ ~(pc[q] = "persistFlagged") THEN Meets(q, arg[q].danmaku) ELSE raced
          /\ lost' = IF out = "lost" THEN lost \cup {arg[q].danmaku} ELSE lost
  BY DEF PersistDanmaku
<1>2. out = "ok" \/ out = "failed" \/ out = "lost"
  BY DEF Outcomes
<1> QED
  BY <1>1, <1>2 DEF PersistDanmaku, Goto

\* The outcomes of the update of a review.
LEMMA UpdateCases ==
    ASSUME NEW q \in Calls, UpdateStatus(q)
    PROVE  /\ pc[q] = "update"
           /\ UNCHANGED <<screen, read, reports, closedBy, mutes, barred, skipped, raced>>
           /\ \/ pc' = [pc EXCEPT ![q] = "error"] /\ UNCHANGED <<status, lost, held>>
              \/ /\ \/ pc' = [pc EXCEPT ![q] = "error"] /\ lost' = lost \cup {Subject(q)}
                    \/ pc' = [pc EXCEPT ![q] = "notify"] /\ lost' = lost
                 /\ status' = [status EXCEPT ![Subject(q)] = NewStatus(q)]
                 /\ held' = IF NewStatus(q) = "rejected" THEN held \cup {<<"reject", Subject(q)>>} ELSE held
<1>1. PICK out \in Outcomes :
          /\ status' = IF out = "failed" THEN status ELSE [status EXCEPT ![Subject(q)] = NewStatus(q)]
          /\ held' = IF out # "failed" /\ NewStatus(q) = "rejected"
                     THEN held \cup {<<"reject", Subject(q)>>} ELSE held
          /\ lost' = IF out = "lost" THEN lost \cup {Subject(q)} ELSE lost
          /\ Goto(q, IF out = "ok" THEN "notify" ELSE "error")
  BY DEF UpdateStatus
<1>2. out = "ok" \/ out = "failed" \/ out = "lost"
  BY DEF Outcomes
<1> QED
  BY <1>1, <1>2 DEF UpdateStatus, Goto

\* No row of the table of danmaku disappears.
LEMMA RowsStay ==
    ASSUME TypeOK, PathInv, [Next]_vars
    PROVE  \A d \in Danmakus : status[d] # "none" => status'[d] # "none"
<1>0. status \in [Danmakus -> Statuses] /\ arg \in [Calls -> Inputs]
  BY DEF TypeOK
<1> DEFINE G == \A d \in Danmakus : status[d] # "none" => status'[d] # "none"
<1>1. CASE \A q \in Calls : ~Begin(q) /\ ~SendStep(q) /\ ~ReviewStep(q)
  BY <1>1, StatusFrame
<1>2. ASSUME NEW q \in Calls, Begin(q) PROVE G
  BY <1>2 DEF Begin
<1>3. ASSUME NEW q \in Calls, SendStep(q) PROVE G
  <2>1. CASE PersistDanmaku(q)
    BY <1>0, <2>1, PersistCases
  <2>2. CASE ~PersistDanmaku(q)
    BY <1>3, <2>2 DEF SendStep, CheckUserBan, CheckMute, Check, CheckContent, Broadcast, modVars
  <2> QED
    BY <2>1, <2>2
<1>4. ASSUME NEW q \in Calls, ReviewStep(q) PROVE G
  <2>1. CASE UpdateStatus(q)
    BY <1>0, <2>1, UpdateCases DEF PathInv
  <2>2. CASE ~UpdateStatus(q)
    BY <1>4, <2>2 DEF ReviewStep, FindDanmaku, Notify
  <2> QED
    BY <2>1, <2>2
<1> QED
  BY <1>1, <1>2, <1>3, <1>4

\* The checks of a send move its call and nothing that a decision rests on.
LEMMA ChecksFrame ==
    ASSUME NEW q \in Calls, CheckUserBan(q) \/ CheckMute(q) \/ CheckContent(q)
    PROVE  /\ UNCHANGED <<status, screen, reports, closedBy, mutes, read, barred, held, raced, lost, banned>>
           /\ skipped \subseteq skipped'
           /\ pc[q] \in {"checkBan", "checkMute", "content"}
           /\ \E p \in {"checkMute", "content", "persist", "persistFlagged", "error"} : pc' = [pc EXCEPT ![q] = p]
  BY DEF CheckUserBan, CheckMute, Check, CheckContent, Goto, adminState, modVars

\* A send stays the only one of its danmaku.
LEMMA SendNext == TypeOK /\ PathInv /\ SendInv /\ [Next]_vars => SendInv'
<1> SUFFICES ASSUME TypeOK, PathInv, SendInv, [Next]_vars PROVE SendInv'
  OBVIOUS
<1>0. /\ pc \in [Calls -> Points] /\ status \in [Danmakus -> Statuses]
      /\ arg' = arg /\ \A q \in Calls : Op(q)' = Op(q) /\ Subject(q)' = Subject(q)
      /\ \A q \in Calls : arg[q].danmaku \in Danmakus /\ Subject(q) \in Danmakus
      /\ \A d \in Danmakus : status[d] # "none" => status'[d] # "none"
  BY ArgsStay, RowsStay, RequestFields DEF TypeOK
<1> USE DEF SendInv
<1>1. CASE \A q \in Calls : ~Begin(q) /\ ~SendStep(q) /\ ~ReviewStep(q)
  <2>1. status' = status
    BY <1>1, StatusFrame
  <2>2. \A p \in Calls : \/ pc'[p] = pc[p]
                         \/ /\ pc[p] # "idle"
                            /\ pc'[p] \notin {"idle", "checkBan", "checkMute", "content", "persist",
                                              "persistFlagged", "update", "notify"}
    BY <1>1, StatusFrame
  <2> QED
    BY <1>0, <2>1, <2>2
<1>2. ASSUME NEW q \in Calls, Begin(q) PROVE SendInv'
  <2>1. Op(q) = "send" =>
          /\ status[arg[q].danmaku] = "none"
          /\ \A p \in Calls \ {q} : Op(p) = "send" /\ arg[p].danmaku = arg[q].danmaku => pc[p] = "idle"
    BY <1>2 DEF Begin
  <2> QED
    BY <1>0, <1>2, <2>1, BeginCases
<1>3. ASSUME NEW q \in Calls, SendStep(q) PROVE SendInv'
  <2>0. Op(q) = "send"
    BY <1>3 DEF SendStep
  <2>1. CASE CheckUserBan(q) \/ CheckMute(q) \/ CheckContent(q)
    BY <1>0, <2>0, <2>1, ChecksFrame
  <2>2. CASE PersistDanmaku(q)
    <3>1. /\ pc[q] \in {"persist", "persistFlagged"}
          /\ \E p \in {"error", "ok", "broadcast"} : pc' = [pc EXCEPT ![q] = p]
          /\ \A d \in Danmakus : d # arg[q].danmaku => status'[d] = status[d]
      BY <1>0, <2>2, PersistCases
    <3>2. \A p \in Calls \ {q} : Op(p) = "send" /\ arg[p].danmaku = arg[q].danmaku => pc[p] = "idle"
      BY <2>0, <3>1
    <3> QED
      BY <1>0, <3>1, <3>2 DEF PathInv
  <2>3. CASE Broadcast(q)
    BY <1>0, <2>3 DEF Broadcast, Goto
  <2> QED
    BY <1>3, <2>1, <2>2, <2>3 DEF SendStep
<1>4. ASSUME NEW q \in Calls, ReviewStep(q) PROVE SendInv'
  <2>1. CASE FindDanmaku(q)
    <3>1. pc[q] = "find" /\ status' = status
      BY <2>1 DEF FindDanmaku
    <3>2. \/ \E p \in {"error", "ok", "mute", "close"} : pc' = [pc EXCEPT ![q] = p]
          \/ pc' = [pc EXCEPT ![q] = "update"] /\ status[Subject(q)] # "none"
      BY <2>1, FindDanmakuCases, AfterReviewIs
    <3> QED
      BY <1>0, <3>1, <3>2
  <2>2. CASE UpdateStatus(q)
    <3>1. /\ pc[q] = "update"
          /\ \E p \in {"error", "notify"} : pc' = [pc EXCEPT ![q] = p]
          /\ \A d \in Danmakus : d # Subject(q) => status'[d] = status[d]
      BY <1>0, <2>2, UpdateCases
    <3> QED
      BY <1>0, <3>1
  <2>3. CASE Notify(q)
    <3>1. pc[q] = "notify" /\ status' = status /\ \E p \in {"ok", "mute", "close"} : pc' = [pc EXCEPT ![q] = p]
      BY <2>3, AfterReviewIs DEF Notify, Goto
    <3> QED
      BY <1>0, <3>1
  <2> QED
    BY <1>4, <2>1, <2>2, <2>3 DEF ReviewStep
<1> QED
  BY <1>1, <1>2, <1>3, <1>4

\* Nobody decides on a danmaku without a row.
LEMMA UnwrittenIsUndecided ==
    ASSUME TypeOK, PathInv, SendInv, NEW q \in Calls, pc[q] \in {"persist", "persistFlagged"}
    PROVE  /\ Op(q) = "send" /\ status[arg[q].danmaku] = "none"
           /\ \A p \in Calls : ~Deciding(p, arg[q].danmaku)
<1>1. Op(q) = "send" /\ status[arg[q].danmaku] = "none"
  BY DEF PathInv, SendInv
<1>2. ASSUME NEW p \in Calls, Deciding(p, arg[q].danmaku) PROVE FALSE
  <2>1. CASE Op(p) = "send" /\ pc[p] = "broadcast"
    <3>1. p # q /\ arg[p].danmaku = arg[q].danmaku
      BY <1>2, <2>1 DEF Deciding, Subject
    <3> QED
      BY <1>1, <2>1, <3>1 DEF SendInv
  <2>2. CASE pc[p] \in {"update", "notify"}
    BY <1>1, <1>2, <2>2 DEF Deciding, SendInv
  <2> QED
    BY <1>2, <2>1, <2>2 DEF Deciding
<1> QED
  BY <1>1, <1>2

\* The room is told what follows from the status, step by step, for a danmaku
\* whose reviews did not overlap.
LEMMA ScreenNext ==
    /\ TypeOK /\ PathInv /\ SendInv /\ ScreenInv /\ ScreenFollowsStatus /\ [Next]_vars
    => ScreenInv' /\ ScreenFollowsStatus'
<1> SUFFICES ASSUME TypeOK, PathInv, SendInv, ScreenInv, ScreenFollowsStatus, [Next]_vars
             PROVE  ScreenInv' /\ ScreenFollowsStatus'
  OBVIOUS
<1>0. /\ pc \in [Calls -> Points] /\ read \in [Calls -> Statuses]
      /\ status \in [Danmakus -> Statuses] /\ screen \in [Danmakus -> {"absent", "shown", "retracted"}]
      /\ arg' = arg
      /\ \A q \in Calls : Op(q)' = Op(q) /\ Subject(q)' = Subject(q) /\ NewStatus(q)' = NewStatus(q)
      /\ \A q \in Calls : arg[q].danmaku \in Danmakus /\ Subject(q) \in Danmakus
  BY ArgsStay, RequestFields DEF TypeOK
<1> DEFINE Follows(d) == (\A q \in Calls : ~Deciding(q, d)) => (status[d] = "approved" <=> screen[d] = "shown")
           Goal == \A d \in Danmakus \ (raced' \cup lost') : DecidedInTurn(d)' /\ Follows(d)'
<1>a. \A d \in Danmakus \ (raced \cup lost) : DecidedInTurn(d) /\ Follows(d)
  BY DEF ScreenInv, ScreenFollowsStatus
\* A danmaku that a step is not about.
<1>b. ASSUME NEW d \in Danmakus \ (raced \cup lost),
             status'[d] = status[d], screen'[d] = screen[d],
             \A p \in Calls : /\ Deciding(p, d)' <=> Deciding(p, d)
                              /\ Deciding(p, d) => pc'[p] = pc[p] /\ read'[p] = read[p]
      PROVE  DecidedInTurn(d)' /\ Follows(d)'
  BY <1>0, <1>a, <1>b DEF DecidedInTurn, Undecided, Transitions
<1>1. CASE \A q \in Calls : ~Begin(q) /\ ~SendStep(q) /\ ~ReviewStep(q)
  <2>1. /\ UNCHANGED <<status, screen, read, raced, lost>>
        /\ \A p \in Calls : \/ pc'[p] = pc[p]
                            \/ /\ pc[p] \notin {"update", "notify"}
                               /\ pc'[p] \notin {"broadcast", "update", "notify"}
                               /\ pc[p] = "broadcast" => Op(p) # "send"
    BY <1>1, StatusFrame
  <2>2. ASSUME NEW d \in Danmakus, NEW p \in Calls
        PROVE  /\ Deciding(p, d)' <=> Deciding(p, d)
               /\ Deciding(p, d) => pc'[p] = pc[p]
    BY <1>0, <2>1 DEF Deciding
  <2>3. Goal
    BY <1>b, <2>1, <2>2
  <2> QED
    BY <2>3 DEF ScreenInv, ScreenFollowsStatus
<1>2. ASSUME NEW q \in Calls, Begin(q) \/ CheckUserBan(q) \/ CheckMute(q) \/ CheckContent(q) PROVE Goal
  <2>1. /\ UNCHANGED <<status, screen, read, raced, lost>>
        /\ pc[q] \in {"idle", "checkBan", "checkMute", "content"}
        /\ \E p \in {"route", "checkReporter", "checkBan", "checkMute", "content", "persist", "persistFlagged", "error"} :
              pc' = [pc EXCEPT ![q] = p]
    BY <1>2, BeginCases, ChecksFrame
  <2>2. ASSUME NEW d \in Danmakus, NEW p \in Calls
        PROVE  /\ Deciding(p, d)' <=> Deciding(p, d)
               /\ Deciding(p, d) => pc'[p] = pc[p]
    BY <1>0, <2>1 DEF Deciding
  <2> QED
    BY <1>b, <2>1, <2>2
<1>3. ASSUME NEW q \in Calls, Op(q) = "send", PersistDanmaku(q) PROVE Goal
  <2>1. /\ pc[q] \in {"persist", "persistFlagged"}
        /\ screen' = screen /\ read' = read /\ raced \subseteq raced' /\ lost \subseteq lost'
        /\ \E p \in {"error", "ok", "broadcast"} : pc' = [pc EXCEPT ![q] = p]
        /\ \A d \in Danmakus : d # arg[q].danmaku => status'[d] = status[d]
    BY <1>0, <1>3, PersistCases DEF Meets
  <2>2. Subject(q) = arg[q].danmaku
    BY <1>3 DEF Subject
  <2>3. ASSUME NEW d \in Danmakus, d # arg[q].danmaku, NEW p \in Calls
        PROVE  /\ Deciding(p, d)' <=> Deciding(p, d)
               /\ Deciding(p, d) => pc'[p] = pc[p]
    BY <1>0, <2>1, <2>2, <2>3 DEF Deciding
  <2>4. ASSUME NEW d \in Danmakus \ (raced' \cup lost'), d = arg[q].danmaku
        PROVE  DecidedInTurn(d)' /\ Follows(d)'
    <3>1. d \in Danmakus \ (raced \cup lost) /\ status[d] = "none" /\ \A p \in Calls : ~Deciding(p, d)
      BY <1>0, <2>1, <2>4, UnwrittenIsUndecided
    <3>2. screen[d] = "absent"
      BY <1>a, <3>1 DEF DecidedInTurn, Undecided
    <3>3. \A p \in Calls \ {q} : ~Deciding(p, d)'
      BY <1>0, <2>1, <3>1 DEF Deciding
    <3>4. \/ status'[d] \in {"none", "flagged"} /\ pc'[q] \in {"error", "ok"}
          \/ status'[d] = "approved" /\ pc'[q] = "broadcast"
      BY <1>0, <1>3, <2>4, <3>1, PersistCases
    <3>5. Deciding(q, d)' <=> pc'[q] = "broadcast"
      BY <1>0, <1>3, <2>2, <2>4, <3>4 DEF Deciding
    <3> QED
      BY <1>0, <2>1, <3>2, <3>3, <3>4, <3>5 DEF DecidedInTurn, Undecided
  <2> QED
    BY <1>b, <2>1, <2>3, <2>4
<1>4. ASSUME NEW q \in Calls, Op(q) = "send", Broadcast(q) PROVE Goal
  <2>1. /\ pc[q] = "broadcast" /\ pc' = [pc EXCEPT ![q] = "ok"]
        /\ screen' = [screen EXCEPT ![arg[q].danmaku] = "shown"]
        /\ UNCHANGED <<status, read, raced, lost>> /\ Subject(q) = arg[q].danmaku
    BY <1>0, <1>4 DEF Broadcast, Goto, Subject
  <2>2. ASSUME NEW e \in Danmakus, e # arg[q].danmaku, NEW p \in Calls
        PROVE  /\ Deciding(p, e)' <=> Deciding(p, e)
               /\ Deciding(p, e) => pc'[p] = pc[p]
    BY <1>0, <2>1, <2>2 DEF Deciding
  <2>3. ASSUME NEW d \in Danmakus \ (raced \cup lost), d = arg[q].danmaku PROVE DecidedInTurn(d)' /\ Follows(d)'
    <3>1. Deciding(q, d)
      BY <1>4, <2>1, <2>3 DEF Deciding
    <3>2. status[d] = "approved" /\ \A p \in Calls \ {q} : ~Deciding(p, d)
      BY <1>a, <2>1, <2>3, <3>1 DEF DecidedInTurn
    <3>3. \A p \in Calls : ~Deciding(p, d)'
      BY <1>0, <2>1, <3>2 DEF Deciding
    <3> QED
      BY <1>0, <2>1, <2>3, <3>2, <3>3 DEF DecidedInTurn, Undecided
  <2> QED
    BY <1>0, <1>b, <2>1, <2>2, <2>3
<1>5. ASSUME NEW q \in Calls, FindDanmaku(q) PROVE Goal
  <2>1. /\ pc[q] = "find" /\ Subject(q) \in Danmakus
        /\ UNCHANGED <<status, screen, lost>>
        /\ read' = [read EXCEPT ![q] = status[Subject(q)]]
    BY <1>0, <1>5 DEF FindDanmaku
  <2>2. ASSUME NEW e \in Danmakus PROVE ~Deciding(q, e)
    BY <2>1 DEF Deciding
  <2>3. \/ \E p \in {"error", "ok", "mute", "close"} : pc' = [pc EXCEPT ![q] = p] /\ raced' = raced
        \/ /\ pc' = [pc EXCEPT ![q] = "update"] /\ raced' = Meets(q, Subject(q))
           /\ NewStatus(q) \in Transitions(status[Subject(q)])
    BY <1>5, FindDanmakuCases, AfterReviewIs
  <2>4. raced \subseteq raced'
    BY <2>3 DEF Meets
  <2>5. ASSUME NEW e \in Danmakus, e # Subject(q) \/ pc'[q] # "update", NEW p \in Calls
        PROVE  /\ Deciding(p, e)' <=> Deciding(p, e)
               /\ Deciding(p, e) => pc'[p] = pc[p] /\ read'[p] = read[p]
    BY <1>0, <2>1, <2>2, <2>3, <2>5 DEF Deciding
  <2>6. ASSUME NEW d \in Danmakus \ (raced' \cup lost'), d = Subject(q), pc'[q] = "update" PROVE DecidedInTurn(d)' /\ Follows(d)'
    <3>1. \A p \in Calls : ~Deciding(p, d)
      BY <1>0, <2>1, <2>2, <2>3, <2>6 DEF Meets
    <3>2. /\ status[d] = "approved" <=> screen[d] = "shown"
          /\ Undecided(status[d], d)
      BY <1>a, <2>1, <2>4, <2>6, <3>1 DEF DecidedInTurn
    <3>3. \A p \in Calls \ {q} : ~Deciding(p, d)'
      BY <1>0, <2>1, <2>3, <3>1 DEF Deciding
    <3>4. Deciding(q, d)'
      BY <1>0, <2>6 DEF Deciding
    <3>5. NewStatus(q) \in Transitions(status[d]) /\ read'[q] = status[d]
      BY <1>0, <2>1, <2>3, <2>6
    <3> QED
      BY <1>0, <2>1, <2>6, <3>2, <3>3, <3>4, <3>5 DEF DecidedInTurn, Undecided, Transitions
  <2> QED
    BY <1>b, <2>1, <2>4, <2>5, <2>6
<1>6. ASSUME NEW q \in Calls, UpdateStatus(q) PROVE Goal
  <2>1. /\ pc[q] = "update" /\ Subject(q) \in Danmakus
        /\ UNCHANGED <<screen, read, raced>> /\ lost \subseteq lost'
        /\ \E p \in {"error", "notify"} : pc' = [pc EXCEPT ![q] = p]
        /\ \A e \in Danmakus : e # Subject(q) => status'[e] = status[e]
    BY <1>0, <1>6, UpdateCases
  <2>2. ASSUME NEW e \in Danmakus, e # Subject(q), NEW p \in Calls
        PROVE  /\ Deciding(p, e)' <=> Deciding(p, e)
               /\ Deciding(p, e) => pc'[p] = pc[p]
    BY <1>0, <2>1, <2>2 DEF Deciding
  <2>3. ASSUME NEW d \in Danmakus \ (raced' \cup lost'), d = Subject(q) PROVE DecidedInTurn(d)' /\ Follows(d)'
    <3>1. Deciding(q, d) /\ d \in Danmakus \ (raced \cup lost)
      BY <2>1, <2>3 DEF Deciding
    <3>2. /\ read[q] = status[d] /\ (status[d] = "approved" <=> screen[d] = "shown")
          /\ Undecided(status[d], d) /\ NewStatus(q) \in Transitions(read[q])
          /\ \A p \in Calls \ {q} : ~Deciding(p, d)
      BY <1>a, <2>1, <3>1 DEF DecidedInTurn
    <3>3. \A p \in Calls \ {q} : ~Deciding(p, d)'
      BY <1>0, <2>1, <3>2 DEF Deciding
    <3>4. CASE status' = status /\ pc'[q] = "error"
      <4>1. ~Deciding(q, d)'
        BY <3>4 DEF Deciding
      <4> QED
        BY <1>0, <2>1, <3>2, <3>3, <3>4, <4>1 DEF DecidedInTurn, Undecided
    <3>5. CASE status'[d] = NewStatus(q) /\ pc'[q] = "notify"
      <4>1. NewStatus(q) \in {"approved", "rejected"}
        BY <2>1 DEF PathInv
      <4>2. NewStatus(q)' \in Transitions(read'[q])
        BY <1>0, <2>1, <3>2
      <4>3. Deciding(q, d)'
        BY <1>0, <2>3, <3>5 DEF Deciding
      <4>4. Undecided(status[d], d)'
        BY <3>5, <4>1 DEF Undecided
      <4>5. /\ status'[d] = NewStatus(q)' /\ (read'[q] = "approved" <=> screen'[d] = "shown")
            /\ Undecided(read[q], d)'
        BY <1>0, <2>1, <3>2, <3>5 DEF Undecided
      <4> QED
        BY <3>3, <3>5, <4>2, <4>3, <4>4, <4>5 DEF DecidedInTurn
    <3> QED
      BY <1>0, <1>6, <2>1, <2>3, <3>4, <3>5, UpdateCases
  <2> QED
    BY <1>b, <2>1, <2>2, <2>3
<1>7. ASSUME NEW q \in Calls, Notify(q) PROVE Goal
  <2>1. /\ pc[q] = "notify" /\ Subject(q) \in Danmakus
        /\ UNCHANGED <<status, read, raced, lost>>
        /\ \E p \in {"ok", "mute", "close"} : pc' = [pc EXCEPT ![q] = p]
        /\ screen' = [screen EXCEPT ![Subject(q)] = IF NewStatus(q) = "approved" THEN "shown"
                                           ELSE IF read[q] = "approved" THEN "retracted" ELSE @]
    BY <1>0, <1>7, AfterReviewIs DEF Notify, Goto
  <2>2. ASSUME NEW e \in Danmakus, e # Subject(q), NEW p \in Calls
        PROVE  /\ Deciding(p, e)' <=> Deciding(p, e)
               /\ Deciding(p, e) => pc'[p] = pc[p]
    BY <1>0, <2>1, <2>2 DEF Deciding
  <2>3. ASSUME NEW d \in Danmakus \ (raced \cup lost), d = Subject(q) PROVE DecidedInTurn(d)' /\ Follows(d)'
    <3>1. Deciding(q, d)
      BY <2>1, <2>3 DEF Deciding
    <3>2. /\ status[d] = NewStatus(q) /\ (read[q] = "approved" <=> screen[d] = "shown")
          /\ \A p \in Calls \ {q} : ~Deciding(p, d)
      BY <1>a, <2>1, <2>3, <3>1 DEF DecidedInTurn
    <3>3. \A p \in Calls : ~Deciding(p, d)'
      BY <1>0, <2>1, <3>2 DEF Deciding
    <3>4. NewStatus(q) \in {"approved", "rejected"}
      BY <2>1 DEF PathInv
    <3> QED
      BY <1>0, <2>1, <2>3, <3>2, <3>3, <3>4 DEF DecidedInTurn, Undecided
  <2> QED
    BY <1>0, <1>b, <2>1, <2>2, <2>3
<1>8. Goal => ScreenInv' /\ ScreenFollowsStatus'
  BY DEF ScreenInv, ScreenFollowsStatus
<1> QED
  BY <1>1, <1>2, <1>3, <1>4, <1>5, <1>6, <1>7, <1>8 DEF SendStep, ReviewStep

\* The history of sanctions only grows, and reports are written by the insert
\* and by the last step of a resolution alone.
LEMMA ReportsFrame ==
    ASSUME [Next]_vars
    PROVE  /\ held \subseteq held'
           /\ \/ UNCHANGED <<reports, closedBy>>
              \/ \E q \in Calls : ReportStep(q) /\ CreateReport(q)
              \/ \E q \in Calls : CloseReport(q)
<1> USE DEF adminState, adminVars, modVars
<1> DEFINE G == /\ held \subseteq held'
                /\ \/ UNCHANGED <<reports, closedBy>>
                   \/ \E q \in Calls : ReportStep(q) /\ CreateReport(q)
                   \/ \E q \in Calls : CloseReport(q)
<1>1. ASSUME NEW q \in Calls, Administer(q) \/ Begin(q) PROVE G
  BY <1>1, AdminFrame DEF Begin
<1>2. ASSUME NEW q \in Calls, SendStep(q) PROVE G
  BY <1>2 DEF SendStep, CheckUserBan, CheckMute, Check, CheckContent, PersistDanmaku, Broadcast
<1>3. ASSUME NEW q \in Calls, ReviewStep(q) PROVE G
  BY <1>3, UpdateCases DEF ReviewStep, FindDanmaku, Notify
<1>4. ASSUME NEW q \in Calls, ReportStep(q) PROVE G
  BY <1>4 DEF ReportStep, CheckReporter, FindReported, FindDuplicate, CreateReport
<1>5. ASSUME NEW q \in Calls, ModeratorStep(q) PROVE G
  <2>1. CASE Route(q) \/ FindReport(q) \/ BanTarget(q)
    BY <2>1 DEF Route, FindReport, BanTarget
  <2>2. CASE BanAuthor(q) \/ MuteUser(q) \/ UnmuteUser(q)
    BY <2>2 DEF BanAuthor, MuteUser, UnmuteUser
  <2>3. CASE CloseReport(q)
    BY <2>3 DEF CloseReport
  <2> QED
    BY <1>5, <2>1, <2>2, <2>3 DEF ModeratorStep
<1>6. ASSUME NEW q \in Calls, ReadFails(q) PROVE G
  BY <1>6 DEF ReadFails
<1>7. ASSUME NEW u \in Users \cup {NoUser}, NEW room \in Rooms, MuteExpires(u, room) PROVE G
  BY <1>7 DEF MuteExpires
<1>8. CASE UNCHANGED vars
  BY <1>8 DEF vars
<1> QED
  BY <1>1, <1>2, <1>3, <1>4, <1>5, <1>6, <1>7, <1>8 DEF Next

\* The outcomes of the insert of a report.
LEMMA CreateCases ==
    ASSUME NEW q \in Calls, CreateReport(q)
    PROVE  /\ pc[q] = "create" /\ closedBy' = closedBy
           /\ \E p \in Answers : pc' = [pc EXCEPT ![q] = p]
           /\ \/ reports' = reports
              \/ reports' = [reports EXCEPT ![q] = "pending"]
  BY DEF CreateReport, Goto, Answers

\* The outcomes of closing a report.
LEMMA CloseCases ==
    ASSUME NEW q \in Calls, CloseReport(q)
    PROVE  /\ pc[q] = "close"
           /\ \E p \in Answers : pc' = [pc EXCEPT ![q] = p]
           /\ \/ UNCHANGED <<reports, closedBy>>
              \/ /\ reports' = [reports EXCEPT ![arg[q].report] =
                                   IF arg[q].value = "dismiss" THEN "dismissed" ELSE "resolved"]
                 /\ closedBy' = [closedBy EXCEPT ![arg[q].report] = arg[q].value]
  BY DEF CloseReport, Goto, Answers

\* No report disappears.
LEMMA ReportsStay ==
    ASSUME TypeOK, [Next]_vars
    PROVE  \A q \in Calls : reports[q] # "none" => reports'[q] # "none"
<1>1. reports \in [Calls -> ReportStates] /\ \A q \in Calls : arg[q].report \in Calls
  BY RequestFields DEF TypeOK
<1>2. ASSUME NEW q \in Calls, CreateReport(q) PROVE \A p \in Calls : reports[p] # "none" => reports'[p] # "none"
  BY <1>1, <1>2, CreateCases
<1>3. ASSUME NEW q \in Calls, CloseReport(q) PROVE \A p \in Calls : reports[p] # "none" => reports'[p] # "none"
  BY <1>1, <1>3, CloseCases
<1> QED
  BY <1>2, <1>3, ReportsFrame

\* Every rejection is in the history.
LEMMA RejectionsNext ==
    ASSUME TypeOK, PathInv, SendInv, ReportInv, [Next]_vars
    PROVE  \A d \in Danmakus : status'[d] = "rejected" => <<"reject", d>> \in held'
<1>0. /\ status \in [Danmakus -> Statuses] /\ held \subseteq held'
      /\ \A q \in Calls : arg[q].danmaku \in Danmakus /\ Subject(q) \in Danmakus
      /\ \A d \in Danmakus : status[d] = "rejected" => <<"reject", d>> \in held
  BY ReportsFrame, RequestFields DEF TypeOK, ReportInv
<1>1. CASE status' = status
  BY <1>0, <1>1
<1>2. ASSUME NEW q \in Calls, PersistDanmaku(q)
      PROVE  \A d \in Danmakus : status'[d] = "rejected" => <<"reject", d>> \in held'
  BY <1>0, <1>2, PersistCases
<1>3. ASSUME NEW q \in Calls, UpdateStatus(q)
      PROVE  \A d \in Danmakus : status'[d] = "rejected" => <<"reject", d>> \in held'
  BY <1>0, <1>3, UpdateCases
<1>4. \/ status' = status
      \/ \E q \in Calls : PersistDanmaku(q) \/ UpdateStatus(q)
  <2>1. CASE \A q \in Calls : ~Begin(q) /\ ~SendStep(q) /\ ~ReviewStep(q)
    BY <2>1, StatusFrame
  <2>2. ASSUME NEW q \in Calls, Begin(q) PROVE status' = status
    BY <2>2 DEF Begin
  <2>3. ASSUME NEW q \in Calls, SendStep(q) PROVE status' = status \/ PersistDanmaku(q)
    BY <2>3, ChecksFrame DEF SendStep, Broadcast
  <2>4. ASSUME NEW q \in Calls, ReviewStep(q) PROVE status' = status \/ UpdateStatus(q)
    BY <2>4 DEF ReviewStep, FindDanmaku, Notify
  <2> QED
    BY <2>1, <2>2, <2>3, <2>4
<1> QED
  BY <1>1, <1>2, <1>3, <1>4

\* What a resolution has behind it stays behind it.
LEMMA ReportNext == TypeOK /\ PathInv /\ SendInv /\ ReportInv /\ [Next]_vars => ReportInv'
<1> SUFFICES ASSUME TypeOK, PathInv, SendInv, ReportInv, [Next]_vars PROVE ReportInv'
  OBVIOUS
<1>0. /\ pc \in [Calls -> Points] /\ reports \in [Calls -> ReportStates]
      /\ status \in [Danmakus -> Statuses]
      /\ \A q \in Calls : arg[q].danmaku \in Danmakus /\ Subject(q) \in Danmakus /\ arg[q].report \in Calls
      /\ arg' = arg
      /\ \A q \in Calls : /\ Op(q)' = Op(q) /\ Subject(q)' = Subject(q) /\ NewStatus(q)' = NewStatus(q)
                          /\ Muted(q)' = Muted(q)
  BY ArgsStay, RequestFields DEF TypeOK
<1>1. /\ held \subseteq held'
      /\ \A d \in Danmakus : status[d] # "none" => status'[d] # "none"
      /\ \A q \in Calls : reports[q] # "none" => reports'[q] # "none"
      /\ \A q \in Calls : Backed(q)
  BY ReportsFrame, ReportsStay, RowsStay DEF ReportInv
<1>2. \A d \in Danmakus : status'[d] = "rejected" => <<"reject", d>> \in held'
  BY RejectionsNext
\* A call that does not move, and whose report is not just being made.
<1>3. ASSUME NEW p \in Calls, pc'[p] = pc[p], reports'[p] # "none" => reports[p] # "none"
      PROVE  Backed(p)'
  BY <1>0, <1>1, <1>3 DEF Backed, Answers
\* A call that moves to a point at which nothing is asked of it.
<1>4. ASSUME NEW q \in Calls, reports'[q] # "none" => reports[q] # "none",
             pc'[q] \notin {"findDuplicate", "create", "notify", "mute", "close"},
             Op(q) = "resolve" /\ pc'[q] \notin {"idle", "route", "findReport"} \cup Answers
                => reports[arg[q].report] # "none"
      PROVE  Backed(q)'
  BY <1>0, <1>1, <1>4 DEF Backed, Answers
<1>5. ASSUME NEW q \in Calls, Begin(q) \/ Administer(q) \/ SendStep(q) PROVE \A p \in Calls : Backed(p)'
  <2>1. UNCHANGED reports
    BY <1>5, AdminFrame DEF Begin, SendStep, CheckUserBan, CheckMute, Check, CheckContent, PersistDanmaku,
       Broadcast, modVars
  <2>2. \E p \in {"checkBan", "checkReporter", "route", "actor", "target", "others", "apply", "ok", "error",
                   "checkMute", "content", "persist", "persistFlagged", "broadcast"} : pc' = [pc EXCEPT ![q] = p]
    BY <1>5, BeginCases, AdminFrame, ChecksFrame, PersistCases DEF SendStep, Broadcast, Goto
  <2>3. Op(q) = "resolve" => pc'[q] \in {"route"}
    BY <1>0, <1>5, BeginCases, AdminFrame DEF SendStep, AdminOps
  <2> QED
    BY <1>0, <1>3, <1>4, <2>1, <2>2, <2>3
<1>6. ASSUME NEW q \in Calls, ReviewStep(q) PROVE \A p \in Calls : Backed(p)'
  <2>1. reports' = reports
    BY <1>6 DEF ReviewStep, FindDanmaku, UpdateStatus, Notify
  <2>2. /\ Op(q) \in {"review", "resolve"} /\ pc[q] \in {"find", "update", "notify"}
        /\ Op(q) = "resolve" => /\ reports[arg[q].report] # "none" /\ NewStatus(q) = "rejected"
                                /\ arg[q].value \in {"reject", "mute"}
                                /\ status[Subject(q)] # "none"
    <3>1. Op(q) \in {"review", "resolve"} /\ pc[q] \in {"find", "update", "notify"}
      BY <1>6 DEF ReviewStep, FindDanmaku, UpdateStatus, Notify
    <3>2. ASSUME Op(q) = "resolve"
          PROVE  reports[arg[q].report] # "none" /\ status[Subject(q)] # "none"
      BY <1>0, <1>1, <3>1, <3>2 DEF Backed, Subject, Answers
    <3> QED
      BY <3>1, <3>2 DEF PathInv, NewStatus
  <2>3. CASE UpdateStatus(q)
    <3>1. \/ pc' = [pc EXCEPT ![q] = "error"]
          \/ /\ pc' = [pc EXCEPT ![q] = "notify"]
             /\ NewStatus(q) = "rejected" => <<"reject", Subject(q)>> \in held'
      BY <2>3, UpdateCases
    <3> QED
      BY <1>0, <1>1, <1>3, <2>1, <2>2, <3>1 DEF Backed
  <2>4. CASE FindDanmaku(q) \/ Notify(q)
    <3>1. \/ pc' = [pc EXCEPT ![q] = "error"]
          \/ pc' = [pc EXCEPT ![q] = "update"]
          \/ /\ pc' = [pc EXCEPT ![q] = AfterReview(q)]
             /\ Op(q) = "resolve" => <<"reject", Subject(q)>> \in held
      <4>1. CASE FindDanmaku(q)
        BY <1>0, <2>2, <4>1, FindDanmakuCases DEF ReportInv
      <4>2. CASE Notify(q)
        BY <1>1, <2>2, <4>2 DEF Notify, Goto, Backed
      <4> QED
        BY <2>4, <4>1, <4>2
    <3>2. CASE pc' = [pc EXCEPT ![q] = "error"] \/ pc' = [pc EXCEPT ![q] = "update"]
      BY <1>0, <1>1, <1>3, <1>4, <2>1, <2>2, <3>2
    <3>3. CASE /\ pc' = [pc EXCEPT ![q] = AfterReview(q)]
               /\ Op(q) = "resolve" => <<"reject", Subject(q)>> \in held
      <4>1. CASE Op(q) = "review"
        <5>1. pc'[q] = "ok"
          BY <1>0, <3>3, <4>1, AfterReviewIs
        <5> QED
          BY <1>0, <1>3, <1>4, <2>1, <3>3, <4>1, <5>1 DEF Answers
      <4>2. CASE Op(q) = "resolve"
        <5>1. \/ pc'[q] = "mute"
              \/ pc'[q] = "close" /\ arg[q].value = "reject"
          BY <1>0, <2>2, <3>3, <4>2, AfterReviewIs
        <5>2. Backed(q)'
          BY <1>0, <1>1, <2>1, <2>2, <3>3, <4>2, <5>1 DEF Backed
        <5> QED
          BY <1>0, <1>3, <2>1, <3>3, <5>2
      <4> QED
        BY <2>2, <4>1, <4>2
    <3> QED
      BY <3>1, <3>2, <3>3
  <2> QED
    BY <1>6, <2>3, <2>4 DEF ReviewStep
<1>7. ASSUME NEW q \in Calls, ReportStep(q) PROVE \A p \in Calls : Backed(p)'
  <2>0. Op(q) = "report"
    BY <1>7 DEF ReportStep
  <2>1. CASE CheckReporter(q)
    BY <1>0, <1>3, <1>4, <2>0, <2>1 DEF CheckReporter, Goto, modVars
  <2>2. CASE FindReported(q)
    BY <1>0, <1>1, <1>3, <2>0, <2>2 DEF FindReported, Goto, modVars, Backed
  <2>3. CASE FindDuplicate(q)
    BY <1>0, <1>1, <1>3, <2>0, <2>3 DEF FindDuplicate, Goto, modVars, Backed
  <2>4. CASE CreateReport(q)
    <3>1. status[arg[q].danmaku] # "none"
      BY <1>1, <2>4, CreateCases DEF Backed
    <3>2. pc'[q] \in Answers /\ \A p \in Calls \ {q} : pc'[p] = pc[p] /\ reports'[p] = reports[p]
      BY <1>0, <2>4, CreateCases
    <3>3. Backed(q)'
      BY <1>0, <1>1, <2>0, <3>1, <3>2 DEF Backed, Answers
    <3> QED
      BY <1>3, <3>2, <3>3
  <2> QED
    BY <1>7, <2>1, <2>2, <2>3, <2>4 DEF ReportStep
<1>8. ASSUME NEW q \in Calls, ModeratorStep(q) PROVE \A p \in Calls : Backed(p)'
  <2>1. CASE Route(q)
    <3>1. /\ reports' = reports
          /\ \/ \E p \in {"error", "findReport", "find", "unmute"} : pc' = [pc EXCEPT ![q] = p]
             \/ pc' = [pc EXCEPT ![q] = "mute"]
          /\ Op(q) = "resolve" => \E p \in {"error", "findReport"} : pc' = [pc EXCEPT ![q] = p]
      BY <2>1 DEF Route, RequireRole, ModeratorOps, Goto, modVars
    <3>2. Backed(q)'
      BY <1>0, <1>1, <3>1 DEF Backed, Answers
    <3> QED
      BY <1>0, <1>3, <3>1, <3>2
  <2>2. CASE FindReport(q)
    <3>1. /\ reports' = reports
          /\ \/ pc' = [pc EXCEPT ![q] = "error"]
             \/ /\ reports[arg[q].report] # "none"
                /\ \/ pc' = [pc EXCEPT ![q] = "close"] /\ arg[q].value = "dismiss"
                   \/ pc' = [pc EXCEPT ![q] = "find"]
                   \/ pc' = [pc EXCEPT ![q] = "banTarget"]
      BY <2>2 DEF FindReport, Goto, modVars
    <3> QED
      BY <1>0, <1>1, <1>3, <3>1 DEF Backed, Answers
  <2>3. CASE BanTarget(q)
    <3>1. reports' = reports /\ \E p \in {"error", "banAuthor"} : pc' = [pc EXCEPT ![q] = p]
      BY <2>3 DEF BanTarget, Goto, modVars
    <3>2. Op(q) = "resolve" /\ reports[arg[q].report] # "none"
      BY <1>1, <2>3 DEF BanTarget, Backed, PathInv, Answers
    <3> QED
      BY <1>0, <1>1, <1>3, <1>4, <3>1, <3>2
  <2>4. CASE BanAuthor(q)
    <3>1. /\ reports' = reports
          /\ \/ pc' = [pc EXCEPT ![q] = "error"]
             \/ pc' = [pc EXCEPT ![q] = "close"] /\ <<"ban", Author[Subject(q)]>> \in held'
      BY <2>4 DEF BanAuthor, Goto, modVars
    <3>2. Op(q) = "resolve" /\ reports[arg[q].report] # "none" /\ arg[q].value = "ban"
      BY <1>1, <2>4 DEF BanAuthor, Backed, PathInv, Answers
    <3> QED
      BY <1>0, <1>1, <1>3, <3>1, <3>2 DEF Backed, Answers
  <2>5. CASE CloseReport(q)
    <3>1. Op(q) = "resolve" /\ reports[arg[q].report] # "none"
      BY <1>1, <2>5 DEF CloseReport, Backed, PathInv, Answers
    <3>2. pc'[q] \in Answers /\ \A p \in Calls \ {q} : pc'[p] = pc[p]
      BY <1>0, <2>5, CloseCases
    <3>3. \A p \in Calls : reports'[p] # "none" => reports[p] # "none"
      BY <1>0, <2>5, <3>1, CloseCases
    <3> QED
      BY <1>3, <1>4, <3>2, <3>3 DEF Answers
  <2>6. CASE MuteUser(q)
    <3>1. /\ reports' = reports
          /\ \/ pc' = [pc EXCEPT ![q] = "error"]
             \/ pc' = [pc EXCEPT ![q] = "ok"]
             \/ /\ pc' = [pc EXCEPT ![q] = "close"] /\ Op(q) = "resolve"
                /\ <<"mute", Muted(q)>> \in held'
      BY <2>6 DEF MuteUser, Goto, modVars
    <3>2. Op(q) = "resolve" => /\ reports[arg[q].report] # "none" /\ arg[q].value = "mute"
                               /\ <<"reject", Subject(q)>> \in held
      BY <1>1, <2>6 DEF MuteUser, Backed, PathInv, Answers
    <3> QED
      BY <1>0, <1>1, <1>3, <3>1, <3>2 DEF Backed, Answers
  <2>7. CASE UnmuteUser(q)
    <3>1. reports' = reports /\ \E p \in Answers : pc' = [pc EXCEPT ![q] = p]
      BY <2>7 DEF UnmuteUser, Goto, modVars, Answers
    <3> QED
      BY <1>0, <1>3, <1>4, <3>1 DEF Answers
  <2> QED
    BY <1>8, <2>1, <2>2, <2>3, <2>4, <2>5, <2>6, <2>7 DEF ModeratorStep
<1>9. ASSUME NEW q \in Calls, ReadFails(q) PROVE \A p \in Calls : Backed(p)'
  BY <1>0, <1>3, <1>4, <1>9 DEF ReadFails, Goto, modVars, Answers
<1>10. ASSUME NEW u \in Users \cup {NoUser}, NEW room \in Rooms, MuteExpires(u, room) PROVE \A p \in Calls : Backed(p)'
  BY <1>3, <1>10 DEF MuteExpires, adminVars
<1>11. CASE UNCHANGED vars
  BY <1>2, <1>3, <1>11 DEF vars, adminVars, modVars, ReportInv
<1> QED
  BY <1>2, <1>5, <1>6, <1>7, <1>8, <1>9, <1>10, <1>11 DEF Next, ReportInv

\* A report is resolved with what it claims.
LEMMA ReportsNext ==
    ASSUME TypeOK, PathInv, ReportInv, ResolvedIsBacked, [Next]_vars
    PROVE  ResolvedIsBacked'
<1>0. /\ reports \in [Calls -> ReportStates] /\ arg' = arg /\ held \subseteq held'
      /\ closedBy \in [Calls -> {"none", "dismiss", "reject", "mute", "ban"}]
      /\ \A q \in Calls : arg[q].report \in Calls
  BY ArgsStay, ReportsFrame, RequestFields DEF TypeOK
<1> DEFINE Claim(q) ==
        /\ closedBy[q] \in {"reject", "mute", "ban"}
        /\ closedBy[q] \in {"reject", "mute"} => <<"reject", arg[q].danmaku>> \in held
        /\ closedBy[q] = "mute" => <<"mute", <<Author[arg[q].danmaku], arg[q].room>>>> \in held
        /\ closedBy[q] = "ban" => <<"ban", Author[arg[q].danmaku]>> \in held
<1>1. ResolvedIsBacked <=> \A q \in Calls : reports[q] = "resolved" => Claim(q)
  BY <1>0 DEF ResolvedIsBacked
<1>2. (\A q \in Calls : reports'[q] = "resolved" => Claim(q)') => ResolvedIsBacked'
  BY <1>0 DEF ResolvedIsBacked
<1>3. CASE UNCHANGED <<reports, closedBy>>
  <2>1. \A q \in Calls : reports'[q] = "resolved" => Claim(q)'
    BY <1>0, <1>1, <1>3
  <2> QED
    BY <1>2, <2>1
<1>4. ASSUME NEW q \in Calls, CreateReport(q) PROVE ResolvedIsBacked'
  <2>2. \A p \in Calls : reports'[p] = "resolved" => reports[p] = "resolved" /\ closedBy'[p] = closedBy[p]
    BY <1>0, <1>4, CreateCases
  <2>3. \A p \in Calls : reports'[p] = "resolved" => Claim(p)'
    BY <1>0, <1>1, <2>2
  <2> QED
    BY <1>2, <2>3
<1>5. ASSUME NEW q \in Calls, CloseReport(q) PROVE ResolvedIsBacked'
  <2>1. /\ pc[q] = "close" /\ Op(q) = "resolve" /\ reports[arg[q].report] # "none"
        /\ arg[q].value \in {"dismiss", "reject", "mute", "ban"} /\ Backed(q)
    BY <1>5 DEF CloseReport, PathInv, ReportInv, Backed, Answers
  <2>3. CASE UNCHANGED <<reports, closedBy>>
    BY <1>3, <2>3
  <2>4. CASE /\ reports' = [reports EXCEPT ![arg[q].report] =
                               IF arg[q].value = "dismiss" THEN "dismissed" ELSE "resolved"]
             /\ closedBy' = [closedBy EXCEPT ![arg[q].report] = arg[q].value]
    <3>1. ASSUME NEW p \in Calls, p # arg[q].report, reports'[p] = "resolved" PROVE Claim(p)'
      BY <1>0, <1>1, <2>4, <3>1
    <3>2. ASSUME NEW p \in Calls, p = arg[q].report, reports'[p] = "resolved" PROVE Claim(p)'
      <4>1. /\ Subject(q) = arg[p].danmaku
            /\ Muted(q) = <<Author[arg[p].danmaku], arg[p].room>>
        BY <2>1, <3>2 DEF Subject, Muted
      <4>2. closedBy'[p] = arg[q].value /\ arg[q].value # "dismiss"
        BY <1>0, <2>4, <3>2
      <4> QED
        BY <1>0, <2>1, <4>1, <4>2 DEF Backed
    <3> QED
      BY <1>2, <3>1, <3>2
  <2> QED
    BY <1>5, <2>3, <2>4, CloseCases
<1> QED
  BY <1>3, <1>4, <1>5, ReportsFrame

\* How the tables of bans and mutes, and with them the history of the sends
\* under way, may change: a sanction that is lifted is lifted there too.
LEMMA SanctionsFrame ==
    ASSUME TypeOK, PathInv, [Next]_vars
    PROVE  \/ \E q \in Calls : Begin(q)
           \/ barred' = barred /\ banned \subseteq banned' /\ mutes \subseteq mutes'
           \/ \E u \in Users \cup {NoUser}, room \in Rooms :
                 /\ banned' = banned \ {u} /\ mutes' = mutes /\ barred' = Lifted("ban", u, room)
           \/ \E u \in Users \cup {NoUser}, room \in Rooms :
                 /\ banned' = banned /\ mutes' = mutes \ {<<u, room>>} /\ barred' = Lifted("mute", u, room)
<1> USE DEF adminState, adminVars, modVars
<1> DEFINE G == \/ \E q \in Calls : Begin(q)
                \/ barred' = barred /\ banned \subseteq banned' /\ mutes \subseteq mutes'
                \/ \E u \in Users \cup {NoUser}, room \in Rooms :
                      /\ banned' = banned \ {u} /\ mutes' = mutes /\ barred' = Lifted("ban", u, room)
                \/ \E u \in Users \cup {NoUser}, room \in Rooms :
                      /\ banned' = banned /\ mutes' = mutes \ {<<u, room>>} /\ barred' = Lifted("mute", u, room)
<1>1. ASSUME NEW q \in Calls, Administer(q) PROVE G
  <2>1. \/ UNCHANGED banned
        \/ pc[q] = "apply" /\ UpdateBan(q)
    BY <1>1 DEF Administer, AdminStep, RequireRole, CheckActor, CheckTarget, CheckOthers, Apply, LookupFails,
       ApplyOk, ApplyLost, ApplyFailed
  <2>2. /\ Op(q) = "unban" => banned' = banned \/ (pc[q] = "apply" /\ banned' = banned \ {arg[q].target})
        /\ Op(q) # "unban" => banned \subseteq banned'
    BY <2>1 DEF UpdateBan
  <2>3. /\ mutes' = mutes /\ arg[q].target \in Users \cup {NoUser} /\ arg[q].room \in Rooms
        /\ barred' = IF Op(q) = "unban" /\ pc[q] = "apply" /\ arg[q].target \in banned \ banned'
                     THEN Lifted("ban", arg[q].target, arg[q].room) ELSE barred
    BY <1>1, RequestFields DEF Administer, TypeOK
  <2>4. CASE Op(q) = "unban" /\ pc[q] = "apply" /\ arg[q].target \in banned \ banned'
    BY <2>2, <2>3, <2>4
  <2>5. CASE ~(Op(q) = "unban" /\ pc[q] = "apply" /\ arg[q].target \in banned \ banned')
    BY <2>2, <2>3, <2>5
  <2> QED
    BY <2>4, <2>5
<1>2. ASSUME NEW q \in Calls, SendStep(q) PROVE G
  BY <1>2 DEF SendStep, CheckUserBan, CheckMute, Check, CheckContent, PersistDanmaku, Broadcast
<1>3. ASSUME NEW q \in Calls, ReviewStep(q) \/ ReportStep(q) \/ ReadFails(q) PROVE G
  BY <1>3 DEF ReviewStep, FindDanmaku, UpdateStatus, Notify, ReportStep, CheckReporter, FindReported,
     FindDuplicate, CreateReport, ReadFails
<1>4. ASSUME NEW q \in Calls, ModeratorStep(q) PROVE G
  <2>1. CASE Route(q) \/ FindReport(q) \/ BanTarget(q) \/ CloseReport(q)
    BY <2>1 DEF Route, RequireRole, FindReport, BanTarget, CloseReport
  <2>2. CASE BanAuthor(q) \/ MuteUser(q)
    BY <2>2 DEF BanAuthor, MuteUser
  <2>3. CASE UnmuteUser(q)
    <3>1. Muted(q) = <<arg[q].target, arg[q].room>>
      BY <2>3 DEF UnmuteUser, PathInv, Muted
    <3>2. arg[q].target \in Users \cup {NoUser} /\ arg[q].room \in Rooms
      BY RequestFields DEF TypeOK
    <3>3. /\ banned' = banned
          /\ \/ mutes' = mutes /\ barred' = barred
             \/ mutes' = mutes \ {Muted(q)} /\ barred' = Lifted("mute", arg[q].target, arg[q].room)
      BY <2>3 DEF UnmuteUser
    <3> QED
      BY <3>1, <3>2, <3>3
  <2> QED
    BY <1>4, <2>1, <2>2, <2>3 DEF ModeratorStep
<1>5. ASSUME NEW u \in Users \cup {NoUser}, NEW room \in Rooms, MuteExpires(u, room) PROVE G
  BY <1>5 DEF MuteExpires
<1>6. CASE UNCHANGED vars
  BY <1>6 DEF vars
<1> QED
  BY <1>1, <1>2, <1>3, <1>4, <1>5, <1>6 DEF Next

\* The history of a send names sanctions that are in force, and only a new
\* send adds to it.
LEMMA BarredIsInForce ==
    ASSUME TypeOK, PathInv, BarredInv, [Next]_vars
    PROVE  \A q \in Calls : /\ barred'[q] \subseteq InForce(arg[q].actor, arg[q].room)'
                            /\ Begin(q) \/ barred'[q] \subseteq barred[q]
<1>0. /\ arg' = arg /\ barred \in [Calls -> SUBSET {"ban", "mute"}]
      /\ \A q \in Calls : barred[q] \subseteq InForce(arg[q].actor, arg[q].room)
  BY ArgsStay DEF TypeOK, BarredInv
<1> DEFINE G == \A q \in Calls : /\ barred'[q] \subseteq InForce(arg[q].actor, arg[q].room)'
                                 /\ Begin(q) \/ barred'[q] \subseteq barred[q]
<1>1. ASSUME NEW q \in Calls, Begin(q) PROVE G
  <2>1. UNCHANGED <<banned, mutes>>
    BY <1>1 DEF Begin, adminState
  <2>2. \/ barred' = [barred EXCEPT ![q] = {}]
        \/ barred' = [barred EXCEPT ![q] = InForce(arg[q].actor, arg[q].room)]
    BY <1>1 DEF Begin
  <2>3. \A u, room : InForce(u, room)' = InForce(u, room)
    BY <2>1 DEF InForce
  <2> QED
    BY <1>0, <1>1, <2>2, <2>3
<1>2. CASE barred' = barred /\ banned \subseteq banned' /\ mutes \subseteq mutes'
  BY <1>0, <1>2 DEF InForce
<1>3. ASSUME NEW u, NEW room, banned' = banned \ {u}, mutes' = mutes, barred' = Lifted("ban", u, room) PROVE G
  BY <1>0, <1>3 DEF InForce, Lifted
<1>4. ASSUME NEW u, NEW room, banned' = banned, mutes' = mutes \ {<<u, room>>}, barred' = Lifted("mute", u, room)
      PROVE G
  <2>1. ASSUME NEW q \in Calls PROVE barred'[q] \subseteq InForce(arg[q].actor, arg[q].room)'
    <3>1. CASE arg[q].actor = u /\ arg[q].room = room
      <4>1. barred'[q] = barred[q] \ {"mute"}
        BY <1>0, <1>4, <3>1 DEF Lifted
      <4> QED
        BY <1>0, <1>4, <4>1 DEF InForce
    <3>2. CASE ~(arg[q].actor = u /\ arg[q].room = room)
      <4>1. barred'[q] = barred[q]
        BY <1>0, <1>4, <3>2 DEF Lifted
      <4>2. <<arg[q].actor, arg[q].room>> \in mutes => <<arg[q].actor, arg[q].room>> \in mutes'
        BY <1>4, <3>2
      <4> QED
        BY <1>0, <1>4, <4>1, <4>2 DEF InForce
    <3> QED
      BY <3>1, <3>2
  <2>2. \A q \in Calls : barred'[q] \subseteq barred[q]
    BY <1>0, <1>4 DEF Lifted
  <2> QED
    BY <2>1, <2>2
<1> QED
  BY <1>1, <1>2, <1>3, <1>4, SanctionsFrame

\* A sanction in force during the whole of a send stops it at its check, or
\* the check was passed over.
LEMMA BarredNext ==
    TypeOK /\ PathInv /\ BarredInv /\ BarredCannotSend /\ [Next]_vars => BarredInv' /\ BarredCannotSend'
<1> SUFFICES ASSUME TypeOK, PathInv, BarredInv, BarredCannotSend, [Next]_vars
             PROVE  BarredInv' /\ BarredCannotSend'
  OBVIOUS
<1>0. /\ pc \in [Calls -> Points] /\ arg' = arg /\ \A q \in Calls : Op(q)' = Op(q)
      /\ \A q \in Calls : barred'[q] \subseteq InForce(arg[q].actor, arg[q].room)'
      /\ \A q \in Calls : Begin(q) \/ barred'[q] \subseteq barred[q]
      /\ barred \in [Calls -> SUBSET {"ban", "mute"}]
  BY ArgsStay, BarredIsInForce DEF TypeOK
<1> DEFINE Passed(q) ==
        /\ pc[q] = "checkMute" /\ "ban" \in barred[q] => ~FailClosed /\ q \in skipped
        /\ pc[q] = "content" /\ barred[q] # {} => ~FailClosed /\ q \in skipped
        /\ Op(q) = "send" /\ pc[q] \in {"persist", "persistFlagged", "broadcast", "ok"} /\ barred[q] # {}
              => ~FailClosed /\ q \in skipped
<1>1. \A q \in Calls : Passed(q) /\ barred[q] \subseteq InForce(arg[q].actor, arg[q].room)
  BY DEF BarredInv, BarredCannotSend
<1>2. (\A q \in Calls : Passed(q)') => BarredInv' /\ BarredCannotSend'
  BY <1>0 DEF BarredInv, BarredCannotSend
\* A call that does not move.
<1>3. ASSUME NEW p \in Calls, pc'[p] = pc[p], skipped' = skipped PROVE Passed(p)'
  <2>1. ~Begin(p)
    BY <1>0, <1>3, BeginCases
  <2> QED
    BY <1>0, <1>1, <1>3, <2>1
<1>4. ASSUME NEW q \in Calls, CheckUserBan(q) PROVE \A p \in Calls : Passed(p)'
  <2>1. /\ pc[q] = "checkBan" /\ barred' = barred /\ skipped \subseteq skipped'
        /\ \/ pc' = [pc EXCEPT ![q] = "error"]
           \/ arg[q].actor \notin banned /\ pc' = [pc EXCEPT ![q] = "checkMute"]
           \/ ~FailClosed /\ pc' = [pc EXCEPT ![q] = "checkMute"] /\ q \in skipped'
    BY <1>4 DEF CheckUserBan, Check, Goto
  <2>2. "ban" \in barred[q] => arg[q].actor \in banned
    BY <1>1 DEF InForce
  <2>3. ~Begin(q)
    BY <2>1 DEF Begin
  <2>4. \A p \in Calls \ {q} : Passed(p)'
    BY <1>0, <1>1, <2>1
  <2> QED
    BY <1>0, <2>1, <2>2, <2>4
<1>5. ASSUME NEW q \in Calls, CheckMute(q) PROVE \A p \in Calls : Passed(p)'
  <2>1. /\ pc[q] = "checkMute" /\ barred' = barred /\ skipped \subseteq skipped'
        /\ \/ pc' = [pc EXCEPT ![q] = "error"]
           \/ <<arg[q].actor, arg[q].room>> \notin mutes /\ pc' = [pc EXCEPT ![q] = "content"]
           \/ ~FailClosed /\ pc' = [pc EXCEPT ![q] = "content"] /\ q \in skipped'
    BY <1>5 DEF CheckMute, Check, Goto
  <2>2. "mute" \in barred[q] => <<arg[q].actor, arg[q].room>> \in mutes
    BY <1>1 DEF InForce
  <2>3. barred[q] # {} => "ban" \in barred[q] \/ "mute" \in barred[q]
    BY <1>0
  <2>4. \A p \in Calls \ {q} : Passed(p)'
    BY <1>0, <1>1, <2>1
  <2> QED
    BY <1>0, <1>1, <2>1, <2>2, <2>3, <2>4
<1>6. ASSUME NEW q \in Calls, CheckContent(q) PROVE \A p \in Calls : Passed(p)'
  <2>1. /\ pc[q] = "content" /\ barred' = barred /\ skipped' = skipped
        /\ \E p \in {"error", "persistFlagged", "persist"} : pc' = [pc EXCEPT ![q] = p]
    BY <1>6 DEF CheckContent, Goto, modVars
  <2> QED
    BY <1>0, <1>1, <2>1
<1>7. ASSUME NEW q \in Calls, Op(q) = "send", PersistDanmaku(q) \/ Broadcast(q) PROVE \A p \in Calls : Passed(p)'
  <2>1. /\ pc[q] \in {"persist", "persistFlagged", "broadcast"} /\ barred' = barred /\ skipped' = skipped
        /\ \E p \in {"error", "ok", "broadcast"} : pc' = [pc EXCEPT ![q] = p]
    BY <1>7, PersistCases DEF Broadcast, Goto
  <2> QED
    BY <1>0, <1>1, <1>7, <2>1
\* A call that is not a send, or begins or fails.
<1>8. ASSUME NEW q \in Calls, NEW pt, skipped' = skipped, pc' = [pc EXCEPT ![q] = pt],
             pt \notin {"checkMute", "content"},
             Op(q) = "send" => pt \in {"checkBan", "error"}
      PROVE  \A p \in Calls : Passed(p)'
  BY <1>0, <1>3, <1>8
<1>9. ASSUME NEW q \in Calls, Begin(q) \/ Administer(q) \/ ReadFails(q) PROVE \A p \in Calls : Passed(p)'
  <2>1. skipped' = skipped
    BY <1>9, BeginCases, AdminFrame DEF ReadFails, modVars
  <2>2. \E pt \in {"checkBan", "checkReporter", "route", "actor", "target", "others", "apply", "ok", "error"} :
           /\ pc' = [pc EXCEPT ![q] = pt]
           /\ Op(q) = "send" => pt \in {"checkBan", "error"}
    BY <1>9, BeginCases, AdminFrame DEF ReadFails, Goto, AdminOps
  <2> QED
    BY <1>8, <2>1, <2>2
<1>10. ASSUME NEW q \in Calls, ReviewStep(q) PROVE \A p \in Calls : Passed(p)'
  <2>1. skipped' = skipped /\ Op(q) # "send"
    BY <1>10 DEF ReviewStep, FindDanmaku, UpdateStatus, Notify
  <2>2. \E pt \in {"update", "notify", "ok", "mute", "close", "error"} : pc' = [pc EXCEPT ![q] = pt]
    BY <1>10, FindDanmakuCases, UpdateCases, AfterReviewIs DEF ReviewStep, Notify, Goto
  <2> QED
    BY <1>8, <2>1, <2>2
<1>11. ASSUME NEW q \in Calls, ReportStep(q) PROVE \A p \in Calls : Passed(p)'
  <2>1. skipped' = skipped /\ Op(q) # "send"
    BY <1>11 DEF ReportStep, CheckReporter, FindReported, FindDuplicate, CreateReport, modVars
  <2>2. \E pt \in {"findReported", "findDuplicate", "create", "ok", "error"} : pc' = [pc EXCEPT ![q] = pt]
    BY <1>11 DEF ReportStep, CheckReporter, FindReported, FindDuplicate, CreateReport, Goto
  <2> QED
    BY <1>8, <2>1, <2>2
<1>12. ASSUME NEW q \in Calls, ModeratorStep(q) PROVE \A p \in Calls : Passed(p)'
  <2>1. skipped' = skipped /\ Op(q) # "send"
    BY <1>12 DEF ModeratorStep, Route, FindReport, BanTarget, BanAuthor, CloseReport, MuteUser, UnmuteUser,
       ModeratorOps, PathInv, modVars
  <2>2. \E pt \in {"find", "findReport", "mute", "unmute", "close", "banTarget", "banAuthor", "ok", "error"} :
           pc' = [pc EXCEPT ![q] = pt]
    <3>1. CASE Route(q)
      BY <3>1 DEF Route, RequireRole, ModeratorOps, Goto
    <3>2. CASE ~Route(q)
      BY <1>12, <3>2 DEF ModeratorStep, FindReport, BanTarget, BanAuthor, CloseReport, MuteUser, UnmuteUser, Goto
    <3> QED
      BY <3>1, <3>2
  <2> QED
    BY <1>8, <2>1, <2>2
<1>13. ASSUME NEW u \in Users \cup {NoUser}, NEW room \in Rooms, MuteExpires(u, room) PROVE \A p \in Calls : Passed(p)'
  BY <1>3, <1>13 DEF MuteExpires, adminVars
<1>14. CASE UNCHANGED vars
  BY <1>2, <1>3, <1>14 DEF vars, adminVars, modVars
<1> QED
  BY <1>2, <1>4, <1>5, <1>6, <1>7, <1>9, <1>10, <1>11, <1>12, <1>13, <1>14 DEF Next, SendStep

-----------------------------------------------------------------------------
(* The theorems.                                                           *)

\* The inductive invariant holds in every behaviour.
THEOREM ModerationInvariant == Spec => []ModerationInv
<1>1. ModerationInv /\ [Next]_vars => ModerationInv'
  <2> SUFFICES ASSUME ModerationInv, [Next]_vars PROVE ModerationInv'
    OBVIOUS
  <2> USE DEF ModerationInv
  <2>1. TypeOK' /\ PathInv'
    BY ModerationTypes, PathNext
  <2>2. AdminInv' /\ SendInv'
    BY AdminNext, SendNext
  <2>3. ScreenInv' /\ ScreenFollowsStatus'
    BY ScreenNext
  <2>4. ReportInv' /\ ResolvedIsBacked'
    BY ReportNext, ReportsNext
  <2>5. BarredInv' /\ BarredCannotSend'
    BY BarredNext
  <2> QED
    BY <2>1, <2>2, <2>3, <2>4, <2>5
<1> QED
  BY <1>1, ModerationInit, PTL DEF Spec

\* As long as no two role changes overlap, SetUserRole leaves the site an
\* administrator.
THEOREM SiteKeepsAdmin == Spec => []AdminRemains
<1>1. ModerationInv => AdminRemains
  BY DEF ModerationInv, AdminInv, AdminRemains
<1> QED
  BY <1>1, ModerationInvariant, PTL

\* When nobody decides on a danmaku, the room shows it exactly when it is
\* approved, unless reviews overlapped or a write was lost.
THEOREM ScreenMatchesTable == Spec => []ScreenFollowsStatus
<1>1. ModerationInv => ScreenFollowsStatus
  BY DEF ModerationInv
<1> QED
  BY <1>1, ModerationInvariant, PTL

\* A resolved report has the rejection, the mute or the ban it was resolved
\* with behind it, whatever fails and whoever else decides.
THEOREM ResolutionsAreBacked == Spec => []ResolvedIsBacked
<1>1. ModerationInv => ResolvedIsBacked
  BY DEF ModerationInv
<1> QED
  BY <1>1, ModerationInvariant, PTL

\* A ban or a mute in force during the whole of a send stops it, unless its
\* lookup failed and the service is configured to pass over that.
THEOREM SanctionsHold == Spec => []BarredCannotSend
<1>1. ModerationInv => BarredCannotSend
  BY DEF ModerationInv
<1> QED
  BY <1>1, ModerationInvariant, PTL

\* A review tells the room nothing that it was told last already, as long as
\* reviews of the danmaku do not overlap and no write on it takes effect in
\* spite of an error; overlapping ones do notify twice.
THEOREM NoticesAreNew == Spec => NoRepeatedNotice
<1>1. ASSUME ModerationInv, NEW q \in Calls, pc[q] = "notify", Subject(q) \notin raced \cup lost
      PROVE  TellsNews(q)
  <2>1. Subject(q) \in Danmakus \ (raced \cup lost) /\ NewStatus(q) \in {"approved", "rejected"}
    BY <1>1, RequestFields DEF ModerationInv, TypeOK, PathInv
  <2>2. Deciding(q, Subject(q))
    BY <1>1 DEF Deciding
  <2>3. DecidedInTurn(Subject(q))
    BY <1>1, <2>1 DEF ModerationInv, ScreenInv
  <2>4. /\ read[q] = "approved" <=> screen[Subject(q)] = "shown"
        /\ read[q] \in {"none", "pending", "flagged"} => screen[Subject(q)] = "absent"
        /\ NewStatus(q) \in Transitions(read[q])
    BY <1>1, <2>2, <2>3 DEF DecidedInTurn, Undecided
  <2>5. \/ read[q] \in {"flagged", "pending"}
        \/ read[q] = "approved" /\ NewStatus(q) = "rejected"
        \/ read[q] = "rejected" /\ NewStatus(q) = "approved"
    BY <2>4 DEF Transitions
  <2> QED
    BY <2>1, <2>4, <2>5 DEF TellsNews
<1>2. ModerationInv /\ [Next]_vars => [NoticeIsNew]_vars
  BY <1>1 DEF NoticeIsNew
<1> QED
  BY <1>2, ModerationInvariant, PTL DEF Spec, NoRepeatedNotice

=============================================================================
