----------------------------- MODULE AdminRoles -----------------------------
(***************************************************************************)
(* AdminService over the users table, behind the RequireRole middleware.   *)
(* A call is one HTTP request; pc[q] is its program point, and every       *)
(* access to the table is a step of its own, so that calls interleave      *)
(* between the check of a role and the update that relies on it.           *)
(*                                                                         *)
(* A final program point is the answer of the call.  The audit log is      *)
(* written last and read by no decision, so of it only the error is kept:  *)
(* it makes a call fail whose effect is in the table ("lost").             *)
(***************************************************************************)
EXTENDS Naturals

CONSTANTS
    Users,        \* ids of registered users; nothing deletes one
    NoUser,       \* an id that no user has
    Calls,        \* the HTTP requests
    Inputs,       \* what a request may ask for, records with a field op
    InitialRole   \* the roles the administrators of the site began with

Roles    == {"user", "moderator", "admin"}
AdminOps == {"ban", "unban", "setRole"}
Answers  == {"ok", "error"}

\* A write succeeds, fails, or fails after it took effect.
Outcomes == {"ok", "failed", "lost"}

ASSUME RolesAssumption ==
    /\ NoUser \notin Users
    /\ InitialRole \in [Users -> Roles]
    /\ \E u \in Users : InitialRole[u] = "admin"

VARIABLES
    pc,          \* program point of each call
    arg,         \* the request of each call
    role,        \* users.role
    banned,      \* the users with users.banned set
    user_role,   \* the role RequireRole read and put into the request context
    overlapped   \* history: two role changes were past their first look at
                 \* the target at the same time

adminState == <<arg, role, banned, user_role, overlapped>>
adminVars  == <<pc, adminState>>

Op(q)      == arg[q].op
Goto(q, p) == pc' = [pc EXCEPT ![q] = p]

AdminInit ==
    /\ pc = [q \in Calls |-> "idle"]
    /\ arg \in [Calls -> Inputs]
    /\ role = InitialRole
    /\ banned = {}
    /\ user_role = [q \in Calls |-> "user"]
    /\ overlapped = FALSE

-----------------------------------------------------------------------------
(* Middleware.                                                             *)

\* The middleware reads the role from the table, not from the token, and
\* leaves it in the context of the request.  A lookup that fails refuses.
RequireRole(q, allowed, next) ==
    LET current == role[arg[q].actor] IN
    /\ pc[q] = "route"
    /\ \/ /\ current \in allowed
          /\ Goto(q, next)
          /\ user_role' = [user_role EXCEPT ![q] = current]
       \/ /\ Goto(q, "error")
          /\ UNCHANGED user_role
    /\ UNCHANGED <<arg, role, banned, overlapped>>

-----------------------------------------------------------------------------
(* AdminService.                                                           *)

Self(q) == arg[q].actor = arg[q].target

\* Requests that are turned down before any lookup.
Malformed(q) == \/ Op(q) = "ban" /\ Self(q)
                \/ Op(q) = "setRole" /\ arg[q].value \notin Roles

\* First look: the actor is still an administrator, and does not act on
\* himself except to lift his own ban.
CheckActor(q) ==
    /\ pc[q] = "actor"
    /\ Goto(q, IF Malformed(q) \/ role[arg[q].actor] # "admin" \/ (Self(q) /\ Op(q) # "unban")
               THEN "error"
               ELSE IF Self(q) THEN "apply" ELSE "target")
    /\ UNCHANGED adminState

\* Second look, at the target.  An unknown target is an error, or nothing to
\* do for an unban by somebody who still is an administrator: users are not
\* deleted or created meanwhile, so an unknown target is unknown at the time of
\* that last look at the actor, which is the step.
AfterTarget(q) ==
    LET t == arg[q].target IN
    IF t = NoUser
    THEN IF Op(q) = "unban" /\ role[arg[q].actor] = "admin" THEN "apply" ELSE "error"
    ELSE IF role[t] # "admin" THEN "apply"
    ELSE IF Op(q) # "setRole" THEN "error"
    ELSE IF arg[q].value = "admin" THEN "apply" ELSE "others"

\* Role changes between the look at the target and the update.
ChangingRole(q) == Op(q) = "setRole" /\ pc[q] \in {"others", "apply"}

CheckTarget(q) ==
    /\ pc[q] = "target"
    /\ Goto(q, AfterTarget(q))
    /\ overlapped' = (overlapped \/ (Op(q) = "setRole"
                                     /\ \E p \in Calls \ {q} : ChangingRole(p)))
    /\ UNCHANGED <<arg, role, banned, user_role>>

\* Mutant: the target counts as another administrator.
CheckOthersAll(q) ==
    /\ pc[q] = "others"
    /\ Goto(q, IF \E u \in Users : role[u] = "admin" THEN "apply" ELSE "error")
    /\ UNCHANGED adminState

\* Third look, before an administrator is demoted: is there another one?
CheckOthers(q) ==
    /\ pc[q] = "others"
    /\ Goto(q, IF \E u \in Users \ {arg[q].target} : role[u] = "admin"
               THEN "apply" ELSE "error")
    /\ UNCHANGED adminState

\* The three updates of the table, each one statement.  An unknown id matches
\* no row.
UpdateRole(q) ==
    role' = IF Op(q) = "setRole" THEN [role EXCEPT ![arg[q].target] = arg[q].value] ELSE role

UpdateBan(q) ==
    banned' = CASE Op(q) = "ban"   -> banned \cup {arg[q].target}
                [] Op(q) = "unban" -> banned \ {arg[q].target}
                [] OTHER           -> banned

ApplyOk(q)     == UpdateRole(q) /\ UpdateBan(q) /\ Goto(q, "ok")
ApplyLost(q)   == UpdateRole(q) /\ UpdateBan(q) /\ Goto(q, "error")
ApplyFailed(q) == Goto(q, "error") /\ UNCHANGED <<role, banned>>

Apply(q) ==
    /\ pc[q] = "apply"
    /\ ApplyOk(q) \/ ApplyLost(q) \/ ApplyFailed(q)
    /\ UNCHANGED <<arg, user_role, overlapped>>

\* A lookup fails: every caller of the store returns the error.
LookupFails(q) ==
    /\ pc[q] \in {"actor", "target", "others"}
    /\ ~Malformed(q)
    /\ Goto(q, "error")
    /\ UNCHANGED adminState

AdminStep(q) ==
    /\ Op(q) \in AdminOps
    /\ \/ RequireRole(q, {"admin"}, "actor")
       \/ CheckActor(q)
       \/ CheckTarget(q)
       \/ CheckOthers(q)
       \/ Apply(q)
       \/ LookupFails(q)

-----------------------------------------------------------------------------
(* Property.                                                               *)

\* The site keeps an administrator as long as no two role changes overlap:
\* the check of hasOtherAdmin and the update of SetUserRole are not atomic,
\* so two administrators who demote each other at the same moment pass it
\* both.  The window begins where the target is read, because a target that
\* is promoted after that is demoted without the check.
AdminRemains == ~overlapped => \E u \in Users : role[u] = "admin"

=============================================================================
