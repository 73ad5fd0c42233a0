----------------------------- MODULE Moderation -----------------------------
(***************************************************************************)
(* What administrators do to users: BanUser, UnbanUser and UpdateUserRole  *)
(* (admin_controller.go), ResolveReport (moderation_controller.go), the    *)
(* reports (report_controller.go) and the comments (comment_controller.go) *)
(* they are about.  All of them are requests of Session.                   *)
(*                                                                         *)
(* The handlers of admin_controller.go read their target and then write    *)
(* it, in two statements.                                                  *)
(***************************************************************************)
EXTENDS Session

CONSTANTS
  Reports,
  Subject      \* Subject[r]: "User" or "Comment", whose is a target's

ASSUME ModerationAssumption ==
  Subject \in [Reports -> {"User", "Comment"} \X Targets]

VARIABLES
  muted,       \* the users with is_muted
  comments,    \* the users with a comment on show
  report,      \* report[r]: the status
  reportLock,  \* reportLock[r]: the transaction holding the row
  overtaken    \* history: the handlers whose target changed rank since it was checked

moderationVars == <<muted, comments, report, reportLock, overtaken>>
allVars == <<sessionVars, moderationVars>>

Decisions == {"Dismiss", "DeleteComment", "Mute", "Suspend", "Ban"}
NewRole == [make_super |-> "super_admin", make_admin |-> "admin", make_user |-> "user"]

ModerationTypeOK ==
  /\ muted \subseteq Targets /\ comments \subseteq Targets
  /\ report \in [Reports -> {"none", "Pending", "Dismissed", "Resolved"}]
  /\ reportLock \in [Reports -> Handlers \cup {NoProc}]
  /\ overtaken \subseteq Handlers

ModerationInit ==
  /\ SessionInit
  /\ muted = {}
  /\ comments = {}
  /\ report = [r \in Reports |-> "none"]
  /\ reportLock = [r \in Reports |-> NoProc]
  /\ overtaken = {}

-----------------------------------------------------------------------------
(* Helpers *)

Caller(p) == token[job[p].token].user
Target(p) == job[p].user

ReportUnlock(p) ==
  reportLock' = [r \in Reports |-> IF reportLock[r] = p THEN NoProc ELSE reportLock[r]]

ModEnd(p) == End(p) /\ ReportUnlock(p) /\ overtaken' = overtaken \ {p}

ModRefuse(p) ==
  /\ Refuse(p)
  /\ ReportUnlock(p)
  /\ overtaken' = overtaken \ {p}
  /\ UNCHANGED <<muted, comments, report>>

Proceed(p, place) == Goto(p, place) /\ UNCHANGED <<locks, muted, comments, report, overtaken>>

(* RoleRequired of the route: the role the request was let in with. *)
Allowed(p) ==
  seen[p].role \in
    CASE job[p].kind \in {"ban", "unban"} -> {"super_admin", "admin", "it_support"}
      [] job[p].kind \in DOMAIN NewRole -> {"super_admin"}
      [] job[p].kind \in Decisions -> {"super_admin", "admin"}
      [] OTHER -> Roles

(* Whom the caller may ban, by the roles just read. *)
Outranks(p) ==
  /\ Target(p) # Caller(p)
  /\ role[Target(p)] # "super_admin"
  /\ role[Target(p)] = "admin" => seen[p].role = "super_admin"

AnyTarget(p) == TRUE
MayBan(p) == Outranks(p)

-----------------------------------------------------------------------------
(* BanUser, UnbanUser, UpdateUserRole *)

ReadTarget(p) ==
  /\ pc[p] = "handler"
  /\ job[p].kind \in {"ban", "unban"} \cup DOMAIN NewRole
  /\ IF Allowed(p) /\ (job[p].kind = "ban" => MayBan(p))
       THEN Proceed(p, "update") /\ UNCHANGED reportLock
       ELSE ModRefuse(p)

BanUser(p) == job[p].kind = "ban" /\ active' = active \ {Target(p)} /\ UNCHANGED role

UnbanUser(p) == job[p].kind = "unban" /\ active' = active \cup {Target(p)} /\ UNCHANGED role

UpdateUserRole(p) ==
  /\ job[p].kind \in DOMAIN NewRole
  /\ role' = [role EXCEPT ![Target(p)] = NewRole[job[p].kind]]
  /\ UNCHANGED active

(* The unconditional UPDATE of the row that was read. *)
UpdateTarget(p) ==
  /\ pc[p] = "update"
  /\ LockFree(userLock[Target(p)])
  /\ BanUser(p) \/ UnbanUser(p) \/ UpdateUserRole(p)
  /\ overtaken' = (IF role' = role THEN overtaken
                   ELSE overtaken \cup {q \in Handlers : /\ pc[q] \in {"update", "decide"}
                                                        /\ Target(q) = Target(p)}) \ {p}
  /\ End(p)
  /\ UNCHANGED <<accounts, suspended, tokens, links, muted, comments, report, reportLock>>

-----------------------------------------------------------------------------
(* Reports *)

(* The report it creates is one that no other does. *)
SubmitReport(p) ==
  /\ pc[p] = "handler"
  /\ job[p].kind = "report"
  /\ report' = [report EXCEPT ![job[p].link] = IF @ = "none" THEN "Pending" ELSE @]
  /\ ModEnd(p)
  /\ UNCHANGED <<accounts, standing, tokens, links, muted, comments>>

(* A measure fits a user or a comment; dismissing fits both. *)
Fits(kind, r) ==
  kind = "Dismiss" \/ ((kind = "DeleteComment") <=> (Subject[r][1] = "Comment"))

(* The report for update, then its target. *)
LockReport(p) ==
  LET r == job[p].link
  IN /\ pc[p] = "handler"
     /\ job[p].kind \in Decisions
     /\ LockFree(reportLock[r])
     /\ IF /\ Allowed(p)
           /\ report[r] = "Pending"
           /\ Fits(job[p].kind, r)
           /\ Subject[r][1] = "User" /\ job[p].kind # "Dismiss" => MayBan(p)
          THEN /\ reportLock' = [reportLock EXCEPT ![r] = p]
               /\ Proceed(p, "decide")
          ELSE ModRefuse(p)

(* The measure and the status in one commit. *)
ResolveReport(p) ==
  LET k == job[p].kind
      u == Target(p)
      If(kind) == IF k = kind THEN {u} ELSE {}
  IN /\ pc[p] = "decide"
     /\ k \in {"Mute", "Suspend", "Ban"} => LockFree(userLock[u])
     /\ report' = [report EXCEPT ![job[p].link] =
                      IF k = "Dismiss" THEN "Dismissed" ELSE "Resolved"]
     /\ comments' = comments \ If("DeleteComment")
     /\ muted' = muted \cup If("Mute")
     /\ suspended' = suspended \cup If("Suspend")
     /\ active' = active \ If("Ban")
     /\ ModEnd(p)
     /\ UNCHANGED <<accounts, role, tokens, links>>

AddComment(p) ==
  \/ /\ pc[p] = "handler"
     /\ job[p].kind = "comment"
     /\ IF Caller(p) \in muted THEN ModRefuse(p) ELSE Proceed(p, "post") /\ UNCHANGED reportLock
  \/ /\ pc[p] = "post"
     /\ comments' = comments \cup {Caller(p)}
     /\ ModEnd(p)
     /\ UNCHANGED <<accounts, standing, tokens, links, muted, report>>

SuspensionEnds(u) ==
  /\ u \in suspended
  /\ suspended' = suspended \ {u}
  /\ UNCHANGED <<accounts, active, role, tokens, links, locks, calls, pc, job, seen, doomed>>

-----------------------------------------------------------------------------
ModStep(p) ==
  ReadTarget(p) \/ UpdateTarget(p) \/ SubmitReport(p) \/ LockReport(p) \/ ResolveReport(p)
    \/ AddComment(p)

(* An administrator's or a Target's request. *)
ModArrive(p) ==
  \E t \in Tokens :
    \/ \E u \in Targets, k \in {"ban", "unban"} \cup DOMAIN NewRole : Request(p, k, t, NoOne, u)
    \/ \E r \in Reports :
         \/ report[r] = "none" /\ Request(p, "report", t, r, NoOne)
         \/ /\ report[r] # "none"
            /\ \E k \in Decisions : Request(p, k, t, r, Subject[r][2])
    \/ /\ token[t] # NoToken
       /\ token[t].user \in Targets
       /\ Request(p, "comment", t, NoOne, NoOne)

ModerationNext ==
  \/ /\ \/ \E p \in Handlers : SessionArrive(p) \/ SessionStep(p) \/ ModArrive(p)
        \/ Clock
        \/ \E u \in Users : SuspensionEnds(u)
     /\ UNCHANGED moderationVars
  \/ \E p \in Handlers : ModStep(p) \/ (pc[p] # "idle" /\ ModRefuse(p))

ModerationSpec == ModerationInit /\ [][ModerationNext]_allVars

-----------------------------------------------------------------------------
(* Correctness *)

(* What Session promises, with administrators at work on the same users.   *)
ModerationInv == ModerationTypeOK /\ SessionInv

(* Two admins with one report: its measure is taken once, and the report   *)
(* says what was done.                                                     *)
ReportsDecidedOnce ==
  [][\A r \in Reports : report'[r] # report[r] => report[r] \in {"none", "Pending"}]_allVars

(* Nobody loses the account to somebody of lesser or equal rank, by a ban  *)
(* or by a report, unless the rank changed while the ban was under way.    *)
BansRespectRank ==
  [][\A u \in active \ active' :
       \E p \in Handlers :
         pc[p] \in {"update", "decide"} /\ Target(p) = u /\ (Outranks(p) \/ p \in overtaken)]_allVars

(* Whose lock a handler waits for. *)
Awaits(p, q) ==
  \/ WaitsFor(p, q)
  \/ pc[p] = "lock user" /\ userLock[job[p].user] = q
  \/ pc[p] = "claim link" /\ linkLock[job[p].link] = q
  \/ pc[p] = "handler" /\ job[p].kind \in Decisions /\ reportLock[job[p].link] = q
  \/ pc[p] = "update" /\ userLock[Target(p)] = q
  \/ /\ pc[p] = "decide" /\ job[p].kind \in {"Mute", "Suspend", "Ban"}
     /\ userLock[Target(p)] = q

(* Each of S waits for one of S. *)
Circle(S) == S # {} /\ \A p \in S : \E q \in S : Awaits(p, q)

(* No handler waits for ever: for a lock that nobody is going to release,  *)
(* or in a circle, of any length, that the database does not break.        *)
NobodyStuck ==
  /\ \A p, q \in Handlers : Awaits(p, q) => pc[q] # "idle"
  /\ \A S \in SUBSET Handlers :
       Circle(S) => \E p, q \in S : WaitsFor(p, q) /\ WaitsFor(q, p)
=============================================================================
