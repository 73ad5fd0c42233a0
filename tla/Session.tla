------------------------------ MODULE Session ------------------------------
(***************************************************************************)
(* Who a request comes from: ValidateToken and InvalidateToken             *)
(* (middleware/auth.go), LoginUser, LogoutUser, ForgotPassword and         *)
(* ResetPassword (user_controller.go), GoogleLogin of a known user         *)
(* (oauth_controller.go) and the cleanup of revoked tokens (cron.go).      *)
(*                                                                         *)
(* A token is a signed statement kept by the client; what kills it is in   *)
(* the database, and a request looks there in two reads after the parse.   *)
(***************************************************************************)
EXTENDS Naturals

CONSTANTS
  Users,
  Targets,     \* bound: the users whose password and standing change
  Tokens,      \* bound: the tokens there can be
  Links,       \* bound: the password reset links there can be
  Holder,      \* Holder[t]: whose token t is from the start, NoOne for none
  Rank,        \* Rank[u]: users.role at the start
  Handlers,    \* requests under way at once
  MaxCalls,    \* bound: requests in all
  NoProc, NoOne

Roles == {"super_admin", "admin", "it_support", "user"}

ASSUME SessionAssumption ==
  /\ NoOne \notin Users
  /\ Targets \subseteq Users
  /\ Holder \in [Tokens -> Users \cup {NoOne}]
  /\ Rank \in [Users -> Roles]
  /\ NoProc \notin Handlers
  /\ MaxCalls \in Nat

VARIABLES
  password,    \* password[u]: which password the user has, by number
  version,     \* version[u]: users.token_version
  active,      \* the users with is_active
  suspended,   \* the users with suspended_until in the future
  role,        \* role[u]: users.role
  token,       \* token[t]: what a token says; whose password it was bought with
  expired,     \* the tokens past their expiry
  revoked,     \* the rows of revoked_tokens
  link,        \* link[l]: the row of password_reset_tokens
  lapsed,      \* the links older than an hour
  userLock,    \* userLock[u]: the transaction holding the users row
  linkLock,    \* linkLock[l]: the one holding the link's row
  calls,       \* requests so far
  pc, job,     \* job[p]: what handler p was called with
  seen,        \* seen[p]: what it read of the users row
  loggedOut,   \* history: the tokens ever revoked
  doomed       \* history: the handlers called with a token already dead

accounts == <<password, version>>
standing == <<active, suspended, role>>
tokens == <<token, expired, revoked, loggedOut>>
links == <<link, lapsed>>
locks == <<userLock, linkLock>>
sessionVars == <<accounts, standing, tokens, links, locks, calls, pc, job, seen, doomed>>

NoToken == [user |-> NoOne]
NoLink == [user |-> NoOne, live |-> FALSE]
NoJob == [kind |-> "none"]

View(v, w, r) == [version |-> v, password |-> w, role |-> r]
NothingSeen == View(0, 0, "user")

Token == [user: Users, version: Nat, password: Nat]
Link == [user: Users, live: BOOLEAN]

SessionTypeOK ==
  /\ password \in [Users -> Nat] /\ version \in [Users -> Nat]
  /\ active \subseteq Users /\ suspended \subseteq Users
  /\ role \in [Users -> Roles]
  /\ token \in [Tokens -> Token \cup {NoToken}]
  /\ revoked \subseteq Tokens /\ expired \subseteq Tokens /\ loggedOut \subseteq Tokens
  /\ link \in [Links -> Link \cup {NoLink}] /\ lapsed \subseteq Links
  /\ userLock \in [Users -> Handlers \cup {NoProc}]
  /\ linkLock \in [Links -> Handlers \cup {NoProc}]
  /\ seen \in [Handlers -> [version: Nat, password: Nat, role: Roles]]
  /\ doomed \subseteq Handlers
  /\ calls \in 0..MaxCalls

-----------------------------------------------------------------------------
(* Helpers.  A second form beside a definition is the slip the properties  *)
(* are tested against.                                                     *)

LockIgnored(lock) == TRUE
LockFree(lock) == lock = NoProc

MayEnter(u) == u \in active \ suspended

AnyVersion(t) == TRUE
Current(t) == token[t].version = version[token[t].user]

Dead(t) == t \in loggedOut \/ token[t].version < version[token[t].user]

(* Random: never one that was given out. *)
Unused(t) == token[t] = NoToken /\ \A q \in Handlers : job[q] # NoJob => job[q].token # t
FreshLink(l) == link[l] = NoLink /\ \A q \in Handlers : job[q] # NoJob => job[q].link # l

(* One job for all handlers: a token, a link or a target where it has one. *)
Call(kind, t, l, u) == [kind |-> kind, token |-> t, link |-> l, user |-> u]

-----------------------------------------------------------------------------
(* Starting and ending a handler; a transaction's locks go with it. *)

Begin(p, first, j, view) ==
  /\ pc[p] = "idle"
  /\ calls < MaxCalls
  /\ calls' = calls + 1
  /\ pc' = [pc EXCEPT ![p] = first]
  /\ job' = [job EXCEPT ![p] = j]
  /\ seen' = [seen EXCEPT ![p] = view]

LocksKept(p) == UNCHANGED locks
Unlock(p) ==
  /\ userLock' = [u \in Users |-> IF userLock[u] = p THEN NoProc ELSE userLock[u]]
  /\ linkLock' = [l \in Links |-> IF linkLock[l] = p THEN NoProc ELSE linkLock[l]]

End(p) ==
  /\ Unlock(p)
  /\ UNCHANGED calls
  /\ pc' = [pc EXCEPT ![p] = "idle"]
  /\ job' = [job EXCEPT ![p] = NoJob]
  /\ seen' = [seen EXCEPT ![p] = NothingSeen]
  /\ doomed' = doomed \ {p}

Refuse(p) == End(p) /\ UNCHANGED <<accounts, standing, tokens, links>>

Goto(p, place) ==
  /\ pc' = [pc EXCEPT ![p] = place]
  /\ UNCHANGED <<accounts, standing, tokens, links, calls, job, seen, doomed>>

SessionInit ==
  /\ password = [u \in Users |-> 0]
  /\ version = [u \in Users |-> 0]
  /\ active = Users
  /\ suspended = {}
  /\ role = Rank
  /\ token = [t \in Tokens |-> IF Holder[t] = NoOne THEN NoToken
                 ELSE [user |-> Holder[t], version |-> 0, password |-> 0]]
  /\ expired = {}
  /\ revoked = {}
  /\ link = [l \in Links |-> NoLink]
  /\ lapsed = {}
  /\ userLock = [u \in Users |-> NoProc]
  /\ linkLock = [l \in Links |-> NoProc]
  /\ pc = [p \in Handlers |-> "idle"]
  /\ job = [p \in Handlers |-> NoJob]
  /\ seen = [p \in Handlers |-> NothingSeen]
  /\ loggedOut = {}
  /\ calls = 0
  /\ doomed = {}

-----------------------------------------------------------------------------
(* Logging in *)

(* The users row is read once, before the slow comparison of passwords; a  *)
(* banned or suspended user gets no token, nor does a wrong password.      *)
Enter(p, t, u) ==
  /\ MayEnter(u)
  /\ Unused(t)
  /\ Begin(p, "issue", Call("login", t, NoOne, u),
           View(version[u], password[u], role[u]))
  /\ UNCHANGED <<accounts, standing, tokens, links, locks, doomed>>

LoginUser(p, t, u) == Enter(p, t, u)

GoogleLogin(p, t, u) == Enter(p, t, u)

(* The token says what was read then, whatever has happened since. *)
GenerateToken(p) ==
  LET t == job[p].token
  IN /\ pc[p] = "issue"
     /\ token' = [token EXCEPT ![t] = [user |-> job[p].user,
                       version |-> seen[p].version, password |-> seen[p].password]]
     /\ End(p)
     /\ UNCHANGED <<accounts, standing, expired, revoked, loggedOut, links>>

-----------------------------------------------------------------------------
(* A request with a token: AuthRequired *)

(* The parse refuses an expired token.                                     *)
Request(p, kind, t, l, u) ==
  /\ token[t] # NoToken
  /\ t \notin expired
  /\ Begin(p, "token", Call(kind, t, l, u), NothingSeen)
  /\ doomed' = IF Dead(t) THEN doomed \cup {p} ELSE doomed
  /\ UNCHANGED <<accounts, standing, tokens, links, locks>>

CheckRevoked(p) ==
  /\ pc[p] = "token"
  /\ IF job[p].token \in revoked
       THEN Refuse(p)
       ELSE Goto(p, "user") /\ UNCHANGED locks

(* The role is what this read says, not what the token says. *)
ReadUser(p) ==
  LET t == job[p].token
      u == token[t].user
  IN /\ pc[p] = "user"
     /\ IF MayEnter(u) /\ Current(t)
          THEN /\ pc' = [pc EXCEPT ![p] = "handler"]
               /\ seen' = [seen EXCEPT ![p] = View(0, 0, role[u])]
               /\ UNCHANGED <<accounts, standing, tokens, links, locks, calls, job, doomed>>
          ELSE Refuse(p)

(* InvalidateToken parses once more; a second row is a duplicate key. *)
LogoutUser(p) ==
  LET new == {job[p].token} \ expired
  IN /\ pc[p] = "handler"
     /\ job[p].kind = "logout"
     /\ revoked' = revoked \cup new
     /\ loggedOut' = loggedOut \cup new
     /\ End(p)
     /\ UNCHANGED <<accounts, standing, token, expired, links>>

Expire(t) ==
  /\ token[t] # NoToken
  /\ expired' = expired \cup {t}
  /\ UNCHANGED <<accounts, standing, token, revoked, loggedOut, links, locks,
                 calls, pc, job, seen, doomed>>

(* The hourly cleanup of revoked_tokens. *)
AllOfThem == revoked
PastExpiry == revoked \cap expired
Cleanup ==
  /\ revoked' = revoked \ PastExpiry
  /\ UNCHANGED <<accounts, standing, token, expired, loggedOut, links, locks,
                 calls, pc, job, seen, doomed>>

-----------------------------------------------------------------------------
(* A forgotten password *)

ForgotPassword(p, l, u) ==
  /\ FreshLink(l)
  /\ Begin(p, "lock user", Call("forgot", NoOne, l, u), NothingSeen)
  /\ UNCHANGED <<accounts, standing, tokens, links, locks, doomed>>

LockUser(p) ==
  LET u == job[p].user
  IN /\ pc[p] = "lock user"
     /\ LockFree(userLock[u])
     /\ userLock' = [userLock EXCEPT ![u] = p]
     /\ Goto(p, "old links")
     /\ UNCHANGED linkLock

(* The row k of a link is deleted; whose it was is kept, as history. *)
Gone(k) == [user |-> k.user, live |-> FALSE]

OldLinks(u) == {l \in Links : link[l].user = u /\ link[l].live}

DeleteLinks(p) ==
  LET old == OldLinks(job[p].user)
  IN /\ pc[p] = "old links"
     /\ \A l \in old : LockFree(linkLock[l])
     /\ linkLock' = [l \in Links |-> IF l \in old THEN p ELSE linkLock[l]]
     /\ Goto(p, "new link")
     /\ UNCHANGED userLock

CommitForgot(p) ==
  LET mine == {l \in Links : linkLock[l] = p}
  IN /\ pc[p] = "new link"
     /\ link' = [l \in Links |->
          IF l \in mine THEN Gone(link[l])
          ELSE IF l = job[p].link THEN [user |-> job[p].user, live |-> TRUE]
          ELSE link[l]]
     /\ End(p)
     /\ UNCHANGED <<accounts, standing, tokens, lapsed>>

Lapse(l) ==
  /\ link[l].live
  /\ lapsed' = lapsed \cup {l}
  /\ UNCHANGED <<accounts, standing, tokens, link, locks, calls, pc, job, seen, doomed>>

(* The link is looked up, then the new password is hashed.  One that has   *)
(* expired is deleted on sight.                                            *)
ResetPassword(p, l) ==
  /\ link[l].live
  /\ IF l \in lapsed
       THEN /\ pc[p] = "idle"
            /\ LockFree(linkLock[l])
            /\ link' = [link EXCEPT ![l] = Gone(@)]
            /\ UNCHANGED <<calls, pc, job, seen>>
       ELSE /\ Begin(p, "claim link", Call("reset", NoOne, l, link[l].user), NothingSeen)
            /\ UNCHANGED link
  /\ UNCHANGED <<accounts, standing, tokens, lapsed, locks, doomed>>

(* The conditional DELETE, once whoever holds the row is through. *)
AsLookedUp(l) == TRUE
Claimable(l) == link[l].live /\ l \notin lapsed
ClaimLink(p) ==
  LET l == job[p].link
  IN /\ pc[p] = "claim link"
     /\ LockFree(linkLock[l])
     /\ IF Claimable(l)
          THEN /\ linkLock' = [linkLock EXCEPT ![l] = p]
               /\ Goto(p, "new password")
               /\ UNCHANGED userLock
          ELSE Refuse(p)

SameVersion(u) == version
NextVersion(u) == [version EXCEPT ![u] = @ + 1]
CommitReset(p) ==
  LET u == job[p].user
  IN /\ pc[p] = "new password"
     /\ LockFree(userLock[u])
     /\ password' = [password EXCEPT ![u] = @ + 1]
     /\ version' = NextVersion(u)
     /\ link' = [link EXCEPT ![job[p].link] = Gone(@)]
     /\ End(p)
     /\ UNCHANGED <<standing, tokens, lapsed>>

-----------------------------------------------------------------------------
(* Forgetting locks the user, then the link; resetting the link, then the  *)
(* user.  When each waits for the other the database aborts one of them.   *)
WaitsFor(p, q) ==
  \/ pc[p] = "old links" /\ \E l \in OldLinks(job[p].user) : linkLock[l] = q
  \/ pc[p] = "new password" /\ userLock[job[p].user] = q

AbortDeadlock(p) ==
  /\ \E q \in Handlers : WaitsFor(p, q) /\ WaitsFor(q, p)
  /\ Refuse(p)

(* A statement fails or the process dies. *)
Fail(p) == pc[p] # "idle" /\ Refuse(p)

SessionStep(p) ==
  \/ GenerateToken(p) \/ CheckRevoked(p) \/ ReadUser(p) \/ LogoutUser(p)
  \/ LockUser(p) \/ DeleteLinks(p) \/ CommitForgot(p)
  \/ ClaimLink(p) \/ CommitReset(p) \/ AbortDeadlock(p)

SessionArrive(p) ==
  \/ \E t \in Tokens, u \in Users :
       LoginUser(p, t, u) \/ GoogleLogin(p, t, u)
  \/ \E t \in Tokens : Request(p, "logout", t, NoOne, NoOne)
  \/ \E l \in Links : ResetPassword(p, l) \/ \E u \in Targets : ForgotPassword(p, l, u)

Clock == (\E t \in Tokens : Expire(t)) \/ Cleanup \/ (\E l \in Links : Lapse(l))

SessionNext ==
  \/ \E p \in Handlers : SessionArrive(p) \/ SessionStep(p) \/ Fail(p)
  \/ Clock

SessionSpec == SessionInit /\ [][SessionNext]_sessionVars

-----------------------------------------------------------------------------
(* Correctness *)

(* A token that was logged out, or that a password reset had superseded,   *)
(* before a request came with it, opens nothing, although the two are      *)
(* looked up at different moments and the cleanup forgets revocations.     *)
(* The exception is the token whose expiry falls into the request: it is   *)
(* parsed in time, and then its revocation may be cleaned up before it is  *)
(* read.                                                                   *)
DeadTokensRefused ==
  \A p \in doomed : pc[p] = "handler" => job[p].token \in expired

(* A reset locks out whoever had the old password: every token still good  *)
(* was obtained under the present one, also by a login that was comparing  *)
(* the old one when the reset was committed.                               *)
OldPasswordsDead ==
  \A t \in Tokens :
    token[t] # NoToken /\ Current(t) => token[t].password = password[token[t].user]

(* Two requests for a link at once, or one during a reset: the user has    *)
(* one link that works, the one sent last.                                 *)
OneLinkLive ==
  \A l, m \in Links :
    link[l].live /\ link[m].live /\ link[l].user = link[m].user => l = m

SessionInv == SessionTypeOK /\ DeadTokensRefused /\ OldPasswordsDead /\ OneLinkLive

(* A password changes once for a link, and for none that had been used or  *)
(* superseded by then, whenever it was looked up.                          *)
EachLinkOnce ==
  [][\A u \in Users :
       password'[u] # password[u] =>
         \E l \in Links : link[l].user = u /\ link[l].live /\ ~link'[l].live]_sessionVars
=============================================================================
