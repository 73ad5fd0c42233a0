-------------------------- MODULE ModerationProofs --------------------------
(***************************************************************************)
(* Theorems about Session and Moderation, for any number of users, tokens, *)
(* links, reports and handlers at once: the inductive invariant, the       *)
(* action properties, and that nobody waits for ever.                      *)
(***************************************************************************)
EXTENDS Moderation, TLAPS

(* The places of a request that came with a token, of one that asks for a  *)
(* link, and of one that uses a link.                                      *)
WithToken == {"token", "user", "handler", "update", "decide", "post"}
Forgetting == {"lock user", "old links", "new link"}
Resetting == {"claim link", "new password"}
Places == {"idle", "issue"} \cup WithToken \cup Forgetting \cup Resetting

TargetKinds == {"ban", "unban"} \cup DOMAIN NewRole
Kinds == {"login", "logout", "forgot", "reset", "report", "comment"}
         \cup TargetKinds \cup Decisions

Job == [kind: Kinds, token: Tokens \cup {NoOne}, link: Links \cup Reports \cup {NoOne},
        user: Users \cup {NoOne}]

(* Which request brings a handler where, and what it works on. *)
JobOK(p) ==
  /\ pc[p] = "idle" => job[p] = NoJob
  /\ pc[p] # "idle" => job[p] # NoJob
  /\ pc[p] = "issue" =>
       job[p].token \in Tokens /\ token[job[p].token] = NoToken /\ job[p].user \in Users
  /\ pc[p] \in WithToken =>
       /\ job[p].token \in Tokens /\ token[job[p].token] # NoToken
       /\ job[p].kind \in TargetKinds \cup Decisions => job[p].user \in Targets
       /\ job[p].kind \in Decisions \cup {"report"} => job[p].link \in Reports
       /\ job[p].kind = "comment" => Caller(p) \in Targets
  /\ pc[p] \in Forgetting =>
       job[p].link \in Links /\ link[job[p].link] = NoLink /\ job[p].user \in Users
  /\ pc[p] \in Resetting =>
       job[p].link \in Links /\ job[p].user \in Users /\ link[job[p].link].user = job[p].user
  /\ pc[p] = "update" => job[p].kind \in TargetKinds
  /\ pc[p] = "decide" => job[p].kind \in Decisions
  /\ pc[p] = "post" => job[p].kind = "comment"

(* What was read at the login is of the password that is still good, or of *)
(* one that no longer counts.                                              *)
Bought(u, v, w) == v <= version[u] /\ (v = version[u] => w = password[u])

LoginOK(p) == pc[p] = "issue" => Bought(job[p].user, seen[p].version, seen[p].password)

TokensBought ==
  \A t \in Tokens : token[t] # NoToken =>
    Bought(token[t].user, token[t].version, token[t].password)

(* How far a request with a dead token gets. *)
Stale(t) == token[t].version < version[token[t].user]

DoomedOK(p) ==
  p \in doomed =>
    /\ pc[p] \in WithToken
    /\ Dead(job[p].token)
    /\ pc[p] = "user" => job[p].token \in expired \/ Stale(job[p].token)
    /\ pc[p] = "handler" => job[p].token \in expired

(* A revocation is forgotten only when the token has expired. *)
RevocationsKept == loggedOut \subseteq revoked \cup expired

(* The rows held by the transactions of a password reset. *)
LinksHeld(p) ==
  /\ pc[p] \in {"old links", "new link"} => userLock[job[p].user] = p
  /\ pc[p] = "new link" =>
       \A l \in Links : link[l].live /\ link[l].user = job[p].user => linkLock[l] = p
  /\ pc[p] = "new password" => linkLock[job[p].link] = p /\ link[job[p].link].live

(* A report being decided is locked and pending; whoever bans has the rank *)
(* for it, or had it when it was checked.                                  *)
ReportHeld(p) ==
  pc[p] = "decide" => reportLock[job[p].link] = p /\ report[job[p].link] = "Pending"

RankOK(p) ==
  \/ pc[p] = "update" /\ job[p].kind = "ban"
  \/ pc[p] = "decide" /\ job[p].kind = "Ban"
  => Outranks(p) \/ p \in overtaken

Local(p) ==
  /\ JobOK(p) /\ LoginOK(p) /\ DoomedOK(p)
  /\ LinksHeld(p) /\ ReportHeld(p) /\ RankOK(p)

(* No two handlers are about to give out one token or one link. *)
OneGiver ==
  \A p, q \in Handlers : p # q =>
    /\ pc[p] = "issue" /\ pc[q] = "issue" => job[p].token # job[q].token
    /\ pc[p] \in Forgetting /\ pc[q] \in Forgetting => job[p].link # job[q].link

TypeOK ==
  /\ SessionTypeOK /\ ModerationTypeOK
  /\ pc \in [Handlers -> Places]
  /\ job \in [Handlers -> Job \cup {NoJob}]

ModInv ==
  /\ TypeOK
  /\ \A p \in Handlers : Local(p)
  /\ OneGiver /\ TokensBought /\ RevocationsKept /\ OneLinkLive

-----------------------------------------------------------------------------
(* What every step respects: what is dead stays dead, tokens and the       *)
(* owners of links do not change, a new password comes with a new version. *)
Steady ==
  /\ expired \subseteq expired' /\ loggedOut \subseteq loggedOut'
  /\ \A t \in Tokens : token[t] # NoToken => token'[t] = token[t]
  /\ \A u \in Users :
       \/ version'[u] = version[u] /\ password'[u] = password[u]
       \/ version'[u] > version[u]
  /\ \A l \in Links : link[l] # NoLink => link'[l].user = link[l].user

(* A step of somebody else, as handler q sees it. *)
Undisturbed(q) ==
  /\ pc'[q] = pc[q] /\ job'[q] = job[q] /\ seen'[q] = seen[q]
  /\ q \in doomed' => q \in doomed
  /\ pc[q] = "issue" => token'[job[q].token] = NoToken
  /\ pc[q] \in Forgetting => link'[job[q].link] = NoLink
  /\ \A u \in Users : userLock[u] = q => userLock'[u] = q
  /\ \A l \in Links : linkLock[l] = q =>
                          linkLock'[l] = q /\ (link[l] # NoLink => link'[l] = link[l])
  /\ \A l \in Links : link'[l].live => link[l].live \/ userLock[link'[l].user] # q
  /\ \A r \in Reports : reportLock[r] = q /\ report[r] = "Pending" =>
                          reportLock'[r] = q /\ report'[r] = "Pending"
  /\ pc[q] \in {"update", "decide"} => role'[job[q].user] = role[job[q].user] \/ q \in overtaken'
  /\ q \in overtaken => q \in overtaken'

(* The invariants of tokens and links. *)
RowsOK == TokensBought /\ RevocationsKept /\ OneLinkLive

-----------------------------------------------------------------------------
(* The operators *)

LEMMA TokenFacts ==
  ASSUME TypeOK, NEW t \in Tokens, token[t] # NoToken
  PROVE  token[t].user \in Users /\ token[t].version \in Nat /\ token[t].password \in Nat
<1>1. token[t] \in Token
  BY DEF TypeOK, SessionTypeOK
<1> QED BY <1>1 DEF Token

LEMMA LinkFacts ==
  ASSUME TypeOK, NEW l \in Links
  PROVE  /\ link[l].live \in BOOLEAN
         /\ link[l].live => link[l] # NoLink
         /\ link[l] # NoLink => link[l].user \in Users
         /\ link[l].user \in Users => link[l] # NoLink
<1>1. link[l] \in Link \cup {NoLink}
  BY DEF TypeOK, SessionTypeOK
<1>2. CASE link[l] \in Link
  BY <1>2, SessionAssumption DEF Link, NoLink
<1>3. CASE link[l] = NoLink
  BY <1>3, SessionAssumption DEF NoLink
<1> QED BY <1>1, <1>2, <1>3

LEMMA GoneFacts ==
  ASSUME NEW k \in Link \cup {NoLink}
  PROVE  /\ Gone(k) \in Link \cup {NoLink}
         /\ Gone(k).user = k.user /\ ~Gone(k).live
         /\ k = NoLink => Gone(k) = NoLink
<1>1. CASE k = NoLink
  BY <1>1 DEF Gone, NoLink
<1>2. CASE k \in Link
  <2>1. k.user \in Users
    BY <1>2 DEF Link
  <2>2. Gone(k) = [user |-> k.user, live |-> FALSE]
    BY DEF Gone
  <2>3. Gone(k) \in Link
    BY <2>1, <2>2 DEF Link
  <2>4. Gone(k).user = k.user /\ ~Gone(k).live
    BY <2>2
  <2>5. k # NoLink
    BY <2>1, SessionAssumption DEF NoLink
  <2> QED BY <2>3, <2>4, <2>5
<1> QED BY <1>1, <1>2

LEMMA ViewFacts ==
  ASSUME NEW v \in Nat, NEW w \in Nat, NEW r \in Roles
  PROVE  /\ View(v, w, r) \in [version: Nat, password: Nat, role: Roles]
         /\ View(v, w, r).version = v /\ View(v, w, r).password = w /\ View(v, w, r).role = r
BY DEF View

LEMMA CallFacts ==
  ASSUME NEW kind \in Kinds, NEW t \in Tokens \cup {NoOne},
         NEW l \in Links \cup Reports \cup {NoOne}, NEW u \in Users \cup {NoOne}
  PROVE  /\ Call(kind, t, l, u) \in Job
         /\ Call(kind, t, l, u) # NoJob
         /\ Call(kind, t, l, u).kind = kind /\ Call(kind, t, l, u).token = t
         /\ Call(kind, t, l, u).link = l /\ Call(kind, t, l, u).user = u
<1>1. Call(kind, t, l, u).kind = kind /\ Call(kind, t, l, u).token = t
      /\ Call(kind, t, l, u).link = l /\ Call(kind, t, l, u).user = u
  BY DEF Call
<1>2. Call(kind, t, l, u) \in Job
  BY DEF Call, Job
<1>3. kind # "none"
  BY DEF Kinds, TargetKinds, Decisions, NewRole
<1>4. NoJob.kind = "none"
  BY DEF NoJob
<1> QED BY <1>1, <1>2, <1>3, <1>4

(* The end of a handler frees its own rows and nobody else's. *)
LEMMA EndFacts ==
  ASSUME TypeOK, NEW p \in Handlers, End(p)
  PROVE  /\ pc' \in [Handlers -> Places] /\ job' \in [Handlers -> Job \cup {NoJob}]
         /\ seen' \in [Handlers -> [version: Nat, password: Nat, role: Roles]]
         /\ userLock' \in [Users -> Handlers \cup {NoProc}]
         /\ linkLock' \in [Links -> Handlers \cup {NoProc}]
         /\ doomed' \subseteq Handlers /\ calls' = calls
         /\ pc'[p] = "idle" /\ job'[p] = NoJob /\ p \notin doomed'
         /\ \A q \in Handlers \ {p} :
              /\ pc'[q] = pc[q] /\ job'[q] = job[q] /\ seen'[q] = seen[q]
              /\ q \in doomed' => q \in doomed
              /\ \A u \in Users : userLock[u] = q => userLock'[u] = q
              /\ \A l \in Links : linkLock[l] = q => linkLock'[l] = q
<1>1. /\ pc' = [pc EXCEPT ![p] = "idle"] /\ job' = [job EXCEPT ![p] = NoJob]
      /\ seen' = [seen EXCEPT ![p] = NothingSeen] /\ doomed' = doomed \ {p} /\ calls' = calls
      /\ userLock' = [u \in Users |-> IF userLock[u] = p THEN NoProc ELSE userLock[u]]
      /\ linkLock' = [l \in Links |-> IF linkLock[l] = p THEN NoProc ELSE linkLock[l]]
  BY DEF End, Unlock
<1>2. NothingSeen \in [version: Nat, password: Nat, role: Roles]
  BY ViewFacts DEF NothingSeen, Roles
<1>3. /\ pc' \in [Handlers -> Places] /\ job' \in [Handlers -> Job \cup {NoJob}]
      /\ pc'[p] = "idle" /\ job'[p] = NoJob /\ p \notin doomed' /\ doomed' \subseteq Handlers
      /\ \A q \in Handlers \ {p} :
           /\ pc'[q] = pc[q] /\ job'[q] = job[q]
           /\ q \in doomed' => q \in doomed
  BY <1>1 DEF TypeOK, SessionTypeOK, Places
<1>4. /\ seen' \in [Handlers -> [version: Nat, password: Nat, role: Roles]]
      /\ \A q \in Handlers \ {p} : seen'[q] = seen[q]
  BY <1>1, <1>2 DEF TypeOK, SessionTypeOK
<1>5. /\ userLock' \in [Users -> Handlers \cup {NoProc}]
      /\ linkLock' \in [Links -> Handlers \cup {NoProc}]
      /\ \A q \in Handlers \ {p} :
           /\ \A u \in Users : userLock[u] = q => userLock'[u] = q
           /\ \A l \in Links : linkLock[l] = q => linkLock'[l] = q
  BY <1>1 DEF TypeOK, SessionTypeOK
<1> QED BY <1>1, <1>3, <1>4, <1>5

LEMMA EndLocal ==
  ASSUME TypeOK, NEW p \in Handlers, End(p)
  PROVE  Local(p)'
<1>1. pc'[p] = "idle" /\ job'[p] = NoJob /\ p \notin doomed'
  BY EndFacts
<1>2. JobOK(p)'
  BY <1>1 DEF JobOK, WithToken, Forgetting, Resetting
<1>3. LoginOK(p)' /\ DoomedOK(p)' /\ LinksHeld(p)' /\ ReportHeld(p)' /\ RankOK(p)'
  BY <1>1 DEF LoginOK, DoomedOK, LinksHeld, ReportHeld, RankOK
<1> QED BY <1>2, <1>3 DEF Local

(* What a handler knows stays true while others take steps. *)
LEMMA UndisturbedLocal ==
  ASSUME TypeOK, TypeOK', Steady, NEW q \in Handlers, Local(q), Undisturbed(q)
  PROVE  Local(q)'
<1> DEFINE t == job[q].token
           l == job[q].link
           u == job[q].user
<1>0. /\ JobOK(q) /\ LoginOK(q) /\ DoomedOK(q)
      /\ LinksHeld(q) /\ ReportHeld(q) /\ RankOK(q)
  BY DEF Local
<1>1. pc'[q] = pc[q] /\ job'[q] = job[q] /\ seen'[q] = seen[q] /\ (q \in doomed' => q \in doomed)
  BY DEF Undisturbed
<1>2. pc[q] \in WithToken => t \in Tokens /\ token[t] # NoToken /\ token'[t] = token[t]
  BY <1>0 DEF JobOK, Steady
<1>3. pc[q] \in Resetting => l \in Links /\ u \in Users /\ link[l].user = u /\ link'[l].user = u
  <2> SUFFICES ASSUME pc[q] \in Resetting
               PROVE  l \in Links /\ u \in Users /\ link[l].user = u /\ link'[l].user = u
    OBVIOUS
  <2>1. l \in Links /\ u \in Users /\ link[l].user = u
    BY <1>0 DEF JobOK
  <2>2. link[l] # NoLink
    BY <2>1, LinkFacts
  <2> QED BY <2>1, <2>2 DEF Steady
<1>4. JobOK(q)'
  BY <1>0, <1>1, <1>2, <1>3 DEF JobOK, Undisturbed, Caller
<1>5. LoginOK(q)'
  <2> SUFFICES ASSUME pc[q] = "issue"
               PROVE  Bought(u, seen[q].version, seen[q].password)'
    BY <1>1 DEF LoginOK
  <2>1. u \in Users /\ Bought(u, seen[q].version, seen[q].password)
    BY <1>0 DEF JobOK, LoginOK
  <2>2. \/ version'[u] = version[u] /\ password'[u] = password[u]
        \/ version'[u] > version[u]
    BY <2>1 DEF Steady
  <2>3. seen[q].version \in Nat /\ version[u] \in Nat /\ version'[u] \in Nat
    BY <2>1 DEF TypeOK, SessionTypeOK
  <2> QED BY <1>1, <2>1, <2>2, <2>3 DEF Bought
<1>6. DoomedOK(q)'
  <2> SUFFICES ASSUME q \in doomed
               PROVE  DoomedOK(q)'
    BY <1>1 DEF DoomedOK
  <2>1. /\ pc[q] \in WithToken /\ Dead(t)
        /\ pc[q] = "user" => t \in expired \/ Stale(t)
        /\ pc[q] = "handler" => t \in expired
    BY <1>0 DEF DoomedOK
  <2>2. t \in Tokens /\ token'[t] = token[t] /\ token[t].user \in Users /\ token[t].version \in Nat
    BY <1>2, <2>1, TokenFacts
  <2>3. version[token[t].user] \in Nat /\ version'[token[t].user] \in Nat
    BY <2>2 DEF TypeOK, SessionTypeOK
  <2>4. version'[token[t].user] >= version[token[t].user]
    BY <2>2, <2>3 DEF Steady
  <2>5. Stale(t) => Stale(t)'
    BY <1>1, <2>2, <2>3, <2>4 DEF Stale
  <2>6. Dead(t)'
    BY <1>1, <2>1, <2>2, <2>3, <2>4 DEF Dead, Steady
  <2> QED BY <1>1, <2>1, <2>5, <2>6 DEF DoomedOK, Steady
<1>7. LinksHeld(q)'
  <2>1. CASE pc[q] \in {"old links", "new link"}
    <3>1. u \in Users /\ userLock[u] = q /\ userLock'[u] = q
      BY <1>0, <2>1 DEF JobOK, Forgetting, LinksHeld, Undisturbed
    <3>2. ASSUME pc[q] = "new link", NEW k \in Links, link'[k].live, link'[k].user = u
          PROVE  linkLock'[k] = q
      <4>1. link[k].live
        BY <3>1, <3>2 DEF Undisturbed
      <4>2. link[k].user = u
        BY <3>2, <4>1, LinkFacts DEF Steady
      <4>3. linkLock[k] = q
        BY <1>0, <3>2, <4>1, <4>2 DEF LinksHeld
      <4> QED BY <4>3 DEF Undisturbed
    <3> QED BY <1>1, <2>1, <3>1, <3>2 DEF LinksHeld
  <2>2. CASE pc[q] = "new password"
    <3>1. l \in Links /\ linkLock[l] = q /\ link[l].live
      BY <1>0, <1>3, <2>2 DEF LinksHeld, Resetting
    <3>2. linkLock'[l] = q /\ link'[l] = link[l]
      BY <3>1, LinkFacts DEF Undisturbed
    <3> QED BY <1>1, <2>2, <3>1, <3>2 DEF LinksHeld
  <2>3. CASE pc[q] \notin {"old links", "new link", "new password"}
    BY <1>1, <2>3 DEF LinksHeld
  <2> QED BY <2>1, <2>2, <2>3
<1>8. ReportHeld(q)'
  <2> SUFFICES ASSUME pc[q] = "decide"
               PROVE  reportLock'[l] = q /\ report'[l] = "Pending"
    BY <1>1 DEF ReportHeld
  <2>1. l \in Reports
    BY <1>0 DEF JobOK, WithToken
  <2> QED BY <1>0, <2>1 DEF ReportHeld, Undisturbed
<1>9. RankOK(q)'
  <2> SUFFICES ASSUME pc[q] \in {"update", "decide"}, Outranks(q) \/ q \in overtaken
               PROVE  Outranks(q)' \/ q \in overtaken'
    BY <1>0, <1>1 DEF RankOK
  <2>1. role'[u] = role[u] \/ q \in overtaken'
    BY DEF Undisturbed
  <2>2. q \in overtaken => q \in overtaken'
    BY DEF Undisturbed
  <2>3. token'[t] = token[t]
    BY <1>2 DEF WithToken
  <2>4. role'[u] = role[u] /\ Outranks(q) => Outranks(q)'
    BY <1>1, <2>3 DEF Outranks, Target, Caller
  <2> QED BY <2>1, <2>2, <2>4
<1> QED BY <1>4, <1>5, <1>6, <1>7, <1>8, <1>9 DEF Local

-----------------------------------------------------------------------------
(* Steps in general *)

(* The other handlers stay where they are and keep their locks. *)
Alone(p) ==
  \A q \in Handlers \ {p} :
    /\ pc'[q] = pc[q] /\ job'[q] = job[q] /\ seen'[q] = seen[q]
    /\ q \in doomed' => q \in doomed
    /\ \A u \in Users : userLock[u] = q => userLock'[u] = q
    /\ \A l \in Links : linkLock[l] = q => linkLock'[l] = q

(* They keep the reports and the rank they rely on. *)
RanksSeen(p) ==
  \A q \in Handlers \ {p} :
    /\ \A r \in Reports : reportLock[r] = q /\ report[r] = "Pending" =>
                            reportLock'[r] = q /\ report'[r] = "Pending"
    /\ pc[q] \in {"update", "decide"} => role'[job[q].user] = role[job[q].user] \/ q \in overtaken'
    /\ q \in overtaken => q \in overtaken'

(* p is about to give out what it was about to give out before, or nothing. *)
GivesSame(p) ==
  /\ pc'[p] = "issue" => pc[p] = "issue" /\ job'[p] = job[p]
  /\ pc'[p] \in Forgetting => pc[p] \in Forgetting /\ job'[p] = job[p]

LEMMA GiverKept ==
  ASSUME OneGiver, NEW p \in Handlers, Alone(p), GivesSame(p)
  PROVE  OneGiver'
BY DEF OneGiver, Alone, GivesSame

(* Nor does anybody begin to give out what somebody else is about to. *)
LEMMA GiverJoins ==
  ASSUME OneGiver, NEW p \in Handlers, Alone(p),
         \A q \in Handlers :
           /\ pc[q] = "issue" /\ pc'[p] = "issue" => job[q].token # job'[p].token
           /\ pc[q] \in Forgetting /\ pc'[p] \in Forgetting => job[q].link # job'[p].link
  PROVE  OneGiver'
<1> SUFFICES ASSUME NEW q \in Handlers, NEW r \in Handlers, q # r
             PROVE  /\ pc'[q] = "issue" /\ pc'[r] = "issue" => job'[q].token # job'[r].token
                    /\ pc'[q] \in Forgetting /\ pc'[r] \in Forgetting => job'[q].link # job'[r].link
  BY DEF OneGiver
<1>1. \A o \in Handlers \ {p} : pc'[o] = pc[o] /\ job'[o] = job[o]
  BY DEF Alone
<1>2. CASE q = p
  BY <1>1, <1>2
<1>3. CASE r = p
  BY <1>1, <1>3
<1>4. CASE q # p /\ r # p
  BY <1>1, <1>4 DEF OneGiver
<1> QED BY <1>2, <1>3, <1>4

(* A step of p keeps the invariant if the others can go on as before. *)
LEMMA StepKeeps ==
  ASSUME ModInv, NEW p \in Handlers, TypeOK', Local(p)', Steady, RowsOK', OneGiver',
         \A q \in Handlers \ {p} : Undisturbed(q)
  PROVE  ModInv'
<1>1. ASSUME NEW q \in Handlers
      PROVE  Local(q)'
  <2>1. CASE q = p
    BY <2>1
  <2>2. CASE q # p
    <3>1. Undisturbed(q)
      BY <2>2
    <3>2. TypeOK /\ Local(q)
      BY DEF ModInv
    <3> QED BY <3>1, <3>2, UndisturbedLocal
  <2> QED BY <2>1, <2>2
<1> QED BY <1>1 DEF ModInv, RowsOK

(* One that leaves passwords, tokens and links alone. *)
LEMMA QuietStep ==
  ASSUME ModInv, NEW p \in Handlers, TypeOK', Local(p)', OneGiver', Alone(p), RanksSeen(p),
         UNCHANGED <<accounts, tokens, links>>
  PROVE  ModInv'
<1>1. /\ password' = password /\ version' = version
      /\ token' = token /\ expired' = expired /\ revoked' = revoked /\ loggedOut' = loggedOut
      /\ link' = link
  BY DEF accounts, tokens, links
<1>2. Steady
  BY <1>1 DEF Steady
<1>3. RowsOK'
  BY <1>1 DEF ModInv, RowsOK, TokensBought, Bought, RevocationsKept, OneLinkLive
<1>4. ASSUME NEW q \in Handlers \ {p}
      PROVE  Undisturbed(q)
  <2>1. JobOK(q)
    BY DEF ModInv, Local
  <2>2. /\ pc[q] = "issue" => token'[job[q].token] = NoToken
        /\ pc[q] \in Forgetting => link'[job[q].link] = NoLink
        /\ \A l \in Links : link'[l] = link[l]
    BY <1>1, <2>1 DEF JobOK
  <2>3. \A l \in Links : linkLock[l] = q => linkLock'[l] = q /\ link'[l] = link[l]
    BY <2>2 DEF Alone
  <2>4. \A l \in Links : link'[l].live => link[l].live \/ userLock[link'[l].user] # q
    BY <2>2
  <2>5. /\ pc'[q] = pc[q] /\ job'[q] = job[q] /\ seen'[q] = seen[q]
        /\ q \in doomed' => q \in doomed
        /\ \A u \in Users : userLock[u] = q => userLock'[u] = q
    BY DEF Alone
  <2>6. /\ \A r \in Reports : reportLock[r] = q /\ report[r] = "Pending" =>
                               reportLock'[r] = q /\ report'[r] = "Pending"
        /\ pc[q] \in {"update", "decide"} =>
             role'[job[q].user] = role[job[q].user] \/ q \in overtaken'
        /\ q \in overtaken => q \in overtaken'
    BY DEF RanksSeen
  <2> QED BY <2>2, <2>3, <2>4, <2>5, <2>6 DEF Undisturbed
<1> QED BY <1>2, <1>3, <1>4, StepKeeps

LEMMA EndAlone ==
  ASSUME TypeOK, NEW p \in Handlers, End(p)
  PROVE  Alone(p) /\ GivesSame(p)
<1>1. Alone(p)
  BY EndFacts DEF Alone
<1>2. pc'[p] = "idle"
  BY EndFacts
<1> QED BY <1>1, <1>2 DEF GivesSame, Forgetting

LEMMA BeginFacts ==
  ASSUME TypeOK, NEW p \in Handlers, NEW first \in Places, NEW j \in Job,
         NEW view \in [version: Nat, password: Nat, role: Roles],
         Begin(p, first, j, view), UNCHANGED locks,
         doomed' \subseteq doomed \cup {p}
  PROVE  /\ pc[p] = "idle" /\ pc'[p] = first /\ job'[p] = j /\ seen'[p] = view
         /\ pc' \in [Handlers -> Places] /\ job' \in [Handlers -> Job \cup {NoJob}]
         /\ seen' \in [Handlers -> [version: Nat, password: Nat, role: Roles]]
         /\ userLock' \in [Users -> Handlers \cup {NoProc}]
         /\ linkLock' \in [Links -> Handlers \cup {NoProc}]
         /\ calls' \in 0..MaxCalls /\ doomed' \subseteq Handlers
         /\ Alone(p)
<1>1. /\ pc[p] = "idle" /\ calls < MaxCalls /\ calls' = calls + 1
      /\ pc' = [pc EXCEPT ![p] = first] /\ job' = [job EXCEPT ![p] = j]
      /\ seen' = [seen EXCEPT ![p] = view]
      /\ userLock' = userLock /\ linkLock' = linkLock
  BY DEF Begin, locks
<1>2. /\ pc'[p] = first /\ job'[p] = j /\ seen'[p] = view
      /\ pc' \in [Handlers -> Places] /\ job' \in [Handlers -> Job \cup {NoJob}]
      /\ seen' \in [Handlers -> [version: Nat, password: Nat, role: Roles]]
      /\ \A q \in Handlers \ {p} : pc'[q] = pc[q] /\ job'[q] = job[q] /\ seen'[q] = seen[q]
  BY <1>1 DEF TypeOK, SessionTypeOK
<1>3. calls' \in 0..MaxCalls /\ doomed' \subseteq Handlers
  BY <1>1, SessionAssumption DEF TypeOK, SessionTypeOK
<1>4. Alone(p)
  BY <1>1, <1>2 DEF Alone
<1> QED BY <1>1, <1>2, <1>3, <1>4 DEF TypeOK, SessionTypeOK

LEMMA GotoFacts ==
  ASSUME TypeOK, NEW p \in Handlers, NEW place \in Places, Goto(p, place)
  PROVE  /\ pc'[p] = place /\ job' = job /\ seen' = seen /\ doomed' = doomed
         /\ pc' \in [Handlers -> Places] /\ calls' = calls
         /\ \A q \in Handlers \ {p} : pc'[q] = pc[q]
         /\ UNCHANGED <<accounts, standing, tokens, links>>
BY DEF Goto, TypeOK

-----------------------------------------------------------------------------
(* Steps that end a handler and leave passwords, tokens and links alone *)

LEMMA QuietTypes ==
  ASSUME TypeOK, UNCHANGED <<accounts, tokens, links>>,
         active' \subseteq Users, suspended' \subseteq Users, role' \in [Users -> Roles],
         pc' \in [Handlers -> Places], job' \in [Handlers -> Job \cup {NoJob}],
         seen' \in [Handlers -> [version: Nat, password: Nat, role: Roles]],
         userLock' \in [Users -> Handlers \cup {NoProc}],
         linkLock' \in [Links -> Handlers \cup {NoProc}],
         doomed' \subseteq Handlers, calls' \in 0..MaxCalls, ModerationTypeOK'
  PROVE  TypeOK'
<1>1. /\ password' = password /\ version' = version
      /\ token' = token /\ expired' = expired /\ revoked' = revoked /\ loggedOut' = loggedOut
      /\ link' = link /\ lapsed' = lapsed
  BY DEF accounts, tokens, links
<1>2. SessionTypeOK'
  BY <1>1 DEF TypeOK, SessionTypeOK
<1> QED BY <1>2 DEF TypeOK

LEMMA QuietEnd ==
  ASSUME ModInv, NEW p \in Handlers, End(p), UNCHANGED <<accounts, tokens, links>>,
         active' \subseteq Users, suspended' \subseteq Users, role' \in [Users -> Roles],
         ModerationTypeOK', RanksSeen(p)
  PROVE  ModInv'
<1>1. TypeOK /\ OneGiver
  BY DEF ModInv
<1>2. calls' \in 0..MaxCalls
  BY <1>1, EndFacts DEF TypeOK, SessionTypeOK
<1>3. TypeOK'
  BY <1>1, <1>2, EndFacts, QuietTypes
<1>4. Local(p)' /\ Alone(p) /\ OneGiver'
  BY <1>1, EndLocal, EndAlone, GiverKept
<1> QED BY <1>3, <1>4, QuietStep

(* A transaction frees its reports, and nobody else's. *)
LEMMA ReportUnlockFacts ==
  ASSUME TypeOK, NEW p \in Handlers, ReportUnlock(p)
  PROVE  /\ reportLock' \in [Reports -> Handlers \cup {NoProc}]
         /\ \A q \in Handlers \ {p}, r \in Reports : reportLock[r] = q => reportLock'[r] = q
BY DEF ReportUnlock, TypeOK, ModerationTypeOK

LEMMA LeaveKeeps ==
  ASSUME ModInv, NEW p \in Handlers, Refuse(p), UNCHANGED moderationVars
  PROVE  ModInv'
<1>1. TypeOK /\ End(p) /\ UNCHANGED <<accounts, standing, tokens, links>>
  BY DEF ModInv, Refuse
<1>2. active' \subseteq Users /\ suspended' \subseteq Users /\ role' \in [Users -> Roles]
  BY <1>1 DEF standing, TypeOK, SessionTypeOK
<1>3. ModerationTypeOK'
  BY <1>1 DEF moderationVars, TypeOK, ModerationTypeOK
<1>4. RanksSeen(p)
  BY <1>1 DEF moderationVars, standing, RanksSeen
<1> QED BY <1>1, <1>2, <1>3, <1>4, QuietEnd

LEMMA ModRefuseKeeps ==
  ASSUME ModInv, NEW p \in Handlers, ModRefuse(p)
  PROVE  ModInv'
<1>1. /\ TypeOK /\ End(p) /\ UNCHANGED <<accounts, standing, tokens, links>>
      /\ ReportUnlock(p) /\ overtaken' = overtaken \ {p}
      /\ muted' = muted /\ comments' = comments /\ report' = report
  BY DEF ModInv, ModRefuse, Refuse
<1>2. active' \subseteq Users /\ suspended' \subseteq Users /\ role' \in [Users -> Roles]
  BY <1>1 DEF standing, TypeOK, SessionTypeOK
<1>3. ModerationTypeOK'
  BY <1>1, ReportUnlockFacts DEF TypeOK, ModerationTypeOK
<1>4. RanksSeen(p)
  BY <1>1, ReportUnlockFacts DEF standing, RanksSeen
<1> QED BY <1>1, <1>2, <1>3, <1>4, QuietEnd

(* The UPDATE of a target: whoever was about to act on the old rank is     *)
(* overtaken.                                                              *)
LEMMA UpdateTargetKeeps ==
  ASSUME ModInv, NEW p \in Handlers, UpdateTarget(p)
  PROVE  ModInv'
<1>1. /\ TypeOK /\ JobOK(p) /\ pc[p] = "update"
      /\ End(p) /\ UNCHANGED <<accounts, suspended, tokens, links, muted, comments, report, reportLock>>
      /\ overtaken' = (IF role' = role THEN overtaken
                   ELSE overtaken \cup {q \in Handlers : /\ pc[q] \in {"update", "decide"}
                                                        /\ Target(q) = Target(p)}) \ {p}
      /\ BanUser(p) \/ UnbanUser(p) \/ UpdateUserRole(p)
  BY DEF ModInv, Local, UpdateTarget
<1>2. job[p].user \in Users
  BY <1>1, SessionAssumption DEF JobOK, WithToken
<1>3. active' \subseteq Users /\ suspended' \subseteq Users
  BY <1>1, <1>2 DEF BanUser, UnbanUser, UpdateUserRole, Target, TypeOK, SessionTypeOK
<1>4. /\ role' \in [Users -> Roles]
      /\ \A u \in Users \ {job[p].user} : role'[u] = role[u]
  <2>1. CASE BanUser(p) \/ UnbanUser(p)
    BY <1>1, <2>1 DEF BanUser, UnbanUser, TypeOK, SessionTypeOK
  <2>2. CASE UpdateUserRole(p)
    <3>1. NewRole[job[p].kind] \in Roles
      BY <2>2 DEF UpdateUserRole, NewRole, Roles
    <3> QED BY <1>1, <2>2, <3>1 DEF UpdateUserRole, Target, TypeOK, SessionTypeOK
  <2> QED BY <1>1, <2>1, <2>2
<1>5. ModerationTypeOK'
  BY <1>1 DEF TypeOK, ModerationTypeOK
<1>6. RanksSeen(p)
  <2> SUFFICES ASSUME NEW q \in Handlers \ {p}
               PROVE  /\ pc[q] \in {"update", "decide"} =>
                           role'[job[q].user] = role[job[q].user] \/ q \in overtaken'
                      /\ q \in overtaken => q \in overtaken'
    BY <1>1 DEF RanksSeen
  <2>1. q \in overtaken => q \in overtaken'
    BY <1>1
  <2>2. CASE role' = role
    BY <2>1, <2>2
  <2>3. CASE role' # role /\ pc[q] \in {"update", "decide"} /\ job[q].user = job[p].user
    BY <1>1, <2>3 DEF Target
  <2>4. CASE pc[q] \in {"update", "decide"} /\ job[q].user # job[p].user
    <3>1. JobOK(q)
      BY DEF ModInv, Local
    <3>2. job[q].user \in Users
      BY <2>4, <3>1, SessionAssumption DEF JobOK, WithToken
    <3> QED BY <1>4, <2>1, <2>4, <3>2
  <2> QED BY <2>1, <2>2, <2>3, <2>4
<1> QED BY <1>1, <1>3, <1>4, <1>5, <1>6, QuietEnd

(* A report that has none yet gets its status, so nobody had it pending.   *)
LEMMA SubmitReportKeeps ==
  ASSUME ModInv, NEW p \in Handlers, SubmitReport(p)
  PROVE  ModInv'
<1>1. /\ TypeOK /\ pc[p] = "handler"
      /\ report' = [report EXCEPT ![job[p].link] = IF @ = "none" THEN "Pending" ELSE @]
      /\ End(p) /\ ReportUnlock(p) /\ overtaken' = overtaken \ {p}
      /\ UNCHANGED <<accounts, standing, tokens, links, muted, comments>>
  BY DEF ModInv, SubmitReport, ModEnd
<1>2. active' \subseteq Users /\ suspended' \subseteq Users /\ role' \in [Users -> Roles]
  BY <1>1 DEF standing, TypeOK, SessionTypeOK
<1>3. ModerationTypeOK'
  BY <1>1, ReportUnlockFacts DEF TypeOK, ModerationTypeOK
<1>4. RanksSeen(p)
  BY <1>1, ReportUnlockFacts DEF standing, RanksSeen, TypeOK, ModerationTypeOK
<1> QED BY <1>1, <1>2, <1>3, <1>4, QuietEnd

(* The report decided is p's own. *)
LEMMA ResolveReportKeeps ==
  ASSUME ModInv, NEW p \in Handlers, ResolveReport(p)
  PROVE  ModInv'
<1> DEFINE u == Target(p)
           If(kind) == IF job[p].kind = kind THEN {u} ELSE {}
<1>1. /\ TypeOK /\ JobOK(p) /\ ReportHeld(p) /\ pc[p] = "decide"
      /\ report' = [report EXCEPT ![job[p].link] =
                      IF job[p].kind = "Dismiss" THEN "Dismissed" ELSE "Resolved"]
      /\ comments' = comments \ If("DeleteComment")
      /\ muted' = muted \cup If("Mute")
      /\ suspended' = suspended \cup If("Suspend")
      /\ active' = active \ If("Ban")
      /\ End(p) /\ ReportUnlock(p) /\ overtaken' = overtaken \ {p}
      /\ UNCHANGED <<accounts, role, tokens, links>>
  BY DEF ModInv, Local, ResolveReport, ModEnd
<1>2. u \in Targets /\ u \in Users /\ job[p].link \in Reports
  BY <1>1, SessionAssumption DEF JobOK, WithToken, Target
<1>3. \A kind \in {"DeleteComment", "Mute", "Suspend", "Ban"} : If(kind) \subseteq {u}
  OBVIOUS
<1> HIDE DEF u, If
<1>4. active' \subseteq Users /\ suspended' \subseteq Users /\ role' \in [Users -> Roles]
  BY <1>1, <1>2, <1>3 DEF TypeOK, SessionTypeOK
<1>5. ModerationTypeOK'
  BY <1>1, <1>2, <1>3, ReportUnlockFacts DEF TypeOK, ModerationTypeOK
<1>6. ASSUME NEW q \in Handlers \ {p}, NEW r \in Reports, reportLock[r] = q
      PROVE  reportLock'[r] = q /\ report'[r] = report[r]
  <2>1. r # job[p].link
    BY <1>1, <1>6 DEF ReportHeld
  <2> QED BY <1>1, <1>6, <2>1, ReportUnlockFacts DEF TypeOK, ModerationTypeOK
<1>7. RanksSeen(p)
  BY <1>1, <1>6 DEF RanksSeen
<1> QED BY <1>1, <1>4, <1>5, <1>7, QuietEnd

LEMMA PostKeeps ==
  ASSUME ModInv, NEW p \in Handlers, pc[p] = "post", AddComment(p)
  PROVE  ModInv'
<1>1. /\ TypeOK /\ JobOK(p) /\ comments' = comments \cup {Caller(p)}
      /\ End(p) /\ ReportUnlock(p) /\ overtaken' = overtaken \ {p}
      /\ UNCHANGED <<accounts, standing, tokens, links, muted, report>>
  BY DEF ModInv, Local, AddComment, ModEnd
<1>2. Caller(p) \in Targets
  BY <1>1 DEF JobOK, WithToken
<1>3. active' \subseteq Users /\ suspended' \subseteq Users /\ role' \in [Users -> Roles]
  BY <1>1 DEF standing, TypeOK, SessionTypeOK
<1>4. ModerationTypeOK'
  BY <1>1, <1>2, ReportUnlockFacts DEF TypeOK, ModerationTypeOK
<1>5. RanksSeen(p)
  BY <1>1, ReportUnlockFacts DEF standing, RanksSeen
<1> QED BY <1>1, <1>3, <1>4, <1>5, QuietEnd

-----------------------------------------------------------------------------
(* Steps that begin a handler *)

LEMMA QuietBegin ==
  ASSUME ModInv, NEW p \in Handlers, NEW first \in Places, NEW j \in Job,
         NEW view \in [version: Nat, password: Nat, role: Roles],
         Begin(p, first, j, view), doomed' \subseteq doomed \cup {p},
         UNCHANGED <<accounts, standing, tokens, links, locks>>, UNCHANGED moderationVars,
         Local(p)', OneGiver'
  PROVE  ModInv'
<1>1. TypeOK /\ UNCHANGED <<accounts, tokens, links>> /\ UNCHANGED locks
      /\ active' = active /\ suspended' = suspended /\ role' = role
      /\ muted' = muted /\ comments' = comments /\ report' = report
      /\ reportLock' = reportLock /\ overtaken' = overtaken
  BY DEF ModInv, standing, moderationVars
<1>2. active' \subseteq Users /\ suspended' \subseteq Users /\ role' \in [Users -> Roles]
  BY <1>1 DEF TypeOK, SessionTypeOK
<1>3. ModerationTypeOK'
  BY <1>1 DEF TypeOK, ModerationTypeOK
<1>4. TypeOK'
  BY <1>1, <1>2, <1>3, BeginFacts, QuietTypes
<1>5. Alone(p)
  BY <1>1, BeginFacts
<1>6. RanksSeen(p)
  BY <1>1 DEF RanksSeen
<1> QED BY <1>1, <1>4, <1>5, <1>6, QuietStep

(* A login begins with a token that nobody has and nobody is about to give. *)
LEMMA EnterKeeps ==
  ASSUME ModInv, NEW p \in Handlers, NEW t \in Tokens, NEW u \in Users,
         Enter(p, t, u), UNCHANGED moderationVars
  PROVE  ModInv'
<1> DEFINE j == Call("login", t, NoOne, u)
           view == View(version[u], password[u], role[u])
<1>1. /\ TypeOK /\ OneGiver /\ Unused(t) /\ Begin(p, "issue", j, view)
      /\ UNCHANGED <<accounts, standing, tokens, links, locks, doomed>>
  BY DEF ModInv, Enter
<1>2. version[u] \in Nat /\ password[u] \in Nat /\ role[u] \in Roles
  BY <1>1 DEF TypeOK, SessionTypeOK
<1>3. /\ view \in [version: Nat, password: Nat, role: Roles]
      /\ view.version = version[u] /\ view.password = password[u]
  BY <1>2, ViewFacts
<1>4. "login" \in Kinds
  BY DEF Kinds
<1>5. j \in Job /\ j # NoJob /\ j.token = t /\ j.user = u /\ j.kind = "login"
  BY <1>4, CallFacts
<1> HIDE DEF j, view
<1>6. "issue" \in Places /\ doomed' \subseteq doomed \cup {p}
  BY <1>1 DEF Places
<1>7. pc'[p] = "issue" /\ job'[p] = j /\ seen'[p] = view /\ pc[p] = "idle" /\ Alone(p)
  BY <1>1, <1>3, <1>5, <1>6, BeginFacts
<1>8. /\ token[t] = NoToken /\ token' = token /\ version' = version /\ password' = password
      /\ \A q \in Handlers : job[q] # NoJob => job[q].token # t
      /\ doomed' = doomed
  BY <1>1 DEF Unused, accounts, tokens
<1>9. Local(p)'
  <2>1. JobOK(p)'
    BY <1>5, <1>7, <1>8 DEF JobOK, WithToken, Forgetting, Resetting
  <2>2. LoginOK(p)'
    BY <1>2, <1>3, <1>5, <1>7, <1>8 DEF LoginOK, Bought
  <2>3. p \notin doomed'
    BY <1>7, <1>8 DEF ModInv, Local, DoomedOK, WithToken
  <2>4. DoomedOK(p)' /\ LinksHeld(p)' /\ ReportHeld(p)' /\ RankOK(p)'
    BY <1>7, <2>3 DEF DoomedOK, LinksHeld, ReportHeld, RankOK
  <2> QED BY <2>1, <2>2, <2>4 DEF Local
<1>10. ASSUME NEW q \in Handlers, pc[q] = "issue"
       PROVE  job[q].token # t
  BY <1>8, <1>10 DEF ModInv, Local, JobOK
<1>11. OneGiver'
  BY <1>1, <1>5, <1>7, <1>10, GiverJoins DEF Forgetting
<1> QED BY <1>1, <1>3, <1>5, <1>6, <1>9, <1>11, QuietBegin

(* A request that was parsed; it is doomed if its token is dead. *)
LEMMA RequestKeeps ==
  ASSUME ModInv, NEW p \in Handlers, NEW kind \in Kinds, NEW t \in Tokens,
         NEW l \in Reports \cup {NoOne}, NEW u \in Users \cup {NoOne},
         Request(p, kind, t, l, u), UNCHANGED moderationVars,
         kind \in TargetKinds \cup Decisions => u \in Targets,
         kind \in Decisions \cup {"report"} => l \in Reports,
         kind = "comment" => token[t].user \in Targets
  PROVE  ModInv'
<1> DEFINE j == Call(kind, t, l, u)
<1>1. /\ TypeOK /\ OneGiver /\ token[t] # NoToken /\ Begin(p, "token", j, NothingSeen)
      /\ doomed' = IF Dead(t) THEN doomed \cup {p} ELSE doomed
      /\ UNCHANGED <<accounts, standing, tokens, links, locks>>
  BY DEF ModInv, Request
<1>2. NothingSeen \in [version: Nat, password: Nat, role: Roles]
  BY ViewFacts DEF NothingSeen, Roles
<1>3. j \in Job /\ j # NoJob /\ j.token = t /\ j.link = l /\ j.user = u /\ j.kind = kind
  BY CallFacts
<1> HIDE DEF j
<1>4. "token" \in Places /\ doomed' \subseteq doomed \cup {p}
  BY <1>1 DEF Places, WithToken
<1>5. pc'[p] = "token" /\ job'[p] = j /\ pc[p] = "idle" /\ Alone(p)
  BY <1>1, <1>2, <1>3, <1>4, BeginFacts
<1>6. token' = token /\ version' = version /\ loggedOut' = loggedOut
  BY <1>1 DEF accounts, tokens
<1>7. Local(p)'
  <2>1. JobOK(p)'
    BY <1>1, <1>3, <1>5, <1>6 DEF JobOK, WithToken, Forgetting, Resetting, Caller
  <2>2. p \notin doomed
    BY <1>5 DEF ModInv, Local, DoomedOK, WithToken
  <2>3. DoomedOK(p)'
    BY <1>1, <1>3, <1>5, <1>6, <2>2 DEF DoomedOK, WithToken, Dead
  <2>4. LoginOK(p)' /\ LinksHeld(p)' /\ ReportHeld(p)' /\ RankOK(p)'
    BY <1>5 DEF LoginOK, LinksHeld, ReportHeld, RankOK
  <2> QED BY <2>1, <2>3, <2>4 DEF Local
<1>8. OneGiver'
  BY <1>1, <1>5, GiverKept DEF GivesSame, Forgetting
<1> QED BY <1>1, <1>2, <1>3, <1>4, <1>7, <1>8, QuietBegin

(* A request for a link, which nobody else is about to send. *)
LEMMA ForgotPasswordKeeps ==
  ASSUME ModInv, NEW p \in Handlers, NEW l \in Links, NEW u \in Users,
         ForgotPassword(p, l, u), UNCHANGED moderationVars
  PROVE  ModInv'
<1> DEFINE j == Call("forgot", NoOne, l, u)
<1>1. /\ TypeOK /\ OneGiver /\ FreshLink(l) /\ Begin(p, "lock user", j, NothingSeen)
      /\ UNCHANGED <<accounts, standing, tokens, links, locks, doomed>>
  BY DEF ModInv, ForgotPassword
<1>2. NothingSeen \in [version: Nat, password: Nat, role: Roles]
  BY ViewFacts DEF NothingSeen, Roles
<1>3. "forgot" \in Kinds
  BY DEF Kinds
<1>4. j \in Job /\ j # NoJob /\ j.link = l /\ j.user = u
  BY <1>3, CallFacts
<1> HIDE DEF j
<1>5. "lock user" \in Places /\ doomed' \subseteq doomed \cup {p}
  BY <1>1 DEF Places, Forgetting
<1>6. pc'[p] = "lock user" /\ job'[p] = j /\ pc[p] = "idle" /\ Alone(p)
  BY <1>1, <1>2, <1>4, <1>5, BeginFacts
<1>7. /\ link[l] = NoLink /\ link' = link /\ doomed' = doomed
      /\ \A q \in Handlers : job[q] # NoJob => job[q].link # l
  BY <1>1 DEF FreshLink, links
<1>8. Local(p)'
  <2>1. JobOK(p)'
    BY <1>4, <1>6, <1>7 DEF JobOK, WithToken, Forgetting, Resetting
  <2>2. p \notin doomed'
    BY <1>6, <1>7 DEF ModInv, Local, DoomedOK, WithToken
  <2>3. LoginOK(p)' /\ DoomedOK(p)' /\ LinksHeld(p)' /\ ReportHeld(p)' /\ RankOK(p)'
    BY <1>6, <2>2 DEF LoginOK, DoomedOK, LinksHeld, ReportHeld, RankOK
  <2> QED BY <2>1, <2>3 DEF Local
<1>9. ASSUME NEW q \in Handlers, pc[q] \in Forgetting
      PROVE  job[q].link # l
  BY <1>7, <1>9 DEF ModInv, Local, JobOK, Forgetting
<1>10. OneGiver'
  BY <1>1, <1>4, <1>6, <1>9, GiverJoins DEF Forgetting
<1> QED BY <1>1, <1>2, <1>4, <1>5, <1>8, <1>10, QuietBegin

(* The use of a link that is still good when it is looked up. *)
LEMMA ResetBeginKeeps ==
  ASSUME ModInv, NEW p \in Handlers, NEW l \in Links, link[l].live, l \notin lapsed,
         ResetPassword(p, l), UNCHANGED moderationVars
  PROVE  ModInv'
<1> DEFINE u == link[l].user
           j == Call("reset", NoOne, l, u)
<1>1. /\ TypeOK /\ OneGiver /\ Begin(p, "claim link", j, NothingSeen)
      /\ UNCHANGED <<accounts, standing, tokens, links, locks, doomed>>
  BY DEF ModInv, ResetPassword, links
<1>2. NothingSeen \in [version: Nat, password: Nat, role: Roles]
  BY ViewFacts DEF NothingSeen, Roles
<1>3. "reset" \in Kinds /\ u \in Users
  BY <1>1, LinkFacts DEF Kinds
<1>4. j \in Job /\ j # NoJob /\ j.link = l /\ j.user = u
  BY <1>3, CallFacts
<1> HIDE DEF j
<1>5. "claim link" \in Places /\ doomed' \subseteq doomed \cup {p}
  BY <1>1 DEF Places, Resetting
<1>6. pc'[p] = "claim link" /\ job'[p] = j /\ pc[p] = "idle" /\ Alone(p)
  BY <1>1, <1>2, <1>4, <1>5, BeginFacts
<1>7. link' = link /\ doomed' = doomed
  BY <1>1 DEF links
<1>8. Local(p)'
  <2>1. JobOK(p)'
    BY <1>3, <1>4, <1>6, <1>7 DEF JobOK, WithToken, Forgetting, Resetting
  <2>2. p \notin doomed'
    BY <1>6, <1>7 DEF ModInv, Local, DoomedOK, WithToken
  <2>3. LoginOK(p)' /\ DoomedOK(p)' /\ LinksHeld(p)' /\ ReportHeld(p)' /\ RankOK(p)'
    BY <1>6, <2>2 DEF LoginOK, DoomedOK, LinksHeld, ReportHeld, RankOK
  <2> QED BY <2>1, <2>3 DEF Local
<1>9. OneGiver'
  BY <1>1, <1>6, GiverKept DEF GivesSame, Forgetting
<1> QED BY <1>1, <1>2, <1>4, <1>5, <1>8, <1>9, QuietBegin

-----------------------------------------------------------------------------
(* Steps within a handler *)

LEMMA QuietMove ==
  ASSUME ModInv, NEW p \in Handlers, pc[p] # "idle",
         UNCHANGED <<accounts, standing, tokens, links, calls, job, doomed>>,
         pc' \in [Handlers -> Places], \A q \in Handlers \ {p} : pc'[q] = pc[q],
         pc'[p] # "issue", pc'[p] \in Forgetting => pc[p] \in Forgetting,
         seen' \in [Handlers -> [version: Nat, password: Nat, role: Roles]],
         \A q \in Handlers \ {p} : seen'[q] = seen[q],
         userLock' \in [Users -> Handlers \cup {NoProc}],
         linkLock' \in [Links -> Handlers \cup {NoProc}],
         \A q \in Handlers \ {p} :
           /\ \A u \in Users : userLock[u] = q => userLock'[u] = q
           /\ \A l \in Links : linkLock[l] = q => linkLock'[l] = q,
         UNCHANGED <<muted, comments, report, overtaken>>,
         reportLock' \in [Reports -> Handlers \cup {NoProc}],
         \A q \in Handlers \ {p}, r \in Reports : reportLock[r] = q => reportLock'[r] = q,
         Local(p)'
  PROVE  ModInv'
<1>1. TypeOK /\ OneGiver /\ UNCHANGED <<accounts, tokens, links>>
      /\ active' = active /\ suspended' = suspended /\ role' = role
      /\ calls' = calls /\ job' = job /\ doomed' = doomed
  BY DEF ModInv, standing
<1>2. active' \subseteq Users /\ suspended' \subseteq Users /\ role' \in [Users -> Roles]
      /\ calls' \in 0..MaxCalls /\ doomed' \subseteq Handlers
      /\ job' \in [Handlers -> Job \cup {NoJob}]
  BY <1>1 DEF TypeOK, SessionTypeOK
<1>3. ModerationTypeOK'
  BY <1>1 DEF TypeOK, ModerationTypeOK
<1>4. TypeOK'
  BY <1>1, <1>2, <1>3, QuietTypes
<1>5. Alone(p)
  BY <1>1 DEF Alone
<1>6. RanksSeen(p)
  BY <1>1 DEF RanksSeen
<1>7. OneGiver'
  BY <1>1, <1>5, GiverKept DEF GivesSame
<1> QED BY <1>1, <1>4, <1>5, <1>6, <1>7, QuietStep

(* What the request was called with stays. *)
LEMMA GotoJob ==
  ASSUME ModInv, NEW p \in Handlers, NEW place \in Places, Goto(p, place),
         \/ pc[p] \in WithToken /\ place \in WithToken
         \/ pc[p] \in Forgetting /\ place \in Forgetting
         \/ pc[p] \in Resetting /\ place \in Resetting,
         place = "update" => job[p].kind \in TargetKinds,
         place = "decide" => job[p].kind \in Decisions,
         place = "post" => job[p].kind = "comment"
  PROVE  JobOK(p)' /\ LoginOK(p)' /\ pc[p] # "idle" /\ place # "issue"
<1>1. pc'[p] = place /\ job' = job /\ UNCHANGED <<accounts, tokens, links>>
  BY GotoFacts DEF ModInv
<1>2. token' = token /\ link' = link
  BY <1>1 DEF tokens, links
<1>3. JobOK(p)
  BY DEF ModInv, Local
<1>4. place # "issue" /\ place # "idle" /\ pc[p] # "idle"
  BY DEF WithToken, Forgetting, Resetting
<1>5. JobOK(p)'
  BY <1>1, <1>2, <1>3, <1>4 DEF JobOK, Caller, WithToken, Forgetting, Resetting
<1> QED BY <1>1, <1>4, <1>5 DEF LoginOK

(* A move that takes and frees no lock at all. *)
LEMMA QuietGoto ==
  ASSUME ModInv, NEW p \in Handlers, NEW place \in WithToken, pc[p] \in WithToken,
         Goto(p, place), UNCHANGED locks, UNCHANGED moderationVars, Local(p)'
  PROVE  ModInv'
<1>1. /\ TypeOK /\ place \in Places /\ pc[p] # "idle"
      /\ place # "issue" /\ place \notin Forgetting
      /\ userLock' = userLock /\ linkLock' = linkLock
      /\ muted' = muted /\ comments' = comments /\ report' = report
      /\ reportLock' = reportLock /\ overtaken' = overtaken
  BY DEF ModInv, Places, WithToken, Forgetting, locks, moderationVars
<1>2. /\ pc'[p] = place /\ job' = job /\ seen' = seen /\ doomed' = doomed
      /\ pc' \in [Handlers -> Places] /\ calls' = calls
      /\ \A q \in Handlers \ {p} : pc'[q] = pc[q]
      /\ UNCHANGED <<accounts, standing, tokens, links>>
  BY <1>1, GotoFacts
<1>3. /\ seen' \in [Handlers -> [version: Nat, password: Nat, role: Roles]]
      /\ userLock' \in [Users -> Handlers \cup {NoProc}]
      /\ linkLock' \in [Links -> Handlers \cup {NoProc}]
      /\ reportLock' \in [Reports -> Handlers \cup {NoProc}]
  BY <1>1, <1>2 DEF TypeOK, SessionTypeOK, ModerationTypeOK
<1>4. UNCHANGED <<accounts, standing, tokens, links, calls, job, doomed>>
      /\ UNCHANGED <<muted, comments, report, overtaken>>
  BY <1>1, <1>2
<1> QED BY <1>1, <1>2, <1>3, <1>4, QuietMove

(* A dead token that is not among the revoked is expired or superseded. *)
LEMMA CheckRevokedKeeps ==
  ASSUME ModInv, NEW p \in Handlers, CheckRevoked(p), UNCHANGED moderationVars
  PROVE  ModInv'
<1>1. CASE job[p].token \in revoked
  BY <1>1, LeaveKeeps DEF CheckRevoked
<1>2. CASE job[p].token \notin revoked
  <2>1. pc[p] = "token" /\ Goto(p, "user") /\ UNCHANGED locks
    BY <1>2 DEF CheckRevoked
  <2>2. "user" \in Places /\ "user" \in WithToken /\ "token" \in WithToken
    BY DEF Places, WithToken
  <2>3. JobOK(p)' /\ LoginOK(p)'
    BY <2>1, <2>2, GotoJob
  <2>4. /\ pc'[p] = "user" /\ job' = job /\ doomed' = doomed
        /\ UNCHANGED <<accounts, standing, tokens, links>>
    BY <2>1, <2>2, GotoFacts DEF ModInv
  <2>5. DoomedOK(p)'
    <3> SUFFICES ASSUME p \in doomed
                 PROVE  DoomedOK(p)'
      BY <2>4 DEF DoomedOK
    <3>1. Dead(job[p].token) /\ loggedOut \subseteq revoked \cup expired
      BY DEF ModInv, Local, DoomedOK, RevocationsKept
    <3>2. job[p].token \in expired \/ Stale(job[p].token)
      BY <1>2, <3>1 DEF Dead, Stale
    <3>3. Dead(job[p].token)' /\ (job[p].token \in expired \/ Stale(job[p].token))'
      BY <2>4, <3>1, <3>2 DEF Dead, Stale, accounts, tokens
    <3> QED BY <2>2, <2>4, <3>3 DEF DoomedOK
  <2>6. LinksHeld(p)' /\ ReportHeld(p)' /\ RankOK(p)'
    BY <2>4 DEF LinksHeld, ReportHeld, RankOK
  <2>7. Local(p)'
    BY <2>3, <2>5, <2>6 DEF Local
  <2> QED BY <2>1, <2>2, <2>7, QuietGoto
<1> QED BY <1>1, <1>2

(* A superseded token is refused here. *)
LEMMA ReadUserKeeps ==
  ASSUME ModInv, NEW p \in Handlers, ReadUser(p), UNCHANGED moderationVars
  PROVE  ModInv'
<1> DEFINE t == job[p].token
           u == token[t].user
<1>0. TypeOK /\ JobOK(p) /\ DoomedOK(p) /\ pc[p] = "user"
  BY DEF ModInv, Local, ReadUser
<1>1. CASE ~(MayEnter(u) /\ Current(t))
  BY <1>1, LeaveKeeps DEF ReadUser
<1>2. CASE MayEnter(u) /\ Current(t)
  <2>1. /\ pc' = [pc EXCEPT ![p] = "handler"]
        /\ seen' = [seen EXCEPT ![p] = View(0, 0, role[u])]
        /\ UNCHANGED <<accounts, standing, tokens, links, locks, calls, job, doomed>>
    BY <1>2 DEF ReadUser
  <2>2. t \in Tokens /\ token[t] # NoToken /\ u \in Users /\ token[t].version \in Nat
    BY <1>0, TokenFacts DEF JobOK, WithToken
  <2>3. role[u] \in Roles /\ version[u] \in Nat
    BY <1>0, <2>2 DEF TypeOK, SessionTypeOK
  <2>4. View(0, 0, role[u]) \in [version: Nat, password: Nat, role: Roles]
    BY <2>3, ViewFacts
  <2>5. /\ seen' \in [Handlers -> [version: Nat, password: Nat, role: Roles]]
        /\ \A q \in Handlers \ {p} : seen'[q] = seen[q]
    BY <1>0, <2>1, <2>4 DEF TypeOK, SessionTypeOK
  <2>6. /\ pc'[p] = "handler" /\ pc' \in [Handlers -> Places]
        /\ \A q \in Handlers \ {p} : pc'[q] = pc[q]
    BY <1>0, <2>1 DEF TypeOK, Places, WithToken
  <2>7. JobOK(p)'
    BY <1>0, <2>1, <2>6 DEF JobOK, Caller, WithToken, Forgetting, Resetting, tokens, links
  <2>8. DoomedOK(p)'
    <3> SUFFICES ASSUME p \in doomed
                 PROVE  DoomedOK(p)'
      BY <2>1 DEF DoomedOK
    <3>1. Dead(t) /\ (t \in expired \/ Stale(t))
      BY <1>0 DEF DoomedOK
    <3>2. ~Stale(t)
      BY <1>2, <2>2, <2>3 DEF Stale, Current
    <3>3. Dead(t)' /\ t \in expired'
      BY <2>1, <3>1, <3>2 DEF Dead, accounts, tokens
    <3> QED BY <2>1, <2>6, <3>3 DEF DoomedOK, WithToken
  <2>9. Local(p)'
    BY <2>6, <2>7, <2>8 DEF Local, LoginOK, LinksHeld, ReportHeld, RankOK
  <2>10. /\ userLock' = userLock /\ linkLock' = linkLock
         /\ userLock' \in [Users -> Handlers \cup {NoProc}]
         /\ linkLock' \in [Links -> Handlers \cup {NoProc}]
         /\ UNCHANGED <<muted, comments, report, overtaken>> /\ reportLock' = reportLock
         /\ reportLock' \in [Reports -> Handlers \cup {NoProc}]
    BY <1>0, <2>1 DEF locks, moderationVars, TypeOK, SessionTypeOK, ModerationTypeOK
  <2>11. UNCHANGED <<accounts, standing, tokens, links, calls, job, doomed>>
         /\ pc[p] # "idle" /\ pc'[p] # "issue" /\ pc'[p] \notin Forgetting
    BY <1>0, <2>1, <2>6 DEF Forgetting
  <2> QED BY <2>5, <2>6, <2>9, <2>10, <2>11, QuietMove
<1> QED BY <1>1, <1>2

(* A move that takes locks on users or links which were free. *)
LEMMA LockingGoto ==
  ASSUME ModInv, NEW p \in Handlers, NEW place \in Forgetting \cup Resetting,
         pc[p] \in Forgetting \cup Resetting, Goto(p, place),
         place \in Forgetting => pc[p] \in Forgetting,
         userLock' \in [Users -> Handlers \cup {NoProc}],
         linkLock' \in [Links -> Handlers \cup {NoProc}],
         \A q \in Handlers \ {p} :
           /\ \A u \in Users : userLock[u] = q => userLock'[u] = q
           /\ \A l \in Links : linkLock[l] = q => linkLock'[l] = q,
         UNCHANGED moderationVars, Local(p)'
  PROVE  ModInv'
<1>1. /\ TypeOK /\ place \in Places /\ pc[p] # "idle" /\ place # "issue"
      /\ muted' = muted /\ comments' = comments /\ report' = report
      /\ reportLock' = reportLock /\ overtaken' = overtaken
  BY DEF ModInv, Places, Forgetting, Resetting, moderationVars
<1>2. /\ pc'[p] = place /\ job' = job /\ seen' = seen /\ doomed' = doomed
      /\ pc' \in [Handlers -> Places] /\ calls' = calls
      /\ \A q \in Handlers \ {p} : pc'[q] = pc[q]
      /\ UNCHANGED <<accounts, standing, tokens, links>>
  BY <1>1, GotoFacts
<1>3. /\ seen' \in [Handlers -> [version: Nat, password: Nat, role: Roles]]
      /\ reportLock' \in [Reports -> Handlers \cup {NoProc}]
  BY <1>1, <1>2 DEF TypeOK, SessionTypeOK, ModerationTypeOK
<1>4. UNCHANGED <<accounts, standing, tokens, links, calls, job, doomed>>
      /\ UNCHANGED <<muted, comments, report, overtaken>>
  BY <1>1, <1>2
<1> QED BY <1>1, <1>2, <1>3, <1>4, QuietMove

LEMMA LockUserKeeps ==
  ASSUME ModInv, NEW p \in Handlers, LockUser(p), UNCHANGED moderationVars
  PROVE  ModInv'
<1> DEFINE u == job[p].user
<1>1. /\ TypeOK /\ JobOK(p) /\ DoomedOK(p) /\ pc[p] = "lock user" /\ userLock[u] = NoProc
      /\ userLock' = [userLock EXCEPT ![u] = p] /\ linkLock' = linkLock
      /\ Goto(p, "old links")
  BY DEF ModInv, Local, LockUser, LockFree
<1>2. "old links" \in Places /\ {"old links", "lock user"} \subseteq Forgetting /\ u \in Users
  BY <1>1 DEF JobOK, Places, Forgetting
<1>3. JobOK(p)' /\ LoginOK(p)'
  BY <1>1, <1>2, GotoJob
<1>4. pc'[p] = "old links" /\ job' = job /\ doomed' = doomed
  BY <1>1, <1>2, GotoFacts
<1>5. /\ userLock' \in [Users -> Handlers \cup {NoProc}] /\ userLock'[u] = p
      /\ linkLock' \in [Links -> Handlers \cup {NoProc}]
      /\ \A q \in Handlers \ {p} :
           /\ \A v \in Users : userLock[v] = q => userLock'[v] = q
           /\ \A l \in Links : linkLock[l] = q => linkLock'[l] = q
  BY <1>1, <1>2, SessionAssumption DEF TypeOK, SessionTypeOK
<1>6. p \notin doomed'
  BY <1>1, <1>4 DEF DoomedOK, WithToken
<1>7. Local(p)'
  BY <1>3, <1>4, <1>5, <1>6 DEF Local, DoomedOK, LinksHeld, ReportHeld, RankOK
<1>8. /\ Goto(p, "old links") /\ "old links" \in Forgetting \cup Resetting
      /\ pc[p] \in Forgetting \cup Resetting /\ pc[p] \in Forgetting
  BY <1>1, <1>2
<1> QED BY <1>5, <1>7, <1>8, LockingGoto

(* The links it deletes are all that the user has. *)
LEMMA DeleteLinksKeeps ==
  ASSUME ModInv, NEW p \in Handlers, DeleteLinks(p), UNCHANGED moderationVars
  PROVE  ModInv'
<1> DEFINE u == job[p].user
           old == OldLinks(u)
<1>1. /\ TypeOK /\ JobOK(p) /\ DoomedOK(p) /\ LinksHeld(p) /\ pc[p] = "old links"
      /\ \A l \in old : linkLock[l] = NoProc
      /\ linkLock' = [l \in Links |-> IF l \in old THEN p ELSE linkLock[l]]
      /\ userLock' = userLock /\ Goto(p, "new link")
  BY DEF ModInv, Local, DeleteLinks, LockFree
<1>2. "new link" \in Places /\ {"old links", "new link"} \subseteq Forgetting /\ u \in Users
  BY <1>1 DEF JobOK, Places, Forgetting
<1>3. JobOK(p)' /\ LoginOK(p)'
  BY <1>1, <1>2, GotoJob
<1>4. pc'[p] = "new link" /\ job' = job /\ doomed' = doomed /\ link' = link
  BY <1>1, <1>2, GotoFacts DEF links
<1>5. /\ userLock' \in [Users -> Handlers \cup {NoProc}]
      /\ linkLock' \in [Links -> Handlers \cup {NoProc}]
      /\ \A q \in Handlers \ {p} :
           /\ \A v \in Users : userLock[v] = q => userLock'[v] = q
           /\ \A l \in Links : linkLock[l] = q => linkLock'[l] = q
  BY <1>1, SessionAssumption DEF TypeOK, SessionTypeOK
<1>6. p \notin doomed'
  BY <1>1, <1>4 DEF DoomedOK, WithToken
<1>7. LinksHeld(p)'
  BY <1>1, <1>4 DEF LinksHeld, OldLinks
<1>8. Local(p)'
  BY <1>3, <1>4, <1>6, <1>7 DEF Local, DoomedOK, ReportHeld, RankOK
<1> QED BY <1>1, <1>2, <1>5, <1>8, LockingGoto

(* The link is claimed while it is there, and stays there until the commit. *)
LEMMA ClaimLinkKeeps ==
  ASSUME ModInv, NEW p \in Handlers, ClaimLink(p), UNCHANGED moderationVars
  PROVE  ModInv'
<1> DEFINE l == job[p].link
<1>1. CASE ~Claimable(l)
  BY <1>1, LeaveKeeps DEF ClaimLink
<1>2. CASE Claimable(l)
  <2>1. /\ TypeOK /\ JobOK(p) /\ DoomedOK(p) /\ pc[p] = "claim link"
        /\ linkLock[l] = NoProc /\ link[l].live
        /\ linkLock' = [linkLock EXCEPT ![l] = p]
        /\ userLock' = userLock /\ Goto(p, "new password")
    BY <1>2 DEF ModInv, Local, ClaimLink, LockFree, Claimable
  <2>2. "new password" \in Places /\ {"claim link", "new password"} \subseteq Resetting
        /\ "new password" \notin Forgetting /\ l \in Links
    BY <2>1 DEF JobOK, Places, Resetting, Forgetting
  <2>3. JobOK(p)' /\ LoginOK(p)'
    BY <2>1, <2>2, GotoJob
  <2>4. pc'[p] = "new password" /\ job' = job /\ doomed' = doomed /\ link' = link
    BY <2>1, <2>2, GotoFacts DEF links
  <2>5. /\ userLock' \in [Users -> Handlers \cup {NoProc}]
        /\ linkLock' \in [Links -> Handlers \cup {NoProc}] /\ linkLock'[l] = p
        /\ \A q \in Handlers \ {p} :
             /\ \A v \in Users : userLock[v] = q => userLock'[v] = q
             /\ \A k \in Links : linkLock[k] = q => linkLock'[k] = q
    BY <2>1, <2>2, SessionAssumption DEF TypeOK, SessionTypeOK
  <2>6. p \notin doomed'
    BY <2>1, <2>4 DEF DoomedOK, WithToken
  <2>7. LinksHeld(p)'
    BY <2>1, <2>4, <2>5 DEF LinksHeld
  <2>8. Local(p)'
    BY <2>3, <2>4, <2>6, <2>7 DEF Local, DoomedOK, ReportHeld, RankOK
  <2>9. /\ Goto(p, "new password") /\ "new password" \in Forgetting \cup Resetting
        /\ pc[p] \in Forgetting \cup Resetting /\ "new password" \notin Forgetting
    BY <2>1, <2>2
  <2> QED BY <2>5, <2>8, <2>9, LockingGoto
<1> QED BY <1>1, <1>2

(* Whoever goes on to a ban has just passed the check of ranks. *)
LEMMA ReadTargetKeeps ==
  ASSUME ModInv, NEW p \in Handlers, ReadTarget(p)
  PROVE  ModInv'
<1>1. CASE ~(Allowed(p) /\ (job[p].kind = "ban" => MayBan(p)))
  BY <1>1, ModRefuseKeeps DEF ReadTarget
<1>2. CASE Allowed(p) /\ (job[p].kind = "ban" => MayBan(p))
  <2>1. /\ TypeOK /\ pc[p] = "handler" /\ job[p].kind \in TargetKinds
        /\ Goto(p, "update") /\ UNCHANGED locks
        /\ UNCHANGED moderationVars
    BY <1>2 DEF ModInv, ReadTarget, Proceed, TargetKinds, moderationVars
  <2>2. "update" \in Places /\ {"handler", "update"} \subseteq WithToken
    BY DEF Places, WithToken
  <2>3. JobOK(p)' /\ LoginOK(p)'
    BY <2>1, <2>2, GotoJob
  <2>4. /\ pc'[p] = "update" /\ job' = job /\ seen' = seen /\ doomed' = doomed
        /\ UNCHANGED <<accounts, standing, tokens, links>>
    BY <2>1, <2>2, GotoFacts
  <2>5. DoomedOK(p)'
    <3>1. DoomedOK(p)
      BY DEF ModInv, Local
    <3> QED BY <2>1, <2>2, <2>4, <3>1 DEF DoomedOK, Dead, accounts, tokens
  <2>6. RankOK(p)'
    BY <1>2, <2>4 DEF RankOK, MayBan, Outranks, Target, Caller, standing, tokens
  <2>7. LinksHeld(p)' /\ ReportHeld(p)'
    BY <2>4 DEF LinksHeld, ReportHeld
  <2>8. Local(p)'
    BY <2>3, <2>5, <2>6, <2>7 DEF Local
  <2> QED BY <2>1, <2>2, <2>8, QuietGoto
<1> QED BY <1>1, <1>2

(* A ban by report is of a user, so it too has passed the check. *)
LEMMA LockReportKeeps ==
  ASSUME ModInv, NEW p \in Handlers, LockReport(p)
  PROVE  ModInv'
<1> DEFINE r == job[p].link
           ok == /\ Allowed(p)
                 /\ report[r] = "Pending"
                 /\ Fits(job[p].kind, r)
                 /\ Subject[r][1] = "User" /\ job[p].kind # "Dismiss" => MayBan(p)
<1>1. /\ TypeOK /\ JobOK(p) /\ pc[p] = "handler" /\ job[p].kind \in Decisions
      /\ reportLock[r] = NoProc
      /\ IF ok THEN /\ reportLock' = [reportLock EXCEPT ![r] = p]
                    /\ Goto(p, "decide") /\ UNCHANGED <<locks, muted, comments, report, overtaken>>
               ELSE ModRefuse(p)
  BY DEF ModInv, Local, LockReport, LockFree, Proceed
<1>2. CASE ~ok
  BY <1>1, <1>2, ModRefuseKeeps
<1>3. CASE ok
  <2>1. /\ Goto(p, "decide") /\ userLock' = userLock /\ linkLock' = linkLock
        /\ reportLock' = [reportLock EXCEPT ![r] = p]
        /\ UNCHANGED <<muted, comments, report, overtaken>>
    BY <1>1, <1>3 DEF locks
  <2>2. "decide" \in Places /\ {"handler", "decide"} \subseteq WithToken /\ r \in Reports
        /\ "decide" \notin Forgetting
    BY <1>1 DEF Places, WithToken, Forgetting, JobOK
  <2>3. JobOK(p)' /\ LoginOK(p)' /\ pc[p] # "idle"
    BY <1>1, <2>1, <2>2, GotoJob
  <2>4. /\ pc'[p] = "decide" /\ job' = job /\ seen' = seen /\ doomed' = doomed /\ calls' = calls
        /\ pc' \in [Handlers -> Places] /\ \A q \in Handlers \ {p} : pc'[q] = pc[q]
        /\ UNCHANGED <<accounts, standing, tokens, links>>
    BY <1>1, <2>1, <2>2, GotoFacts
  <2>5. DoomedOK(p)'
    <3>1. DoomedOK(p)
      BY DEF ModInv, Local
    <3> QED BY <1>1, <2>2, <2>4, <3>1 DEF DoomedOK, Dead, accounts, tokens
  <2>6. RankOK(p)'
    <3>1. Subject[r][1] \in {"User", "Comment"}
      BY <2>2, ModerationAssumption
    <3>2. job[p].kind = "Ban" => Outranks(p)
      BY <1>3, <3>1 DEF Fits, MayBan
    <3> QED BY <2>4, <3>2 DEF RankOK, Outranks, Target, Caller, standing, tokens
  <2>7. /\ reportLock' \in [Reports -> Handlers \cup {NoProc}] /\ reportLock'[r] = p
        /\ \A q \in Handlers \ {p}, s \in Reports : reportLock[s] = q => reportLock'[s] = q
    BY <1>1, <2>1, <2>2, SessionAssumption DEF TypeOK, ModerationTypeOK
  <2>8. ReportHeld(p)'
    BY <1>3, <2>1, <2>4, <2>7 DEF ReportHeld
  <2>9. Local(p)'
    BY <2>3, <2>4, <2>5, <2>6, <2>8 DEF Local, LinksHeld
  <2>10. /\ seen' \in [Handlers -> [version: Nat, password: Nat, role: Roles]]
         /\ userLock' \in [Users -> Handlers \cup {NoProc}]
         /\ linkLock' \in [Links -> Handlers \cup {NoProc}]
         /\ UNCHANGED <<accounts, standing, tokens, links, calls, job, doomed>>
         /\ pc'[p] # "issue"
    BY <1>1, <2>1, <2>4 DEF TypeOK, SessionTypeOK
  <2> QED BY <2>1, <2>2, <2>3, <2>4, <2>7, <2>9, <2>10, QuietMove
<1> HIDE DEF ok
<1> QED BY <1>2, <1>3

LEMMA AddCommentKeeps ==
  ASSUME ModInv, NEW p \in Handlers, AddComment(p)
  PROVE  ModInv'
<1>1. CASE pc[p] = "post"
  BY <1>1, PostKeeps
<1>2. CASE Caller(p) \in muted /\ pc[p] = "handler"
  BY <1>2, ModRefuseKeeps DEF AddComment
<1>3. CASE Caller(p) \notin muted /\ pc[p] = "handler"
  <2>1. /\ TypeOK /\ job[p].kind = "comment" /\ Goto(p, "post") /\ UNCHANGED locks
        /\ UNCHANGED moderationVars
    BY <1>3 DEF ModInv, AddComment, Proceed, moderationVars
  <2>2. "post" \in Places /\ {"handler", "post"} \subseteq WithToken
    BY DEF Places, WithToken
  <2>3. JobOK(p)' /\ LoginOK(p)'
    BY <1>3, <2>1, <2>2, GotoJob
  <2>4. /\ pc'[p] = "post" /\ job' = job /\ seen' = seen /\ doomed' = doomed
        /\ UNCHANGED <<accounts, standing, tokens, links>>
    BY <2>1, <2>2, GotoFacts
  <2>5. DoomedOK(p)'
    <3>1. DoomedOK(p)
      BY DEF ModInv, Local
    <3> QED BY <1>3, <2>2, <2>4, <3>1 DEF DoomedOK, Dead, accounts, tokens
  <2>6. Local(p)'
    BY <2>3, <2>4, <2>5 DEF Local, LinksHeld, ReportHeld, RankOK
  <2> QED BY <1>3, <2>1, <2>2, <2>6, QuietGoto
<1> QED BY <1>1, <1>2, <1>3 DEF AddComment

-----------------------------------------------------------------------------
(* Steps of nobody in particular *)

LEMMA NobodysStep ==
  ASSUME ModInv, TypeOK', Steady, RowsOK', token' = token, role' = role,
         UNCHANGED <<locks, calls, pc, job, seen, doomed>>, UNCHANGED moderationVars,
         \A l \in Links : \/ link'[l] = link[l]
                          \/ linkLock[l] = NoProc /\ link[l].live /\ ~link'[l].live
  PROVE  ModInv'
<1>1. /\ TypeOK /\ userLock' = userLock /\ linkLock' = linkLock /\ pc' = pc /\ job' = job
      /\ seen' = seen /\ doomed' = doomed
      /\ report' = report /\ reportLock' = reportLock /\ overtaken' = overtaken
  BY DEF ModInv, locks, moderationVars
<1>2. ASSUME NEW q \in Handlers
      PROVE  Local(q)'
  <2>1. Local(q) /\ JobOK(q)
    BY DEF ModInv, Local
  <2>2. /\ pc[q] = "issue" => token'[job[q].token] = NoToken
        /\ pc[q] \in Forgetting => link'[job[q].link] = NoLink
    <3>1. pc[q] \in Forgetting => job[q].link \in Links /\ ~link[job[q].link].live
      BY <1>1, <2>1 DEF JobOK, NoLink
    <3> QED BY <2>1, <3>1 DEF JobOK
  <2>3. /\ \A u \in Users : userLock[u] = q => userLock'[u] = q
        /\ \A l \in Links : linkLock[l] = q => linkLock'[l] = q /\ link'[l] = link[l]
        /\ \A l \in Links : link'[l].live => link[l].live
    BY <1>1, SessionAssumption
  <2>4. Undisturbed(q)
    BY <1>1, <2>2, <2>3 DEF Undisturbed
  <2> QED BY <1>1, <2>1, <2>4, UndisturbedLocal
<1>3. OneGiver'
  BY <1>1 DEF ModInv, OneGiver
<1> QED BY <1>2, <1>3 DEF ModInv, RowsOK

LEMMA SuspensionEndsKeeps ==
  ASSUME ModInv, NEW u \in Users, SuspensionEnds(u), UNCHANGED moderationVars
  PROVE  ModInv'
<1>1. /\ TypeOK /\ suspended' = suspended \ {u}
      /\ UNCHANGED <<accounts, active, role, tokens, links, locks, calls, pc, job, seen, doomed>>
  BY DEF ModInv, SuspensionEnds
<1>2. /\ password' = password /\ version' = version /\ active' = active /\ role' = role
      /\ token' = token /\ expired' = expired /\ revoked' = revoked /\ loggedOut' = loggedOut
      /\ link' = link /\ lapsed' = lapsed /\ userLock' = userLock /\ linkLock' = linkLock
  BY <1>1 DEF accounts, tokens, links, locks
<1>3. TypeOK'
  BY <1>1, <1>2 DEF TypeOK, SessionTypeOK, ModerationTypeOK, moderationVars
<1>4. Steady
  BY <1>2 DEF Steady
<1>5. RowsOK'
  BY <1>2 DEF ModInv, RowsOK, TokensBought, Bought, RevocationsKept, OneLinkLive
<1> QED BY <1>1, <1>2, <1>3, <1>4, <1>5, NobodysStep

LEMMA ExpireKeeps ==
  ASSUME ModInv, NEW t \in Tokens, Expire(t), UNCHANGED moderationVars
  PROVE  ModInv'
<1>1. /\ TypeOK /\ expired' = expired \cup {t}
      /\ UNCHANGED <<accounts, standing, token, revoked, loggedOut, links, locks,
                     calls, pc, job, seen, doomed>>
  BY DEF ModInv, Expire
<1>2. /\ password' = password /\ version' = version /\ active' = active
      /\ suspended' = suspended /\ role' = role /\ link' = link /\ lapsed' = lapsed
      /\ userLock' = userLock /\ linkLock' = linkLock
  BY <1>1 DEF accounts, standing, links, locks
<1>3. TypeOK'
  BY <1>1, <1>2 DEF TypeOK, SessionTypeOK, ModerationTypeOK, moderationVars
<1>4. Steady
  BY <1>1, <1>2 DEF Steady
<1>5. RowsOK'
  BY <1>1, <1>2 DEF ModInv, RowsOK, TokensBought, Bought, RevocationsKept, OneLinkLive
<1> QED BY <1>1, <1>2, <1>3, <1>4, <1>5, NobodysStep

(* What the cleanup forgets has expired. *)
LEMMA CleanupKeeps ==
  ASSUME ModInv, Cleanup, UNCHANGED moderationVars
  PROVE  ModInv'
<1>1. /\ TypeOK /\ revoked' = revoked \ PastExpiry
      /\ UNCHANGED <<accounts, standing, token, expired, loggedOut, links, locks,
                     calls, pc, job, seen, doomed>>
  BY DEF ModInv, Cleanup
<1>2. /\ password' = password /\ version' = version /\ active' = active
      /\ suspended' = suspended /\ role' = role /\ link' = link /\ lapsed' = lapsed
      /\ userLock' = userLock /\ linkLock' = linkLock
  BY <1>1 DEF accounts, standing, links, locks
<1>3. TypeOK'
  BY <1>1, <1>2 DEF TypeOK, SessionTypeOK, ModerationTypeOK, moderationVars
<1>4. Steady
  BY <1>1, <1>2 DEF Steady
<1>5. RevocationsKept'
  BY <1>1 DEF ModInv, RevocationsKept, PastExpiry
<1>6. RowsOK'
  BY <1>1, <1>2, <1>5 DEF ModInv, RowsOK, TokensBought, Bought, OneLinkLive
<1> QED BY <1>1, <1>2, <1>3, <1>4, <1>6, NobodysStep

LEMMA LapseKeeps ==
  ASSUME ModInv, NEW l \in Links, Lapse(l), UNCHANGED moderationVars
  PROVE  ModInv'
<1>1. /\ TypeOK /\ lapsed' = lapsed \cup {l}
      /\ UNCHANGED <<accounts, standing, tokens, link, locks, calls, pc, job, seen, doomed>>
  BY DEF ModInv, Lapse
<1>2. /\ password' = password /\ version' = version /\ active' = active
      /\ suspended' = suspended /\ role' = role
      /\ token' = token /\ expired' = expired /\ revoked' = revoked /\ loggedOut' = loggedOut
      /\ userLock' = userLock /\ linkLock' = linkLock
  BY <1>1 DEF accounts, standing, tokens, locks
<1>3. TypeOK'
  BY <1>1, <1>2 DEF TypeOK, SessionTypeOK, ModerationTypeOK, moderationVars
<1>4. Steady
  BY <1>1, <1>2 DEF Steady
<1>5. RowsOK'
  BY <1>1, <1>2 DEF ModInv, RowsOK, TokensBought, Bought, RevocationsKept, OneLinkLive
<1> QED BY <1>1, <1>2, <1>3, <1>4, <1>5, NobodysStep

(* A link that has lapsed is deleted on sight, unless somebody holds it. *)
LEMMA ResetLapsedKeeps ==
  ASSUME ModInv, NEW p \in Handlers, NEW l \in Links, l \in lapsed,
         ResetPassword(p, l), UNCHANGED moderationVars
  PROVE  ModInv'
<1>1. /\ TypeOK /\ linkLock[l] = NoProc /\ link[l].live
      /\ link' = [link EXCEPT ![l] = Gone(@)]
      /\ UNCHANGED <<accounts, standing, tokens, lapsed, locks, calls, pc, job, seen, doomed>>
  BY DEF ModInv, ResetPassword, LockFree
<1>2. /\ password' = password /\ version' = version /\ active' = active
      /\ suspended' = suspended /\ role' = role
      /\ token' = token /\ expired' = expired /\ revoked' = revoked /\ loggedOut' = loggedOut
      /\ userLock' = userLock /\ linkLock' = linkLock /\ lapsed' = lapsed
  BY <1>1 DEF accounts, standing, tokens, locks
<1>3. link[l] \in Link \cup {NoLink}
  BY <1>1 DEF TypeOK, SessionTypeOK
<1>4. Gone(link[l]) \in Link \cup {NoLink} /\ Gone(link[l]).user = link[l].user /\ ~Gone(link[l]).live
  BY <1>3, GoneFacts
<1>5. /\ link' \in [Links -> Link \cup {NoLink}]
      /\ link'[l].user = link[l].user /\ ~link'[l].live
      /\ \A k \in Links \ {l} : link'[k] = link[k]
  BY <1>1, <1>4 DEF TypeOK, SessionTypeOK
<1>6. TypeOK'
  BY <1>1, <1>2, <1>5 DEF TypeOK, SessionTypeOK, ModerationTypeOK, moderationVars
<1>7. Steady
  BY <1>2, <1>5 DEF Steady
<1>8. OneLinkLive'
  BY <1>5 DEF ModInv, OneLinkLive
<1>9. RowsOK'
  BY <1>2, <1>8 DEF ModInv, RowsOK, TokensBought, Bought, RevocationsKept
<1>10. \A k \in Links : \/ link'[k] = link[k]
                        \/ linkLock[k] = NoProc /\ link[k].live /\ ~link'[k].live
  BY <1>1, <1>5
<1>11. UNCHANGED <<locks, calls, pc, job, seen, doomed>> /\ token' = token /\ role' = role
  BY <1>1, <1>2
<1> QED BY <1>6, <1>7, <1>9, <1>10, <1>11, NobodysStep

-----------------------------------------------------------------------------
(* Steps that end a handler with a new token, password or link *)

LEMMA LoudEnd ==
  ASSUME ModInv, NEW p \in Handlers, End(p), TypeOK', Steady, RowsOK', role' = role,
         UNCHANGED moderationVars,
         \A q \in Handlers \ {p} :
           /\ pc[q] = "issue" => token'[job[q].token] = NoToken
           /\ pc[q] \in Forgetting => link'[job[q].link] = NoLink
           /\ \A l \in Links : linkLock[l] = q /\ link[l] # NoLink => link'[l] = link[l]
           /\ \A l \in Links : link'[l].live => link[l].live \/ userLock[link'[l].user] # q
  PROVE  ModInv'
<1>1. /\ TypeOK /\ OneGiver
      /\ report' = report /\ reportLock' = reportLock /\ overtaken' = overtaken
  BY DEF ModInv, moderationVars
<1>2. Local(p)' /\ Alone(p) /\ OneGiver'
  BY <1>1, EndLocal, EndAlone, GiverKept
<1>3. ASSUME NEW q \in Handlers \ {p}
      PROVE  Undisturbed(q)
  <2>1. /\ pc'[q] = pc[q] /\ job'[q] = job[q] /\ seen'[q] = seen[q]
        /\ q \in doomed' => q \in doomed
        /\ \A u \in Users : userLock[u] = q => userLock'[u] = q
        /\ \A l \in Links : linkLock[l] = q => linkLock'[l] = q
    BY <1>2 DEF Alone
  <2> QED BY <1>1, <2>1 DEF Undisturbed
<1> QED BY <1>2, <1>3, StepKeeps

LEMMA LogoutUserKeeps ==
  ASSUME ModInv, NEW p \in Handlers, LogoutUser(p), UNCHANGED moderationVars
  PROVE  ModInv'
<1> DEFINE new == {job[p].token} \ expired
<1>1. /\ TypeOK /\ JobOK(p) /\ pc[p] = "handler"
      /\ revoked' = revoked \cup new /\ loggedOut' = loggedOut \cup new
      /\ End(p) /\ UNCHANGED <<accounts, standing, token, expired, links>>
  BY DEF ModInv, Local, LogoutUser
<1>2. /\ password' = password /\ version' = version /\ active' = active
      /\ suspended' = suspended /\ role' = role /\ link' = link /\ lapsed' = lapsed
  BY <1>1 DEF accounts, standing, links
<1>3. new \subseteq Tokens
  BY <1>1 DEF JobOK, WithToken
<1>4. TypeOK'
  <2>1. SessionTypeOK'
    BY <1>1, <1>2, <1>3, EndFacts DEF TypeOK, SessionTypeOK
  <2>2. ModerationTypeOK'
    BY <1>1 DEF TypeOK, ModerationTypeOK, moderationVars
  <2> QED BY <1>1, <2>1, <2>2, EndFacts DEF TypeOK
<1>5. Steady
  BY <1>1, <1>2 DEF Steady
<1>6. RowsOK'
  <2>1. RevocationsKept'
    BY <1>1 DEF ModInv, RevocationsKept
  <2> QED BY <1>1, <1>2, <2>1 DEF ModInv, RowsOK, TokensBought, Bought, OneLinkLive
<1>7. ASSUME NEW q \in Handlers \ {p}
      PROVE  /\ pc[q] = "issue" => token'[job[q].token] = NoToken
             /\ pc[q] \in Forgetting => link'[job[q].link] = NoLink
             /\ \A l \in Links : linkLock[l] = q /\ link[l] # NoLink => link'[l] = link[l]
             /\ \A l \in Links : link'[l].live => link[l].live \/ userLock[link'[l].user] # q
  BY <1>1, <1>2 DEF ModInv, Local, JobOK
<1> QED BY <1>1, <1>2, <1>4, <1>5, <1>6, <1>7, LoudEnd

(* The token given out was bought with what the login had read. *)
LEMMA GenerateTokenKeeps ==
  ASSUME ModInv, NEW p \in Handlers, GenerateToken(p), UNCHANGED moderationVars
  PROVE  ModInv'
<1> DEFINE t == job[p].token
           new == [user |-> job[p].user, version |-> seen[p].version,
                   password |-> seen[p].password]
<1>1. /\ TypeOK /\ JobOK(p) /\ LoginOK(p) /\ pc[p] = "issue"
      /\ token' = [token EXCEPT ![t] = new]
      /\ End(p) /\ UNCHANGED <<accounts, standing, expired, revoked, loggedOut, links>>
  BY DEF ModInv, Local, GenerateToken
<1>2. /\ password' = password /\ version' = version /\ active' = active
      /\ suspended' = suspended /\ role' = role /\ link' = link /\ lapsed' = lapsed
  BY <1>1 DEF accounts, standing, links
<1>3. t \in Tokens /\ token[t] = NoToken /\ job[p].user \in Users
  BY <1>1 DEF JobOK
<1>4. /\ new \in Token
      /\ new.user = job[p].user /\ new.version = seen[p].version
      /\ new.password = seen[p].password
  BY <1>1, <1>3 DEF Token, TypeOK, SessionTypeOK
<1> HIDE DEF new
<1>5. /\ token' \in [Tokens -> Token \cup {NoToken}] /\ token'[t] = new
      /\ \A s \in Tokens \ {t} : token'[s] = token[s]
  BY <1>1, <1>3, <1>4 DEF TypeOK, SessionTypeOK
<1>6. TypeOK'
  <2>1. SessionTypeOK'
    BY <1>1, <1>2, <1>5, EndFacts DEF TypeOK, SessionTypeOK
  <2>2. ModerationTypeOK'
    BY <1>1 DEF TypeOK, ModerationTypeOK, moderationVars
  <2> QED BY <1>1, <2>1, <2>2, EndFacts DEF TypeOK
<1>7. Steady
  BY <1>1, <1>2, <1>3, <1>5 DEF Steady
<1>8. TokensBought'
  BY <1>1, <1>2, <1>4, <1>5 DEF ModInv, TokensBought, LoginOK, Bought
<1>9. RowsOK'
  BY <1>1, <1>2, <1>8 DEF ModInv, RowsOK, RevocationsKept, OneLinkLive
<1>10. ASSUME NEW q \in Handlers \ {p}
       PROVE  /\ pc[q] = "issue" => token'[job[q].token] = NoToken
              /\ pc[q] \in Forgetting => link'[job[q].link] = NoLink
              /\ \A l \in Links : linkLock[l] = q /\ link[l] # NoLink => link'[l] = link[l]
              /\ \A l \in Links : link'[l].live => link[l].live \/ userLock[link'[l].user] # q
  <2>1. JobOK(q)
    BY DEF ModInv, Local
  <2>2. pc[q] = "issue" => job[q].token # t
    BY <1>1 DEF ModInv, OneGiver
  <2>3. pc[q] = "issue" => token'[job[q].token] = NoToken
    BY <1>5, <2>1, <2>2 DEF JobOK
  <2> QED BY <1>2, <2>1, <2>3 DEF JobOK
<1> QED BY <1>1, <1>2, <1>6, <1>7, <1>9, <1>10, LoudEnd

(* All the links the user had are held and go; the new one is the only one. *)
LEMMA CommitForgotKeeps ==
  ASSUME ModInv, NEW p \in Handlers, CommitForgot(p), UNCHANGED moderationVars
  PROVE  ModInv'
<1> DEFINE n == job[p].link
           u == job[p].user
           mine == {l \in Links : linkLock[l] = p}
           new == [user |-> u, live |-> TRUE]
<1>1. /\ TypeOK /\ JobOK(p) /\ LinksHeld(p) /\ pc[p] = "new link"
      /\ link' = [l \in Links |-> IF l \in mine THEN Gone(link[l])
                                  ELSE IF l = n THEN new ELSE link[l]]
      /\ End(p) /\ UNCHANGED <<accounts, standing, tokens, lapsed>>
  BY DEF ModInv, Local, CommitForgot
<1>2. /\ password' = password /\ version' = version /\ active' = active
      /\ suspended' = suspended /\ role' = role
      /\ token' = token /\ expired' = expired /\ revoked' = revoked /\ loggedOut' = loggedOut
  BY <1>1 DEF accounts, standing, tokens
<1>3. n \in Links /\ link[n] = NoLink /\ u \in Users /\ userLock[u] = p
  BY <1>1 DEF JobOK, LinksHeld, Forgetting
<1>4. new \in Link /\ new.user = u /\ new.live
  BY <1>3 DEF Link
<1>5. ASSUME NEW l \in Links
      PROVE  /\ Gone(link[l]) \in Link \cup {NoLink}
             /\ Gone(link[l]).user = link[l].user /\ ~Gone(link[l]).live
             /\ link[l] = NoLink => Gone(link[l]) = NoLink
  <2>1. link[l] \in Link \cup {NoLink}
    BY <1>1 DEF TypeOK, SessionTypeOK
  <2> QED BY <2>1, GoneFacts
<1>6. ASSUME NEW l \in Links
      PROVE  \/ l \in mine /\ link'[l] = Gone(link[l])
             \/ l \notin mine /\ l = n /\ link'[l] = new
             \/ l \notin mine /\ l # n /\ link'[l] = link[l]
  BY <1>1
<1> HIDE DEF mine, new
<1>7. link' \in [Links -> Link \cup {NoLink}]
  <2>1. \A l \in Links : link'[l] \in Link \cup {NoLink}
    BY <1>1, <1>4, <1>5, <1>6 DEF TypeOK, SessionTypeOK
  <2> QED BY <1>1, <2>1
<1>8. TypeOK'
  <2>1. SessionTypeOK'
    BY <1>1, <1>2, <1>7, EndFacts DEF TypeOK, SessionTypeOK
  <2>2. ModerationTypeOK'
    BY <1>1 DEF TypeOK, ModerationTypeOK, moderationVars
  <2> QED BY <1>1, <2>1, <2>2, EndFacts DEF TypeOK
<1>9. Steady
  <2>1. \A l \in Links : link[l] # NoLink => link'[l].user = link[l].user
    BY <1>3, <1>5, <1>6
  <2> QED BY <1>2, <2>1 DEF Steady
<1>10. ASSUME NEW l \in Links, link'[l].live
       PROVE  \/ l = n /\ link'[l].user = u
              \/ l \notin mine /\ link'[l] = link[l]
  BY <1>4, <1>5, <1>6, <1>10
<1>11. OneLinkLive'
  <2> SUFFICES ASSUME NEW l \in Links, NEW m \in Links, link'[l].live, link'[m].live,
                      link'[l].user = link'[m].user
               PROVE  l = m
    BY DEF OneLinkLive
  <2>1. \A k \in Links : link[k].live /\ link[k].user = u => k \in mine
    BY <1>1 DEF LinksHeld, mine
  <2> QED BY <1>10, <2>1 DEF ModInv, OneLinkLive
<1>12. RowsOK'
  BY <1>2, <1>11 DEF ModInv, RowsOK, TokensBought, Bought, RevocationsKept
<1>13. ASSUME NEW q \in Handlers \ {p}
       PROVE  /\ pc[q] = "issue" => token'[job[q].token] = NoToken
              /\ pc[q] \in Forgetting => link'[job[q].link] = NoLink
              /\ \A l \in Links : linkLock[l] = q /\ link[l] # NoLink => link'[l] = link[l]
              /\ \A l \in Links : link'[l].live => link[l].live \/ userLock[link'[l].user] # q
  <2>1. JobOK(q)
    BY DEF ModInv, Local
  <2>2. pc[q] \in Forgetting => job[q].link # n
    BY <1>1 DEF ModInv, OneGiver, Forgetting
  <2>3. pc[q] \in Forgetting => link'[job[q].link] = NoLink
    BY <1>5, <1>6, <2>1, <2>2 DEF JobOK
  <2>4. \A l \in Links : linkLock[l] = q /\ link[l] # NoLink => link'[l] = link[l]
    BY <1>3, <1>6 DEF mine
  <2>5. \A l \in Links : link'[l].live => link[l].live \/ userLock[link'[l].user] # q
    BY <1>3, <1>10
  <2> QED BY <1>2, <2>1, <2>3, <2>4, <2>5 DEF JobOK
<1> QED BY <1>1, <1>2, <1>8, <1>9, <1>12, <1>13, LoudEnd

(* The new password comes with a new version, and the link goes. *)
LEMMA CommitResetKeeps ==
  ASSUME ModInv, NEW p \in Handlers, CommitReset(p), UNCHANGED moderationVars
  PROVE  ModInv'
<1> DEFINE u == job[p].user
           n == job[p].link
<1>1. /\ TypeOK /\ JobOK(p) /\ LinksHeld(p) /\ pc[p] = "new password"
      /\ password' = [password EXCEPT ![u] = @ + 1]
      /\ version' = [version EXCEPT ![u] = @ + 1]
      /\ link' = [link EXCEPT ![n] = Gone(@)]
      /\ End(p) /\ UNCHANGED <<standing, tokens, lapsed>>
  BY DEF ModInv, Local, CommitReset, NextVersion
<1>2. /\ active' = active /\ suspended' = suspended /\ role' = role
      /\ token' = token /\ expired' = expired /\ revoked' = revoked /\ loggedOut' = loggedOut
  BY <1>1 DEF standing, tokens
<1>3. u \in Users /\ n \in Links /\ link[n].live /\ linkLock[n] = p
  BY <1>1 DEF JobOK, LinksHeld, Resetting
<1>4. link[n] \in Link \cup {NoLink}
  BY <1>1, <1>3 DEF TypeOK, SessionTypeOK
<1>5. Gone(link[n]) \in Link \cup {NoLink} /\ Gone(link[n]).user = link[n].user /\ ~Gone(link[n]).live
  BY <1>4, GoneFacts
<1>6. /\ link' \in [Links -> Link \cup {NoLink}]
      /\ link'[n].user = link[n].user /\ ~link'[n].live
      /\ \A k \in Links \ {n} : link'[k] = link[k]
  BY <1>1, <1>3, <1>5 DEF TypeOK, SessionTypeOK
<1>7. /\ password' \in [Users -> Nat] /\ version' \in [Users -> Nat]
      /\ version[u] \in Nat /\ version'[u] = version[u] + 1
      /\ \A v \in Users \ {u} : version'[v] = version[v] /\ password'[v] = password[v]
  <2>1. /\ password \in [Users -> Nat] /\ version \in [Users -> Nat] /\ u \in Users
        /\ password' = [password EXCEPT ![u] = password[u] + 1]
        /\ version' = [version EXCEPT ![u] = version[u] + 1]
    BY <1>1, <1>3 DEF TypeOK, SessionTypeOK
  <2> HIDE DEF u
  <2> QED BY <2>1
<1>8. TypeOK'
  <2>1. SessionTypeOK'
    BY <1>1, <1>2, <1>6, <1>7, EndFacts DEF TypeOK, SessionTypeOK
  <2>2. ModerationTypeOK'
    BY <1>1 DEF TypeOK, ModerationTypeOK, moderationVars
  <2> QED BY <1>1, <2>1, <2>2, EndFacts DEF TypeOK
<1>9. Steady
  <2>1. \A v \in Users : \/ version'[v] = version[v] /\ password'[v] = password[v]
                         \/ version'[v] > version[v]
    BY <1>7
  <2>2. \A l \in Links : link[l] # NoLink => link'[l].user = link[l].user
    BY <1>6
  <2> QED BY <1>2, <2>1, <2>2 DEF Steady
<1>10. TokensBought'
  <2> SUFFICES ASSUME NEW t \in Tokens, token[t] # NoToken
               PROVE  Bought(token[t].user, token[t].version, token[t].password)'
    BY <1>2 DEF TokensBought
  <2>1. token[t].user \in Users /\ token[t].version \in Nat
    BY <1>1, TokenFacts
  <2>2. Bought(token[t].user, token[t].version, token[t].password)
    BY DEF ModInv, TokensBought
  <2> QED BY <1>2, <1>7, <2>1, <2>2 DEF Bought
<1>11. OneLinkLive'
  BY <1>6 DEF ModInv, OneLinkLive
<1>12. RowsOK'
  BY <1>2, <1>10, <1>11 DEF ModInv, RowsOK, RevocationsKept
<1>13. ASSUME NEW q \in Handlers \ {p}
       PROVE  /\ pc[q] = "issue" => token'[job[q].token] = NoToken
              /\ pc[q] \in Forgetting => link'[job[q].link] = NoLink
              /\ \A l \in Links : linkLock[l] = q /\ link[l] # NoLink => link'[l] = link[l]
              /\ \A l \in Links : link'[l].live => link[l].live \/ userLock[link'[l].user] # q
  <2>1. JobOK(q)
    BY DEF ModInv, Local
  <2>2. pc[q] \in Forgetting => job[q].link \in Links /\ job[q].link # n
    BY <1>3, <2>1 DEF JobOK, NoLink
  <2>3. \A l \in Links : linkLock[l] = q => link'[l] = link[l]
    BY <1>3, <1>6
  <2>4. \A l \in Links : link'[l].live => link[l].live
    BY <1>6
  <2> QED BY <1>2, <1>6, <2>1, <2>2, <2>3, <2>4 DEF JobOK
<1> QED BY <1>1, <1>2, <1>8, <1>9, <1>12, <1>13, LoudEnd

-----------------------------------------------------------------------------
(* The invariant *)

LEMMA InitModInv == ModerationInit => ModInv
<1> SUFFICES ASSUME ModerationInit
             PROVE  ModInv
  OBVIOUS
<1>1. SessionInit
  BY DEF ModerationInit
<1>2. /\ pc = [p \in Handlers |-> "idle"] /\ job = [p \in Handlers |-> NoJob]
      /\ doomed = {} /\ loggedOut = {} /\ link = [l \in Links |-> NoLink]
  BY <1>1 DEF SessionInit
<1>3. token = [t \in Tokens |-> IF Holder[t] = NoOne THEN NoToken
                 ELSE [user |-> Holder[t], version |-> 0, password |-> 0]]
  BY <1>1 DEF SessionInit
<1>4. ASSUME NEW t \in Tokens, token[t] # NoToken
      PROVE  /\ token[t] \in Token /\ token[t].user \in Users
             /\ token[t].version = 0 /\ token[t].password = 0
  <2>1. token[t] = [user |-> Holder[t], version |-> 0, password |-> 0] /\ Holder[t] # NoOne
    BY <1>3, <1>4
  <2>2. Holder[t] \in Users
    BY <2>1, SessionAssumption
  <2> QED BY <2>1, <2>2 DEF Token
<1>5. token \in [Tokens -> Token \cup {NoToken}]
  <2>1. \A t \in Tokens : token[t] \in Token \cup {NoToken}
    BY <1>4
  <2> QED BY <1>3, <2>1
<1>6. seen \in [Handlers -> [version: Nat, password: Nat, role: Roles]]
  <2>1. NothingSeen \in [version: Nat, password: Nat, role: Roles]
    BY ViewFacts DEF NothingSeen, Roles
  <2> QED BY <1>1, <2>1 DEF SessionInit
<1>7. TypeOK
  <2>1. SessionTypeOK
    BY <1>1, <1>5, <1>6, SessionAssumption DEF SessionInit, SessionTypeOK
  <2>2. ModerationTypeOK
    BY DEF ModerationInit, ModerationTypeOK
  <2> QED BY <1>2, <2>1, <2>2 DEF TypeOK, Places
<1>8. \A p \in Handlers : Local(p)
  BY <1>2 DEF Local, JobOK, LoginOK, DoomedOK, LinksHeld, ReportHeld, RankOK,
              WithToken, Forgetting, Resetting
<1>9. OneGiver /\ OneLinkLive /\ RevocationsKept
  BY <1>2 DEF OneGiver, OneLinkLive, RevocationsKept, NoLink, Forgetting
<1>10. TokensBought
  <2>1. \A u \in Users : version[u] = 0 /\ password[u] = 0
    BY <1>1 DEF SessionInit
  <2> QED BY <1>4, <2>1 DEF TokensBought, Bought
<1> QED BY <1>7, <1>8, <1>9, <1>10 DEF ModInv

LEMMA SessionStepKeeps ==
  ASSUME ModInv, NEW p \in Handlers, SessionStep(p), UNCHANGED moderationVars
  PROVE  ModInv'
<1>1. CASE GenerateToken(p)
  BY <1>1, GenerateTokenKeeps
<1>2. CASE CheckRevoked(p)
  BY <1>2, CheckRevokedKeeps
<1>3. CASE ReadUser(p)
  BY <1>3, ReadUserKeeps
<1>4. CASE LogoutUser(p)
  BY <1>4, LogoutUserKeeps
<1>5. CASE LockUser(p)
  BY <1>5, LockUserKeeps
<1>6. CASE DeleteLinks(p)
  BY <1>6, DeleteLinksKeeps
<1>7. CASE CommitForgot(p)
  BY <1>7, CommitForgotKeeps
<1>8. CASE ClaimLink(p)
  BY <1>8, ClaimLinkKeeps
<1>9. CASE CommitReset(p)
  BY <1>9, CommitResetKeeps
<1>10. CASE AbortDeadlock(p)
  BY <1>10, LeaveKeeps DEF AbortDeadlock
<1> QED BY <1>1, <1>2, <1>3, <1>4, <1>5, <1>6, <1>7, <1>8, <1>9, <1>10 DEF SessionStep

LEMMA SessionArriveKeeps ==
  ASSUME ModInv, NEW p \in Handlers, SessionArrive(p), UNCHANGED moderationVars
  PROVE  ModInv'
<1>1. CASE \E t \in Tokens, u \in Users : LoginUser(p, t, u) \/ GoogleLogin(p, t, u)
  BY <1>1, EnterKeeps DEF LoginUser, GoogleLogin
<1>2. CASE \E t \in Tokens : Request(p, "logout", t, NoOne, NoOne)
  <2>1. "logout" \in Kinds /\ "logout" \notin TargetKinds \cup Decisions \cup {"report", "comment"}
    BY DEF Kinds, TargetKinds, Decisions, NewRole
  <2> QED BY <1>2, <2>1, RequestKeeps
<1>3. CASE \E l \in Links : ResetPassword(p, l)
  <2>1. PICK l \in Links : ResetPassword(p, l)
    BY <1>3
  <2>2. link[l].live
    BY <2>1 DEF ResetPassword
  <2> QED BY <2>1, <2>2, ResetBeginKeeps, ResetLapsedKeeps
<1>4. CASE \E l \in Links, u \in Targets : ForgotPassword(p, l, u)
  BY <1>4, ForgotPasswordKeeps, SessionAssumption
<1> QED BY <1>1, <1>2, <1>3, <1>4 DEF SessionArrive

LEMMA ModArriveKeeps ==
  ASSUME ModInv, NEW p \in Handlers, ModArrive(p), UNCHANGED moderationVars
  PROVE  ModInv'
<1>1. PICK t \in Tokens :
        \/ \E u \in Targets, k \in TargetKinds : Request(p, k, t, NoOne, u)
        \/ \E r \in Reports : Request(p, "report", t, r, NoOne)
        \/ \E r \in Reports, k \in Decisions : Request(p, k, t, r, Subject[r][2])
        \/ token[t].user \in Targets /\ Request(p, "comment", t, NoOne, NoOne)
  BY DEF ModArrive, TargetKinds
<1>2. /\ TargetKinds \cup Decisions \cup {"report", "comment"} \subseteq Kinds
      /\ (Decisions \cup {"report", "comment"}) \cap TargetKinds = {}
      /\ {"report", "comment"} \cap Decisions = {}
  BY DEF Kinds, TargetKinds, Decisions, NewRole
<1>3. CASE \E u \in Targets, k \in TargetKinds : Request(p, k, t, NoOne, u)
  BY <1>2, <1>3, RequestKeeps, SessionAssumption
<1>4. CASE \E r \in Reports : Request(p, "report", t, r, NoOne)
  BY <1>2, <1>4, RequestKeeps
<1>5. CASE \E r \in Reports, k \in Decisions : Request(p, k, t, r, Subject[r][2])
  <2>1. \A r \in Reports : Subject[r][2] \in Targets /\ Subject[r][2] \in Users
    BY ModerationAssumption, SessionAssumption
  <2> QED BY <1>2, <1>5, <2>1, RequestKeeps
<1>6. CASE token[t].user \in Targets /\ Request(p, "comment", t, NoOne, NoOne)
  BY <1>2, <1>6, RequestKeeps
<1> QED BY <1>1, <1>3, <1>4, <1>5, <1>6

LEMMA ClockKeeps ==
  ASSUME ModInv, Clock, UNCHANGED moderationVars
  PROVE  ModInv'
BY ExpireKeeps, CleanupKeeps, LapseKeeps DEF Clock

LEMMA ModStepKeeps ==
  ASSUME ModInv, NEW p \in Handlers, ModStep(p)
  PROVE  ModInv'
BY ReadTargetKeeps, UpdateTargetKeeps, SubmitReportKeeps, LockReportKeeps, ResolveReportKeeps,
   AddCommentKeeps DEF ModStep

LEMMA IdleKeeps ==
  ASSUME ModInv, UNCHANGED allVars
  PROVE  ModInv'
<1>1. /\ password' = password /\ version' = version /\ active' = active
      /\ suspended' = suspended /\ role' = role
      /\ token' = token /\ expired' = expired /\ revoked' = revoked /\ loggedOut' = loggedOut
      /\ link' = link /\ lapsed' = lapsed /\ userLock' = userLock /\ linkLock' = linkLock
      /\ calls' = calls /\ pc' = pc /\ job' = job /\ seen' = seen /\ doomed' = doomed
      /\ UNCHANGED moderationVars
  BY DEF allVars, sessionVars, accounts, standing, tokens, links, locks
<1>2. TypeOK'
  BY <1>1 DEF ModInv, TypeOK, SessionTypeOK, ModerationTypeOK, moderationVars
<1>3. Steady
  BY <1>1 DEF Steady
<1>4. RowsOK'
  BY <1>1 DEF ModInv, RowsOK, TokensBought, Bought, RevocationsKept, OneLinkLive
<1>5. UNCHANGED <<locks, calls, pc, job, seen, doomed>>
  BY <1>1 DEF locks
<1> QED BY <1>1, <1>2, <1>3, <1>4, <1>5, NobodysStep

LEMMA NextModInv == ModInv /\ [ModerationNext]_allVars => ModInv'
<1> SUFFICES ASSUME ModInv, [ModerationNext]_allVars
             PROVE  ModInv'
  OBVIOUS
<1>1. CASE UNCHANGED allVars
  BY <1>1, IdleKeeps
<1>2. CASE \E p \in Handlers : ModStep(p) \/ ModRefuse(p)
  BY <1>2, ModStepKeeps, ModRefuseKeeps
<1>3. CASE /\ \/ \E p \in Handlers : SessionArrive(p) \/ SessionStep(p) \/ ModArrive(p)
              \/ Clock
              \/ \E u \in Users : SuspensionEnds(u)
           /\ UNCHANGED moderationVars
  BY <1>3, SessionArriveKeeps, SessionStepKeeps, ModArriveKeeps, ClockKeeps, SuspensionEndsKeeps
<1> QED BY <1>1, <1>2, <1>3 DEF ModerationNext

(* Whatever requests are under way: tokens say what was good when they     *)
(* were bought, links belong to whoever asked, locks are held to the end.  *)
THEOREM ModerationInvariant == ModerationSpec => []ModInv
BY InitModInv, NextModInv, PTL DEF ModerationSpec

LEMMA ModInvSafe == ModInv => ModerationInv
<1> SUFFICES ASSUME ModInv
             PROVE  ModerationInv
  OBVIOUS
<1>1. SessionTypeOK /\ ModerationTypeOK /\ OneLinkLive
  BY DEF ModInv, TypeOK
<1>2. DeadTokensRefused
  BY <1>1 DEF ModInv, Local, DoomedOK, DeadTokensRefused, SessionTypeOK
<1>3. OldPasswordsDead
  BY DEF ModInv, TokensBought, Bought, OldPasswordsDead, Current
<1> QED BY <1>1, <1>2, <1>3 DEF ModerationInv, SessionInv

(* No request is served on a token that had been logged out or superseded  *)
(* when it came in, a password reset leaves no token of the old password   *)
(* good, and a user has at most one link that works (middleware/auth.go,   *)
(* user_controller.go), with any number of administrators at work.         *)
THEOREM SessionsSafe == ModerationSpec => []ModerationInv
BY ModerationInvariant, ModInvSafe, PTL

-----------------------------------------------------------------------------
(* The action properties *)

(* Who changes what: passwords, reports and bans. *)
LEMMA SessionStepsChange ==
  ASSUME NEW p \in Handlers, SessionArrive(p) \/ SessionStep(p) \/ ModArrive(p)
  PROVE  active' = active /\ (password' = password \/ CommitReset(p))
<1>1. CASE SessionArrive(p)
  BY <1>1 DEF SessionArrive, LoginUser, GoogleLogin, Enter, Request, ResetPassword,
              ForgotPassword, accounts, standing
<1>2. CASE SessionStep(p)
  <2>1. CASE CheckRevoked(p) \/ ReadUser(p)
    BY <2>1 DEF CheckRevoked, ReadUser, Refuse, Goto, accounts, standing
  <2>2. CASE GenerateToken(p) \/ LogoutUser(p) \/ CommitForgot(p) \/ AbortDeadlock(p)
    BY <2>2 DEF GenerateToken, LogoutUser, CommitForgot, AbortDeadlock, Refuse, accounts, standing
  <2>3. CASE LockUser(p) \/ DeleteLinks(p)
    BY <2>3 DEF LockUser, DeleteLinks, Goto, accounts, standing
  <2>4. CASE ClaimLink(p)
    BY <2>4 DEF ClaimLink, Refuse, Goto, accounts, standing
  <2>5. CASE CommitReset(p)
    BY <2>5 DEF CommitReset, standing
  <2> QED BY <1>2, <2>1, <2>2, <2>3, <2>4, <2>5 DEF SessionStep
<1>3. CASE ModArrive(p)
  BY <1>3 DEF ModArrive, Request, accounts, standing
<1> QED BY <1>1, <1>2, <1>3

LEMMA ModStepsChange ==
  ASSUME NEW p \in Handlers, ModStep(p) \/ ModRefuse(p)
  PROVE  /\ password' = password
         /\ active' = active \/ UpdateTarget(p) \/ ResolveReport(p)
         /\ report' = report \/ SubmitReport(p) \/ ResolveReport(p)
<1>1. ModRefuse(p) =>
        password' = password /\ active' = active /\ report' = report
  BY DEF ModRefuse, Refuse, accounts, standing
<1>2. ASSUME NEW place, Proceed(p, place)
      PROVE  password' = password /\ active' = active /\ report' = report
  BY <1>2 DEF Proceed, Goto, accounts, standing
<1>3. CASE ReadTarget(p)
  BY <1>1, <1>2, <1>3 DEF ReadTarget
<1>4. CASE UpdateTarget(p)
  BY <1>4 DEF UpdateTarget, accounts
<1>5. CASE SubmitReport(p)
  BY <1>5 DEF SubmitReport, accounts, standing
<1>6. CASE LockReport(p)
  BY <1>1, <1>2, <1>6 DEF LockReport
<1>7. CASE ResolveReport(p)
  BY <1>7 DEF ResolveReport, accounts
<1>8. CASE AddComment(p)
  BY <1>1, <1>2, <1>8 DEF AddComment, accounts, standing
<1> QED BY <1>1, <1>3, <1>4, <1>5, <1>6, <1>7, <1>8 DEF ModStep

LEMMA WhoChanges ==
  ASSUME [ModerationNext]_allVars
  PROVE  /\ password' = password \/ \E p \in Handlers : CommitReset(p)
         /\ active' = active \/ \E p \in Handlers : UpdateTarget(p) \/ ResolveReport(p)
         /\ report' = report \/ \E p \in Handlers : SubmitReport(p) \/ ResolveReport(p)
<1>1. CASE UNCHANGED allVars
  BY <1>1 DEF allVars, sessionVars, moderationVars, accounts, standing
<1>2. CASE \E p \in Handlers : ModStep(p) \/ ModRefuse(p)
  BY <1>2, ModStepsChange
<1>3. CASE /\ \E p \in Handlers : SessionArrive(p) \/ SessionStep(p) \/ ModArrive(p)
           /\ UNCHANGED moderationVars
  BY <1>3, SessionStepsChange DEF moderationVars
<1>4. CASE Clock /\ UNCHANGED moderationVars
  BY <1>4 DEF Clock, Expire, Cleanup, Lapse, moderationVars, accounts, standing
<1>5. CASE (\E u \in Users : SuspensionEnds(u)) /\ UNCHANGED moderationVars
  BY <1>5 DEF SuspensionEnds, moderationVars, accounts
<1> QED BY <1>1, <1>2, <1>3, <1>4, <1>5 DEF ModerationNext

LEMMA ResetUsesLink ==
  ASSUME ModInv, NEW p \in Handlers, CommitReset(p), NEW u \in Users, password'[u] # password[u]
  PROVE  \E l \in Links : link[l].user = u /\ link[l].live /\ ~link'[l].live
<1> DEFINE n == job[p].link
<1>1. /\ TypeOK /\ JobOK(p) /\ LinksHeld(p) /\ pc[p] = "new password"
      /\ password' = [password EXCEPT ![job[p].user] = @ + 1]
      /\ link' = [link EXCEPT ![n] = Gone(@)]
  BY DEF ModInv, Local, CommitReset
<1>2. n \in Links /\ link[n].live /\ link[n].user = job[p].user
  BY <1>1 DEF JobOK, LinksHeld, Resetting
<1>3. u = job[p].user
  BY <1>1 DEF TypeOK, SessionTypeOK
<1>4. link'[n] = Gone(link[n])
  BY <1>1, <1>2 DEF TypeOK, SessionTypeOK
<1>5. ~link'[n].live
  BY <1>4 DEF Gone
<1> QED BY <1>2, <1>3, <1>5

(* A link changes a password once, and only while it is the one that       *)
(* works, whenever it was looked up: ResetPassword's conditional DELETE    *)
(* (user_controller.go) against other resets and against ForgotPassword.   *)
THEOREM LinksUsedOnce == ModerationSpec => EachLinkOnce
<1>1. ModInv /\ [ModerationNext]_allVars =>
        [\A u \in Users :
           password'[u] # password[u] =>
             \E l \in Links : link[l].user = u /\ link[l].live /\ ~link'[l].live]_sessionVars
  BY WhoChanges, ResetUsesLink
<1> QED BY <1>1, ModerationInvariant, PTL DEF ModerationSpec, EachLinkOnce

(* Two administrators with one report: ResolveReport                       *)
(* (moderation_controller.go) takes its measure once.                      *)
THEOREM DecidedOnce == ModerationSpec => ReportsDecidedOnce
<1>1. ModInv /\ [ModerationNext]_allVars =>
        [\A r \in Reports : report'[r] # report[r] => report[r] \in {"none", "Pending"}]_allVars
  <2> SUFFICES ASSUME ModInv, [ModerationNext]_allVars, NEW r \in Reports, report'[r] # report[r]
               PROVE  report[r] \in {"none", "Pending"}
    OBVIOUS
  <2>1. report \in [Reports -> {"none", "Pending", "Dismissed", "Resolved"}]
    BY DEF ModInv, TypeOK, ModerationTypeOK
  <2>2. PICK p \in Handlers : SubmitReport(p) \/ ResolveReport(p)
    BY WhoChanges
  <2>3. CASE SubmitReport(p)
    <3>1. report' = [report EXCEPT ![job[p].link] = IF @ = "none" THEN "Pending" ELSE @]
      BY <2>3 DEF SubmitReport
    <3> QED BY <2>1, <3>1
  <2>4. CASE ResolveReport(p)
    <3>1. ReportHeld(p) /\ pc[p] = "decide"
      BY <2>4 DEF ModInv, Local, ResolveReport
    <3>2. report' = [report EXCEPT ![job[p].link] =
                       IF job[p].kind = "Dismiss" THEN "Dismissed" ELSE "Resolved"]
      BY <2>4 DEF ResolveReport
    <3> QED BY <2>1, <3>1, <3>2 DEF ReportHeld
  <2> QED BY <2>2, <2>3, <2>4
<1> QED BY <1>1, ModerationInvariant, PTL DEF ModerationSpec, ReportsDecidedOnce

(* Nobody is banned by somebody of lesser or equal rank, by BanUser        *)
(* (admin_controller.go) or by a report, unless the rank changed after it  *)
(* was read.                                                               *)
THEOREM RankRespected == ModerationSpec => BansRespectRank
<1>1. ModInv /\ [ModerationNext]_allVars =>
        [\A u \in active \ active' :
           \E p \in Handlers :
             pc[p] \in {"update", "decide"} /\ Target(p) = u /\ (Outranks(p) \/ p \in overtaken)]_allVars
  <2> SUFFICES ASSUME ModInv, [ModerationNext]_allVars, NEW u \in active \ active'
               PROVE  \E p \in Handlers :
                        /\ pc[p] \in {"update", "decide"}
                        /\ Target(p) = u
                        /\ Outranks(p) \/ p \in overtaken
    OBVIOUS
  <2>1. PICK p \in Handlers : UpdateTarget(p) \/ ResolveReport(p)
    BY WhoChanges
  <2>2. RankOK(p)
    BY DEF ModInv, Local
  <2>3. CASE UpdateTarget(p)
    <3>1. pc[p] = "update" /\ (BanUser(p) \/ UnbanUser(p) \/ UpdateUserRole(p))
      BY <2>3 DEF UpdateTarget
    <3>2. job[p].kind = "ban" /\ Target(p) = u
      BY <3>1 DEF BanUser, UnbanUser, UpdateUserRole
    <3> QED BY <2>2, <3>1, <3>2 DEF RankOK
  <2>4. CASE ResolveReport(p)
    <3>1. pc[p] = "decide" /\ active' = active \ (IF job[p].kind = "Ban" THEN {Target(p)} ELSE {})
      BY <2>4 DEF ResolveReport
    <3>2. job[p].kind = "Ban" /\ Target(p) = u
      BY <3>1
    <3> QED BY <2>2, <3>1, <3>2 DEF RankOK
  <2> QED BY <2>1, <2>3, <2>4
<1> QED BY <1>1, ModerationInvariant, PTL DEF ModerationSpec, BansRespectRank

-----------------------------------------------------------------------------
(* Locks *)

(* Where a handler may hold which row.                                     *)
LocksOf(p) ==
  /\ \A u \in Users :
       userLock[u] = p => pc[p] \in {"old links", "new link"} /\ job[p].user = u
  /\ \A l \in Links :
       linkLock[l] = p => pc[p] = "new link" \/ (pc[p] = "new password" /\ job[p].link = l)
  /\ \A r \in Reports : reportLock[r] = p => pc[p] = "decide"

LocksOK == \A p \in Handlers : LocksOf(p)

AtWork == {"old links", "new link", "new password", "decide"}

(* The others stay where they are and come by no lock. *)
LEMMA LocksStep ==
  ASSUME LocksOK, NEW p \in Handlers, LocksOf(p)',
         \A q \in Handlers \ {p} :
           /\ pc'[q] = pc[q] /\ job'[q] = job[q]
           /\ \A u \in Users : userLock'[u] = q => userLock[u] = q
           /\ \A l \in Links : linkLock'[l] = q => linkLock[l] = q
           /\ \A r \in Reports : reportLock'[r] = q => reportLock[r] = q
  PROVE  LocksOK'
<1> SUFFICES ASSUME NEW q \in Handlers, q # p
             PROVE  LocksOf(q)'
  BY DEF LocksOK
<1>1. LocksOf(q)
  BY DEF LocksOK
<1> QED BY <1>1 DEF LocksOf

(* The end gives everything back. *)
LEMMA EndLocks ==
  ASSUME ModInv, LocksOK, NEW p \in Handlers, End(p),
         ReportUnlock(p) \/ (pc[p] # "decide" /\ UNCHANGED reportLock)
  PROVE  LocksOK'
<1>1. /\ pc' = [pc EXCEPT ![p] = "idle"] /\ job' = [job EXCEPT ![p] = NoJob]
      /\ userLock' = [u \in Users |-> IF userLock[u] = p THEN NoProc ELSE userLock[u]]
      /\ linkLock' = [l \in Links |-> IF linkLock[l] = p THEN NoProc ELSE linkLock[l]]
  BY DEF End, Unlock
<1>2. NoProc \notin Handlers
  BY SessionAssumption
<1>3. pc \in [Handlers -> Places] /\ job \in [Handlers -> Job \cup {NoJob}]
  BY DEF ModInv, TypeOK
<1>4. \A q \in Handlers, r \in Reports : reportLock'[r] = q => reportLock[r] = q /\ q # p
  <2>1. CASE ReportUnlock(p)
    BY <1>2, <2>1 DEF ReportUnlock
  <2>2. CASE pc[p] # "decide" /\ UNCHANGED reportLock
    BY <2>2 DEF LocksOK, LocksOf
  <2> QED BY <2>1, <2>2
<1>5. LocksOf(p)'
  BY <1>1, <1>2, <1>4 DEF LocksOf
<1> QED BY <1>1, <1>2, <1>3, <1>4, <1>5, LocksStep

(* A handler moves that holds nothing. *)
LEMMA MoveLocks ==
  ASSUME LocksOK, NEW p \in Handlers, pc[p] \notin AtWork,
         UNCHANGED <<locks, reportLock>>,
         \A q \in Handlers \ {p} : pc'[q] = pc[q] /\ job'[q] = job[q]
  PROVE  LocksOK'
<1>1. userLock' = userLock /\ linkLock' = linkLock /\ reportLock' = reportLock
  BY DEF locks
<1>2. LocksOf(p)
  BY DEF LocksOK
<1>3. LocksOf(p)'
  BY <1>1, <1>2 DEF LocksOf, AtWork
<1> QED BY <1>1, <1>3, LocksStep

LEMMA GotoLocks ==
  ASSUME ModInv, LocksOK, NEW p \in Handlers, NEW place \in Places, pc[p] \notin AtWork,
         Goto(p, place), UNCHANGED <<locks, reportLock>>
  PROVE  LocksOK'
<1>1. TypeOK
  BY DEF ModInv
<1>2. \A q \in Handlers \ {p} : pc'[q] = pc[q] /\ job'[q] = job[q]
  BY <1>1, GotoFacts
<1> QED BY <1>2, MoveLocks

LEMMA BeginLocks ==
  ASSUME ModInv, LocksOK, NEW p \in Handlers, NEW first, NEW j, NEW view,
         Begin(p, first, j, view), UNCHANGED <<locks, reportLock>>
  PROVE  LocksOK'
<1>1. /\ pc[p] = "idle" /\ pc' = [pc EXCEPT ![p] = first] /\ job' = [job EXCEPT ![p] = j]
  BY DEF Begin
<1>2. pc \in [Handlers -> Places] /\ job \in [Handlers -> Job \cup {NoJob}]
  BY DEF ModInv, TypeOK
<1> QED BY <1>1, <1>2, MoveLocks DEF AtWork

LEMMA UnmovedLocks ==
  ASSUME LocksOK, UNCHANGED <<locks, reportLock, pc, job>>
  PROVE  LocksOK'
BY DEF LocksOK, LocksOf, locks

(* Who takes a row. *)
LEMMA LockUserLocks ==
  ASSUME ModInv, LocksOK, NEW p \in Handlers, LockUser(p), UNCHANGED reportLock
  PROVE  LocksOK'
<1>1. /\ pc[p] = "lock user" /\ userLock' = [userLock EXCEPT ![job[p].user] = p]
      /\ Goto(p, "old links") /\ linkLock' = linkLock /\ reportLock' = reportLock
  BY DEF LockUser
<1>2. TypeOK /\ "old links" \in Places /\ LocksOf(p)
  BY DEF ModInv, Places, Forgetting, LocksOK
<1>3. /\ pc'[p] = "old links" /\ job' = job
      /\ \A q \in Handlers \ {p} : pc'[q] = pc[q]
  BY <1>1, <1>2, GotoFacts
<1>4. userLock \in [Users -> Handlers \cup {NoProc}]
  BY <1>2 DEF TypeOK, SessionTypeOK
<1>5. \A u \in Users, q \in Handlers :
        userLock'[u] = q => userLock[u] = q \/ (q = p /\ u = job[p].user)
  BY <1>1, <1>4
<1>6. LocksOf(p)'
  BY <1>1, <1>2, <1>3, <1>5 DEF LocksOf
<1> QED BY <1>1, <1>3, <1>5, <1>6, LocksStep

LEMMA DeleteLinksLocks ==
  ASSUME ModInv, LocksOK, NEW p \in Handlers, DeleteLinks(p), UNCHANGED reportLock
  PROVE  LocksOK'
<1>1. /\ pc[p] = "old links" /\ Goto(p, "new link")
      /\ linkLock' = [l \in Links |-> IF l \in OldLinks(job[p].user) THEN p ELSE linkLock[l]]
      /\ userLock' = userLock /\ reportLock' = reportLock
  BY DEF DeleteLinks
<1>2. TypeOK /\ "new link" \in Places /\ LocksOf(p)
  BY DEF ModInv, Places, Forgetting, LocksOK
<1>3. /\ pc'[p] = "new link" /\ job' = job
      /\ \A q \in Handlers \ {p} : pc'[q] = pc[q]
  BY <1>1, <1>2, GotoFacts
<1>4. LocksOf(p)'
  BY <1>1, <1>2, <1>3 DEF LocksOf
<1> QED BY <1>1, <1>3, <1>4, LocksStep

LEMMA ClaimLinkLocks ==
  ASSUME ModInv, LocksOK, NEW p \in Handlers, ClaimLink(p), UNCHANGED reportLock
  PROVE  LocksOK'
<1>1. pc[p] = "claim link"
  BY DEF ClaimLink
<1>2. CASE Refuse(p)
  BY <1>1, <1>2, EndLocks DEF Refuse
<1>3. CASE /\ linkLock' = [linkLock EXCEPT ![job[p].link] = p]
           /\ Goto(p, "new password") /\ UNCHANGED userLock
  <2>1. TypeOK /\ "new password" \in Places /\ LocksOf(p)
    BY DEF ModInv, Places, Resetting, LocksOK
  <2>2. /\ pc'[p] = "new password" /\ job' = job
        /\ \A q \in Handlers \ {p} : pc'[q] = pc[q]
    BY <1>3, <2>1, GotoFacts
  <2>3. linkLock \in [Links -> Handlers \cup {NoProc}]
    BY <2>1 DEF TypeOK, SessionTypeOK
  <2>4. \A l \in Links, q \in Handlers :
          linkLock'[l] = q => linkLock[l] = q \/ (q = p /\ l = job[p].link)
    BY <1>3, <2>3
  <2>5. LocksOf(p)'
    BY <1>1, <1>3, <2>1, <2>2, <2>4 DEF LocksOf
  <2> QED BY <1>3, <2>2, <2>4, <2>5, LocksStep
<1> QED BY <1>2, <1>3 DEF ClaimLink

LEMMA LockReportLocks ==
  ASSUME ModInv, LocksOK, NEW p \in Handlers, LockReport(p)
  PROVE  LocksOK'
<1>1. pc[p] = "handler"
  BY DEF LockReport
<1>2. CASE ModRefuse(p)
  BY <1>2, EndLocks DEF ModRefuse, Refuse
<1>3. CASE reportLock' = [reportLock EXCEPT ![job[p].link] = p] /\ Proceed(p, "decide")
  <2>1. TypeOK /\ "decide" \in Places /\ LocksOf(p)
    BY DEF ModInv, Places, WithToken, LocksOK
  <2>2. Goto(p, "decide") /\ userLock' = userLock /\ linkLock' = linkLock
    BY <1>3 DEF Proceed, locks
  <2>3. /\ pc'[p] = "decide" /\ job' = job
        /\ \A q \in Handlers \ {p} : pc'[q] = pc[q]
    BY <2>1, <2>2, GotoFacts
  <2>4. reportLock \in [Reports -> Handlers \cup {NoProc}]
    BY <2>1 DEF TypeOK, ModerationTypeOK
  <2>5. \A r \in Reports, q \in Handlers : reportLock'[r] = q => reportLock[r] = q \/ q = p
    BY <1>3, <2>4
  <2>6. LocksOf(p)'
    BY <1>1, <2>1, <2>2, <2>3, <2>5 DEF LocksOf
  <2> QED BY <2>2, <2>3, <2>5, <2>6, LocksStep
<1> QED BY <1>2, <1>3 DEF LockReport

LEMMA SessionStepLocks ==
  ASSUME ModInv, LocksOK, NEW p \in Handlers, SessionStep(p), UNCHANGED moderationVars
  PROVE  LocksOK'
<1>0. UNCHANGED reportLock /\ {"user", "handler"} \subseteq Places
  BY DEF moderationVars, Places, WithToken
<1>1. CASE GenerateToken(p)
  BY <1>0, <1>1, EndLocks DEF GenerateToken
<1>2. CASE CheckRevoked(p)
  BY <1>0, <1>2, EndLocks, GotoLocks DEF CheckRevoked, Refuse, AtWork
<1>3. CASE ReadUser(p)
  <2>1. pc[p] = "user" /\ pc \in [Handlers -> Places]
    BY <1>3 DEF ReadUser, ModInv, TypeOK
  <2>2. CASE pc' = [pc EXCEPT ![p] = "handler"] /\ UNCHANGED <<locks, job>>
    BY <1>0, <2>1, <2>2, MoveLocks DEF AtWork
  <2> QED BY <1>0, <1>3, <2>1, <2>2, EndLocks DEF ReadUser, Refuse
<1>4. CASE LogoutUser(p)
  BY <1>0, <1>4, EndLocks DEF LogoutUser
<1>5. CASE CommitForgot(p)
  BY <1>0, <1>5, EndLocks DEF CommitForgot
<1>6. CASE CommitReset(p)
  BY <1>0, <1>6, EndLocks DEF CommitReset
<1>7. CASE AbortDeadlock(p)
  BY <1>0, <1>7, EndLocks DEF AbortDeadlock, WaitsFor, Refuse
<1> QED BY <1>0, <1>1, <1>2, <1>3, <1>4, <1>5, <1>6, <1>7, LockUserLocks, DeleteLinksLocks,
           ClaimLinkLocks DEF SessionStep

LEMMA SessionArriveLocks ==
  ASSUME ModInv, LocksOK, NEW p \in Handlers, SessionArrive(p), UNCHANGED moderationVars
  PROVE  LocksOK'
<1>0. UNCHANGED reportLock
  BY DEF moderationVars
<1>1. CASE \E t \in Tokens, u \in Users : LoginUser(p, t, u) \/ GoogleLogin(p, t, u)
  BY <1>0, <1>1, BeginLocks DEF LoginUser, GoogleLogin, Enter
<1>2. CASE \E t \in Tokens : Request(p, "logout", t, NoOne, NoOne)
  BY <1>0, <1>2, BeginLocks DEF Request
<1>3. CASE \E l \in Links : ResetPassword(p, l)
  BY <1>0, <1>3, BeginLocks, UnmovedLocks DEF ResetPassword
<1>4. CASE \E l \in Links, u \in Targets : ForgotPassword(p, l, u)
  BY <1>0, <1>4, BeginLocks DEF ForgotPassword
<1> QED BY <1>1, <1>2, <1>3, <1>4 DEF SessionArrive

LEMMA ModArriveLocks ==
  ASSUME ModInv, LocksOK, NEW p \in Handlers, ModArrive(p), UNCHANGED moderationVars
  PROVE  LocksOK'
<1>0. UNCHANGED reportLock
  BY DEF moderationVars
<1>1. ASSUME NEW k, NEW t, NEW l, NEW u, Request(p, k, t, l, u)
      PROVE  LocksOK'
  BY <1>0, <1>1, BeginLocks DEF Request
<1> QED BY <1>1 DEF ModArrive

LEMMA ModStepLocks ==
  ASSUME ModInv, LocksOK, NEW p \in Handlers, ModStep(p) \/ ModRefuse(p)
  PROVE  LocksOK'
<1>0. {"update", "post"} \subseteq Places
  BY DEF Places, WithToken
<1>1. CASE ModRefuse(p)
  BY <1>1, EndLocks DEF ModRefuse, Refuse
<1>2. CASE ReadTarget(p)
  <2>1. CASE Proceed(p, "update") /\ UNCHANGED reportLock
    BY <1>0, <1>2, <2>1, GotoLocks DEF ReadTarget, Proceed, AtWork
  <2> QED BY <1>1, <1>2, <2>1 DEF ReadTarget
<1>3. CASE UpdateTarget(p)
  BY <1>3, EndLocks DEF UpdateTarget
<1>4. CASE SubmitReport(p)
  BY <1>4, EndLocks DEF SubmitReport, ModEnd
<1>5. CASE ResolveReport(p)
  BY <1>5, EndLocks DEF ResolveReport, ModEnd
<1>6. CASE AddComment(p)
  <2>1. CASE pc[p] = "handler" /\ Proceed(p, "post") /\ UNCHANGED reportLock
    BY <1>0, <2>1, GotoLocks DEF Proceed, AtWork
  <2>2. CASE ModEnd(p)
    BY <2>2, EndLocks DEF ModEnd
  <2> QED BY <1>1, <1>6, <2>1, <2>2 DEF AddComment
<1> QED BY <1>1, <1>2, <1>3, <1>4, <1>5, <1>6, LockReportLocks DEF ModStep

LEMMA InitLocks == ModerationInit => LocksOK
BY SessionAssumption DEF ModerationInit, SessionInit, LocksOK, LocksOf

LEMMA NextLocks == ModInv /\ LocksOK /\ [ModerationNext]_allVars => LocksOK'
<1> SUFFICES ASSUME ModInv, LocksOK, [ModerationNext]_allVars
             PROVE  LocksOK'
  OBVIOUS
<1>1. CASE UNCHANGED allVars
  BY <1>1, UnmovedLocks DEF allVars, sessionVars, moderationVars
<1>2. CASE (Clock \/ \E u \in Users : SuspensionEnds(u)) /\ UNCHANGED moderationVars
  BY <1>2, UnmovedLocks DEF Clock, Expire, Cleanup, Lapse, SuspensionEnds, moderationVars
<1>3. CASE \E p \in Handlers : ModStep(p) \/ ModRefuse(p)
  BY <1>3, ModStepLocks
<1> QED BY <1>1, <1>2, <1>3, SessionStepLocks, SessionArriveLocks, ModArriveLocks
        DEF ModerationNext

(* Whom somebody waits for is at a place where rows are held; a transaction *)
(* that forgets waits only for one of the same user's that resets.         *)
LEMMA AwaitsFacts ==
  ASSUME ModInv, LocksOK, NEW p \in Handlers, NEW q \in Handlers, Awaits(p, q)
  PROVE  /\ pc[p] # "new link" /\ pc[q] \in AtWork
         /\ pc[p] = "old links" => WaitsFor(p, q)
         /\ pc[p] = "old links" /\ pc[q] # "new link" =>
              pc[q] = "new password" /\ job[q].user = job[p].user
         /\ pc[p] \in {"new password", "decide"} => pc[q] \in {"old links", "new link"}
<1>1. LocksOf(q) /\ JobOK(p) /\ JobOK(q)
  BY DEF LocksOK, ModInv, Local
<1>2. CASE pc[p] = "old links"
  <2>1. WaitsFor(p, q)
    BY <1>2 DEF Awaits
  <2>2. PICK l \in OldLinks(job[p].user) : linkLock[l] = q
    BY <1>2, <2>1 DEF WaitsFor
  <2>3. l \in Links /\ link[l].user = job[p].user
    BY <2>2 DEF OldLinks
  <2>4. pc[q] = "new link" \/ (pc[q] = "new password" /\ job[q].link = l)
    BY <1>1, <2>2, <2>3 DEF LocksOf
  <2>5. pc[q] = "new password" => link[job[q].link].user = job[q].user
    BY <1>1 DEF JobOK, Resetting
  <2> QED BY <1>2, <2>1, <2>3, <2>4, <2>5 DEF AtWork
<1>3. CASE pc[p] \in {"lock user", "new password"}
  <2>1. userLock[job[p].user] = q
    BY <1>3 DEF Awaits, WaitsFor
  <2>2. job[p].user \in Users
    BY <1>1, <1>3 DEF JobOK, Forgetting, Resetting
  <2> QED BY <1>1, <1>3, <2>1, <2>2 DEF LocksOf, AtWork
<1>4. CASE pc[p] \in {"update", "decide"}
  <2>1. userLock[job[p].user] = q
    BY <1>4 DEF Awaits, WaitsFor, Target
  <2>2. job[p].user \in Users
    BY <1>1, <1>4, SessionAssumption DEF JobOK, WithToken
  <2> QED BY <1>1, <1>4, <2>1, <2>2 DEF LocksOf, AtWork
<1>5. CASE pc[p] = "claim link"
  <2>1. linkLock[job[p].link] = q
    BY <1>5 DEF Awaits, WaitsFor
  <2>2. job[p].link \in Links
    BY <1>1, <1>5 DEF JobOK, Resetting
  <2> QED BY <1>1, <1>5, <2>1, <2>2 DEF LocksOf, AtWork
<1>6. CASE pc[p] = "handler"
  <2>1. reportLock[job[p].link] = q /\ job[p].kind \in Decisions
    BY <1>6 DEF Awaits, WaitsFor
  <2>2. job[p].link \in Reports
    BY <1>1, <1>6, <2>1 DEF JobOK, WithToken
  <2> QED BY <1>1, <1>6, <2>1, <2>2 DEF LocksOf, AtWork
<1> QED BY <1>2, <1>3, <1>4, <1>5, <1>6 DEF Awaits, WaitsFor

(* The two that AbortDeadlock parts. *)
LEMMA PairFacts ==
  ASSUME ModInv, LocksOK, NEW p \in Handlers, NEW q \in Handlers, Awaits(p, q),
         pc[p] = "old links", pc[q] # "new link"
  PROVE  WaitsFor(p, q) /\ WaitsFor(q, p)
<1>1. WaitsFor(p, q) /\ pc[q] = "new password" /\ job[q].user = job[p].user
  BY AwaitsFacts
<1>2. userLock[job[p].user] = p
  BY DEF ModInv, Local, LinksHeld
<1> QED BY <1>1, <1>2 DEF WaitsFor

LEMMA CirclesBroken ==
  ASSUME ModInv, LocksOK, NEW S \in SUBSET Handlers, Circle(S)
  PROVE  \E p, q \in S : WaitsFor(p, q) /\ WaitsFor(q, p)
<1>1. \A p \in S : \E q \in S : Awaits(p, q)
  BY DEF Circle
<1>2. \A q \in S : pc[q] # "new link"
  BY <1>1, AwaitsFacts
<1>3. ASSUME NEW p \in S, pc[p] = "old links"
      PROVE  \E a, b \in S : WaitsFor(a, b) /\ WaitsFor(b, a)
  <2>1. PICK q \in S : Awaits(p, q)
    BY <1>1
  <2> QED BY <1>2, <1>3, <2>1, PairFacts
<1>4. PICK q \in S : pc[q] \in AtWork
  <2>1. PICK p \in S : TRUE
    BY DEF Circle
  <2>2. PICK q \in S : Awaits(p, q)
    BY <1>1
  <2> QED BY <2>2, AwaitsFacts
<1>5. CASE pc[q] \in {"new password", "decide"}
  <2>1. PICK r \in S : Awaits(q, r)
    BY <1>1
  <2>2. pc[r] = "old links"
    BY <1>2, <1>5, <2>1, AwaitsFacts
  <2> QED BY <1>3, <2>2
<1> QED BY <1>2, <1>3, <1>4, <1>5 DEF AtWork

(* However many requests are under way, nobody waits for a row of somebody *)
(* who is through with it, and the only circle of waits is of one that     *)
(* asks for a link and one that uses one of the same user: the one the     *)
(* database breaks (user_controller.go:410 and 468).                       *)
THEOREM WaitsEnd == ModerationSpec => []NobodyStuck
<1>1. ModInv /\ LocksOK => NobodyStuck
  <2> SUFFICES ASSUME ModInv, LocksOK
               PROVE  NobodyStuck
    OBVIOUS
  <2>1. \A p, q \in Handlers : Awaits(p, q) => pc[q] # "idle"
    BY AwaitsFacts DEF AtWork
  <2> QED BY <2>1, CirclesBroken DEF NobodyStuck
<1> QED BY <1>1, InitLocks, NextLocks, ModerationInvariant, PTL DEF ModerationSpec
=============================================================================
