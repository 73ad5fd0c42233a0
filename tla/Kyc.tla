-------------------------------- MODULE Kyc --------------------------------
(***************************************************************************)
(* Identity verification (controllers/kyc_controller.go), beside the       *)
(* referrals it feeds: StartKYCSession opens a session at the provider     *)
(* while it holds the wallet lock, HypervergeWebhook brings the verdicts,  *)
(* of any session, in any order, any number of times.                      *)
(***************************************************************************)
EXTENDS Referral

CONSTANTS Sessions, NoSession,
          Owner         \* Owner[s]: the user session s is for

ASSUME KycAssumption ==
  /\ NoSession \notin Sessions
  /\ Owner \in [Sessions -> Users]
  /\ "kyc_completed" \in Milestones
  /\ \A s \in Sessions : <<Owner[s], "kyc_completed">> \in Goals

VARIABLES
  kyc,         \* kyc[s]: status of the row of hyper_verge_kycs
  latest,      \* latest[u]: the user's newest row
  young,       \* the sessions less than 24 hours old
  kycStatus,   \* the users with users.kyc_status
  provider,    \* the transactions the provider knows
  sessionLock, \* sessionLock[s]: the transaction holding the row
  about,       \* about[p]: the session p is about
  verdict,     \* verdict[p]: what the provider says
  reopened     \* history: the sessions a late verdict put back in review (see CommitVerdict)

kycVars == <<kyc, latest, young, kycStatus, provider, sessionLock, about, verdict, reopened>>
allVars == <<vars, kycVars>>

Verdicts == {"auto_approved", "needs_review", "rejected"}
Statuses == {"none", "Started", "Pending", "Verified", "Rejected"}

KycTypeOK ==
  /\ TypeOK
  /\ kyc \in [Sessions -> Statuses]
  /\ latest \in [Users -> Sessions \cup {NoSession}]
  /\ young \subseteq Sessions
  /\ kycStatus \subseteq Users
  /\ provider \subseteq Sessions
  /\ sessionLock \in [Sessions -> Handlers \cup {NoProc}]
  /\ about \in [Handlers -> Sessions \cup {NoSession}]
  /\ verdict \in [Handlers -> Verdicts \cup {"none"}]
  /\ reopened \subseteq Sessions

KycInit ==
  /\ Init
  /\ kyc = [s \in Sessions |-> "none"]
  /\ latest = [u \in Users |-> NoSession]
  /\ young = {}
  /\ kycStatus = {}
  /\ provider = {}
  /\ sessionLock = [s \in Sessions |-> NoProc]
  /\ about = [p \in Handlers |-> NoSession]
  /\ verdict = [p \in Handlers |-> "none"]
  /\ reopened = {}

-----------------------------------------------------------------------------
(* Helpers *)

StatusOf(v) ==
  IF v = "auto_approved" THEN "Verified" ELSE IF v = "rejected" THEN "Rejected" ELSE "Pending"

(* A verification in progress, as StartKYCSession means it.                *)
InProgress(s) == kyc[s] \in {"Started", "Pending"}

(* StartKYCSession looks at the newest row only.  (A second form beside a  *)
(* definition is the slip the properties are tested against.)              *)
PendingForgotten(u) ==
  latest[u] # NoSession =>
    /\ kyc[latest[u]] # "Verified"
    /\ latest[u] \in young => kyc[latest[u]] # "Started"
MayStart(u) ==
  latest[u] # NoSession =>
    /\ kyc[latest[u]] # "Verified"
    /\ latest[u] \in young => ~InProgress(latest[u])

(* A verdict counts until the session is verified. *)
Open(s) == kyc[s] # "Verified"

(* The end of a handler of this module. *)
KycEnd(p) ==
  /\ End(p)
  /\ about' = [about EXCEPT ![p] = NoSession]
  /\ verdict' = [verdict EXCEPT ![p] = "none"]
  /\ sessionLock' = [s \in Sessions |-> IF sessionLock[s] = p THEN NoProc ELSE sessionLock[s]]

KycRefuse(p) ==
  KycEnd(p) /\ UNCHANGED <<tables, kyc, latest, young, kycStatus, provider, reopened>>

(* Its first step, which waits for a lock. *)
KycEnter(p, s, v, first) ==
  /\ pc[p] = "idle"
  /\ Goto(p, first)
  /\ job' = [job EXCEPT ![p] = [user |-> Owner[s], kind |-> "kyc_completed",
                               code |-> referredBy[Owner[s]]]]
  /\ about' = [about EXCEPT ![p] = s]
  /\ verdict' = [verdict EXCEPT ![p] = v]
  /\ UNCHANGED <<tables, claimLock, count, read, kyc, latest, young, kycStatus, provider,
                 reopened>>

-----------------------------------------------------------------------------
(* Starting a session *)

(* The wallet lock first; a refusal changes nothing. *)
StartKYCSession(p, s) ==
  LET u == Owner[s]
  IN /\ u \in registered
     /\ s \notin provider
     /\ \A q \in Handlers : about[q] # s
     /\ LockFree(userLock[u])
     /\ MayStart(u)
     /\ KycEnter(p, s, "none", "provider")
     /\ userLock' = [userLock EXCEPT ![u] = p]
     /\ UNCHANGED sessionLock

(* Up to three calls with the same transaction id; the provider may know   *)
(* it although no answer arrives.                                          *)
CallProvider(p) ==
  /\ pc[p] = "provider"
  /\ \/ /\ provider' = provider \cup {about[p]}
        /\ Goto(p, "store")
        /\ UNCHANGED <<tables, locks, memory, kyc, latest, young, kycStatus,
                       sessionLock, about, verdict, reopened>>
     \/ /\ provider' \in {provider, provider \cup {about[p]}}
        /\ KycEnd(p)
        /\ UNCHANGED <<tables, kyc, latest, young, kycStatus, reopened>>

StoreSession(p) ==
  LET s == about[p]
  IN /\ pc[p] = "store"
     /\ kyc' = [kyc EXCEPT ![s] = "Started"]
     /\ latest' = [latest EXCEPT ![Owner[s]] = s]
     /\ young' = young \cup {s}
     /\ KycEnd(p)
     /\ UNCHANGED <<tables, kycStatus, provider, reopened>>

(* 24 hours pass. *)
Age(s) ==
  /\ s \in young
  /\ young' = young \ {s}
  /\ UNCHANGED <<tables, locks, pc, memory, kyc, latest, kycStatus, provider,
                 sessionLock, about, verdict, reopened>>

-----------------------------------------------------------------------------
(* A verdict *)

(* The row first; where there is none the provider is told so.             *)
HypervergeWebhook(p, s, v) ==
  /\ s \in provider
  /\ kyc[s] # "none"
  /\ LockFree(sessionLock[s])
  /\ KycEnter(p, s, v, "wallets")
  /\ sessionLock' = [sessionLock EXCEPT ![s] = p]
  /\ UNCHANGED userLock

(* A rejected session goes back in review although there is a newer one.   *)
PutBack(s, v) == v = "needs_review" /\ kyc[s] = "Rejected" /\ latest[Owner[s]] # s

(* Past the wallet locks, which are LockWallet's: row, user and, for an    *)
(* approval, the referrer's event in one commit.                           *)
CommitVerdict(p) ==
  LET s == about[p]
  IN /\ pc[p] = "reach"
     /\ job[p].kind = "kyc_completed"
     /\ IF ~Open(s)
          THEN KycRefuse(p)
          ELSE /\ kyc' = [kyc EXCEPT ![s] = StatusOf(verdict[p])]
               /\ reopened' = IF PutBack(s, verdict[p]) THEN reopened \cup {s} ELSE reopened
               /\ IF verdict[p] = "auto_approved"
                    THEN kycStatus' = kycStatus \cup {Owner[s]} /\ CreateEvent(p)
                    ELSE UNCHANGED <<kycStatus, reached, claim>>
               /\ KycEnd(p)
               /\ UNCHANGED <<registered, referredBy, points, latest, young, provider>>

-----------------------------------------------------------------------------
KycFail(p) ==
  /\ about[p] # NoSession
  /\ fails < MaxFails
  /\ fails' = fails + 1
  /\ KycRefuse(p)

KycStep(p) == CallProvider(p) \/ StoreSession(p) \/ CommitVerdict(p)

KycArrive(p) ==
  \E s \in Sessions :
    StartKYCSession(p, s) \/ \E v \in Verdicts : HypervergeWebhook(p, s, v)

(* The actions of Referral; one that ends a handler of this module would   *)
(* leave its session behind, so those are taken above.                     *)
ReferralNext ==
  /\ \/ \E p \in Handlers : Arrive(p)
     \/ \E p \in Crons : Scan(p)
     \/ \E p \in Processes : Step(p)
     \/ \E p \in Crons : Fail(p)
     \/ \E p \in Handlers : about[p] = NoSession /\ Fail(p)
  /\ UNCHANGED kycVars

KycNext ==
  \/ ReferralNext
  \/ \E p \in Handlers : KycFail(p)
  \/ /\ \/ \E s \in Sessions : Age(s)
        \/ \E p \in Handlers : KycArrive(p) \/ KycStep(p)
     /\ UNCHANGED fails

KycSpec == KycInit /\ [][KycNext]_allVars

-----------------------------------------------------------------------------
(* Correctness *)

(* A user counts as verified exactly when a session of theirs is: no       *)
(* verdict that comes late, twice or for another session takes it back.    *)
VerifiedBySession ==
  \A u \in Users : u \in kycStatus <=> \E s \in Sessions : Owner[s] = u /\ kyc[s] = "Verified"

(* Two requests at once, with the provider slow in between, do not open    *)
(* two sessions: a recent one in progress, started or in review, is its    *)
(* user's newest, unless it had been rejected, a newer one was opened and  *)
(* a late needs_review put it back in review.                              *)
OneSessionAtATime ==
  \A s \in young : InProgress(s) =>
    latest[Owner[s]] = s \/ (kyc[s] = "Pending" /\ s \in reopened)

SessionsInv == KycTypeOK /\ VerifiedBySession /\ OneSessionAtATime

(* The row of a session is held by a verdict on it that is being recorded. *)
SessionsHeld ==
  \A s \in Sessions : sessionLock[s] # NoProc =>
    about[sessionLock[s]] = s /\ pc[sessionLock[s]] \in {"wallets", "reach"}

KycInv == SessionsInv /\ SessionsHeld /\ NobodyStuck
=============================================================================
