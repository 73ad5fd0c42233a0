----------------------------- MODULE KycProofs -----------------------------
(***************************************************************************)
(* Theorems about Referral and Kyc, for any users, codes, milestones, cap, *)
(* handlers, replicas and sessions.                                        *)
(***************************************************************************)
EXTENDS Kyc, FiniteSetTheorems, WellFoundedInduction, TLAPS

-----------------------------------------------------------------------------
(* The inductive invariant of the referrals.                               *)

(* A user who has not registered has nothing; an event has a referrer, the *)
(* one whose code the user was given; nobody has more events than the cap. *)
MembersOnly ==
  /\ Users \ Newcomers \subseteq registered
  /\ \A u \in Users \ registered : referredBy[u] = 0
  /\ \A c \in Claims : claim[c] # "none" => c[1] \in registered
  /\ \A c \in reached : c[1] \in registered

EventsReferred ==
  /\ \A u \in Users : referredBy[u] \in {0, Code[u]}
  /\ \A c \in Claims : c[2] \in Milestones /\ claim[c] # "none" => referredBy[c[1]] # 0

EventsOf(r) == Cardinality(Events(r, {"pending", "paid"}))

Capped == \A r \in Users : EventsOf(r) <= MaxReferralRewards

(* What a transaction holds and has read, by where it is. *)
Joining(p) ==
  /\ job[p].kind = "signed_up"
  /\ job[p].code \in {0, Code[job[p].user]}
  /\ pc[p] # "insert" => userLock[job[p].user] = p /\ job[p].user \notin registered
  /\ pc[p] \in {"referrer", "count paid", "count pending"} => job[p].code # 0
  /\ pc[p] \in {"count paid", "count pending", "join"} /\ job[p].code # 0
       => userLock[job[p].code] = p
  /\ pc[p] = "count pending" => count[p] = Cardinality(Events(job[p].code, {"paid"}))
  /\ pc[p] = "join" /\ job[p].code # 0 => count[p] = EventsOf(job[p].code)

Reaching(p) ==
  /\ Event(p) \in Goals
  /\ job[p].user \in registered
  /\ job[p].code = referredBy[job[p].user]
  /\ pc[p] = "reach" =>
       /\ userLock[job[p].user] = p
       /\ job[p].code # 0 => userLock[job[p].code] = p /\ count[p] = EventsOf(job[p].code)

Paying(p) ==
  /\ Event(p) \in Claims
  /\ job[p].user \in registered
  /\ job[p].kind = "achievement" \/ claim[Event(p)] # "none"
  /\ pc[p] \in {"payee", "pay"} => claimLock[Event(p)] = p /\ Claimable(Event(p))
  /\ pc[p] = "pay" =>
       userLock[Payee(Event(p))] = p /\ read[p] = points[Payee(Event(p))]

PlaceOK(p) ==
  /\ pc[p] # "idle" => job[p] \in Job
  /\ pc[p] \in {"insert", "referrer", "count paid", "count pending", "join"} => Joining(p)
  /\ pc[p] \in {"wallets", "reach"} => Reaching(p)
  /\ pc[p] \in {"claim", "payee", "pay"} => Paying(p)

BonusInv ==
  /\ RewardsInv /\ MembersOnly /\ EventsReferred /\ Capped
  /\ \A p \in Processes : PlaceOK(p)
-----------------------------------------------------------------------------
(* The inductive invariant of the verifications.                           *)

(* What a handler of Kyc holds and has read. *)
StartOK(p) ==
  LET s == about[p]
  IN /\ kyc[s] = "none"
     /\ userLock[Owner[s]] = p
     /\ MayStart(Owner[s])
     /\ \A q \in Handlers \ {p} : about[q] # s

VerdictOK(p) ==
  /\ kyc[about[p]] # "none"
  /\ verdict[p] \in Verdicts

KycPlaceOK(p) ==
  /\ pc[p] \in {"provider", "store"} => about[p] # NoSession
  /\ pc[p] \in {"wallets", "reach"} /\ job[p].kind = "kyc_completed" => about[p] # NoSession
  /\ about[p] # NoSession =>
       /\ pc[p] \in {"provider", "store", "wallets", "reach"}
       /\ job[p].user = Owner[about[p]] /\ job[p].kind = "kyc_completed"
       /\ Owner[about[p]] \in registered
       /\ pc[p] \in {"provider", "store"} => StartOK(p)
       /\ pc[p] = "store" => about[p] \in provider
       /\ pc[p] \in {"wallets", "reach"} => VerdictOK(p)

(* A row is of a session the provider knows and of a registered user; one  *)
(* that is recent and in progress is the user's newest, or was put back.   *)
RowsOK ==
  /\ \A s \in Sessions : kyc[s] # "none" => s \in provider /\ Owner[s] \in registered
  /\ \A u \in Users : latest[u] # NoSession => Owner[latest[u]] = u
  /\ OneSessionAtATime

VerificationInv ==
  /\ BonusInv /\ SessionsInv /\ RowsOK
  /\ \A p \in Handlers : KycPlaceOK(p)
  /\ \A p \in Crons : pc[p] \notin {"provider", "store", "wallets", "reach"}
-----------------------------------------------------------------------------
(* What the proofs use of the constants and of the claims. *)
LEMMA ConstantFacts ==
  /\ Users \subseteq Nat /\ 0 \notin Users /\ Newcomers \subseteq Users
  /\ Code \in [Users -> Users \cup {0}]
  /\ \A u \in Users : Code[u] # u
  /\ \A u \in Users \ Newcomers : Code[u] \notin Newcomers
  /\ "signed_up" \in Milestones /\ "joined" \notin Milestones
  /\ "welcome" \notin Milestones /\ "achievement" \notin Milestones
  /\ Earnings \in [Kinds -> Nat]
  /\ MaxReferralRewards \in Nat /\ MaxFails \in Nat
  /\ NoProc \notin Processes /\ Handlers \subseteq Processes /\ Crons \subseteq Processes
  /\ Milestones \subseteq Kinds /\ {"joined", "welcome", "achievement"} \subseteq Kinds
BY ConstantsAssumption DEF Processes, Kinds

LEMMA ClaimFacts ==
  /\ \A c \in Claims : c[1] \in Users /\ c[2] \in Kinds /\ c = <<c[1], c[2]>>
  /\ Goals \subseteq Claims
  /\ \A g \in Goals : g[2] \in Milestones /\ <<g[1], "achievement">> \in Claims
  /\ \A u \in Newcomers :
       {<<u, "joined">>, <<u, "signed_up">>, <<u, "welcome">>} \subseteq Claims
<1>1. Goals \subseteq Users \X Milestones /\ Newcomers \subseteq Users
  BY ConstantsAssumption
<1>2. \A g \in Goals : g[1] \in Users /\ g[2] \in Milestones /\ g = <<g[1], g[2]>>
  BY <1>1
<1>3. \A c \in Claims : c[1] \in Users /\ c[2] \in Kinds /\ c = <<c[1], c[2]>>
  <2> SUFFICES ASSUME NEW c \in Claims
      PROVE  c[1] \in Users /\ c[2] \in Kinds /\ c = <<c[1], c[2]>>
    OBVIOUS
  <2>1. CASE c \in Goals
    BY <1>2, <2>1, ConstantFacts
  <2>2. CASE c \in Newcomers \X {"joined", "signed_up", "welcome"}
    <3>1. c[1] \in Newcomers /\ c[2] \in {"joined", "signed_up", "welcome"} /\ c = <<c[1], c[2]>>
      BY <2>2
    <3>2. {"joined", "signed_up", "welcome"} \subseteq Kinds
      BY ConstantFacts
    <3> QED BY <1>1, <3>1, <3>2
  <2>3. CASE c \in {<<g[1], "achievement">> : g \in Goals}
    BY <1>2, <2>3, ConstantFacts
  <2> QED BY <2>1, <2>2, <2>3 DEF Claims
<1> QED BY <1>2, <1>3 DEF Claims

LEMMA ClaimsFinite == IsFiniteSet(Claims)
<1>1. IsFiniteSet(Users) /\ IsFiniteSet(Milestones)
  BY ConstantsAssumption
<1>2. IsFiniteSet(Goals)
  <2>1. IsFiniteSet(Users \X Milestones)
    BY <1>1, FS_Product
  <2>2. Goals \subseteq Users \X Milestones
    BY ConstantsAssumption
  <2> QED BY <2>1, <2>2, FS_Subset
<1>3. IsFiniteSet(Newcomers \X {"joined", "signed_up", "welcome"})
  <2>1. IsFiniteSet({"joined"}) /\ IsFiniteSet({"joined", "signed_up"})
        /\ IsFiniteSet({"joined", "signed_up", "welcome"})
    <3>1. IsFiniteSet({})
      BY FS_EmptySet
    <3>2. IsFiniteSet({} \cup {"joined"})
      BY <3>1, FS_AddElement
    <3>3. IsFiniteSet(({} \cup {"joined"}) \cup {"signed_up"})
      BY <3>2, FS_AddElement
    <3>4. IsFiniteSet((({} \cup {"joined"}) \cup {"signed_up"}) \cup {"welcome"})
      BY <3>3, FS_AddElement
    <3>5. /\ {"joined"} = {} \cup {"joined"}
          /\ {"joined", "signed_up"} = ({} \cup {"joined"}) \cup {"signed_up"}
          /\ {"joined", "signed_up", "welcome"} = (({} \cup {"joined"}) \cup {"signed_up"}) \cup {"welcome"}
      OBVIOUS
    <3> QED BY <3>2, <3>3, <3>4, <3>5
  <2>2. IsFiniteSet(Newcomers)
    <3>1. Newcomers \subseteq Users
      BY ConstantFacts
    <3> QED BY <1>1, <3>1, FS_Subset
  <2> QED BY <2>1, <2>2, FS_Product
<1>4. IsFiniteSet({<<g[1], "achievement">> : g \in Goals})
  <2>1. IsFiniteSet(Users \X {"achievement"})
    BY <1>1, FS_Product, FS_Singleton
  <2>2. {<<g[1], "achievement">> : g \in Goals} \subseteq Users \X {"achievement"}
    BY ConstantsAssumption
  <2> QED BY <2>1, <2>2, FS_Subset
<1>5. IsFiniteSet(Goals \cup (Newcomers \X {"joined", "signed_up", "welcome"}))
  BY <1>2, <1>3, FS_Union
<1> QED BY <1>4, <1>5, FS_Union DEF Claims

LEMMA JobFacts ==
  ASSUME NEW j \in Job
  PROVE  /\ j.user \in Users /\ j.kind \in Kinds /\ j.code \in Users \cup {0}
         /\ \A k \in Kinds : [user |-> j.user, kind |-> k, code |-> j.code] \in Job
BY DEF Job

(* How many events there are, when some are added.                         *)
LEMMA EventCounts ==
  ASSUME NEW A, NEW B, A \subseteq Claims, B \subseteq Claims
  PROVE  /\ Cardinality(A) \in Nat
         /\ A \subseteq B => Cardinality(A) <= Cardinality(B)
         /\ \A c : c \notin A /\ B = A \cup {c} => Cardinality(B) = Cardinality(A) + 1
         /\ A \cap B = {} => Cardinality(A \cup B) = Cardinality(A) + Cardinality(B)
<1>1. IsFiniteSet(A) /\ IsFiniteSet(B)
  BY ClaimsFinite, FS_Subset
<1>2. Cardinality(A) \in Nat /\ Cardinality(B) \in Nat
  BY <1>1, FS_CardinalityType
<1>3. A \subseteq B => Cardinality(A) <= Cardinality(B)
  BY <1>1, FS_Subset
<1>4. \A c : c \notin A /\ B = A \cup {c} => Cardinality(B) = Cardinality(A) + 1
  BY <1>1, FS_AddElement
<1>5. A \cap B = {} => Cardinality(A \cup B) = Cardinality(A) + Cardinality(B)
  <2> SUFFICES ASSUME A \cap B = {} PROVE Cardinality(A \cup B) = Cardinality(A) + Cardinality(B)
    OBVIOUS
  <2>1. Cardinality(A \cup B) = Cardinality(A) + Cardinality(B) - Cardinality(A \cap B)
    BY <1>1, FS_Union
  <2>2. Cardinality(A \cap B) = 0
    BY FS_EmptySet
  <2> QED BY <1>2, <2>1, <2>2
<1> QED BY <1>2, <1>3, <1>4, <1>5

-----------------------------------------------------------------------------
(* What a step of p leaves alone: the tables but for what its locks allow, *)
(* the locks and the memory of the others.                                 *)
TablesKept(p) ==
  /\ registered \subseteq registered'
  /\ \A u \in Users : u \in registered' /\ u \notin registered => userLock[u] = p
  /\ \A u \in Users : referredBy'[u] # referredBy[u] => u \notin registered /\ userLock[u] = p
  /\ \A c \in Claims : claim[c] # "none" => claim'[c] # "none"
  /\ \A c \in Claims : claim'[c] # claim[c] =>
       \/ claimLock[c] = p
       \/ c[1] \notin registered
       \/ claim[c] = "none" /\ c[2] \in Milestones
  /\ \A r \in Users : userLock[r] # p =>
       /\ Events(r, {"paid"})' = Events(r, {"paid"})
       /\ Events(r, {"pending", "paid"})' = Events(r, {"pending", "paid"})
       /\ points'[r] = points[r]

LocksKept2(p) ==
  /\ \A u \in Users :
       userLock'[u] = userLock[u] \/ (userLock[u] \in {NoProc, p} /\ userLock'[u] \in {NoProc, p})
  /\ \A c \in Claims :
       claimLock'[c] = claimLock[c] \/ (claimLock[c] \in {NoProc, p} /\ claimLock'[c] \in {NoProc, p})

MemoryKept(p) ==
  /\ LocksKept2(p)
  /\ \A q \in Processes \ {p} :
       pc'[q] = pc[q] /\ job'[q] = job[q] /\ count'[q] = count[q] /\ read'[q] = read[q]

(* A claim being paid has a wallet, and whoever pays it may go on.         *)
LEMMA PayeeFacts ==
  ASSUME TypeOK, EventsReferred, NEW c \in Claims,
         c[2] = "achievement" \/ claim[c] # "none"
  PROVE  Payee(c) \in Users
<1>1. c[1] \in Users
  BY ClaimFacts
<1>2. CASE c[2] \in Milestones
  <2>1. referredBy[c[1]] # 0
    BY <1>2, ConstantFacts DEF EventsReferred
  <2> QED BY <1>1, <1>2, <2>1 DEF Payee, TypeOK
<1>3. CASE c[2] \notin Milestones
  BY <1>1, <1>3 DEF Payee
<1> QED BY <1>2, <1>3

LEMMA PlacesKept ==
  ASSUME BonusInv, NEW p \in Processes, TablesKept(p), MemoryKept(p),
         NEW q \in Processes, q # p
  PROVE  PlaceOK(q)'
<1>t. TypeOK /\ EventsReferred /\ PlaceOK(q) /\ q # NoProc
  BY ConstantFacts DEF BonusInv, RewardsInv
<1>m. /\ pc'[q] = pc[q] /\ job'[q] = job[q] /\ count'[q] = count[q] /\ read'[q] = read[q]
      /\ Event(q)' = Event(q)
  BY DEF MemoryKept, Event
<1>u. \A u \in Users : userLock[u] = q => userLock'[u] = q
  BY <1>t DEF MemoryKept, LocksKept2
<1>c. \A c \in Claims : claimLock[c] = q => claimLock'[c] = q
  BY <1>t DEF MemoryKept, LocksKept2
<1>j. pc[q] # "idle" => job[q] \in Job
  BY <1>t DEF PlaceOK
<1>1. CASE pc[q] \in {"insert", "referrer", "count paid", "count pending", "join"}
  <2>1. /\ Joining(q) /\ job[q].user \in Users /\ job[q].code \in Users \cup {0}
    BY <1>t, <1>j, <1>1, JobFacts DEF PlaceOK
  <2>2. pc[q] # "insert" => userLock'[job[q].user] = q /\ job[q].user \notin registered'
    BY <1>u, <2>1 DEF Joining, TablesKept
  <2>3. pc[q] \in {"count paid", "count pending", "join"} /\ job[q].code # 0
          => userLock'[job[q].code] = q
    BY <1>u, <2>1 DEF Joining
  <2>4. pc[q] = "count pending" => count[q] = Cardinality(Events(job[q].code, {"paid"})')
    <3> SUFFICES ASSUME pc[q] = "count pending"
        PROVE  count[q] = Cardinality(Events(job[q].code, {"paid"})')
      OBVIOUS
    <3>1. job[q].code \in Users /\ userLock[job[q].code] = q
      BY <2>1 DEF Joining
    <3>2. Events(job[q].code, {"paid"})' = Events(job[q].code, {"paid"})
      BY <1>m, <3>1 DEF TablesKept
    <3> QED BY <2>1, <3>2 DEF Joining
  <2>5. pc[q] = "join" /\ job[q].code # 0
          => count[q] = Cardinality(Events(job[q].code, {"pending", "paid"})')
    <3> SUFFICES ASSUME pc[q] = "join", job[q].code # 0
        PROVE  count[q] = Cardinality(Events(job[q].code, {"pending", "paid"})')
      OBVIOUS
    <3>1. job[q].code \in Users /\ userLock[job[q].code] = q
      BY <2>1 DEF Joining
    <3>2. Events(job[q].code, {"pending", "paid"})' = Events(job[q].code, {"pending", "paid"})
      BY <1>m, <3>1 DEF TablesKept
    <3> QED BY <2>1, <3>2 DEF Joining, EventsOf
  <2> QED BY <1>m, <1>j, <1>1, <2>1, <2>2, <2>3, <2>4, <2>5 DEF PlaceOK, Joining, EventsOf
<1>2. CASE pc[q] \in {"wallets", "reach"}
  <2>1. Reaching(q) /\ job[q].user \in Users /\ job[q].code \in Users \cup {0}
    BY <1>t, <1>j, <1>2, JobFacts DEF PlaceOK
  <2>2. job[q].user \in registered' /\ job[q].code = referredBy'[job[q].user]
    BY <2>1 DEF Reaching, TablesKept
  <2>3. pc[q] = "reach" =>
          /\ userLock'[job[q].user] = q
          /\ job[q].code # 0 => userLock'[job[q].code] = q
    BY <1>u, <2>1 DEF Reaching
  <2>4. pc[q] = "reach" /\ job[q].code # 0
          => count[q] = Cardinality(Events(job[q].code, {"pending", "paid"})')
    <3> SUFFICES ASSUME pc[q] = "reach", job[q].code # 0
        PROVE  count[q] = Cardinality(Events(job[q].code, {"pending", "paid"})')
      OBVIOUS
    <3>1. job[q].code \in Users /\ userLock[job[q].code] = q
      BY <2>1 DEF Reaching
    <3>2. Events(job[q].code, {"pending", "paid"})' = Events(job[q].code, {"pending", "paid"})
      BY <1>m, <3>1 DEF TablesKept
    <3> QED BY <2>1, <3>2 DEF Reaching, EventsOf
  <2> QED BY <1>m, <1>j, <1>2, <2>1, <2>2, <2>3, <2>4 DEF PlaceOK, Reaching, EventsOf
<1>3. CASE pc[q] \in {"claim", "payee", "pay"}
  <2> DEFINE c == Event(q)
  <2>1. Paying(q) /\ c \in Claims /\ c[1] = job[q].user /\ c[2] = job[q].kind
    BY <1>t, <1>3 DEF PlaceOK, Paying, Event
  <2>2. job[q].user \in registered' /\ (job[q].kind = "achievement" \/ claim'[c] # "none")
    BY <2>1 DEF Paying, TablesKept
  <2>3. pc[q] \in {"payee", "pay"} => claimLock'[c] = q /\ claim'[c] = claim[c]
    BY <1>t, <1>c, <2>1, ConstantFacts DEF Paying, TablesKept, Claimable
  <2>4. pc[q] = "pay" => Payee(c)' = Payee(c) /\ userLock'[Payee(c)] = q /\ read[q] = points'[Payee(c)]
    <3> SUFFICES ASSUME pc[q] = "pay"
        PROVE  Payee(c)' = Payee(c) /\ userLock'[Payee(c)] = q /\ read[q] = points'[Payee(c)]
      OBVIOUS
    <3>1. Payee(c) \in Users /\ userLock[Payee(c)] = q /\ read[q] = points[Payee(c)]
      BY <1>t, <2>1, PayeeFacts DEF Paying
    <3>2. referredBy'[c[1]] = referredBy[c[1]]
      BY <2>1, ClaimFacts DEF Paying, TablesKept
    <3>3. c[1]' = c[1] /\ c[2]' = c[2]
      BY <1>m
    <3> QED BY <1>u, <3>1, <3>2, <3>3 DEF Payee, TablesKept
  <2>5. pc[q] \in {"payee", "pay"} => Claimable(c)'
    BY <1>m, <2>1, <2>3 DEF Paying, Claimable
  <2> QED BY <1>m, <1>j, <1>3, <2>1, <2>2, <2>3, <2>4, <2>5 DEF PlaceOK, Paying
<1>4. CASE pc[q] \in {"idle", "provider", "store"}
  BY <1>m, <1>j, <1>4 DEF PlaceOK
<1> QED BY <1>1, <1>2, <1>3, <1>4, <1>t DEF TypeOK, Places

(* The parts that are about the tables alone.                              *)
TablesOK == MilestonesRewarded /\ MembersOnly /\ EventsReferred /\ Capped

LEMMA BonusInvNext ==
  ASSUME BonusInv, NEW p \in Processes, TablesKept(p), MemoryKept(p),
         TypeOK', TablesOK', PlaceOK(p)'
  PROVE  BonusInv'
BY PlacesKept DEF BonusInv, RewardsInv, TablesOK

(* A step that writes no table.                                            *)
LEMMA QuietStep ==
  ASSUME BonusInv, NEW p \in Processes, UNCHANGED tables, MemoryKept(p), TypeOK', PlaceOK(p)'
  PROVE  BonusInv'
<1>1. TablesKept(p)
  BY DEF TablesKept, tables, Events
<1>2. TablesOK'
  BY DEF BonusInv, RewardsInv, TablesOK, MilestonesRewarded, MembersOnly, EventsReferred,
         Capped, EventsOf, Events, tables
<1> QED BY <1>1, <1>2, BonusInvNext

-----------------------------------------------------------------------------
(* The end of a transaction, and a step of it that only moves on.          *)
LEMMA EndFacts ==
  ASSUME TypeOK, NEW p \in Processes, End(p)
  PROVE  /\ MemoryKept(p)
         /\ pc'[p] = "idle" /\ job'[p] = NoJob /\ PlaceOK(p)'
         /\ userLock' \in [Users -> Processes \cup {NoProc}]
         /\ claimLock' \in [Claims -> Processes \cup {NoProc}]
         /\ pc' \in [Processes -> Places]
         /\ job' \in [Processes -> Job \cup {NoJob}]
         /\ count' \in [Processes -> Nat] /\ read' \in [Processes -> Nat]
<1>1. /\ userLock' = [u \in Users |-> IF userLock[u] = p THEN NoProc ELSE userLock[u]]
      /\ claimLock' = [c \in Claims |-> IF claimLock[c] = p THEN NoProc ELSE claimLock[c]]
      /\ count' = [count EXCEPT ![p] = 0] /\ read' = [read EXCEPT ![p] = 0]
      /\ pc' = [pc EXCEPT ![p] = "idle"] /\ job' = [job EXCEPT ![p] = NoJob]
  BY DEF End, Release, ClaimReleased
<1>2. MemoryKept(p)
  BY <1>1 DEF MemoryKept, LocksKept2, TypeOK
<1>3. pc'[p] = "idle" /\ job'[p] = NoJob
  BY <1>1 DEF TypeOK
<1>4. PlaceOK(p)'
  BY <1>3 DEF PlaceOK
<1>5. /\ userLock' \in [Users -> Processes \cup {NoProc}]
      /\ claimLock' \in [Claims -> Processes \cup {NoProc}]
  BY <1>1 DEF TypeOK
<1>6. /\ pc' \in [Processes -> Places] /\ job' \in [Processes -> Job \cup {NoJob}]
      /\ count' \in [Processes -> Nat] /\ read' \in [Processes -> Nat]
  BY <1>1 DEF TypeOK, Places
<1> QED BY <1>2, <1>3, <1>4, <1>5, <1>6

LEMMA RefuseStep ==
  ASSUME BonusInv, NEW p \in Processes, Refuse(p), fails' \in 0..MaxFails
  PROVE  BonusInv'
<1>1. TypeOK /\ End(p) /\ UNCHANGED tables
  BY DEF BonusInv, RewardsInv, Refuse
<1>2. TypeOK'
  BY <1>1, EndFacts DEF TypeOK, tables
<1> QED BY <1>1, <1>2, EndFacts, QuietStep

(* A transaction begins; Kyc's begin with a lock.                          *)
LEMMA BeginStep ==
  ASSUME BonusInv, NEW p \in Processes, NEW j \in Job, NEW place \in Places,
         pc' = [pc EXCEPT ![p] = place], job' = [job EXCEPT ![p] = j],
         UNCHANGED <<tables, claimLock, count, read, fails>>,
         userLock' \in [Users -> Processes \cup {NoProc}],
         \A u \in Users : userLock'[u] # userLock[u] =>
           userLock[u] = NoProc /\ userLock'[u] = p,
         \/ /\ place = "insert" /\ j.kind = "signed_up" /\ j.code \in {0, Code[j.user]}
         \/ /\ place = "wallets" /\ <<j.user, j.kind>> \in Goals
            /\ j.user \in registered /\ j.code = referredBy[j.user]
         \/ /\ place = "claim" /\ <<j.user, j.kind>> \in Claims
            /\ j.user \in registered /\ claim[<<j.user, j.kind>>] # "none"
         \/ place \in {"provider", "store"}
  PROVE  BonusInv'
<1>t. TypeOK
  BY DEF BonusInv, RewardsInv
<1>1. MemoryKept(p)
  BY <1>t DEF MemoryKept, LocksKept2, TypeOK
<1>2. pc'[p] = place /\ job'[p] = j
  BY <1>t DEF TypeOK
<1>3. TypeOK'
  BY <1>t DEF TypeOK, tables
<1>4. PlaceOK(p)'
  <2>1. Event(p)' = <<j.user, j.kind>> /\ registered' = registered /\ referredBy' = referredBy
        /\ claim' = claim
    BY <1>2 DEF Event, tables
  <2>2. CASE place = "insert" /\ j.kind = "signed_up" /\ j.code \in {0, Code[j.user]}
    <3>1. Joining(p)'
      BY <1>2, <2>2 DEF Joining
    <3> QED BY <1>2, <2>2, <3>1 DEF PlaceOK
  <2>3. CASE place = "wallets" /\ <<j.user, j.kind>> \in Goals
             /\ j.user \in registered /\ j.code = referredBy[j.user]
    <3>1. Reaching(p)'
      BY <1>2, <2>1, <2>3 DEF Reaching
    <3> QED BY <1>2, <2>3, <3>1 DEF PlaceOK
  <2>4. CASE place = "claim" /\ <<j.user, j.kind>> \in Claims
             /\ j.user \in registered /\ claim[<<j.user, j.kind>>] # "none"
    <3>1. Paying(p)'
      BY <1>2, <2>1, <2>4 DEF Paying
    <3> QED BY <1>2, <2>4, <3>1 DEF PlaceOK
  <2>5. CASE place \in {"provider", "store"}
    BY <1>2, <2>5 DEF PlaceOK
  <2> QED BY <2>2, <2>3, <2>4, <2>5
<1> QED BY <1>1, <1>3, <1>4, QuietStep DEF tables

LEMMA ArriveStep ==
  ASSUME BonusInv, NEW p \in Processes, Arrive(p)
  PROVE  BonusInv'
<1>t. TypeOK
  BY DEF BonusInv, RewardsInv
<1>f. fails' = fails
  BY DEF Arrive
<1>1. ASSUME NEW j \in Job, NEW place \in Places, Begin(p, j, place),
             \/ place = "insert" /\ j.kind = "signed_up" /\ j.code \in {0, Code[j.user]}
             \/ /\ place = "wallets" /\ <<j.user, j.kind>> \in Goals
                /\ j.user \in registered /\ j.code = referredBy[j.user]
      PROVE  BonusInv'
  <2>1. /\ pc' = [pc EXCEPT ![p] = place] /\ job' = [job EXCEPT ![p] = j]
        /\ UNCHANGED <<tables, claimLock, count, read, fails>> /\ userLock' = userLock
    BY <1>f, <1>1 DEF Begin, locks
  <2>2. userLock' \in [Users -> Processes \cup {NoProc}]
    BY <1>t, <2>1 DEF TypeOK
  <2> QED BY <1>1, <2>1, <2>2, BeginStep
<1>2. PICK u \in Users :
        RegisterUser(p, u) \/ GoogleLogin(p, u) \/ \E k \in Milestones : Milestone(p, u, k)
  BY DEF Arrive
<1>3. Code[u] \in Users \cup {0} /\ referredBy[u] \in Users \cup {0}
  BY <1>t, ConstantFacts DEF TypeOK
<1>p. "insert" \in Places /\ "wallets" \in Places
  BY DEF Places
<1>4. CASE RegisterUser(p, u)
  <2> DEFINE j == [user |-> u, kind |-> "signed_up", code |-> Code[u]]
  <2>1. j \in Job /\ j.kind = "signed_up" /\ j.code = Code[j.user]
    BY <1>3, ConstantFacts DEF Job
  <2>2. Begin(p, j, "insert")
    BY <1>4 DEF RegisterUser
  <2> QED BY <1>1, <1>p, <2>1, <2>2
<1>5. CASE GoogleLogin(p, u)
  <2> DEFINE j == [user |-> u, kind |-> "signed_up", code |-> 0]
  <2>1. j \in Job /\ j.kind = "signed_up" /\ j.code = 0
    BY <1>3, ConstantFacts DEF Job
  <2>2. Begin(p, j, "insert")
    BY <1>5 DEF GoogleLogin
  <2> QED BY <1>1, <1>p, <2>1, <2>2
<1>6. ASSUME NEW k \in Milestones, Milestone(p, u, k) PROVE BonusInv'
  <2> DEFINE j == [user |-> u, kind |-> k, code |-> referredBy[u]]
  <2>1. j \in Job /\ j.user = u /\ j.kind = k /\ j.code = referredBy[u]
    BY <1>3, ConstantFacts DEF Job
  <2>2. Begin(p, j, "wallets") /\ <<u, k>> \in Goals /\ u \in registered
    BY <1>6 DEF Milestone
  <2> HIDE DEF j
  <2> QED BY <1>1, <1>p, <2>1, <2>2
<1> QED BY <1>2, <1>4, <1>5, <1>6

LEMMA ScanStep ==
  ASSUME BonusInv, NEW p \in Processes, Scan(p)
  PROVE  BonusInv'
<1>t. TypeOK /\ MembersOnly
  BY DEF BonusInv, RewardsInv
<1>1. PICK c \in Claims : ScanPending(p, c)
  BY DEF Scan
<1> DEFINE j == [user |-> c[1], kind |-> c[2], code |-> referredBy[c[1]]]
<1>2. c[1] \in Users /\ c[2] \in Kinds /\ c = <<c[1], c[2]>>
  BY ClaimFacts
<1>3. referredBy[c[1]] \in Users \cup {0}
  BY <1>t, <1>2 DEF TypeOK
<1>4. j \in Job /\ <<j.user, j.kind>> = c /\ j.user = c[1]
  BY <1>2, <1>3 DEF Job
<1>5. Begin(p, j, "claim") /\ claim[c] # "none" /\ fails' = fails
  BY <1>1 DEF ScanPending, Scan
<1>6. c[1] \in registered
  BY <1>t, <1>5 DEF MembersOnly
<1> HIDE DEF j
<1>7. /\ pc' = [pc EXCEPT ![p] = "claim"] /\ job' = [job EXCEPT ![p] = j]
      /\ UNCHANGED <<tables, claimLock, count, read, fails>> /\ userLock' = userLock
  BY <1>5 DEF Begin, locks
<1>8. userLock' \in [Users -> Processes \cup {NoProc}] /\ "claim" \in Places
  BY <1>t, <1>7 DEF TypeOK, Places
<1>9. PICK place \in Places : place = "claim"
  BY <1>8
<1> QED BY <1>4, <1>5, <1>6, <1>7, <1>8, <1>9, BeginStep

-----------------------------------------------------------------------------
(* The steps of a registration.                                            *)
LEMMA JoiningFacts ==
  ASSUME BonusInv, NEW p \in Processes,
         pc[p] \in {"insert", "referrer", "count paid", "count pending", "join"}
  PROVE  /\ TypeOK /\ Joining(p) /\ job[p] \in Job
         /\ job[p].user \in Users /\ job[p].code \in Users \cup {0}
         /\ pc[p] = "referrer" => job[p].code \in Users
<1>1. TypeOK /\ Joining(p) /\ job[p] \in Job
  BY DEF BonusInv, RewardsInv, PlaceOK
<1>2. job[p].user \in Users /\ job[p].code \in Users \cup {0}
  BY <1>1, JobFacts
<1> QED BY <1>1, <1>2 DEF Joining

LEMMA InsertUserStep ==
  ASSUME BonusInv, NEW p \in Processes, InsertUser(p), UNCHANGED fails
  PROVE  BonusInv'
<1> DEFINE u == job[p].user
<1>t. TypeOK /\ Joining(p) /\ job[p] \in Job /\ u \in Users /\ job[p].code \in Users \cup {0}
  BY JoiningFacts DEF InsertUser
<1>1. CASE u \in registered
  BY <1>1, <1>t, RefuseStep DEF InsertUser, TypeOK
<1>2. CASE u \notin registered
  <2> DEFINE place == IF job[p].code = 0 THEN "join" ELSE "referrer"
  <2>1. /\ userLock[u] = NoProc /\ userLock' = [userLock EXCEPT ![u] = p]
        /\ pc' = [pc EXCEPT ![p] = place]
        /\ UNCHANGED <<tables, claimLock, memory>>
    BY <1>2 DEF InsertUser, LockFree, Goto
  <2>2. MemoryKept(p)
    BY <1>t, <2>1 DEF MemoryKept, LocksKept2, TypeOK, memory
  <2>3. TypeOK'
    BY <1>t, <2>1 DEF TypeOK, tables, memory, Places
  <2>4. pc'[p] = place /\ job' = job /\ userLock'[u] = p /\ registered' = registered
    BY <1>t, <2>1 DEF TypeOK, tables, memory
  <2>5. Joining(p)'
    BY <1>2, <1>t, <2>4 DEF Joining
  <2>6. PlaceOK(p)'
    BY <1>t, <2>4, <2>5 DEF PlaceOK
  <2> QED BY <2>1, <2>2, <2>3, <2>6, QuietStep
<1> QED BY <1>1, <1>2

LEMMA LockReferrerStep ==
  ASSUME BonusInv, NEW p \in Processes, LockReferrer(p), UNCHANGED fails
  PROVE  BonusInv'
<1> DEFINE r == job[p].code
<1>t. TypeOK /\ Joining(p) /\ job[p] \in Job /\ job[p].user \in Users /\ r \in Users
      /\ pc[p] = "referrer"
  BY JoiningFacts DEF LockReferrer
<1>1. CASE r \notin registered
  BY <1>1, <1>t, RefuseStep DEF LockReferrer, TypeOK
<1>2. CASE r \in registered
  <2>1. /\ userLock[r] = NoProc /\ userLock' = [userLock EXCEPT ![r] = p]
        /\ pc' = [pc EXCEPT ![p] = "count paid"]
        /\ UNCHANGED <<tables, claimLock, memory>>
    BY <1>2 DEF LockReferrer, LockFree, Goto
  <2>2. MemoryKept(p)
    BY <1>t, <2>1 DEF MemoryKept, LocksKept2, TypeOK, memory
  <2>3. TypeOK'
    BY <1>t, <2>1 DEF TypeOK, tables, memory, Places
  <2>4. /\ pc'[p] = "count paid" /\ job' = job /\ userLock'[r] = p /\ registered' = registered
        /\ userLock'[job[p].user] = p
    BY <1>t, <2>1 DEF TypeOK, tables, memory, Joining
  <2>5. Joining(p)'
    BY <1>t, <2>4 DEF Joining
  <2>6. PlaceOK(p)'
    BY <1>t, <2>4, <2>5 DEF PlaceOK
  <2> QED BY <2>1, <2>2, <2>3, <2>6, QuietStep
<1> QED BY <1>1, <1>2

LEMMA EventsAreClaims ==
  ASSUME NEW r, NEW S
  PROVE  Events(r, S) \subseteq Claims
BY DEF Events

LEMMA CountPaidStep ==
  ASSUME BonusInv, NEW p \in Processes, CountPaid(p), UNCHANGED fails
  PROVE  BonusInv'
<1> DEFINE n == Cardinality(Events(job[p].code, {"paid"}))
<1>t. TypeOK /\ Joining(p) /\ job[p] \in Job /\ job[p].user \in Users /\ pc[p] = "count paid"
  BY JoiningFacts DEF CountPaid
<1>n. n \in Nat
  BY EventsAreClaims, EventCounts
<1>1. /\ count' = [count EXCEPT ![p] = n] /\ pc' = [pc EXCEPT ![p] = "count pending"]
      /\ UNCHANGED <<tables, locks, job, read>>
  BY DEF CountPaid, Goto
<1>2. MemoryKept(p)
  BY <1>t, <1>1 DEF MemoryKept, LocksKept2, TypeOK, locks
<1>3. TypeOK'
  BY <1>t, <1>n, <1>1 DEF TypeOK, tables, locks, Places
<1>4. /\ pc'[p] = "count pending" /\ job' = job /\ userLock' = userLock /\ registered' = registered
      /\ count'[p] = n
  BY <1>t, <1>1 DEF TypeOK, tables, locks
<1>5. Cardinality(Events(job[p].code, {"paid"}))' = n
  BY <1>1 DEF Events, tables
<1>6. Joining(p)'
  BY <1>t, <1>4, <1>5 DEF Joining
<1>7. PlaceOK(p)'
  BY <1>t, <1>4, <1>6 DEF PlaceOK
<1> QED BY <1>1, <1>2, <1>3, <1>7, QuietStep

LEMMA EventsSplit ==
  ASSUME NEW r
  PROVE  EventsOf(r) = Cardinality(Events(r, {"paid"})) + Cardinality(Events(r, {"pending"}))
<1>1. PICK A, B : A = Events(r, {"paid"}) /\ B = Events(r, {"pending"})
  OBVIOUS
<1>2. A \subseteq Claims /\ B \subseteq Claims /\ A \cap B = {}
  BY <1>1 DEF Events
<1>3. Events(r, {"pending", "paid"}) = A \cup B
  BY <1>1 DEF Events
<1> QED BY <1>1, <1>2, <1>3, EventCounts DEF EventsOf

LEMMA CountPendingStep ==
  ASSUME BonusInv, NEW p \in Processes, CountPending(p), UNCHANGED fails
  PROVE  BonusInv'
<1> DEFINE r == job[p].code
           n == Cardinality(Events(r, {"pending"}))
<1>t. TypeOK /\ Joining(p) /\ job[p] \in Job /\ job[p].user \in Users /\ pc[p] = "count pending"
  BY JoiningFacts DEF CountPending
<1>n. n \in Nat /\ count[p] \in Nat
  BY <1>t, EventsAreClaims, EventCounts DEF TypeOK
<1>1. /\ count' = [count EXCEPT ![p] = count[p] + n] /\ pc' = [pc EXCEPT ![p] = "join"]
      /\ UNCHANGED <<tables, locks, job, read>>
  BY DEF CountPending, Goto
<1>2. MemoryKept(p)
  BY <1>t, <1>1 DEF MemoryKept, LocksKept2, TypeOK, locks
<1>3. TypeOK'
  <2>0. PICK total \in Nat : total = count[p] + n
    BY <1>n
  <2>1. count' \in [Processes -> Nat]
    <3> HIDE DEF n
    <3> QED BY <1>t, <1>1, <2>0 DEF TypeOK
  <2> QED BY <1>t, <1>1, <2>1 DEF TypeOK, tables, locks, Places
<1>4. /\ pc'[p] = "join" /\ job' = job /\ userLock' = userLock /\ registered' = registered
      /\ count'[p] = count[p] + n
  BY <1>t, <1>1 DEF TypeOK, tables, locks
<1>5. EventsOf(r) = count[p] + n
  BY <1>t, EventsSplit DEF Joining
<1>6. EventsOf(job[p].code)' = EventsOf(r)
  BY <1>1 DEF EventsOf, Events, tables
<1>7. Joining(p)'
  BY <1>t, <1>4, <1>5, <1>6 DEF Joining
<1>8. PlaceOK(p)'
  BY <1>t, <1>4, <1>7 DEF PlaceOK
<1> QED BY <1>1, <1>2, <1>3, <1>8, QuietStep

(* CommitRegister writes four tables, for a user who had nothing.          *)
Granted(p) ==
  IF job[p].code # 0 /\ count[p] < MaxReferralRewards
    THEN {<<job[p].user, "signed_up">>, <<job[p].user, "welcome">>} ELSE {}

LEMMA RegisterFacts ==
  ASSUME BonusInv, NEW p \in Processes, CommitRegister(p)
  PROVE  LET u == job[p].user
             r == job[p].code
         IN /\ TypeOK /\ u \in Newcomers /\ u \in Users /\ r \in {0, Code[u]} /\ r \in Users \cup {0}
            /\ u # r /\ userLock[u] = p /\ u \notin registered
            /\ r # 0 => userLock[r] = p /\ count[p] = EventsOf(r)
            /\ \A c \in Claims : c[1] = u => claim[c] = "none"
            /\ registered' = registered \cup {u}
            /\ \A v \in Users : referredBy'[v] = IF v = u THEN r ELSE referredBy[v]
            /\ \A c \in Claims : claim'[c] = IF c = <<u, "joined">> THEN "paid"
                                             ELSE IF c \in Granted(p) THEN "pending" ELSE claim[c]
            /\ \A v \in Users : points'[v] = IF v = u THEN points[u] + Earnings["joined"]
                                                      ELSE points[v]
            /\ reached' = reached \cup {<<u, "signed_up">>}
            /\ referredBy' \in [Users -> Users \cup {0}]
            /\ claim' \in [Claims -> ClaimStates]
            /\ points' \in [Users -> Nat]
            /\ End(p)
<1> DEFINE u == job[p].user
           r == job[p].code
<1>1. TypeOK /\ Joining(p) /\ job[p] \in Job /\ u \in Users /\ r \in Users \cup {0}
      /\ pc[p] = "join" /\ MembersOnly
  BY JoiningFacts DEF CommitRegister, BonusInv
<1>2. u \notin registered /\ userLock[u] = p /\ r \in {0, Code[u]}
      /\ (r # 0 => userLock[r] = p /\ count[p] = EventsOf(r))
  BY <1>1 DEF Joining
<1>3. u \in Newcomers /\ u # r
  BY <1>1, <1>2, ConstantFacts DEF MembersOnly
<1>4. \A c \in Claims : c[1] = u => claim[c] = "none"
  BY <1>1, <1>2 DEF MembersOnly
<1>5. /\ registered' = registered \cup {u}
      /\ referredBy' = [referredBy EXCEPT ![u] = r]
      /\ claim' = [c \in Claims |-> IF c = <<u, "joined">> THEN "paid"
                                    ELSE IF c \in Granted(p) THEN "pending" ELSE claim[c]]
      /\ points' = [points EXCEPT ![u] = points[u] + Earnings["joined"]]
      /\ reached' = reached \cup {<<u, "signed_up">>}
      /\ End(p)
  BY DEF CommitRegister, Granted
<1>6. points[u] + Earnings["joined"] \in Nat
  <2>1. "joined" \in Kinds
    BY ConstantFacts
  <2>2. Earnings["joined"] \in Nat
    BY <2>1, ConstantFacts
  <2>3. points[u] \in Nat
    BY <1>1 DEF TypeOK
  <2> QED BY <2>2, <2>3
<1>7. /\ \A v \in Users : referredBy'[v] = IF v = u THEN r ELSE referredBy[v]
      /\ \A v \in Users : points'[v] = IF v = u THEN points[u] + Earnings["joined"] ELSE points[v]
      /\ referredBy' \in [Users -> Users \cup {0}] /\ points' \in [Users -> Nat]
  BY <1>1, <1>5, <1>6 DEF TypeOK
<1>8. claim' \in [Claims -> ClaimStates]
      /\ \A c \in Claims : claim'[c] = IF c = <<u, "joined">> THEN "paid"
                                       ELSE IF c \in Granted(p) THEN "pending" ELSE claim[c]
  BY <1>1, <1>5 DEF TypeOK, ClaimStates
<1> QED BY <1>1, <1>2, <1>3, <1>4, <1>5, <1>7, <1>8

(* With a new user come at most one event, the referrer's, and nothing for *)
(* anybody else.                                                           *)
LEMMA RegisterEvents ==
  ASSUME BonusInv, NEW p \in Processes, CommitRegister(p), NEW v \in Users
  PROVE  LET u == job[p].user
         IN /\ v # job[p].code => \A S \in SUBSET {"pending", "paid"} : Events(v, S)' = Events(v, S)
            /\ v = job[p].code =>
                 Events(v, {"pending", "paid"})' =
                   Events(v, {"pending", "paid"})
                     \cup (IF Granted(p) = {} THEN {} ELSE {<<u, "signed_up">>})
<1> DEFINE u == job[p].user
           r == job[p].code
<1>1. /\ TypeOK /\ u \in Newcomers /\ u \in Users /\ r \in Users \cup {0}
      /\ \A c \in Claims : c[1] = u => claim[c] = "none"
      /\ \A w \in Users : referredBy'[w] = IF w = u THEN r ELSE referredBy[w]
      /\ \A c \in Claims : claim'[c] = IF c = <<u, "joined">> THEN "paid"
                                       ELSE IF c \in Granted(p) THEN "pending" ELSE claim[c]
  BY RegisterFacts
<1>2. 0 \notin Users
  BY ConstantFacts
<1>3. \A c \in Claims : c[1] \in Users /\ c = <<c[1], c[2]>>
  BY ClaimFacts
<1>4. \A c \in Claims : c[1] # u =>
        referredBy'[c[1]] = referredBy[c[1]] /\ claim'[c] = claim[c]
  BY <1>1, <1>3 DEF Granted
<1>5. \A c \in Claims : c[1] = u /\ c[2] \in Milestones =>
        /\ referredBy'[c[1]] = r
        /\ claim'[c] = IF Granted(p) # {} /\ c = <<u, "signed_up">> THEN "pending" ELSE "none"
  <2> SUFFICES ASSUME NEW c \in Claims, c[1] = u, c[2] \in Milestones
      PROVE  /\ referredBy'[c[1]] = r
             /\ claim'[c] = IF Granted(p) # {} /\ c = <<u, "signed_up">> THEN "pending" ELSE "none"
    OBVIOUS
  <2>1. c = <<u, c[2]>> /\ c[2] # "joined" /\ c[2] # "welcome" /\ claim[c] = "none"
    BY <1>1, <1>3, ConstantFacts
  <2>2. c # <<u, "joined">> /\ c # <<u, "welcome">>
    BY <2>1
  <2>3. c \in Granted(p) <=> Granted(p) # {} /\ c = <<u, "signed_up">>
    BY <2>2 DEF Granted
  <2> QED BY <1>1, <2>1, <2>2, <2>3
<1>6. ASSUME v # r, NEW S \in SUBSET {"pending", "paid"} PROVE Events(v, S)' = Events(v, S)
  <2>1. ASSUME NEW c \in Claims, c[2] \in Milestones
        PROVE  referredBy'[c[1]] = v /\ claim'[c] \in S <=> referredBy[c[1]] = v /\ claim[c] \in S
    <3>1. CASE c[1] # u
      BY <1>4, <3>1
    <3>2. CASE c[1] = u
      <4>1. referredBy'[c[1]] # v
        BY <1>5, <1>6, <2>1, <3>2
      <4>2. claim[c] \notin S
        BY <1>1, <1>6, <3>2
      <4> QED BY <4>1, <4>2
    <3> QED BY <3>1, <3>2
  <2> QED BY <2>1 DEF Events
<1>7. ASSUME v = r
      PROVE  Events(v, {"pending", "paid"})' =
               Events(v, {"pending", "paid"})
                 \cup (IF Granted(p) = {} THEN {} ELSE {<<u, "signed_up">>})
  <2>1. <<u, "signed_up">> \in Claims /\ "signed_up" \in Milestones
    BY <1>1, ClaimFacts, ConstantFacts
  <2>2. ASSUME NEW c \in Claims, c[2] \in Milestones
        PROVE  (referredBy'[c[1]] = v /\ claim'[c] \in {"pending", "paid"}) <=>
                 \/ referredBy[c[1]] = v /\ claim[c] \in {"pending", "paid"}
                 \/ Granted(p) # {} /\ c = <<u, "signed_up">>
    <3>1. CASE c[1] # u
      <4>1. c # <<u, "signed_up">>
        BY <3>1
      <4> QED BY <1>4, <3>1, <4>1
    <3>2. CASE c[1] = u
      <4>1. claim[c] = "none" /\ referredBy'[c[1]] = v
        BY <1>1, <1>5, <1>7, <2>2, <3>2
      <4> QED BY <1>5, <2>2, <3>2, <4>1
    <3> QED BY <3>1, <3>2
  <2> QED BY <2>1, <2>2 DEF Events
<1> QED BY <1>6, <1>7

LEMMA CommitRegisterStep ==
  ASSUME BonusInv, NEW p \in Processes, CommitRegister(p), UNCHANGED fails
  PROVE  BonusInv'
<1> DEFINE u == job[p].user
           r == job[p].code
<1>1. /\ TypeOK /\ u \in Newcomers /\ u \in Users /\ r \in {0, Code[u]} /\ r \in Users \cup {0}
      /\ u # r /\ userLock[u] = p /\ u \notin registered
      /\ r # 0 => userLock[r] = p /\ count[p] = EventsOf(r)
      /\ \A c \in Claims : c[1] = u => claim[c] = "none"
      /\ registered' = registered \cup {u}
      /\ \A v \in Users : referredBy'[v] = IF v = u THEN r ELSE referredBy[v]
      /\ \A c \in Claims : claim'[c] = IF c = <<u, "joined">> THEN "paid"
                                       ELSE IF c \in Granted(p) THEN "pending" ELSE claim[c]
      /\ \A v \in Users : points'[v] = IF v = u THEN points[u] + Earnings["joined"] ELSE points[v]
      /\ reached' = reached \cup {<<u, "signed_up">>}
      /\ referredBy' \in [Users -> Users \cup {0}]
      /\ claim' \in [Claims -> ClaimStates] /\ points' \in [Users -> Nat]
      /\ End(p)
  BY RegisterFacts
<1>2. \A c \in Claims : c[1] \in Users /\ c = <<c[1], c[2]>>
  BY ClaimFacts
<1>3. {<<u, "joined">>, <<u, "signed_up">>, <<u, "welcome">>} \subseteq Claims
  BY <1>1, ClaimFacts
<1>b. MembersOnly /\ EventsReferred /\ Capped /\ MilestonesRewarded
  BY DEF BonusInv, RewardsInv
<1>4. \A c \in Claims : claim'[c] # claim[c] => c[1] = u
  BY <1>1 DEF Granted
<1>e. \A v \in Users :
        /\ v # r => EventsOf(v)' = EventsOf(v)
        /\ EventsOf(v) \in Nat
        /\ EventsOf(v)' \in Nat /\ EventsOf(v)' >= EventsOf(v)
        /\ EventsOf(v)' <= MaxReferralRewards
        /\ v = r /\ Granted(p) = {} => EventsOf(v) = MaxReferralRewards
  <2> SUFFICES ASSUME NEW v \in Users
      PROVE  /\ v # r => EventsOf(v)' = EventsOf(v)
             /\ EventsOf(v) \in Nat
             /\ EventsOf(v)' \in Nat /\ EventsOf(v)' >= EventsOf(v)
             /\ EventsOf(v)' <= MaxReferralRewards
             /\ v = r /\ Granted(p) = {} => EventsOf(v) = MaxReferralRewards
    OBVIOUS
  <2>1. PICK A, B : A = Events(v, {"pending", "paid"}) /\ B = Events(v, {"pending", "paid"})'
    OBVIOUS
  <2>2. A \subseteq Claims /\ B \subseteq Claims
    BY <2>1 DEF Events
  <2>3. EventsOf(v) = Cardinality(A) /\ EventsOf(v)' = Cardinality(B)
    BY <2>1 DEF EventsOf
  <2>4. Cardinality(A) \in Nat /\ Cardinality(B) \in Nat /\ Cardinality(A) <= MaxReferralRewards
    BY <1>b, <2>2, <2>3, EventCounts DEF Capped
  <2>5. CASE v # r
    <3>1. A = B
      BY <2>1, <2>5, RegisterEvents
    <3> QED BY <2>3, <2>4, <2>5, <3>1
  <2>6. CASE v = r
    <3>0. r # 0 /\ count[p] = Cardinality(A)
      BY <1>1, <2>3, <2>6, ConstantFacts
    <3>1. B = A \cup (IF Granted(p) = {} THEN {} ELSE {<<u, "signed_up">>})
      BY <2>1, <2>6, RegisterEvents
    <3>2. CASE Granted(p) = {}
      <4>1. ~(count[p] < MaxReferralRewards)
        BY <3>0, <3>2 DEF Granted
      <4>2. A = B
        BY <3>1, <3>2
      <4> QED BY <2>3, <2>4, <2>6, <3>0, <4>1, <4>2, ConstantFacts
    <3>3. CASE Granted(p) # {}
      <4>1. count[p] < MaxReferralRewards
        BY <3>3 DEF Granted
      <4>2. B = A \cup {<<u, "signed_up">>} /\ <<u, "signed_up">> \notin A
        <5>1. claim[<<u, "signed_up">>] = "none"
          BY <1>1, <1>3
        <5> QED BY <2>1, <3>1, <3>3, <5>1 DEF Events
      <4>3. Cardinality(B) = Cardinality(A) + 1
        BY <2>2, <4>2, EventCounts
      <4> QED BY <2>3, <2>4, <2>6, <3>0, <3>3, <4>1, <4>3, ConstantFacts
    <3> QED BY <3>2, <3>3
  <2> QED BY <2>5, <2>6
<1>5. TablesKept(p)
  <2>1. \A v \in Users : userLock[v] # p => v # u /\ v # r
    BY <1>1, ConstantFacts
  <2>2. \A v \in Users : v # r => Events(v, {"paid"})' = Events(v, {"paid"})
    BY RegisterEvents
  <2>3. \A v \in Users : v # r => Events(v, {"pending", "paid"})' = Events(v, {"pending", "paid"})
    BY RegisterEvents
  <2>4. \A v \in Users : v # u => points'[v] = points[v]
    BY <1>1
  <2>5. \A c \in Claims : claim'[c] # claim[c] => c[1] \notin registered /\ claim[c] = "none"
    BY <1>1, <1>4
  <2> QED BY <1>1, <2>1, <2>2, <2>3, <2>4, <2>5 DEF TablesKept
<1>6. TypeOK'
  <2>1. registered' \subseteq Users /\ reached' \subseteq Claims /\ fails' \in 0..MaxFails
    BY <1>1, <1>3 DEF TypeOK
  <2> QED BY <1>1, <2>1, EndFacts DEF TypeOK
<1>7. MembersOnly'
  <2>1. \A v \in Users \ registered' : referredBy'[v] = 0
    BY <1>1, <1>b DEF MembersOnly
  <2>2. \A c \in Claims : claim'[c] # "none" => c[1] \in registered'
    BY <1>1, <1>4, <1>b DEF MembersOnly
  <2>3. \A c \in reached' : c[1] \in registered'
    BY <1>1, <1>b DEF MembersOnly
  <2>4. Users \ Newcomers \subseteq registered'
    BY <1>1, <1>b DEF MembersOnly
  <2> QED BY <2>1, <2>2, <2>3, <2>4 DEF MembersOnly
<1>8. EventsReferred'
  <2>1. \A v \in Users : referredBy'[v] \in {0, Code[v]}
    BY <1>1, <1>b DEF EventsReferred
  <2>2. ASSUME NEW c \in Claims, c[2] \in Milestones, claim'[c] # "none" PROVE referredBy'[c[1]] # 0
    <3>1. CASE c[1] # u
      BY <1>1, <1>2, <1>4, <1>b, <2>2, <3>1 DEF EventsReferred
    <3>2. CASE c[1] = u
      <4>1. c # <<u, "joined">>
        BY <2>2, ConstantFacts
      <4>2. c \in Granted(p)
        BY <1>1, <2>2, <3>2, <4>1
      <4>3. r # 0
        BY <4>2 DEF Granted
      <4> QED BY <1>1, <3>2, <4>3
    <3> QED BY <3>1, <3>2
  <2> QED BY <2>1, <2>2 DEF EventsReferred
<1>9. Capped'
  BY <1>e DEF Capped
<1>10. MilestonesRewarded'
  <2> SUFFICES ASSUME NEW c \in reached', referredBy'[c[1]] # 0, claim'[c] = "none"
      PROVE  EventsOf(referredBy[c[1]])' = MaxReferralRewards
    BY DEF MilestonesRewarded, EventsOf
  <2>1. c \in Claims /\ c[1] \in Users /\ referredBy'[c[1]] \in Users
    BY <1>1, <1>2, <1>6 DEF TypeOK
  <2>2. CASE c[1] # u
    <3>1. c \in reached /\ referredBy'[c[1]] = referredBy[c[1]] /\ claim[c] = "none"
      BY <1>1, <1>4, <2>1, <2>2
    <3>2. EventsOf(referredBy[c[1]]) = MaxReferralRewards
      BY <1>b, <3>1 DEF MilestonesRewarded, EventsOf
    <3>3. EventsOf(referredBy[c[1]])' = MaxReferralRewards
      <4>1. PICK v \in Users : v = referredBy[c[1]] /\ v = referredBy'[c[1]]
        BY <2>1, <3>1
      <4>2. EventsOf(v)' = MaxReferralRewards
        BY <1>e, <3>2, <4>1, ConstantFacts
      <4> QED BY <4>1, <4>2 DEF EventsOf, Events
    <3> QED BY <3>3
  <2>3. CASE c[1] = u
    <3>1. referredBy'[c[1]] = r
      BY <1>1, <2>3
    <3>2. c = <<u, "signed_up">>
      BY <1>1, <1>b, <2>3 DEF MembersOnly
    <3>3. Granted(p) = {}
      BY <1>1, <2>1, <3>2 DEF Granted
    <3>4. PICK v \in Users : v = r
      BY <2>1, <3>1
    <3>5. EventsOf(v)' = MaxReferralRewards
      BY <1>e, <3>3, <3>4, ConstantFacts
    <3> QED BY <3>1, <3>4, <3>5 DEF EventsOf, Events
  <2> QED BY <2>2, <2>3
<1>11. MemoryKept(p) /\ PlaceOK(p)'
  BY <1>1, EndFacts
<1> QED BY <1>5, <1>6, <1>7, <1>8, <1>9, <1>10, <1>11, BonusInvNext DEF TablesOK

-----------------------------------------------------------------------------
(* The steps of a milestone.                                               *)
LEMMA ReachingFacts ==
  ASSUME BonusInv, NEW p \in Processes, pc[p] \in {"wallets", "reach"}
  PROVE  /\ TypeOK /\ Reaching(p) /\ job[p] \in Job
         /\ job[p].user \in Users /\ job[p].code \in Users \cup {0}
         /\ Event(p) = <<job[p].user, job[p].kind>> /\ Event(p) \in Claims
         /\ job[p].kind \in Milestones
<1>1. TypeOK /\ Reaching(p) /\ job[p] \in Job
  BY DEF BonusInv, RewardsInv, PlaceOK
<1>2. job[p].user \in Users /\ job[p].code \in Users \cup {0}
  BY <1>1, JobFacts
<1>3. Event(p) = <<job[p].user, job[p].kind>> /\ Event(p) \in Goals
  BY <1>1 DEF Reaching, Event
<1>4. Event(p) \in Claims /\ job[p].kind \in Milestones
  <2>1. PICK g \in Goals : g = Event(p)
    BY <1>3
  <2>2. g \in Claims /\ g[2] \in Milestones
    BY ClaimFacts
  <2>3. g[2] = job[p].kind
    BY <1>3, <2>1
  <2> QED BY <2>1, <2>2, <2>3
<1> QED BY <1>1, <1>2, <1>3, <1>4

LEMMA LockWalletStep ==
  ASSUME BonusInv, NEW p \in Processes, LockWallet(p), UNCHANGED fails
  PROVE  BonusInv'
<1> DEFINE u == job[p].user
           r == job[p].code
           n == Cardinality(Events(r, {"pending", "paid"}))
<1>t. /\ TypeOK /\ Reaching(p) /\ job[p] \in Job /\ u \in Users /\ r \in Users \cup {0}
      /\ pc[p] = "wallets"
  BY ReachingFacts DEF LockWallet
<1>n. n \in Nat
  BY EventsAreClaims, EventCounts
<1>r. referredBy[u] = r /\ u \in registered /\ Event(p) \in Goals
  BY <1>t DEF Reaching
<1>1. PICK w \in Wallets(u) :
        /\ IsNext(p, w)
        /\ LockFree(userLock[w])
        /\ userLock' = [userLock EXCEPT ![w] = p]
        /\ IF Missing(p) = {w}
             THEN count' = [count EXCEPT ![p] = n] /\ Goto(p, "reach")
             ELSE UNCHANGED <<pc, count>>
  BY DEF LockWallet
<1>2. UNCHANGED <<tables, claimLock, job, read>>
  BY DEF LockWallet
<1>3. w \in Users
  BY <1>t, <1>r, <1>1 DEF Wallets
<1>4. userLock[w] = NoProc /\ userLock' \in [Users -> Processes \cup {NoProc}]
  BY <1>t, <1>1, <1>3 DEF LockFree, TypeOK
<1>5. \A v \in Users : userLock'[v] = IF v = w THEN p ELSE userLock[v]
  BY <1>t, <1>1, <1>3 DEF TypeOK
<1>6. Event(p)' = Event(p) /\ registered' = registered /\ referredBy' = referredBy /\ job' = job
      /\ EventsOf(r)' = n
  BY <1>2 DEF Event, tables, EventsOf, Events
<1>7. CASE Missing(p) = {w}
  <2>1. count' = [count EXCEPT ![p] = n] /\ pc' = [pc EXCEPT ![p] = "reach"]
    BY <1>1, <1>7 DEF Goto
  <2>2. MemoryKept(p)
    BY <1>t, <1>2, <1>3, <1>4, <1>5, <2>1 DEF MemoryKept, LocksKept2, TypeOK
  <2>3. TypeOK'
    BY <1>t, <1>n, <1>2, <1>4, <2>1 DEF TypeOK, tables, Places
  <2>4. \A x \in Wallets(u) : userLock'[x] = p
    <3> SUFFICES ASSUME NEW x \in Wallets(u) PROVE userLock'[x] = p
      OBVIOUS
    <3>1. x \in Users
      BY <1>t, <1>r DEF Wallets
    <3>2. x # w => userLock[x] = p
      BY <1>7 DEF Missing
    <3> QED BY <1>5, <3>1, <3>2
  <2>5. userLock'[u] = p /\ (r # 0 => userLock'[r] = p)
    BY <1>r, <2>4 DEF Wallets
  <2>6. pc'[p] = "reach" /\ count'[p] = n
    BY <1>t, <2>1 DEF TypeOK
  <2>7. Reaching(p)'
    BY <1>t, <1>r, <1>6, <2>5, <2>6 DEF Reaching
  <2>8. PlaceOK(p)'
    BY <1>t, <1>6, <2>6, <2>7 DEF PlaceOK
  <2> QED BY <1>2, <2>2, <2>3, <2>8, QuietStep
<1>8. CASE Missing(p) # {w}
  <2>1. UNCHANGED <<pc, count>>
    BY <1>1, <1>8
  <2>2. MemoryKept(p)
    BY <1>t, <1>2, <1>3, <1>4, <1>5, <2>1 DEF MemoryKept, LocksKept2, TypeOK
  <2>3. TypeOK'
    BY <1>t, <1>2, <1>4, <2>1 DEF TypeOK, tables
  <2>4. PlaceOK(p)'
    BY <1>t, <1>r, <1>6, <2>1 DEF PlaceOK, Reaching
  <2> QED BY <1>2, <2>2, <2>3, <2>4, QuietStep
<1> QED BY <1>7, <1>8

(* Recording a milestone changes one claim, from none to pending, and the  *)
(* referrer's events by that one.                                          *)
LEMMA CreateEventTables ==
  ASSUME BonusInv, NEW p \in Processes, pc[p] = "reach", CreateEvent(p),
         UNCHANGED <<registered, referredBy, points>>
  PROVE  /\ TablesKept(p) /\ TablesOK'
         /\ claim' \in [Claims -> ClaimStates] /\ reached' \subseteq Claims
         /\ \A c \in Claims : claim'[c] = IF c = Event(p) /\ Recorded(p) THEN "pending" ELSE claim[c]
         /\ \A c \in Claims : claim'[c] # claim[c] => claim[c] = "none"
<1> DEFINE u == job[p].user
           r == job[p].code
           e == Event(p)
<1>t. /\ TypeOK /\ Reaching(p) /\ u \in Users /\ r \in Users \cup {0}
      /\ e = <<u, job[p].kind>> /\ e \in Claims /\ job[p].kind \in Milestones
  BY ReachingFacts
<1>r. /\ referredBy[u] = r /\ u \in registered
      /\ userLock[u] = p /\ (r # 0 => userLock[r] = p /\ count[p] = EventsOf(r))
  BY <1>t DEF Reaching
<1>b. MembersOnly /\ EventsReferred /\ Capped /\ MilestonesRewarded
  BY DEF BonusInv, RewardsInv
<1>e. e[1] = u /\ e[2] \in Milestones
  BY <1>t
<1> HIDE DEF e
<1>1. /\ claim' \in [Claims -> ClaimStates]
      /\ \A c \in Claims : claim'[c] = IF c = e /\ Recorded(p) THEN "pending" ELSE claim[c]
  <2>1. claim' = IF Recorded(p) THEN [claim EXCEPT ![e] = "pending"] ELSE claim
    BY DEF CreateEvent, e
  <2>2. CASE Recorded(p)
    BY <1>t, <2>1, <2>2 DEF TypeOK, ClaimStates
  <2>3. CASE ~Recorded(p)
    BY <1>t, <2>1, <2>3 DEF TypeOK, ClaimStates
  <2> QED BY <2>2, <2>3
<1>2. Recorded(p) => r # 0 /\ claim[e] = "none" /\ count[p] < MaxReferralRewards
  BY DEF Recorded, e
<1>3. reached' = reached \cup {e} /\ reached' \subseteq Claims
  BY <1>t DEF CreateEvent, TypeOK, e
<1>4. \A c \in Claims : claim'[c] # claim[c] => c = e /\ claim[c] = "none"
  BY <1>1, <1>2
<1>5. ASSUME NEW v \in Users
      PROVE  /\ Events(v, {"paid"})' = Events(v, {"paid"})
             /\ ~(Recorded(p) /\ v = r) =>
                  Events(v, {"pending", "paid"})' = Events(v, {"pending", "paid"})
             /\ Recorded(p) /\ v = r =>
                  Events(v, {"pending", "paid"})' = Events(v, {"pending", "paid"}) \cup {e}
  <2>1. ASSUME NEW S, S \subseteq {"pending", "paid"}, ~(Recorded(p) /\ v = r) \/ "pending" \notin S
        PROVE  Events(v, S)' = Events(v, S)
    <3>1. ASSUME NEW c \in Claims, c[2] \in Milestones, referredBy[c[1]] = v
          PROVE  claim'[c] \in S <=> claim[c] \in S
      <4>1. CASE c = e /\ Recorded(p)
        <5>1. v = r
          BY <1>e, <1>r, <3>1, <4>1
        <5>2. "pending" \notin S
          BY <2>1, <4>1, <5>1
        <5>3. claim'[c] = "pending" /\ claim[c] = "none"
          BY <1>1, <1>2, <3>1, <4>1
        <5> QED BY <2>1, <5>2, <5>3
      <4>2. CASE ~(c = e /\ Recorded(p))
        BY <1>1, <3>1, <4>2
      <4> QED BY <4>1, <4>2
    <3> QED BY <3>1 DEF Events
  <2>2. ASSUME Recorded(p), v = r
        PROVE  Events(v, {"pending", "paid"})' = Events(v, {"pending", "paid"}) \cup {e}
    <3>1. ASSUME NEW c \in Claims
          PROVE  claim'[c] \in {"pending", "paid"} <=> claim[c] \in {"pending", "paid"} \/ c = e
      BY <1>1, <2>2, <3>1
    <3>2. referredBy[e[1]] = v /\ e \in Claims /\ e[2] \in Milestones
      BY <1>e, <1>r, <1>t, <2>2
    <3> QED BY <3>1, <3>2 DEF Events
  <2>3. "pending" \notin {"paid"} /\ {"paid"} \subseteq {"pending", "paid"}
    OBVIOUS
  <2> QED BY <2>1, <2>2, <2>3
<1>6. ASSUME NEW v \in Users
      PROVE  /\ EventsOf(v) \in Nat /\ EventsOf(v)' \in Nat
             /\ EventsOf(v) <= EventsOf(v)' /\ EventsOf(v)' <= MaxReferralRewards
  <2>1. PICK A, B : A = Events(v, {"pending", "paid"}) /\ B = Events(v, {"pending", "paid"})'
    OBVIOUS
  <2>2. A \subseteq Claims /\ B \subseteq Claims
    BY <2>1 DEF Events
  <2>3. EventsOf(v) = Cardinality(A) /\ EventsOf(v)' = Cardinality(B)
    BY <2>1 DEF EventsOf
  <2>4. Cardinality(A) \in Nat /\ Cardinality(B) \in Nat /\ Cardinality(A) <= MaxReferralRewards
    BY <1>b, <2>2, <2>3, EventCounts DEF Capped
  <2>5. CASE Recorded(p) /\ v = r
    <3>1. B = A \cup {e}
      BY <1>5, <2>1, <2>5
    <3>2. e \notin A
      BY <1>2, <2>1, <2>5 DEF Events
    <3>3. Cardinality(B) = Cardinality(A) + 1
      BY <2>2, <3>1, <3>2, EventCounts
    <3>4. Cardinality(A) < MaxReferralRewards
      BY <1>2, <1>r, <2>3, <2>5
    <3> QED BY <2>3, <2>4, <3>3, <3>4, ConstantFacts
  <2>6. CASE ~(Recorded(p) /\ v = r)
    <3>1. A = B
      BY <1>5, <2>1, <2>6
    <3> QED BY <2>3, <2>4, <3>1
  <2> QED BY <2>5, <2>6
<1>7. TablesKept(p)
  <2>1. \A v \in Users : userLock[v] # p =>
          /\ Events(v, {"paid"})' = Events(v, {"paid"})
          /\ Events(v, {"pending", "paid"})' = Events(v, {"pending", "paid"})
          /\ points'[v] = points[v]
    BY <1>2, <1>5, <1>r
  <2>2. \A c \in Claims : claim'[c] # claim[c] => claim[c] = "none" /\ c[2] \in Milestones
    BY <1>4, <1>e
  <2> QED BY <2>1, <2>2 DEF TablesKept
<1>8. TablesOK'
  <2>1. MembersOnly'
    BY <1>3, <1>4, <1>b, <1>e, <1>r DEF MembersOnly
  <2>2. EventsReferred'
    <3>1. ASSUME NEW c \in Claims, c[2] \in Milestones, claim'[c] # "none" PROVE referredBy[c[1]] # 0
      <4>1. CASE claim[c] # "none"
        BY <1>b, <3>1, <4>1 DEF EventsReferred
      <4>2. CASE claim[c] = "none"
        BY <1>1, <1>2, <1>e, <1>r, <3>1, <4>2
      <4> QED BY <4>1, <4>2
    <3> QED BY <1>b, <3>1 DEF EventsReferred
  <2>3. Capped'
    BY <1>6 DEF Capped
  <2>4. MilestonesRewarded'
    <3> SUFFICES ASSUME NEW c \in reached', referredBy[c[1]] # 0, claim'[c] = "none"
        PROVE  EventsOf(referredBy[c[1]])' = MaxReferralRewards
      BY DEF MilestonesRewarded, EventsOf
    <3>1. c \in Claims /\ claim[c] = "none"
      BY <1>3, <1>4
    <3>2. c[1] \in Users
      BY <3>1, ClaimFacts
    <3>3. PICK v \in Users : v = referredBy[c[1]]
      BY <1>t, <3>2 DEF TypeOK
    <3>4. EventsOf(v) = MaxReferralRewards
      <4>1. CASE c \in reached
        BY <1>b, <3>1, <3>3, <4>1 DEF MilestonesRewarded, EventsOf
      <4>2. CASE c = e
        <5>1. v = r /\ r # 0
          BY <1>e, <1>r, <3>3, <4>2
        <5>2. ~Recorded(p)
          BY <1>1, <3>1, <4>2
        <5>3. ~(count[p] < MaxReferralRewards)
          BY <3>1, <4>2, <5>1, <5>2 DEF Recorded, e
        <5> QED BY <1>6, <1>r, <1>b, <5>1, <5>3, ConstantFacts DEF Capped
      <4> QED BY <1>3, <4>1, <4>2
    <3>5. EventsOf(v)' = MaxReferralRewards
      BY <1>6, <3>4, ConstantFacts
    <3> QED BY <3>3, <3>5 DEF EventsOf, Events
  <2> QED BY <2>1, <2>2, <2>3, <2>4 DEF TablesOK
<1> QED BY <1>1, <1>3, <1>4, <1>7, <1>8 DEF e

(* A milestone recorded, and the transaction at its end.                   *)
LEMMA EventEnds ==
  ASSUME BonusInv, NEW p \in Processes, pc[p] = "reach", CreateEvent(p), End(p),
         UNCHANGED <<registered, referredBy, points>>, fails' \in 0..MaxFails
  PROVE  BonusInv'
<1>1. TypeOK
  BY DEF BonusInv, RewardsInv
<1>2. TablesKept(p) /\ TablesOK' /\ claim' \in [Claims -> ClaimStates] /\ reached' \subseteq Claims
  BY CreateEventTables
<1>3. TypeOK'
  BY <1>1, <1>2, EndFacts DEF TypeOK
<1> QED BY <1>1, <1>2, <1>3, EndFacts, BonusInvNext

LEMMA CommitMilestoneStep ==
  ASSUME BonusInv, NEW p \in Processes, CommitMilestone(p), UNCHANGED fails
  PROVE  BonusInv'
<1> DEFINE u == job[p].user
           next == [user |-> u, kind |-> "achievement", code |-> job[p].code]
<1>1. pc[p] = "reach" /\ CreateEvent(p) /\ UNCHANGED <<registered, referredBy, points>>
  BY DEF CommitMilestone
<1>2. TypeOK /\ Reaching(p) /\ job[p] \in Job /\ u \in Users /\ Event(p) = <<u, job[p].kind>>
  BY <1>1, ReachingFacts
<1>3. /\ TablesKept(p) /\ TablesOK'
      /\ claim' \in [Claims -> ClaimStates] /\ reached' \subseteq Claims
  BY <1>1, CreateEventTables
<1>4. CASE job[p].kind # "first_prediction"
  <2>1. End(p) /\ fails' \in 0..MaxFails
    BY <1>2, <1>4 DEF CommitMilestone, TypeOK
  <2> QED BY <1>1, <2>1, EventEnds
<1>5. CASE job[p].kind = "first_prediction"
  <2>1. /\ userLock' = [v \in Users |-> IF userLock[v] = p THEN NoProc ELSE userLock[v]]
        /\ claimLock' = [c \in Claims |-> IF claimLock[c] = p THEN NoProc ELSE claimLock[c]]
        /\ count' = [count EXCEPT ![p] = 0] /\ read' = [read EXCEPT ![p] = 0]
        /\ pc' = [pc EXCEPT ![p] = "claim"] /\ job' = [job EXCEPT ![p] = next]
    BY <1>5 DEF CommitMilestone, Release, ClaimReleased, Goto
  <2>2. next \in Job /\ next.user = u /\ next.kind = "achievement"
    BY <1>2, JobFacts, ConstantFacts
  <2> HIDE DEF next
  <2>3. MemoryKept(p)
    BY <1>2, <2>1 DEF MemoryKept, LocksKept2, TypeOK
  <2>4. TypeOK'
    <3>1. /\ userLock' \in [Users -> Processes \cup {NoProc}]
          /\ claimLock' \in [Claims -> Processes \cup {NoProc}]
      BY <1>2, <2>1 DEF TypeOK
    <3>2. /\ pc' \in [Processes -> Places] /\ job' \in [Processes -> Job \cup {NoJob}]
          /\ count' \in [Processes -> Nat] /\ read' \in [Processes -> Nat]
      BY <1>2, <2>1, <2>2 DEF TypeOK, Places
    <3> QED BY <1>1, <1>2, <1>3, <3>1, <3>2 DEF TypeOK
  <2>5. pc'[p] = "claim" /\ job'[p] = next
    BY <1>2, <2>1 DEF TypeOK
  <2>6. Paying(p)'
    <3>1. Event(p)' = <<u, "achievement">>
      BY <2>2, <2>5 DEF Event
    <3>2. <<u, "achievement">> \in Claims
      <4>1. PICK g \in Goals : g = <<u, job[p].kind>>
        BY <1>2 DEF Reaching
      <4>2. <<g[1], "achievement">> \in Claims /\ g[1] = u
        BY <4>1, ClaimFacts
      <4> QED BY <4>2
    <3> QED BY <1>1, <1>2, <2>2, <2>5, <3>1, <3>2 DEF Paying, Reaching
  <2>7. PlaceOK(p)'
    BY <2>2, <2>5, <2>6 DEF PlaceOK
  <2> QED BY <1>3, <2>3, <2>4, <2>7, BonusInvNext
<1> QED BY <1>4, <1>5

-----------------------------------------------------------------------------
(* The steps of a payout.                                                  *)
LEMMA PayingFacts ==
  ASSUME BonusInv, NEW p \in Processes, pc[p] \in {"claim", "payee", "pay"}
  PROVE  /\ TypeOK /\ Paying(p) /\ job[p] \in Job
         /\ job[p].user \in Users /\ job[p].kind \in Kinds
         /\ Event(p) = <<job[p].user, job[p].kind>> /\ Event(p) \in Claims
         /\ Payee(Event(p)) \in Users
<1>1. TypeOK /\ Paying(p) /\ job[p] \in Job /\ EventsReferred
  BY DEF BonusInv, RewardsInv, PlaceOK
<1>2. job[p].user \in Users /\ job[p].kind \in Kinds
  BY <1>1, JobFacts
<1>3. Event(p) = <<job[p].user, job[p].kind>> /\ Event(p) \in Claims
  BY <1>1 DEF Paying, Event
<1>4. Payee(Event(p)) \in Users
  <2>1. PICK c \in Claims : c = Event(p)
    BY <1>3
  <2>2. c[2] = "achievement" \/ claim[c] # "none"
    BY <1>1, <1>3, <2>1 DEF Paying
  <2>3. Payee(c) \in Users
    BY <1>1, <2>2, PayeeFacts
  <2> QED BY <2>1, <2>3
<1> QED BY <1>1, <1>2, <1>3, <1>4

LEMMA ClaimRewardStep ==
  ASSUME BonusInv, NEW p \in Processes, ClaimReward(p), UNCHANGED fails
  PROVE  BonusInv'
<1> DEFINE c == Event(p)
<1>t. TypeOK /\ Paying(p) /\ job[p] \in Job /\ c \in Claims /\ pc[p] = "claim"
  BY PayingFacts DEF ClaimReward
<1>1. CASE ~Claimable(c)
  BY <1>1, <1>t, RefuseStep DEF ClaimReward, TypeOK
<1>2. CASE Claimable(c)
  <2>1. /\ claimLock[c] = NoProc /\ claimLock' = [claimLock EXCEPT ![c] = p]
        /\ pc' = [pc EXCEPT ![p] = "payee"]
        /\ UNCHANGED <<tables, userLock, memory>>
    BY <1>2 DEF ClaimReward, LockFree, Goto
  <2>2. Event(p)' = c /\ claim' = claim /\ registered' = registered /\ job' = job
        /\ (Claimable(c) <=> Claimable(c)')
    BY <2>1 DEF Event, tables, memory, Claimable
  <2> HIDE DEF c
  <2>3. MemoryKept(p)
    BY <1>t, <2>1 DEF MemoryKept, LocksKept2, TypeOK, memory
  <2>4. TypeOK'
    BY <1>t, <2>1 DEF TypeOK, tables, memory, Places
  <2>5. pc'[p] = "payee" /\ claimLock'[c] = p
    BY <1>t, <2>1 DEF TypeOK
  <2>6. Paying(p)'
    BY <1>t, <1>2, <2>2, <2>5 DEF Paying, c, Claimable
  <2>7. PlaceOK(p)'
    BY <1>t, <2>2, <2>5, <2>6 DEF PlaceOK
  <2> QED BY <2>1, <2>3, <2>4, <2>7, QuietStep
<1> QED BY <1>1, <1>2

LEMMA LockPayeeStep ==
  ASSUME BonusInv, NEW p \in Processes, LockPayee(p), UNCHANGED fails
  PROVE  BonusInv'
<1> DEFINE c == Event(p)
           w == Payee(c)
<1>t. TypeOK /\ Paying(p) /\ job[p] \in Job /\ c \in Claims /\ w \in Users /\ pc[p] = "payee"
  BY PayingFacts DEF LockPayee
<1>1. /\ userLock[w] = NoProc /\ userLock' = [userLock EXCEPT ![w] = p]
      /\ read' = [read EXCEPT ![p] = points[w]]
      /\ pc' = [pc EXCEPT ![p] = "pay"]
      /\ UNCHANGED <<tables, claimLock, job, count>>
  BY DEF LockPayee, LockFree, Goto
<1>2. Event(p)' = c /\ claim' = claim /\ registered' = registered /\ job' = job
      /\ points' = points /\ claimLock' = claimLock
  BY <1>1 DEF Event, tables
<1>3. Payee(Event(p))' = w /\ Claimable(Event(p))' = Claimable(c)
  BY <1>1, <1>2 DEF Payee, tables, Claimable
<1> HIDE DEF w
<1>4. MemoryKept(p)
  BY <1>t, <1>1 DEF MemoryKept, LocksKept2, TypeOK
<1>5. TypeOK'
  BY <1>t, <1>1 DEF TypeOK, tables, Places
<1>6. pc'[p] = "pay" /\ userLock'[w] = p /\ read'[p] = points[w]
  BY <1>t, <1>1 DEF TypeOK
<1>7. Paying(p)'
  BY <1>t, <1>2, <1>3, <1>6 DEF Paying
<1>8. PlaceOK(p)'
  BY <1>t, <1>2, <1>6, <1>7 DEF PlaceOK
<1> QED BY <1>1, <1>4, <1>5, <1>8, QuietStep

(* Paying changes the claim and the wallet of its payee, which p has       *)
(* locked; an event counts before and after.                               *)
LEMMA PayFacts ==
  ASSUME BonusInv, NEW p \in Processes, CommitPay(p)
  PROVE  LET c == Event(p)
         IN /\ TypeOK /\ Paying(p) /\ c \in Claims /\ Payee(c) \in Users /\ c[1] = job[p].user
            /\ claimLock[c] = p /\ userLock[Payee(c)] = p /\ Claimable(c)
            /\ \A d \in Claims : claim'[d] = IF d = c THEN "paid" ELSE claim[d]
            /\ \A v \in Users : points'[v] =
                 IF v = Payee(c) THEN points[v] + Earnings[c[2]] ELSE points[v]
            /\ claim' \in [Claims -> ClaimStates] /\ points' \in [Users -> Nat]
            /\ UNCHANGED <<registered, referredBy, reached>>
            /\ End(p)
<1> DEFINE c == Event(p)
           w == Payee(c)
<1>1. /\ TypeOK /\ Paying(p) /\ c \in Claims /\ w \in Users
      /\ c = <<job[p].user, job[p].kind>> /\ job[p].kind \in Kinds /\ pc[p] = "pay"
  BY PayingFacts DEF CommitPay
<1>2. claimLock[c] = p /\ userLock[w] = p /\ read[p] = points[w] /\ Claimable(c)
  BY <1>1 DEF Paying
<1>3. Earnings[c[2]] \in Nat /\ c[1] = job[p].user
  BY <1>1, ConstantFacts
<1>4. /\ claim' = [claim EXCEPT ![c] = "paid"]
      /\ points' = [points EXCEPT ![w] = points[w] + Earnings[c[2]]]
      /\ UNCHANGED <<registered, referredBy, reached>> /\ End(p)
  BY <1>2 DEF CommitPay
<1> HIDE DEF c, w
<1>5. points[w] + Earnings[c[2]] \in Nat
  BY <1>1, <1>3 DEF TypeOK
<1>6. /\ \A d \in Claims : claim'[d] = IF d = c THEN "paid" ELSE claim[d]
      /\ claim' \in [Claims -> ClaimStates]
  BY <1>1, <1>4 DEF TypeOK, ClaimStates
<1>7. /\ \A v \in Users : points'[v] = IF v = w THEN points[v] + Earnings[c[2]] ELSE points[v]
      /\ points' \in [Users -> Nat]
  BY <1>1, <1>4, <1>5 DEF TypeOK
<1> QED BY <1>1, <1>2, <1>3, <1>4, <1>6, <1>7 DEF c, w

LEMMA CommitPayStep ==
  ASSUME BonusInv, NEW p \in Processes, CommitPay(p), UNCHANGED fails
  PROVE  BonusInv'
<1> DEFINE c == Event(p)
           w == Payee(c)
<1>1. /\ TypeOK /\ Paying(p) /\ c \in Claims /\ w \in Users /\ c[1] = job[p].user
      /\ claimLock[c] = p /\ userLock[w] = p /\ Claimable(c)
      /\ \A d \in Claims : claim'[d] = IF d = c THEN "paid" ELSE claim[d]
      /\ \A v \in Users : points'[v] = IF v = w THEN points[v] + Earnings[c[2]] ELSE points[v]
      /\ claim' \in [Claims -> ClaimStates] /\ points' \in [Users -> Nat]
      /\ UNCHANGED <<registered, referredBy, reached>>
      /\ End(p)
  BY PayFacts
<1>2. c[2] \in Milestones => claim[c] = "pending" /\ w = referredBy[c[1]]
  BY <1>1, ConstantFacts DEF Claimable, Payee
<1>b. MembersOnly /\ EventsReferred /\ Capped /\ MilestonesRewarded
  BY DEF BonusInv, RewardsInv
<1>r. c[1] \in registered
  BY <1>1 DEF Paying
<1> HIDE DEF c, w
<1>3. ASSUME NEW v PROVE Events(v, {"pending", "paid"})' = Events(v, {"pending", "paid"})
  <2>1. ASSUME NEW d \in Claims, d[2] \in Milestones
        PROVE  claim'[d] \in {"pending", "paid"} <=> claim[d] \in {"pending", "paid"}
    BY <1>1, <1>2, <2>1
  <2> QED BY <1>1, <2>1 DEF Events
<1>4. ASSUME NEW v \in Users, v # w PROVE Events(v, {"paid"})' = Events(v, {"paid"})
  <2>1. ASSUME NEW d \in Claims, d[2] \in Milestones, referredBy[d[1]] = v
        PROVE  claim'[d] = "paid" <=> claim[d] = "paid"
    BY <1>1, <1>2, <1>4, <2>1
  <2> QED BY <1>1, <2>1 DEF Events
<1>5. TablesKept(p)
  <2>1. \A v \in Users : userLock[v] # p => v # w
    BY <1>1
  <2>2. \A v \in Users : v # w => points'[v] = points[v]
    BY <1>1
  <2>3. \A d \in Claims : claim[d] # "none" => claim'[d] # "none"
    BY <1>1
  <2>4. \A d \in Claims : claim'[d] # claim[d] => claimLock[d] = p
    BY <1>1
  <2> QED BY <1>1, <1>3, <1>4, <2>1, <2>2, <2>3, <2>4 DEF TablesKept
<1>6. TypeOK'
  BY <1>1, EndFacts DEF TypeOK
<1>7. TablesOK'
  <2>1. MembersOnly'
    BY <1>1, <1>b, <1>r DEF MembersOnly
  <2>2. EventsReferred'
    BY <1>1, <1>2, <1>b DEF EventsReferred
  <2>3. Capped'
    BY <1>3, <1>b DEF Capped, EventsOf
  <2>4. MilestonesRewarded'
    <3>1. ASSUME NEW d \in reached, referredBy[d[1]] # 0, claim'[d] = "none"
          PROVE  Cardinality(Events(referredBy[d[1]], {"pending", "paid"}))' = MaxReferralRewards
      <4>1. claim[d] = "none"
        <5>1. d \in Claims
          BY <1>1 DEF TypeOK
        <5> QED BY <1>1, <3>1, <5>1
      <4>2. Cardinality(Events(referredBy[d[1]], {"pending", "paid"})) = MaxReferralRewards
        BY <1>b, <3>1, <4>1 DEF MilestonesRewarded
      <4>3. PICK v : v = referredBy[d[1]]
        OBVIOUS
      <4>4. Events(v, {"pending", "paid"})' = Events(v, {"pending", "paid"})
        BY <1>3
      <4>5. Events(referredBy[d[1]], {"pending", "paid"})' = Events(v, {"pending", "paid"})'
        BY <1>1, <4>3 DEF Events
      <4> QED BY <4>2, <4>3, <4>4, <4>5
    <3>2. SUFFICES ASSUME NEW d \in reached, referredBy[d[1]] # 0, claim'[d] = "none"
          PROVE  Cardinality(Events(referredBy[d[1]], {"pending", "paid"}))' = MaxReferralRewards
      BY <1>1 DEF MilestonesRewarded
    <3> QED BY <1>1, <3>1, <3>2 DEF Events
  <2> QED BY <2>1, <2>2, <2>3, <2>4 DEF TablesOK
<1> QED BY <1>1, <1>5, <1>6, <1>7, EndFacts, BonusInvNext

-----------------------------------------------------------------------------
(* The referrals: every step keeps the invariant.                          *)
LEMMA FailStep ==
  ASSUME BonusInv, NEW p \in Processes, Fail(p)
  PROVE  BonusInv'
<1>1. Refuse(p) /\ fails' = fails + 1 /\ fails < MaxFails /\ fails \in 0..MaxFails
  BY DEF Fail, BonusInv, RewardsInv, TypeOK
<1>2. fails' \in 0..MaxFails
  BY <1>1, ConstantFacts
<1> QED BY <1>1, <1>2, RefuseStep

LEMMA StepKeeps ==
  ASSUME BonusInv, NEW p \in Processes, Step(p)
  PROVE  BonusInv'
BY InsertUserStep, LockReferrerStep, CountPaidStep, CountPendingStep, CommitRegisterStep,
   LockWalletStep, CommitMilestoneStep, ClaimRewardStep, LockPayeeStep, CommitPayStep
   DEF Step, PayStep

LEMMA BonusInvInit == Init => BonusInv
<1> SUFFICES ASSUME Init PROVE BonusInv
  OBVIOUS
<1>1. \A c \in Claims : claim[c] = "none"
  BY DEF Init
<1>2. \A u \in Users : Code[u] \in Users \cup {0} /\ referredBy[u] \in {0, Code[u]}
  BY ConstantFacts DEF Init
<1>3. TypeOK
  <2>1. referredBy \in [Users -> Users \cup {0}]
    BY ConstantFacts DEF Init
  <2>2. fails \in 0..MaxFails
    BY ConstantFacts DEF Init
  <2>3. pc \in [Processes -> Places] /\ job \in [Processes -> Job \cup {NoJob}]
    BY DEF Init, Places
  <2> QED BY <2>1, <2>2, <2>3 DEF Init, TypeOK, ClaimStates
<1>4. MilestonesRewarded /\ MembersOnly /\ EventsReferred
  <2>1. \A u \in Users \ registered : referredBy[u] = 0
    BY DEF Init
  <2> QED BY <1>1, <1>2, <2>1 DEF Init, MilestonesRewarded, MembersOnly, EventsReferred
<1>5. Capped
  <2>1. ASSUME NEW r \in Users PROVE EventsOf(r) = 0
    <3>1. Events(r, {"pending", "paid"}) = {}
      BY <1>1 DEF Events
    <3> QED BY <3>1, FS_EmptySet DEF EventsOf
  <2> QED BY <2>1, ConstantFacts DEF Capped
<1>6. \A p \in Processes : PlaceOK(p)
  BY DEF Init, PlaceOK
<1> QED BY <1>3, <1>4, <1>5, <1>6 DEF BonusInv, RewardsInv

LEMMA BonusInvUnchanged == BonusInv /\ UNCHANGED vars => BonusInv'
<1> SUFFICES ASSUME BonusInv, UNCHANGED vars PROVE BonusInv'
  OBVIOUS
<1>1. /\ UNCHANGED <<registered, referredBy, claim, reached, points>>
      /\ UNCHANGED <<userLock, claimLock, pc, job, count, read, fails>>
  BY DEF vars, tables, locks, memory
<1>2. TypeOK'
  BY <1>1 DEF BonusInv, RewardsInv, TypeOK
<1>3. MilestonesRewarded'
  BY <1>1 DEF BonusInv, RewardsInv, MilestonesRewarded, Events
<1>4. MembersOnly' /\ EventsReferred' /\ Capped'
  BY <1>1 DEF BonusInv, MembersOnly, EventsReferred, Capped, EventsOf, Events
<1>5. ASSUME NEW p \in Processes PROVE PlaceOK(p)'
  <2>1. PlaceOK(p)
    BY DEF BonusInv
  <2> QED BY <1>1, <2>1 DEF PlaceOK, Joining, Reaching, Paying, EventsOf, Events, Event, Payee,
                           Claimable
<1> QED BY <1>2, <1>3, <1>4, <1>5 DEF BonusInv, RewardsInv

LEMMA BonusInvStep == BonusInv /\ [Next]_vars => BonusInv'
<1> SUFFICES ASSUME BonusInv, [Next]_vars PROVE BonusInv'
  OBVIOUS
<1>1. ASSUME NEW p \in Handlers, Arrive(p) PROVE BonusInv'
  BY <1>1, ArriveStep, ConstantFacts
<1>2. ASSUME NEW p \in Crons, Scan(p) PROVE BonusInv'
  BY <1>2, ScanStep, ConstantFacts
<1>3. ASSUME NEW p \in Processes, Step(p) \/ Fail(p) PROVE BonusInv'
  BY <1>3, StepKeeps, FailStep
<1>4. CASE UNCHANGED vars
  BY <1>4, BonusInvUnchanged
<1> QED BY <1>1, <1>2, <1>3, <1>4 DEF Next

(* The inductive invariant: nobody has anything before they register, an   *)
(* event belongs to the referrer whose code its user was given, nobody has *)
(* more than the cap, and what a transaction has counted or read is still  *)
(* so while it holds the locks.                                            *)
THEOREM BonusInvariant == Spec => []BonusInv
<1>1. Init => BonusInv
  BY BonusInvInit
<1>2. BonusInv /\ [Next]_vars => BonusInv'
  BY BonusInvStep
<1> QED BY <1>1, <1>2, PTL DEF Spec

-----------------------------------------------------------------------------
(* Every step is one of Bonus's, or none.                                  *)

(* The claims as Bonus shows them, and the steps Bonus makes of them. *)
Shown == [c \in Claims |-> IF claim[c] = "pending" THEN "owed" ELSE claim[c]]
PromiseKept == Promise!BonusNext \/ UNCHANGED <<registered, Shown, points>>

LEMMA SameCardinality == \A S : Promise!Cardinality(S) = Cardinality(S)
BY Zenon DEF Promise!Cardinality, Cardinality

LEMMA ShownFacts ==
  ASSUME TypeOK, EventsReferred
  PROVE  /\ \A r \in Users : Promise!HasRoom(r) <=> EventsOf(r) < MaxReferralRewards
         /\ \A c \in Claims : c[2] \in Milestones /\ claim[c] # "none" =>
              referredBy[c[1]] = Code[c[1]] /\ Code[c[1]] \in Users
         /\ \A c \in Claims :
              /\ claim[c] = "none" => Shown[c] = "none"
              /\ claim[c] = "pending" => Shown[c] = "owed"
              /\ claim[c] = "paid" => Shown[c] = "paid"
<1>1. \A c \in Claims : c[1] \in Users /\ claim[c] \in {"none", "pending", "paid"}
  BY ClaimFacts DEF TypeOK, ClaimStates
<1>2. \A c \in Claims :
        /\ claim[c] = "none" => Shown[c] = "none"
        /\ claim[c] = "pending" => Shown[c] = "owed"
        /\ claim[c] = "paid" => Shown[c] = "paid"
  BY DEF Shown
<1>3. \A c \in Claims : c[2] \in Milestones /\ claim[c] # "none" =>
        referredBy[c[1]] = Code[c[1]] /\ Code[c[1]] \in Users
  BY <1>1, ConstantFacts DEF EventsReferred
<1>4. ASSUME NEW r \in Users PROVE Promise!HasRoom(r) <=> EventsOf(r) < MaxReferralRewards
  <2>1. Promise!Counted(r) = {c \in Claims : Code[c[1]] = r /\ c[2] \in Milestones /\ Shown[c] # "none"}
    BY DEF Promise!Counted, Shown
  <2>2. ASSUME NEW c \in Claims, c[2] \in Milestones
        PROVE  (Code[c[1]] = r /\ Shown[c] # "none") <=>
                 (referredBy[c[1]] = r /\ claim[c] \in {"pending", "paid"})
    <3>1. CASE claim[c] = "none"
      BY <1>2, <3>1
    <3>2. CASE claim[c] # "none"
      BY <1>1, <1>2, <1>3, <2>2, <3>2
    <3> QED BY <3>1, <3>2
  <2>3. Promise!Counted(r) = Events(r, {"pending", "paid"})
    BY <2>1, <2>2 DEF Events
  <2> QED BY <2>3, SameCardinality DEF Promise!HasRoom, EventsOf
<1> QED BY <1>2, <1>3, <1>4

LEMMA EarnKept ==
  ASSUME BonusInv, NEW p \in Processes, pc[p] = "reach", CreateEvent(p),
         UNCHANGED <<registered, referredBy, points>>
  PROVE  PromiseKept
<1> DEFINE e == Event(p)
<1>1. /\ TypeOK /\ Reaching(p) /\ e \in Claims /\ e = <<job[p].user, job[p].kind>>
      /\ job[p].kind \in Milestones /\ job[p].user \in Users /\ job[p].code \in Users \cup {0}
      /\ EventsReferred
  BY ReachingFacts DEF BonusInv
<1>2. \A c \in Claims : claim'[c] = IF c = e /\ Recorded(p) THEN "pending" ELSE claim[c]
  BY CreateEventTables
<1>3. CASE ~Recorded(p)
  <2>1. Shown' = Shown
    BY <1>2, <1>3 DEF Shown
  <2> QED BY <2>1 DEF PromiseKept
<1>4. CASE Recorded(p)
  <2>1. job[p].code # 0 /\ claim[e] = "none" /\ count[p] < MaxReferralRewards
    BY <1>4 DEF Recorded
  <2>2. /\ e[1] = job[p].user /\ e[1] \in registered /\ e[2] \in Milestones
        /\ job[p].code = Code[e[1]] /\ count[p] = EventsOf(job[p].code)
    BY <1>1, <2>1 DEF Reaching, EventsReferred
  <2> HIDE DEF e
  <2>3. Promise!HasRoom(Code[e[1]])
    <3>1. PICK r \in Users : r = job[p].code
      BY <1>1, <2>1
    <3>2. EventsOf(r) < MaxReferralRewards
      BY <2>1, <2>2, <3>1
    <3>3. Promise!HasRoom(r)
      BY <1>1, <3>2, ShownFacts
    <3> QED BY <2>2, <3>1, <3>3
  <2>4. Shown' = [Shown EXCEPT ![e] = "owed"] /\ Shown[e] = "none"
    BY <1>1, <1>2, <1>4, <2>1 DEF Shown
  <2>5. PICK c \in Claims : c = e
    BY <1>1
  <2>6. Promise!Earn(c)
    BY <2>2, <2>3, <2>4, <2>5 DEF Promise!Earn, Shown
  <2> QED BY <2>6 DEF Promise!BonusNext, PromiseKept
<1> QED BY <1>3, <1>4

LEMMA JoinKept ==
  ASSUME BonusInv, NEW p \in Processes, CommitRegister(p)
  PROVE  PromiseKept
<1> DEFINE u == job[p].user
           r == job[p].code
           owed == Granted(p)
           joined == <<u, "joined">>
<1>1. /\ TypeOK /\ u \in Newcomers /\ u \in Users /\ r \in {0, Code[u]} /\ r \in Users \cup {0}
      /\ u \notin registered
      /\ r # 0 => count[p] = EventsOf(r)
      /\ \A c \in Claims : claim'[c] = IF c = joined THEN "paid"
                                       ELSE IF c \in owed THEN "pending" ELSE claim[c]
      /\ registered' = registered \cup {u} /\ EventsReferred
  BY RegisterFacts DEF BonusInv
<1>2. points' = [points EXCEPT ![u] = points[u] + Earnings["joined"]]
  BY DEF CommitRegister
<1>3. owed \in {{}, {<<u, "signed_up">>, <<u, "welcome">>}}
  BY DEF Granted
<1>4. owed # {} => Promise!HasRoom(Code[u])
  <2> SUFFICES ASSUME owed # {} PROVE Promise!HasRoom(Code[u])
    OBVIOUS
  <2>1. r # 0 /\ count[p] < MaxReferralRewards
    BY DEF Granted
  <2>2. PICK v \in Users : v = r /\ v = Code[u]
    BY <1>1, <2>1
  <2>3. EventsOf(v) < MaxReferralRewards
    BY <1>1, <2>1, <2>2
  <2>4. Promise!HasRoom(v)
    BY <1>1, <2>3, ShownFacts
  <2> QED BY <2>2, <2>4
<1>5. Promise!Paid(joined) = points'
  <2>1. joined[1] = u /\ joined[2] = "joined" /\ "joined" \notin Milestones
    BY ConstantFacts
  <2>2. Promise!Payee(joined) = u
    BY <2>1 DEF Promise!Payee
  <2> QED BY <1>2, <2>1, <2>2 DEF Promise!Paid
<1> HIDE DEF owed, joined
<1>6. Shown' = [c \in Claims |-> IF c = joined THEN "paid" ELSE IF c \in owed THEN "owed" ELSE Shown[c]]
  <2>1. ASSUME NEW c \in Claims
        PROVE  (IF claim'[c] = "pending" THEN "owed" ELSE claim'[c]) =
                 (IF c = joined THEN "paid" ELSE IF c \in owed THEN "owed"
                  ELSE IF claim[c] = "pending" THEN "owed" ELSE claim[c])
    BY <1>1, <2>1
  <2> QED BY <2>1 DEF Shown
<1>7. PICK v \in Users : v = u
  BY <1>1
<1>8. PICK new \in {{}, {<<v, "signed_up">>, <<v, "welcome">>}} : new = owed
  BY <1>3, <1>7
<1>9. Promise!Join(v, new)
  BY <1>1, <1>3, <1>4, <1>5, <1>6, <1>7, <1>8 DEF Promise!Join, Shown, joined
<1> QED BY <1>8, <1>9 DEF Promise!BonusNext, PromiseKept

LEMMA PayKept ==
  ASSUME BonusInv, NEW p \in Processes, CommitPay(p)
  PROVE  PromiseKept
<1> DEFINE c == Event(p)
           w == Payee(c)
<1>1. /\ TypeOK /\ Paying(p) /\ c \in Claims /\ w \in Users /\ c[1] = job[p].user
      /\ Claimable(c) /\ EventsReferred
      /\ \A d \in Claims : claim'[d] = IF d = c THEN "paid" ELSE claim[d]
      /\ UNCHANGED <<registered, referredBy, reached>>
  BY PayFacts DEF BonusInv
<1>2. pc[p] = "pay" /\ points' = [points EXCEPT ![w] = read[p] + Earnings[c[2]]]
  BY DEF CommitPay
<1>3. read[p] = points[w] /\ c[1] \in registered
  BY <1>1, <1>2 DEF Paying
<1>4. Promise!Payee(c) = w
  <2>1. CASE c[2] \in Milestones
    <3>1. claim[c] # "none"
      BY <1>1, <2>1, ConstantFacts DEF Claimable
    <3>2. referredBy[c[1]] = Code[c[1]]
      BY <1>1, <2>1, <3>1, ShownFacts
    <3> QED BY <2>1, <3>2 DEF Payee, Promise!Payee
  <2>2. CASE c[2] \notin Milestones
    BY <2>2 DEF Payee, Promise!Payee
  <2> QED BY <2>1, <2>2
<1> HIDE DEF c, w
<1>5. Promise!Paid(c) = points'
  BY <1>2, <1>3, <1>4 DEF Promise!Paid
<1>6. Shown[c] = IF c[2] = "achievement" THEN "none" ELSE "owed"
  BY <1>1, ShownFacts DEF Claimable
<1>7. Shown' = [Shown EXCEPT ![c] = "paid"]
  BY <1>1 DEF Shown
<1>8. PICK d \in Claims : d = c
  BY <1>1
<1>9. Promise!Pay(d)
  BY <1>1, <1>3, <1>5, <1>6, <1>7, <1>8 DEF Promise!Pay, Shown
<1> QED BY <1>9 DEF Promise!BonusNext, PromiseKept

(* All else leaves the tables of Bonus alone.                              *)
LEMMA QuietKept ==
  ASSUME UNCHANGED tables
  PROVE  PromiseKept
BY DEF PromiseKept, tables, Shown

LEMMA StepPromised ==
  ASSUME BonusInv, NEW p \in Processes, Step(p)
  PROVE  PromiseKept
<1>1. CASE CommitRegister(p)
  BY <1>1, JoinKept
<1>2. CASE CommitPay(p)
  BY <1>2, PayKept
<1>3. CASE CommitMilestone(p)
  BY <1>3, EarnKept DEF CommitMilestone
<1>4. CASE InsertUser(p) \/ LockReferrer(p) \/ CountPaid(p) \/ CountPending(p)
  BY <1>4, QuietKept DEF InsertUser, LockReferrer, CountPaid, CountPending, Refuse
<1>5. CASE LockWallet(p) \/ ClaimReward(p) \/ LockPayee(p)
  BY <1>5, QuietKept DEF LockWallet, ClaimReward, LockPayee, Refuse
<1> QED BY <1>1, <1>2, <1>3, <1>4, <1>5 DEF Step, PayStep

LEMMA ArriveQuiet ==
  ASSUME NEW p, Arrive(p) \/ Scan(p) \/ Fail(p)
  PROVE  UNCHANGED tables
BY DEF Arrive, RegisterUser, GoogleLogin, Milestone, Scan, ScanPending, Begin, Fail, Refuse

LEMMA NextPromised == BonusInv /\ [Next]_vars => PromiseKept
<1> SUFFICES ASSUME BonusInv, [Next]_vars PROVE PromiseKept
  OBVIOUS
<1>1. ASSUME NEW p \in Processes, Step(p) PROVE PromiseKept
  BY <1>1, StepPromised
<1>2. ASSUME NEW p, Arrive(p) \/ Scan(p) \/ Fail(p) PROVE PromiseKept
  BY <1>2, ArriveQuiet, QuietKept
<1>3. CASE UNCHANGED vars
  BY <1>3, QuietKept DEF vars
<1> QED BY <1>1, <1>2, <1>3 DEF Next

LEMMA PromiseInit == Init => Promise!BonusInit
<1> SUFFICES ASSUME Init PROVE Promise!BonusInit
  OBVIOUS
<1>1. Shown = [c \in Claims |-> "none"]
  BY DEF Init, Shown
<1> QED BY <1>1 DEF Init, Promise!BonusInit, Shown

LEMMA PromiseStep == PromiseKept => [Promise!BonusNext]_(Promise!bonusVars)
BY DEF PromiseKept, Shown, Promise!bonusVars

(* Requests, replicas and failures interleaved in any way, a user joins    *)
(* once, a claim arises at most once and within the cap, and becomes coins *)
(* once (RegisterUser, TriggerReferralEventTx, processPendingReferrals).   *)
THEOREM ReferralsKeepPromise == Spec => BonusSpec
<1>1. Init => Promise!BonusInit
  BY PromiseInit
<1>2. BonusInv /\ [Next]_vars => [Promise!BonusNext]_(Promise!bonusVars)
  BY NextPromised, PromiseStep
<1> QED BY <1>1, <1>2, BonusInvariant, PTL DEF Spec, BonusSpec, Promise!BonusSpec

-----------------------------------------------------------------------------
(* What a step of p leaves alone of the verifications: rows and newest     *)
(* rows of users whose lock p does not hold, the sessions others are about.*)
KycKept(p) ==
  /\ \A s \in Sessions : kyc'[s] # kyc[s] => userLock[Owner[s]] = p /\ kyc'[s] # "none"
  /\ \A u \in Users : latest'[u] # latest[u] => userLock[u] = p
  /\ \A s \in young' \ young : userLock[Owner[s]] = p
  /\ provider \subseteq provider'
  /\ \A q \in Handlers \ {p} : about'[q] = about[q] /\ verdict'[q] = verdict[q]
  /\ p \in Handlers => \/ about'[p] \in {NoSession, about[p]}
                       \/ kyc[about'[p]] # "none"
                       \/ \A q \in Handlers : about[q] # about'[p]

LEMMA OwnerFacts ==
  /\ NoSession \notin Sessions
  /\ \A s \in Sessions : Owner[s] \in Users /\ <<Owner[s], "kyc_completed">> \in Goals
  /\ "kyc_completed" \in Milestones /\ "kyc_completed" \in Kinds
  /\ "kyc_completed" \notin {"signed_up", "achievement", "none"}
<1>1. "kyc_completed" \in Milestones /\ Owner \in [Sessions -> Users]
      /\ NoSession \notin Sessions
      /\ \A s \in Sessions : <<Owner[s], "kyc_completed">> \in Goals
  BY KycAssumption
<1> QED BY <1>1, ConstantFacts

LEMMA KycPlacesKept ==
  ASSUME VerificationInv, NEW p, MemoryKept(p), KycKept(p), registered \subseteq registered',
         NEW q \in Handlers, q # p
  PROVE  KycPlaceOK(q)'
<1>0. PICK s : s = about[q]
  OBVIOUS
<1>1. KycPlaceOK(q) /\ KycTypeOK /\ RowsOK /\ q # NoProc /\ q \in Processes
  BY ConstantFacts DEF VerificationInv, SessionsInv
<1>2. pc'[q] = pc[q] /\ job'[q] = job[q] /\ about'[q] = s /\ verdict'[q] = verdict[q]
  BY <1>0, <1>1 DEF MemoryKept, KycKept
<1>3. CASE s = NoSession
  BY <1>0, <1>1, <1>2, <1>3 DEF KycPlaceOK
<1>4. CASE s # NoSession
  <2>1. s \in Sessions /\ Owner[s] \in Users
    BY <1>0, <1>1, <1>4, OwnerFacts DEF KycTypeOK
  <2>2. ASSUME pc[q] \in {"provider", "store"} PROVE StartOK(q)'
    <3>1. /\ kyc[s] = "none" /\ userLock[Owner[s]] = q /\ MayStart(Owner[s])
          /\ \A r \in Handlers \ {q} : about[r] # s
      BY <1>0, <1>1, <1>4, <2>2 DEF KycPlaceOK, StartOK
    <3>2. kyc'[s] = "none" /\ latest'[Owner[s]] = latest[Owner[s]]
      BY <1>1, <2>1, <3>1 DEF KycKept
    <3>3. userLock'[Owner[s]] = q
      BY <1>1, <2>1, <3>1 DEF MemoryKept, LocksKept2
    <3>4. MayStart(Owner[s])'
      <4>1. PICK u \in Users : u = Owner[s]
        BY <2>1
      <4>2. PICK t : t = latest[u]
        OBVIOUS
      <4>3. CASE t = NoSession
        BY <3>2, <4>1, <4>2, <4>3 DEF MayStart
      <4>4. CASE t # NoSession
        <5>1. t \in Sessions /\ Owner[t] = u
          BY <1>1, <4>2, <4>4 DEF KycTypeOK, RowsOK
        <5>2. kyc'[t] = kyc[t] /\ (t \in young' => t \in young)
          BY <1>1, <3>1, <4>1, <5>1 DEF KycKept
        <5> QED BY <3>1, <3>2, <4>1, <4>2, <4>4, <5>2 DEF MayStart, InProgress
      <4> QED BY <4>3, <4>4
    <3>5. \A r \in Handlers \ {q} : about'[r] # s
      <4>1. ASSUME NEW r \in Handlers \ {q}, r # p PROVE about'[r] # s
        BY <1>0, <3>1, <4>1 DEF KycKept
      <4>2. ASSUME p \in Handlers PROVE about'[p] # s
        BY <1>0, <1>1, <1>4, <3>1, <4>2 DEF KycKept
      <4> QED BY <4>1, <4>2
    <3> QED BY <1>2, <3>2, <3>3, <3>4, <3>5 DEF StartOK
  <2>3. pc[q] = "store" => s \in provider'
    BY <1>0, <1>1, <1>4 DEF KycPlaceOK, KycKept
  <2>4. ASSUME pc[q] \in {"wallets", "reach"} PROVE VerdictOK(q)'
    <3>1. kyc[s] # "none" /\ verdict[q] \in Verdicts
      BY <1>0, <1>1, <1>4, <2>4 DEF KycPlaceOK, VerdictOK
    <3> QED BY <1>2, <2>1, <3>1 DEF VerdictOK, KycKept
  <2> QED BY <1>0, <1>1, <1>2, <1>4, <2>2, <2>3, <2>4 DEF KycPlaceOK
<1> QED BY <1>3, <1>4

LEMMA VerificationNext ==
  ASSUME VerificationInv, NEW p, MemoryKept(p), KycKept(p), registered \subseteq registered',
         BonusInv', KycTypeOK', VerifiedBySession', RowsOK',
         p \in Handlers => KycPlaceOK(p)',
         p \in Crons => pc'[p] \notin {"provider", "store", "wallets", "reach"}
  PROVE  VerificationInv'
<1>1. \A q \in Handlers : KycPlaceOK(q)'
  BY KycPlacesKept
<1>2. \A q \in Crons : pc'[q] \notin {"provider", "store", "wallets", "reach"}
  BY ConstantFacts DEF VerificationInv, MemoryKept
<1>3. OneSessionAtATime'
  BY DEF RowsOK
<1> QED BY <1>1, <1>2, <1>3 DEF VerificationInv, SessionsInv

-----------------------------------------------------------------------------
(* The steps of Referral: of a handler of Kyc it is LockWallet alone.      *)
LEMMA StepMoves ==
  ASSUME BonusInv, NEW p \in Processes, Step(p)
  PROVE  /\ MemoryKept(p) /\ registered \subseteq registered'
         /\ \/ LockWallet(p)
            \/ /\ pc'[p] \notin {"provider", "store", "wallets", "reach"}
               /\ \/ pc[p] \notin {"provider", "store", "wallets", "reach"}
                  \/ pc[p] = "reach" /\ job[p].kind # "kyc_completed"
<1>t. TypeOK
  BY DEF BonusInv, RewardsInv
<1>e. ASSUME End(p) PROVE MemoryKept(p) /\ pc'[p] = "idle"
  BY <1>e, <1>t, EndFacts
<1>1. CASE InsertUser(p)
  <2>1. CASE Refuse(p)
    BY <1>1, <1>e, <2>1 DEF Refuse, tables, InsertUser
  <2>2. CASE /\ userLock' = [userLock EXCEPT ![job[p].user] = p] /\ userLock[job[p].user] = NoProc
             /\ pc' = [pc EXCEPT ![p] = IF job[p].code = 0 THEN "join" ELSE "referrer"]
             /\ UNCHANGED <<tables, claimLock, memory>>
    <3>1. job[p].user \in Users
      BY <1>1, JoiningFacts DEF InsertUser
    <3>2. MemoryKept(p)
      BY <1>t, <2>2, <3>1 DEF MemoryKept, LocksKept2, memory, TypeOK
    <3>3. pc'[p] \in {"join", "referrer"}
      BY <1>t, <2>2 DEF TypeOK
    <3> QED BY <1>1, <2>2, <3>2, <3>3 DEF InsertUser, tables
  <2> QED BY <1>1, <2>1, <2>2 DEF InsertUser, LockFree, Goto
<1>2. CASE LockReferrer(p)
  <2>1. CASE Refuse(p)
    BY <1>2, <1>e, <2>1 DEF Refuse, tables, LockReferrer
  <2>2. CASE /\ userLock' = [userLock EXCEPT ![job[p].code] = p] /\ userLock[job[p].code] = NoProc
             /\ pc' = [pc EXCEPT ![p] = "count paid"]
             /\ UNCHANGED <<tables, claimLock, memory>>
    <3>1. job[p].code \in Users
      BY <1>2, JoiningFacts DEF LockReferrer
    <3>2. MemoryKept(p) /\ pc'[p] = "count paid"
      BY <1>t, <2>2, <3>1 DEF MemoryKept, LocksKept2, memory, TypeOK
    <3> QED BY <1>2, <2>2, <3>2 DEF LockReferrer, tables
  <2> QED BY <1>2, <2>1, <2>2 DEF LockReferrer, LockFree, Goto
<1>3. CASE CountPaid(p) \/ CountPending(p)
  <2>1. PICK place \in {"count pending", "join"} :
          pc' = [pc EXCEPT ![p] = place] /\ \E n : count' = [count EXCEPT ![p] = n]
    BY <1>3 DEF CountPaid, CountPending, Goto
  <2>2. UNCHANGED <<tables, locks, job, read>> /\ pc[p] \in {"count paid", "count pending"}
    BY <1>3 DEF CountPaid, CountPending
  <2>3. MemoryKept(p) /\ pc'[p] = place
    BY <1>t, <2>1, <2>2 DEF MemoryKept, LocksKept2, locks, TypeOK
  <2> QED BY <2>2, <2>3 DEF tables
<1>4. CASE CommitRegister(p)
  BY <1>4, <1>e, RegisterFacts DEF CommitRegister
<1>5. CASE LockWallet(p)
  <2>1. PICK w \in Wallets(job[p].user) :
          /\ LockFree(userLock[w]) /\ userLock' = [userLock EXCEPT ![w] = p]
          /\ \/ \E n : count' = [count EXCEPT ![p] = n] /\ pc' = [pc EXCEPT ![p] = "reach"]
             \/ UNCHANGED <<pc, count>>
    BY <1>5 DEF LockWallet, Goto
  <2>2. UNCHANGED <<tables, claimLock, job, read>>
    BY <1>5 DEF LockWallet
  <2>3. w \in Users
    BY <1>t, <1>5, <2>1, ReachingFacts DEF Wallets, LockWallet, TypeOK
  <2>4. LocksKept2(p)
    BY <1>t, <2>1, <2>2, <2>3 DEF LocksKept2, LockFree, TypeOK
  <2>5. MemoryKept(p)
    BY <1>t, <2>1, <2>2, <2>4 DEF MemoryKept, TypeOK
  <2> QED BY <1>5, <2>2, <2>5 DEF tables
<1>6. CASE CommitMilestone(p)
  <2>1. pc[p] = "reach" /\ job[p].kind # "kyc_completed" /\ registered' = registered
    BY <1>6 DEF CommitMilestone
  <2>2. CASE End(p)
    BY <1>e, <2>1, <2>2
  <2>3. CASE /\ Release(p)
             /\ pc' = [pc EXCEPT ![p] = "claim"]
             /\ \E j : job' = [job EXCEPT ![p] = j]
    <3>1. LocksKept2(p)
      BY <1>t, <2>3 DEF LocksKept2, Release, ClaimReleased, TypeOK
    <3>2. MemoryKept(p) /\ pc'[p] = "claim"
      BY <1>t, <2>3, <3>1 DEF MemoryKept, Release, TypeOK
    <3> QED BY <2>1, <3>2
  <2> QED BY <1>6, <2>2, <2>3 DEF CommitMilestone, Goto
<1>7. CASE ClaimReward(p)
  <2>1. CASE Refuse(p)
    BY <1>7, <1>e, <2>1 DEF Refuse, tables, ClaimReward
  <2>2. CASE /\ claimLock' = [claimLock EXCEPT ![Event(p)] = p] /\ claimLock[Event(p)] = NoProc
             /\ pc' = [pc EXCEPT ![p] = "payee"]
             /\ UNCHANGED <<tables, userLock, memory>>
    <3>1. Event(p) \in Claims
      BY <1>7, PayingFacts DEF ClaimReward
    <3>2. MemoryKept(p) /\ pc'[p] = "payee"
      BY <1>t, <2>2, <3>1 DEF MemoryKept, LocksKept2, memory, TypeOK
    <3> QED BY <1>7, <2>2, <3>2 DEF ClaimReward, tables
  <2> QED BY <1>7, <2>1, <2>2 DEF ClaimReward, LockFree, Goto
<1>8. CASE LockPayee(p)
  <2> DEFINE w == Payee(Event(p))
  <2>1. /\ userLock[w] = NoProc /\ userLock' = [userLock EXCEPT ![w] = p]
        /\ read' = [read EXCEPT ![p] = points[w]]
        /\ pc' = [pc EXCEPT ![p] = "pay"] /\ pc[p] = "payee"
        /\ UNCHANGED <<tables, claimLock, job, count>>
    BY <1>8 DEF LockPayee, LockFree, Goto
  <2>2. w \in Users
    BY <2>1, PayingFacts
  <2> HIDE DEF w
  <2>3. MemoryKept(p) /\ pc'[p] = "pay"
    BY <1>t, <2>1, <2>2 DEF MemoryKept, LocksKept2, TypeOK
  <2> QED BY <2>1, <2>3 DEF tables
<1>9. CASE CommitPay(p)
  BY <1>9, <1>e DEF CommitPay
<1> QED BY <1>1, <1>2, <1>3, <1>4, <1>5, <1>6, <1>7, <1>8, <1>9 DEF Step, PayStep

(* A step that leaves the verifications alone. *)
LEMMA KycUntouched ==
  ASSUME VerificationInv, NEW p, UNCHANGED kycVars, MemoryKept(p),
         registered \subseteq registered', BonusInv',
         p \in Handlers => KycPlaceOK(p)',
         p \in Crons => pc'[p] \notin {"provider", "store", "wallets", "reach"}
  PROVE  VerificationInv'
<1>1. KycTypeOK /\ VerifiedBySession /\ RowsOK
  BY DEF VerificationInv, SessionsInv
<1>2. KycKept(p)
  BY DEF KycKept, kycVars
<1>3. KycTypeOK'
  BY <1>1 DEF KycTypeOK, kycVars, BonusInv, RewardsInv
<1>4. VerifiedBySession' /\ RowsOK'
  BY <1>1 DEF VerifiedBySession, RowsOK, OneSessionAtATime, InProgress, kycVars
<1> QED BY <1>2, <1>3, <1>4, VerificationNext

LEMMA ReferralStepKeeps ==
  ASSUME VerificationInv, NEW p \in Processes, Step(p), UNCHANGED kycVars
  PROVE  VerificationInv'
<1>1. BonusInv /\ KycTypeOK
  BY DEF VerificationInv, SessionsInv
<1>2. BonusInv' /\ MemoryKept(p) /\ registered \subseteq registered'
  BY <1>1, StepKeeps, StepMoves
<1>3. CASE LockWallet(p)
  <2>1. pc[p] = "wallets" /\ job' = job
    BY <1>3 DEF LockWallet
  <2>2. pc'[p] \in {"wallets", "reach"}
    BY <1>1, <1>3 DEF LockWallet, Goto, KycTypeOK, TypeOK
  <2>3. ASSUME p \in Handlers PROVE KycPlaceOK(p)'
    <3>1. KycPlaceOK(p) /\ about' = about /\ kyc' = kyc /\ verdict' = verdict
      BY <2>3 DEF VerificationInv, kycVars
    <3> QED BY <1>2, <2>1, <2>2, <3>1 DEF KycPlaceOK, VerdictOK
  <2>4. p \notin Crons
    BY <2>1 DEF VerificationInv
  <2> QED BY <1>2, <2>3, <2>4, KycUntouched
<1>4. CASE /\ pc'[p] \notin {"provider", "store", "wallets", "reach"}
           /\ \/ pc[p] \notin {"provider", "store", "wallets", "reach"}
              \/ pc[p] = "reach" /\ job[p].kind # "kyc_completed"
  <2>1. ASSUME p \in Handlers PROVE KycPlaceOK(p)'
    <3>1. about[p] = NoSession /\ about' = about
      BY <1>4, <2>1 DEF VerificationInv, KycPlaceOK, kycVars
    <3> QED BY <1>4, <3>1 DEF KycPlaceOK
  <2> QED BY <1>2, <1>4, <2>1, KycUntouched
<1> QED BY <1>1, <1>3, <1>4, StepMoves

LEMMA ReferralNextKeeps ==
  ASSUME VerificationInv, ReferralNext
  PROVE  VerificationInv'
<1>1. BonusInv /\ KycTypeOK /\ TypeOK /\ UNCHANGED kycVars
  BY DEF VerificationInv, SessionsInv, KycTypeOK, ReferralNext
<1>2. ASSUME NEW p \in Handlers, Arrive(p) PROVE VerificationInv'
  <2>1. p \in Processes /\ p \notin Crons
    BY ConstantsAssumption, ConstantFacts
  <2>2. PICK j, place :
          /\ Begin(p, j, place)
          /\ place = "insert" \/ (place = "wallets" /\ j.kind # "kyc_completed")
    <3>1. PICK u \in Users :
            RegisterUser(p, u) \/ GoogleLogin(p, u) \/ \E k \in Milestones : Milestone(p, u, k)
      BY <1>2 DEF Arrive
    <3>2. CASE RegisterUser(p, u) \/ GoogleLogin(p, u)
      BY <3>2 DEF RegisterUser, GoogleLogin
    <3>3. ASSUME NEW k \in Milestones, Milestone(p, u, k)
          PROVE  \E j : Begin(p, j, "wallets") /\ j.kind # "kyc_completed"
      <4> DEFINE j == [user |-> u, kind |-> k, code |-> referredBy[u]]
      <4>1. Begin(p, j, "wallets") /\ j.kind = k /\ k # "kyc_completed"
        BY <3>3 DEF Milestone
      <4> HIDE DEF j
      <4> QED BY <4>1
    <3> QED BY <3>1, <3>2, <3>3
  <2>3. /\ pc[p] = "idle" /\ pc' = [pc EXCEPT ![p] = place] /\ job' = [job EXCEPT ![p] = j]
        /\ UNCHANGED <<tables, locks, count, read>>
    BY <2>2 DEF Begin
  <2>4. MemoryKept(p) /\ registered \subseteq registered'
    BY <1>1, <2>3 DEF MemoryKept, LocksKept2, TypeOK, tables, locks
  <2>5. KycPlaceOK(p)'
    <3>1. about[p] = NoSession /\ about' = about
      BY <1>1, <2>3 DEF VerificationInv, KycPlaceOK, kycVars
    <3>2. pc'[p] = place /\ job'[p] = j
      BY <1>1, <2>1, <2>3 DEF TypeOK
    <3> QED BY <2>2, <3>1, <3>2 DEF KycPlaceOK
  <2>6. BonusInv'
    BY <1>1, <1>2, <2>1, ArriveStep
  <2> QED BY <1>1, <2>1, <2>4, <2>5, <2>6, KycUntouched
<1>3. ASSUME NEW p \in Crons, Scan(p) PROVE VerificationInv'
  <2>1. p \in Processes /\ p \notin Handlers
    BY ConstantsAssumption, ConstantFacts
  <2>2. PICK j : Begin(p, j, "claim")
    BY <1>3 DEF Scan, ScanPending
  <2>3. /\ pc' = [pc EXCEPT ![p] = "claim"] /\ job' = [job EXCEPT ![p] = j]
        /\ UNCHANGED <<tables, locks, count, read>>
    BY <2>2 DEF Begin
  <2>4. MemoryKept(p) /\ registered \subseteq registered' /\ pc'[p] = "claim"
    BY <1>1, <2>1, <2>3 DEF MemoryKept, LocksKept2, TypeOK, tables, locks
  <2>5. BonusInv'
    BY <1>1, <1>3, <2>1, ScanStep
  <2> QED BY <1>1, <2>1, <2>4, <2>5, KycUntouched
<1>4. ASSUME NEW p \in Processes, Fail(p), p \in Handlers => about[p] = NoSession
      PROVE  VerificationInv'
  <2>1. MemoryKept(p) /\ pc'[p] = "idle" /\ registered \subseteq registered'
    BY <1>1, <1>4, EndFacts DEF Fail, Refuse, tables
  <2>2. p \in Handlers => KycPlaceOK(p)'
    BY <1>1, <1>4, <2>1 DEF KycPlaceOK, kycVars
  <2>3. BonusInv'
    BY <1>1, <1>4, FailStep
  <2> QED BY <1>1, <2>1, <2>2, <2>3, KycUntouched
<1>5. ASSUME NEW p \in Crons, Fail(p) PROVE VerificationInv'
  <2>1. p \in Processes /\ p \notin Handlers
    BY ConstantsAssumption, ConstantFacts
  <2> QED BY <1>4, <1>5, <2>1
<1>6. ASSUME NEW p \in Handlers, about[p] = NoSession, Fail(p) PROVE VerificationInv'
  BY <1>4, <1>6, ConstantFacts
<1>7. ASSUME NEW p \in Processes, Step(p) PROVE VerificationInv'
  BY <1>1, <1>7, ReferralStepKeeps
<1> QED BY <1>2, <1>3, <1>5, <1>6, <1>7 DEF ReferralNext

-----------------------------------------------------------------------------
(* The steps of a verification.                                            *)
LEMMA EnterFacts ==
  ASSUME VerificationInv, NEW p \in Handlers, NEW s \in Sessions,
         NEW v \in Verdicts \cup {"none"}, NEW place \in {"provider", "wallets"},
         KycEnter(p, s, v, place), UNCHANGED fails, Owner[s] \in registered,
         userLock' \in [Users -> Processes \cup {NoProc}],
         \A u \in Users : userLock'[u] # userLock[u] => userLock[u] = NoProc /\ userLock'[u] = p
  PROVE  /\ BonusInv' /\ MemoryKept(p)
         /\ pc'[p] = place /\ about'[p] = s /\ verdict'[p] = v
         /\ job'[p].user = Owner[s] /\ job'[p].kind = "kyc_completed"
         /\ \A q \in Handlers \ {p} : about'[q] = about[q] /\ verdict'[q] = verdict[q]
         /\ about' \in [Handlers -> Sessions \cup {NoSession}]
         /\ verdict' \in [Handlers -> Verdicts \cup {"none"}]
         /\ UNCHANGED <<tables, kyc, latest, young, kycStatus, provider, reopened>>
<1>1. BonusInv /\ KycTypeOK /\ TypeOK /\ p \in Processes /\ p \notin Crons
  BY ConstantsAssumption, ConstantFacts DEF VerificationInv, SessionsInv, KycTypeOK
<1>2. PICK j : j = [user |-> Owner[s], kind |-> "kyc_completed", code |-> referredBy[Owner[s]]]
  OBVIOUS
<1>3. /\ pc' = [pc EXCEPT ![p] = place] /\ job' = [job EXCEPT ![p] = j]
      /\ about' = [about EXCEPT ![p] = s] /\ verdict' = [verdict EXCEPT ![p] = v]
      /\ UNCHANGED <<tables, claimLock, count, read, kyc, latest, young, kycStatus, provider, reopened>>
  BY <1>2 DEF KycEnter, Goto
<1>4. /\ j \in Job /\ j.user = Owner[s] /\ j.kind = "kyc_completed"
      /\ j.code = referredBy[Owner[s]] /\ <<j.user, j.kind>> \in Goals
  <2>1. referredBy[Owner[s]] \in Users \cup {0}
    BY <1>1, OwnerFacts DEF TypeOK
  <2> QED BY <1>2, <2>1, OwnerFacts DEF Job
<1>5. BonusInv'
  <2>1. place \in Places
    BY DEF Places
  <2>2. UNCHANGED <<tables, claimLock, count, read, fails>>
    BY <1>3
  <2> QED BY <1>1, <1>3, <1>4, <2>1, <2>2, BeginStep
<1>6. MemoryKept(p)
  BY <1>1, <1>3 DEF MemoryKept, LocksKept2, TypeOK
<1>7. pc'[p] = place /\ job'[p] = j /\ about'[p] = s /\ verdict'[p] = v
  BY <1>1, <1>3 DEF TypeOK, KycTypeOK
<1>8. /\ \A q \in Handlers \ {p} : about'[q] = about[q] /\ verdict'[q] = verdict[q]
      /\ about' \in [Handlers -> Sessions \cup {NoSession}]
      /\ verdict' \in [Handlers -> Verdicts \cup {"none"}]
  BY <1>1, <1>3 DEF KycTypeOK
<1> QED BY <1>3, <1>4, <1>5, <1>6, <1>7, <1>8

(* What a handler that enters or goes on leaves as it was. *)
LEMMA RowsUntouched ==
  ASSUME VerificationInv, BonusInv', UNCHANGED <<tables, kyc, latest, kycStatus, reopened>>,
         young' \subseteq young, provider \subseteq provider', provider' \subseteq Sessions,
         about' \in [Handlers -> Sessions \cup {NoSession}],
         verdict' \in [Handlers -> Verdicts \cup {"none"}],
         sessionLock' \in [Sessions -> Handlers \cup {NoProc}]
  PROVE  KycTypeOK' /\ VerifiedBySession' /\ RowsOK'
<1>1. KycTypeOK /\ VerifiedBySession /\ RowsOK
  BY DEF VerificationInv, SessionsInv
<1>2. KycTypeOK'
  BY <1>1 DEF KycTypeOK, BonusInv, RewardsInv
<1>3. VerifiedBySession'
  BY <1>1 DEF VerifiedBySession
<1>4. RowsOK'
  BY <1>1 DEF RowsOK, OneSessionAtATime, InProgress, tables
<1> QED BY <1>2, <1>3, <1>4

LEMMA StartStep ==
  ASSUME VerificationInv, NEW p \in Handlers, NEW s \in Sessions,
         StartKYCSession(p, s), UNCHANGED fails
  PROVE  VerificationInv'
<1>1. BonusInv /\ KycTypeOK /\ TypeOK /\ p \in Processes /\ p \notin Crons
      /\ Owner[s] \in Users
  BY ConstantsAssumption, ConstantFacts, OwnerFacts DEF VerificationInv, SessionsInv, KycTypeOK
<1>2. /\ Owner[s] \in registered /\ s \notin provider /\ \A q \in Handlers : about[q] # s
      /\ userLock[Owner[s]] = NoProc /\ MayStart(Owner[s])
      /\ userLock' = [userLock EXCEPT ![Owner[s]] = p] /\ UNCHANGED sessionLock
  BY DEF StartKYCSession, LockFree
<1>3. KycEnter(p, s, "none", "provider")
  BY DEF StartKYCSession
<1>4. /\ userLock' \in [Users -> Processes \cup {NoProc}] /\ userLock'[Owner[s]] = p
      /\ \A u \in Users : userLock'[u] # userLock[u] => userLock[u] = NoProc /\ userLock'[u] = p
  BY <1>1, <1>2 DEF TypeOK
<1>5. /\ BonusInv' /\ MemoryKept(p)
      /\ pc'[p] = "provider" /\ about'[p] = s /\ verdict'[p] = "none"
      /\ job'[p].user = Owner[s] /\ job'[p].kind = "kyc_completed"
      /\ \A q \in Handlers \ {p} : about'[q] = about[q] /\ verdict'[q] = verdict[q]
      /\ about' \in [Handlers -> Sessions \cup {NoSession}]
      /\ verdict' \in [Handlers -> Verdicts \cup {"none"}]
      /\ UNCHANGED <<tables, kyc, latest, young, kycStatus, provider, reopened>>
  <2>1. PICK v \in Verdicts \cup {"none"} : v = "none"
    OBVIOUS
  <2>2. PICK place \in {"provider", "wallets"} : place = "provider"
    OBVIOUS
  <2> QED BY <1>2, <1>3, <1>4, <2>1, <2>2, EnterFacts
<1>6. KycKept(p)
  BY <1>2, <1>5 DEF KycKept
<1>7. KycTypeOK' /\ VerifiedBySession' /\ RowsOK'
  BY <1>1, <1>2, <1>5, RowsUntouched DEF KycTypeOK
<1>8. KycPlaceOK(p)'
  <2>1. kyc[s] = "none"
    BY <1>2 DEF VerificationInv, RowsOK
  <2>2. StartOK(p)'
    <3>1. MayStart(Owner[s])'
      BY <1>2, <1>5 DEF MayStart, InProgress
    <3>2. MayStart(Owner[about[p]])'
      BY <1>5, <3>1 DEF MayStart, InProgress
    <3> QED BY <1>2, <1>4, <1>5, <2>1, <3>2 DEF StartOK
  <2> QED BY <1>2, <1>5, <2>2, OwnerFacts DEF KycPlaceOK, tables
<1> QED BY <1>1, <1>5, <1>6, <1>7, <1>8, VerificationNext DEF tables

LEMMA WebhookStep ==
  ASSUME VerificationInv, NEW p \in Handlers, NEW s \in Sessions, NEW v \in Verdicts,
         HypervergeWebhook(p, s, v), UNCHANGED fails
  PROVE  VerificationInv'
<1>1. BonusInv /\ KycTypeOK /\ TypeOK /\ RowsOK /\ p \in Processes /\ p \notin Crons
  BY ConstantsAssumption, ConstantFacts DEF VerificationInv, SessionsInv, KycTypeOK
<1>2. /\ kyc[s] # "none" /\ sessionLock' = [sessionLock EXCEPT ![s] = p] /\ UNCHANGED userLock
      /\ KycEnter(p, s, v, "wallets")
  BY DEF HypervergeWebhook
<1>3. Owner[s] \in registered
  BY <1>1, <1>2 DEF RowsOK
<1>4. userLock' \in [Users -> Processes \cup {NoProc}]
  BY <1>1, <1>2 DEF TypeOK
<1>5. /\ BonusInv' /\ MemoryKept(p)
      /\ pc'[p] = "wallets" /\ about'[p] = s /\ verdict'[p] = v
      /\ job'[p].user = Owner[s] /\ job'[p].kind = "kyc_completed"
      /\ \A q \in Handlers \ {p} : about'[q] = about[q] /\ verdict'[q] = verdict[q]
      /\ about' \in [Handlers -> Sessions \cup {NoSession}]
      /\ verdict' \in [Handlers -> Verdicts \cup {"none"}]
      /\ UNCHANGED <<tables, kyc, latest, young, kycStatus, provider, reopened>>
  <2>1. PICK w \in Verdicts \cup {"none"} : w = v
    OBVIOUS
  <2>2. PICK place \in {"provider", "wallets"} : place = "wallets"
    OBVIOUS
  <2> QED BY <1>2, <1>3, <1>4, <2>1, <2>2, EnterFacts
<1>6. KycKept(p)
  BY <1>2, <1>5 DEF KycKept
<1>7. KycTypeOK' /\ VerifiedBySession' /\ RowsOK'
  <2>1. sessionLock' \in [Sessions -> Handlers \cup {NoProc}]
    BY <1>1, <1>2 DEF KycTypeOK
  <2> QED BY <1>1, <1>5, <2>1, RowsUntouched DEF KycTypeOK
<1>8. KycPlaceOK(p)'
  <2>1. VerdictOK(p)'
    BY <1>2, <1>5 DEF VerdictOK
  <2>2. registered' = registered
    BY <1>5 DEF tables
  <2> QED BY <1>3, <1>5, <2>1, <2>2, OwnerFacts DEF KycPlaceOK
<1> QED BY <1>1, <1>5, <1>6, <1>7, <1>8, VerificationNext DEF tables

LEMMA KycEndFacts ==
  ASSUME VerificationInv, NEW p \in Handlers, KycEnd(p)
  PROVE  /\ End(p) /\ MemoryKept(p) /\ pc'[p] = "idle" /\ about'[p] = NoSession
         /\ KycPlaceOK(p)'
         /\ \A q \in Handlers \ {p} : about'[q] = about[q] /\ verdict'[q] = verdict[q]
         /\ about' \in [Handlers -> Sessions \cup {NoSession}]
         /\ verdict' \in [Handlers -> Verdicts \cup {"none"}]
         /\ sessionLock' \in [Sessions -> Handlers \cup {NoProc}]
<1>1. KycTypeOK /\ TypeOK /\ p \in Processes
  BY ConstantFacts DEF VerificationInv, SessionsInv, KycTypeOK
<1>2. /\ End(p) /\ about' = [about EXCEPT ![p] = NoSession]
      /\ verdict' = [verdict EXCEPT ![p] = "none"]
      /\ sessionLock' = [s \in Sessions |-> IF sessionLock[s] = p THEN NoProc ELSE sessionLock[s]]
  BY DEF KycEnd
<1>3. MemoryKept(p) /\ pc'[p] = "idle"
  BY <1>1, <1>2, EndFacts
<1>4. /\ about'[p] = NoSession
      /\ \A q \in Handlers \ {p} : about'[q] = about[q] /\ verdict'[q] = verdict[q]
      /\ about' \in [Handlers -> Sessions \cup {NoSession}]
      /\ verdict' \in [Handlers -> Verdicts \cup {"none"}]
      /\ sessionLock' \in [Sessions -> Handlers \cup {NoProc}]
  BY <1>1, <1>2 DEF KycTypeOK
<1>5. KycPlaceOK(p)'
  BY <1>3, <1>4 DEF KycPlaceOK
<1> QED BY <1>2, <1>3, <1>4, <1>5

(* Giving up, after the provider has been called or before.                *)
LEMMA GiveUp ==
  ASSUME VerificationInv, NEW p \in Handlers, KycEnd(p), fails' \in 0..MaxFails,
         UNCHANGED <<tables, kyc, latest, young, kycStatus, reopened>>,
         provider \subseteq provider', provider' \subseteq Sessions
  PROVE  VerificationInv'
<1>1. BonusInv /\ p \in Processes /\ p \notin Crons
  BY ConstantsAssumption, ConstantFacts DEF VerificationInv
<1>2. /\ End(p) /\ MemoryKept(p) /\ about'[p] = NoSession /\ KycPlaceOK(p)'
      /\ \A q \in Handlers \ {p} : about'[q] = about[q] /\ verdict'[q] = verdict[q]
      /\ about' \in [Handlers -> Sessions \cup {NoSession}]
      /\ verdict' \in [Handlers -> Verdicts \cup {"none"}]
      /\ sessionLock' \in [Sessions -> Handlers \cup {NoProc}]
  BY KycEndFacts
<1>3. BonusInv'
  BY <1>1, <1>2, RefuseStep DEF Refuse
<1>4. KycKept(p)
  BY <1>2 DEF KycKept
<1>5. KycTypeOK' /\ VerifiedBySession' /\ RowsOK'
  BY <1>2, <1>3, RowsUntouched
<1> QED BY <1>1, <1>2, <1>3, <1>4, <1>5, VerificationNext DEF tables

LEMMA KycFailStep ==
  ASSUME VerificationInv, NEW p \in Handlers, KycFail(p)
  PROVE  VerificationInv'
<1>1. provider \subseteq Sessions /\ fails \in 0..MaxFails
  BY DEF VerificationInv, SessionsInv, KycTypeOK, TypeOK
<1>2. fails' \in 0..MaxFails
  BY <1>1, ConstantFacts DEF KycFail
<1> QED BY <1>1, <1>2, GiveUp DEF KycFail, KycRefuse

LEMMA CallProviderStep ==
  ASSUME VerificationInv, NEW p \in Handlers, CallProvider(p), UNCHANGED fails
  PROVE  VerificationInv'
<1>1. BonusInv /\ KycTypeOK /\ TypeOK /\ p \in Processes /\ p \notin Crons /\ KycPlaceOK(p)
      /\ PlaceOK(p)
  BY ConstantsAssumption, ConstantFacts DEF VerificationInv, SessionsInv, KycTypeOK, BonusInv
<1>2. PICK s : s = about[p]
  OBVIOUS
<1>3. /\ pc[p] = "provider" /\ s # NoSession /\ s \in Sessions /\ StartOK(p)
      /\ job[p].user = Owner[s] /\ job[p].kind = "kyc_completed" /\ Owner[s] \in registered
      /\ job[p] \in Job
  BY <1>1, <1>2 DEF CallProvider, KycPlaceOK, KycTypeOK, PlaceOK
<1>4. CASE KycEnd(p)
  <2>1. provider \subseteq provider' /\ provider' \subseteq Sessions
        /\ UNCHANGED <<tables, kyc, latest, young, kycStatus, reopened>> /\ fails' \in 0..MaxFails
    BY <1>1, <1>2, <1>3 DEF CallProvider, KycTypeOK, TypeOK
  <2> QED BY <1>4, <2>1, GiveUp
<1>5. CASE /\ provider' = provider \cup {s}
           /\ Goto(p, "store")
           /\ UNCHANGED <<tables, locks, memory, kyc, latest, young, kycStatus,
                          sessionLock, about, verdict, reopened>>
  <2>1. pc' = [pc EXCEPT ![p] = "store"] /\ pc'[p] = "store"
    BY <1>1, <1>5 DEF Goto, TypeOK
  <2>2. MemoryKept(p)
    BY <1>1, <1>5, <2>1 DEF MemoryKept, LocksKept2, TypeOK, locks, memory
  <2>3. PlaceOK(p)'
    BY <1>3, <1>5, <2>1 DEF PlaceOK, memory
  <2>4. TypeOK'
    BY <1>1, <1>5, <2>1 DEF TypeOK, Places, tables, locks, memory
  <2>5. BonusInv'
    BY <1>1, <1>5, <2>2, <2>3, <2>4, QuietStep
  <2>6. KycKept(p)
    BY <1>5 DEF KycKept
  <2>7. KycTypeOK' /\ VerifiedBySession' /\ RowsOK'
    BY <1>1, <1>3, <1>5, <2>5, RowsUntouched DEF KycTypeOK
  <2>8. StartOK(p)'
    BY <1>3, <1>5 DEF StartOK, MayStart, InProgress, locks
  <2>9. KycPlaceOK(p)'
    BY <1>2, <1>3, <1>5, <2>1, <2>8 DEF KycPlaceOK, memory, tables
  <2> QED BY <1>1, <1>5, <2>2, <2>5, <2>6, <2>7, <2>9, VerificationNext DEF tables
<1> QED BY <1>2, <1>4, <1>5 DEF CallProvider

(* The session stored is the only recent one its user has to be decided:   *)
(* the lock was held and no other could be stored since MayStart held.     *)
LEMMA StoreSessionStep ==
  ASSUME VerificationInv, NEW p \in Handlers, StoreSession(p), UNCHANGED fails
  PROVE  VerificationInv'
<1>1. /\ BonusInv /\ KycTypeOK /\ TypeOK /\ VerifiedBySession /\ RowsOK
      /\ p \in Processes /\ p \notin Crons /\ KycPlaceOK(p)
  BY ConstantsAssumption, ConstantFacts DEF VerificationInv, SessionsInv, KycTypeOK
<1>2. PICK s : s = about[p]
  OBVIOUS
<1>3. /\ pc[p] = "store" /\ s # NoSession /\ s \in Sessions /\ StartOK(p) /\ s \in provider
      /\ Owner[s] \in registered /\ Owner[s] \in Users
  BY <1>1, <1>2, OwnerFacts DEF StoreSession, KycPlaceOK, KycTypeOK
<1>4. kyc[s] = "none" /\ userLock[Owner[s]] = p /\ MayStart(Owner[s])
  BY <1>2, <1>3 DEF StartOK
<1>5. /\ kyc' = [kyc EXCEPT ![s] = "Started"] /\ latest' = [latest EXCEPT ![Owner[s]] = s]
      /\ young' = young \cup {s} /\ KycEnd(p) /\ UNCHANGED <<tables, kycStatus, provider, reopened>>
  BY <1>2 DEF StoreSession
<1>6. /\ End(p) /\ MemoryKept(p) /\ about'[p] = NoSession /\ KycPlaceOK(p)'
      /\ \A q \in Handlers \ {p} : about'[q] = about[q] /\ verdict'[q] = verdict[q]
      /\ about' \in [Handlers -> Sessions \cup {NoSession}]
      /\ verdict' \in [Handlers -> Verdicts \cup {"none"}]
      /\ sessionLock' \in [Sessions -> Handlers \cup {NoProc}]
  BY <1>5, KycEndFacts
<1>7. BonusInv'
  <2>1. fails' \in 0..MaxFails
    BY <1>1 DEF TypeOK
  <2> QED BY <1>1, <1>5, <1>6, <2>1, RefuseStep DEF Refuse
<1>8. /\ \A t \in Sessions : kyc'[t] = IF t = s THEN "Started" ELSE kyc[t]
      /\ \A u \in Users : latest'[u] = IF u = Owner[s] THEN s ELSE latest[u]
      /\ kyc' \in [Sessions -> Statuses] /\ latest' \in [Users -> Sessions \cup {NoSession}]
  BY <1>1, <1>3, <1>5 DEF KycTypeOK, Statuses
<1>9. KycKept(p)
  BY <1>4, <1>5, <1>6, <1>8 DEF KycKept
<1>10. KycTypeOK'
  BY <1>1, <1>3, <1>5, <1>6, <1>7, <1>8 DEF KycTypeOK, BonusInv, RewardsInv
<1>11. VerifiedBySession'
  <2>1. \A t \in Sessions : kyc'[t] = "Verified" <=> kyc[t] = "Verified"
    BY <1>4, <1>8
  <2> QED BY <1>1, <1>5, <2>1 DEF VerifiedBySession
<1>12. RowsOK'
  <2>1. ASSUME NEW t \in young', kyc'[t] \in {"Started", "Pending"}
        PROVE  latest'[Owner[t]] = t \/ (kyc'[t] = "Pending" /\ t \in reopened')
    <3>1. CASE t = s
      BY <1>3, <1>8, <3>1
    <3>2. CASE t # s
      <4>1. /\ t \in young /\ t \in Sessions /\ Owner[t] \in Users
            /\ InProgress(t) /\ kyc'[t] = kyc[t]
        BY <1>1, <1>5, <1>8, <2>1, <3>2, OwnerFacts DEF KycTypeOK, InProgress
      <4>2. CASE latest[Owner[t]] = t
        <5>1. Owner[t] # Owner[s]
          BY <1>4, <4>1, <4>2, OwnerFacts DEF MayStart
        <5> QED BY <1>8, <4>1, <4>2, <5>1
      <4>3. CASE kyc[t] = "Pending" /\ t \in reopened
        BY <1>5, <4>1, <4>3
      <4> QED BY <1>1, <4>1, <4>2, <4>3 DEF RowsOK, OneSessionAtATime
    <3> QED BY <3>1, <3>2
  <2>2. \A t \in Sessions : kyc'[t] # "none" => t \in provider' /\ Owner[t] \in registered'
    BY <1>1, <1>3, <1>5, <1>8 DEF RowsOK, tables
  <2>3. \A u \in Users : latest'[u] # NoSession => Owner[latest'[u]] = u
    BY <1>1, <1>8 DEF RowsOK
  <2> QED BY <2>1, <2>2, <2>3 DEF RowsOK, OneSessionAtATime, InProgress
<1> QED BY <1>1, <1>5, <1>6, <1>7, <1>9, <1>10, <1>11, <1>12, VerificationNext DEF tables

LEMMA VerdictFacts ==
  ASSUME NEW v \in Verdicts
  PROVE  /\ StatusOf(v) \in {"Verified", "Rejected", "Pending"}
         /\ StatusOf(v) = "Verified" <=> v = "auto_approved"
BY DEF StatusOf, Verdicts

LEMMA CommitVerdictStep ==
  ASSUME VerificationInv, NEW p \in Handlers, CommitVerdict(p), UNCHANGED fails
  PROVE  VerificationInv'
<1>1. /\ BonusInv /\ KycTypeOK /\ TypeOK /\ VerifiedBySession /\ RowsOK
      /\ p \in Processes /\ p \notin Crons /\ KycPlaceOK(p)
      /\ provider \subseteq Sessions /\ fails' \in 0..MaxFails
  BY ConstantsAssumption, ConstantFacts DEF VerificationInv, SessionsInv, KycTypeOK, TypeOK
<1>2. PICK s : s = about[p]
  OBVIOUS
<1>3. /\ pc[p] = "reach" /\ s # NoSession /\ s \in Sessions /\ VerdictOK(p)
      /\ job[p].user = Owner[s] /\ Owner[s] \in Users
  BY <1>1, <1>2, OwnerFacts DEF CommitVerdict, KycPlaceOK, KycTypeOK
<1>4. kyc[s] # "none" /\ verdict[p] \in Verdicts
  BY <1>2, <1>3 DEF VerdictOK
<1>5. userLock[Owner[s]] = p
  BY <1>1, <1>3, ReachingFacts DEF Reaching
<1>6. CASE ~Open(s)
  <2>1. KycRefuse(p)
    BY <1>2, <1>6 DEF CommitVerdict
  <2> QED BY <1>1, <2>1, GiveUp DEF KycRefuse
<1>7. CASE Open(s)
  <2>1. /\ kyc' = [kyc EXCEPT ![s] = StatusOf(verdict[p])]
        /\ reopened' = IF PutBack(s, verdict[p]) THEN reopened \cup {s} ELSE reopened
        /\ IF verdict[p] = "auto_approved"
             THEN kycStatus' = kycStatus \cup {Owner[s]} /\ CreateEvent(p)
             ELSE UNCHANGED <<kycStatus, reached, claim>>
        /\ KycEnd(p)
        /\ UNCHANGED <<registered, referredBy, points, latest, young, provider>>
    BY <1>2, <1>7 DEF CommitVerdict
  <2>2. /\ End(p) /\ MemoryKept(p) /\ about'[p] = NoSession /\ KycPlaceOK(p)'
        /\ \A q \in Handlers \ {p} : about'[q] = about[q] /\ verdict'[q] = verdict[q]
        /\ about' \in [Handlers -> Sessions \cup {NoSession}]
        /\ verdict' \in [Handlers -> Verdicts \cup {"none"}]
        /\ sessionLock' \in [Sessions -> Handlers \cup {NoProc}]
    BY <2>1, KycEndFacts
  <2>3. BonusInv'
    <3>1. CASE verdict[p] = "auto_approved"
      BY <1>1, <1>3, <2>1, <2>2, <3>1, EventEnds
    <3>2. CASE verdict[p] # "auto_approved"
      BY <1>1, <2>1, <2>2, <3>2, RefuseStep DEF Refuse, tables
    <3> QED BY <3>1, <3>2
  <2>4. PICK status : status = StatusOf(verdict[p])
    OBVIOUS
  <2>5. status \in {"Verified", "Rejected", "Pending"} /\ (status = "Verified" <=> verdict[p] = "auto_approved")
    BY <1>4, <2>4, VerdictFacts
  <2>6. /\ \A t \in Sessions : kyc'[t] = IF t = s THEN status ELSE kyc[t]
        /\ kyc' \in [Sessions -> Statuses] /\ kyc[s] # "Verified"
    BY <1>1, <1>3, <1>7, <2>1, <2>4, <2>5 DEF KycTypeOK, Statuses, Open
  <2>7. KycKept(p)
    BY <1>5, <2>1, <2>2, <2>5, <2>6 DEF KycKept
  <2>8. KycTypeOK'
    <3>1. kycStatus' \subseteq Users
      BY <1>1, <1>3, <2>1 DEF KycTypeOK
    <3>2. reopened' \subseteq Sessions
      BY <1>1, <1>3, <2>1 DEF KycTypeOK
    <3> QED BY <1>1, <2>1, <2>2, <2>3, <2>6, <3>1, <3>2 DEF KycTypeOK, BonusInv, RewardsInv
  <2>9. VerifiedBySession'
    <3>1. \A t \in Sessions : kyc'[t] = "Verified" <=>
            kyc[t] = "Verified" \/ (t = s /\ verdict[p] = "auto_approved")
      BY <2>5, <2>6
    <3>2. \A u \in Users : u \in kycStatus' <=>
            u \in kycStatus \/ (u = Owner[s] /\ verdict[p] = "auto_approved")
      BY <2>1
    <3> QED BY <1>1, <1>3, <3>1, <3>2 DEF VerifiedBySession
  <2>10. RowsOK'
    <3>1. \A t \in Sessions : kyc'[t] # "none" => t \in provider' /\ Owner[t] \in registered'
      BY <1>1, <1>4, <2>1, <2>6 DEF RowsOK
    <3>2. reopened \subseteq reopened' /\ (PutBack(s, verdict[p]) => s \in reopened')
      BY <2>1
    <3>3. ASSUME NEW t \in young', kyc'[t] \in {"Started", "Pending"}
          PROVE  latest'[Owner[t]] = t \/ (kyc'[t] = "Pending" /\ t \in reopened')
      <4>1. t \in young /\ t \in Sessions /\ latest' = latest
        BY <1>1, <2>1 DEF KycTypeOK
      <4>2. CASE t # s
        <5>1. kyc'[t] = kyc[t] /\ InProgress(t)
          BY <2>6, <3>3, <4>1, <4>2 DEF InProgress
        <5> QED BY <1>1, <3>2, <4>1, <5>1 DEF RowsOK, OneSessionAtATime
      <4>3. CASE t = s
        <5>1. status = "Pending" /\ verdict[p] = "needs_review"
          BY <1>4, <2>4, <2>6, <3>3, <4>1, <4>3 DEF StatusOf, Verdicts
        <5>2. kyc[s] = "Rejected" \/ InProgress(s)
          BY <1>1, <1>3, <1>4, <2>6 DEF KycTypeOK, Statuses, InProgress
        <5>3. CASE kyc[s] = "Rejected"
          BY <2>6, <3>2, <4>1, <4>3, <5>1, <5>3 DEF PutBack
        <5>4. CASE InProgress(s)
          BY <1>1, <2>6, <3>2, <4>1, <4>3, <5>1, <5>4 DEF RowsOK, OneSessionAtATime
        <5> QED BY <5>2, <5>3, <5>4
      <4> QED BY <4>2, <4>3
    <3> QED BY <1>1, <2>1, <3>1, <3>3 DEF RowsOK, OneSessionAtATime, InProgress
  <2> QED BY <1>1, <2>1, <2>2, <2>3, <2>7, <2>8, <2>9, <2>10, VerificationNext
<1> QED BY <1>6, <1>7

(* 24 hours pass, or nothing happens: no process moves. *)
LEMMA NobodyMoves ==
  ASSUME VerificationInv, UNCHANGED vars, young' \subseteq young,
         UNCHANGED <<kyc, latest, kycStatus, provider, sessionLock, about, verdict, reopened>>
  PROVE  VerificationInv'
<1>1. KycTypeOK /\ BonusInv
  BY DEF VerificationInv, SessionsInv
<1>2. BonusInv'
  BY <1>1, BonusInvUnchanged
<1>3. KycTypeOK' /\ VerifiedBySession' /\ RowsOK'
  BY <1>1, <1>2, RowsUntouched DEF KycTypeOK, vars
<1>4. MemoryKept(NoProc) /\ registered \subseteq registered'
  BY DEF MemoryKept, LocksKept2, vars, tables, locks, memory
<1>5. KycKept(NoProc) /\ NoProc \notin Handlers /\ NoProc \notin Crons
  BY ConstantFacts DEF KycKept
<1> QED BY <1>2, <1>3, <1>4, <1>5, VerificationNext

LEMMA VerificationInvStep == VerificationInv /\ [KycNext]_allVars => VerificationInv'
<1> SUFFICES ASSUME VerificationInv, [KycNext]_allVars PROVE VerificationInv'
  OBVIOUS
<1>1. CASE ReferralNext
  BY <1>1, ReferralNextKeeps
<1>2. ASSUME NEW p \in Handlers, KycFail(p) PROVE VerificationInv'
  BY <1>2, KycFailStep
<1>3. ASSUME NEW s \in Sessions, Age(s), UNCHANGED fails PROVE VerificationInv'
  BY <1>3, NobodyMoves DEF Age, vars
<1>4. ASSUME NEW p \in Handlers, KycArrive(p), UNCHANGED fails PROVE VerificationInv'
  BY <1>4, StartStep, WebhookStep DEF KycArrive
<1>5. ASSUME NEW p \in Handlers, KycStep(p), UNCHANGED fails PROVE VerificationInv'
  BY <1>5, CallProviderStep, StoreSessionStep, CommitVerdictStep DEF KycStep
<1>6. CASE UNCHANGED allVars
  BY <1>6, NobodyMoves DEF allVars, kycVars
<1> QED BY <1>1, <1>2, <1>3, <1>4, <1>5, <1>6 DEF KycNext

LEMMA VerificationInvInit == KycInit => VerificationInv
<1> SUFFICES ASSUME KycInit PROVE VerificationInv
  OBVIOUS
<1>1. BonusInv
  BY BonusInvInit DEF KycInit
<1>2. KycTypeOK
  BY <1>1 DEF KycInit, KycTypeOK, Statuses, BonusInv, RewardsInv
<1>3. VerifiedBySession /\ OneSessionAtATime /\ RowsOK
  BY DEF KycInit, VerifiedBySession, OneSessionAtATime, RowsOK
<1>4. \A p \in Processes : pc[p] = "idle"
  BY DEF KycInit, Init
<1>5. \A p \in Handlers : KycPlaceOK(p)
  BY <1>4, ConstantFacts DEF KycInit, KycPlaceOK
<1> QED BY <1>1, <1>2, <1>3, <1>4, <1>5, ConstantFacts DEF VerificationInv, SessionsInv

THEOREM VerificationInvariant == KycSpec => []VerificationInv
<1>1. KycInit => VerificationInv
  BY VerificationInvInit
<1>2. VerificationInv /\ [KycNext]_allVars => VerificationInv'
  BY VerificationInvStep
<1> QED BY <1>1, <1>2, PTL DEF KycSpec

LEMMA KycPromised == VerificationInv /\ [KycNext]_allVars => PromiseKept
<1> SUFFICES ASSUME VerificationInv, [KycNext]_allVars PROVE PromiseKept
  OBVIOUS
<1>1. BonusInv
  BY DEF VerificationInv
<1>2. CASE ReferralNext
  <2>1. Next
    BY <1>2, ConstantFacts DEF ReferralNext, Next
  <2> QED BY <1>1, <2>1, NextPromised
<1>3. ASSUME NEW p \in Handlers, KycFail(p) PROVE PromiseKept
  BY <1>3, QuietKept DEF KycFail, KycRefuse
<1>4. ASSUME NEW s \in Sessions, Age(s) PROVE PromiseKept
  BY <1>4, QuietKept DEF Age
<1>5. ASSUME NEW p \in Handlers, KycArrive(p) PROVE PromiseKept
  BY <1>5, QuietKept DEF KycArrive, StartKYCSession, HypervergeWebhook, KycEnter
<1>6. ASSUME NEW p \in Handlers, CallProvider(p) \/ StoreSession(p) PROVE PromiseKept
  BY <1>6, QuietKept DEF CallProvider, StoreSession
<1>7. ASSUME NEW p \in Handlers, CommitVerdict(p) PROVE PromiseKept
  <2>1. pc[p] = "reach" /\ p \in Processes
    BY <1>7, ConstantFacts DEF CommitVerdict
  <2>2. CASE CreateEvent(p) /\ UNCHANGED <<registered, referredBy, points>>
    BY <1>1, <2>1, <2>2, EarnKept
  <2>3. CASE UNCHANGED tables
    BY <2>3, QuietKept
  <2> QED BY <1>7, <2>2, <2>3 DEF CommitVerdict, KycRefuse, tables
<1>8. CASE UNCHANGED allVars
  BY <1>8, QuietKept DEF allVars, vars
<1> QED BY <1>2, <1>3, <1>4, <1>5, <1>6, <1>7, <1>8 DEF KycNext, KycStep

(* The promise holds beside the verifications too: whatever order the      *)
(* verdicts come in, a verified user is worth one event (HypervergeWebhook *)
(* runs TriggerReferralEventTx in its own transaction).                    *)
THEOREM VerificationsKeepPromise == KycSpec => BonusSpec
<1>1. KycInit => Promise!BonusInit
  BY PromiseInit DEF KycInit
<1>2. VerificationInv /\ [KycNext]_allVars => [Promise!BonusNext]_(Promise!bonusVars)
  BY KycPromised, PromiseStep
<1> QED BY <1>1, <1>2, VerificationInvariant, PTL DEF KycSpec, BonusSpec, Promise!BonusSpec
-----------------------------------------------------------------------------
(* Locks: which a process has where it is, those of the wallets below all  *)
(* it still needs.                                                         *)
HoldsUsers == {"referrer", "count paid", "count pending", "join", "wallets", "reach", "pay",
               "provider", "store"}

LocksOf(p) ==
  /\ \A u \in Users : userLock[u] = p =>
       /\ pc[p] \in HoldsUsers
       /\ pc[p] = "referrer" => u = job[p].user
       /\ pc[p] = "wallets" => \A w \in Missing(p) : u < w
  /\ \A c \in Claims : claimLock[c] = p => pc[p] \in {"payee", "pay"}

(* Nobody is referred by a user whose registration is not committed. *)
ReferrersKnown == \A u \in Users : referredBy[u] \in registered \cup {0}

CodeKnown(p) ==
  pc[p] \in {"count paid", "count pending", "join"} => job[p].code \in registered \cup {0}

WaitInv ==
  /\ ReferrersKnown
  /\ \A p \in Processes : LocksOf(p) /\ CodeKnown(p)

(* What a step of p does to the members. *)
MembersKept ==
  /\ registered \subseteq registered'
  /\ \A u \in registered : referredBy'[u] = referredBy[u]

LEMMA WaitNext ==
  ASSUME BonusInv, WaitInv, NEW p \in Processes, MemoryKept(p), MembersKept,
         ReferrersKnown', LocksOf(p)', CodeKnown(p)'
  PROVE  WaitInv'
<1> SUFFICES ASSUME NEW q \in Processes, q # p
             PROVE  LocksOf(q)' /\ CodeKnown(q)'
  BY DEF WaitInv
<1>1. LocksOf(q) /\ CodeKnown(q) /\ q # NoProc /\ p # NoProc
  BY ConstantFacts DEF WaitInv
<1>2. /\ pc'[q] = pc[q] /\ job'[q] = job[q]
      /\ \A u \in Users : userLock'[u] = q <=> userLock[u] = q
      /\ \A c \in Claims : claimLock'[c] = q => claimLock[c] = q
  BY <1>1 DEF MemoryKept, LocksKept2
<1>3. pc[q] = "wallets" => Missing(q)' = Missing(q)
  <2> SUFFICES ASSUME pc[q] = "wallets"
               PROVE  Missing(q)' = Missing(q)
    OBVIOUS
  <2>1. job[q].user \in registered /\ job[q].user \in Users /\ TypeOK
    BY ReachingFacts DEF Reaching
  <2>2. Wallets(job[q].user)' = Wallets(job[q].user)
    BY <1>2, <2>1 DEF Wallets, MembersKept
  <2>3. Wallets(job[q].user) \subseteq Users
    BY <2>1 DEF Wallets, TypeOK
  <2> QED BY <1>2, <2>2, <2>3 DEF Missing
<1>4. CodeKnown(q)'
  BY <1>1, <1>2 DEF CodeKnown, MembersKept
<1> QED BY <1>1, <1>2, <1>3, <1>4 DEF LocksOf

(* A step that leaves the members alone. *)
LEMMA WaitQuiet ==
  ASSUME BonusInv, WaitInv, NEW p \in Processes, MemoryKept(p),
         UNCHANGED <<registered, referredBy>>, LocksOf(p)', CodeKnown(p)'
  PROVE  WaitInv'
<1>1. MembersKept /\ ReferrersKnown'
  BY DEF MembersKept, WaitInv, ReferrersKnown
<1> QED BY <1>1, WaitNext

LEMMA EndLocks ==
  ASSUME TypeOK, NEW p \in Processes, End(p)
  PROVE  LocksOf(p)' /\ CodeKnown(p)'
<1>1. p # NoProc
  BY ConstantFacts
<1>2. pc'[p] = "idle"
  BY EndFacts
<1> QED BY <1>1, <1>2 DEF End, Release, ClaimReleased, LocksOf, CodeKnown

(* p begins, without locks, or goes on where the order of its locks does   *)
(* not matter.                                                             *)
LEMMA FreeLocks ==
  ASSUME BonusInv, WaitInv, NEW p \in Processes, pc[p] \notin HoldsUsers \cup {"payee"},
         UNCHANGED locks
  PROVE  LocksOf(p)'
BY DEF WaitInv, LocksOf, HoldsUsers, locks

LEMMA MovedOn ==
  ASSUME BonusInv, WaitInv, NEW p \in Processes,
         pc'[p] \in HoldsUsers \ {"referrer", "wallets"},
         UNCHANGED claimLock, pc[p] = "payee" => pc'[p] = "pay", pc[p] # "pay"
  PROVE  LocksOf(p)'
BY DEF WaitInv, LocksOf

-----------------------------------------------------------------------------
LEMMA WalletLocks ==
  ASSUME BonusInv, WaitInv, NEW p \in Processes, LockWallet(p)
  PROVE  LocksOf(p)' /\ CodeKnown(p)'
<1> DEFINE u == job[p].user
<1>t. TypeOK /\ Reaching(p) /\ u \in Users /\ pc[p] = "wallets" /\ LocksOf(p) /\ p # NoProc
  BY ReachingFacts, ConstantFacts DEF LockWallet, WaitInv
<1>1. PICK w \in Missing(p) :
        /\ \A x \in Missing(p) : w <= x
        /\ userLock' = [userLock EXCEPT ![w] = p]
        /\ IF Missing(p) = {w} THEN pc' = [pc EXCEPT ![p] = "reach"] ELSE pc' = pc
  BY DEF LockWallet, IsNext, Goto
<1>2. job' = job /\ claimLock' = claimLock /\ UNCHANGED tables
  BY DEF LockWallet
<1>3. Wallets(u) \subseteq Users /\ Wallets(u)' = Wallets(u)
  BY <1>t, <1>2 DEF Wallets, TypeOK, tables
<1>4. Missing(p) \subseteq Users /\ Missing(p) \subseteq Nat
  BY <1>3, ConstantFacts DEF Missing
<1>5. \A v \in Users : userLock'[v] = IF v = w THEN p ELSE userLock[v]
  BY <1>t, <1>1, <1>4 DEF TypeOK
<1>6. pc'[p] = IF Missing(p) = {w} THEN "reach" ELSE "wallets"
  BY <1>t, <1>1 DEF TypeOK
<1>7. Missing(p)' \subseteq Missing(p) \ {w}
  BY <1>2, <1>3, <1>5 DEF Missing
<1>8. ASSUME NEW v \in Users, userLock'[v] = p, NEW x \in Missing(p) \ {w}
      PROVE  v < x
  <2>1. w < x
    BY <1>1, <1>4
  <2>2. CASE v = w
    BY <2>1, <2>2
  <2>3. CASE v # w
    BY <1>t, <1>5, <1>8, <2>3 DEF LocksOf
  <2> QED BY <2>2, <2>3
<1>9. \A v \in Users : userLock'[v] = p =>
        /\ pc'[p] \in HoldsUsers
        /\ pc'[p] = "wallets" => \A x \in Missing(p)' : v < x
  BY <1>6, <1>7, <1>8 DEF HoldsUsers
<1>10. \A c \in Claims : claimLock'[c] # p
  BY <1>t, <1>2 DEF LocksOf
<1> QED BY <1>6, <1>9, <1>10 DEF LocksOf, CodeKnown

(* The new user's referrer was registered when their row was locked. *)
LEMMA RegisterWaits ==
  ASSUME BonusInv, WaitInv, NEW p \in Processes, CommitRegister(p), MemoryKept(p)
  PROVE  WaitInv'
<1> DEFINE u == job[p].user
           r == job[p].code
<1>1. /\ TypeOK /\ u \in Users /\ u \notin registered /\ End(p)
      /\ registered' = registered \cup {u}
      /\ \A v \in Users : referredBy'[v] = IF v = u THEN r ELSE referredBy[v]
  BY RegisterFacts
<1>2. r \in registered \cup {0}
  BY DEF WaitInv, CodeKnown, CommitRegister
<1>3. ReferrersKnown'
  BY <1>1, <1>2 DEF WaitInv, ReferrersKnown
<1>4. MembersKept
  BY <1>1 DEF MembersKept, TypeOK
<1> QED BY <1>1, <1>3, <1>4, EndLocks, WaitNext

LEMMA WaitStep ==
  ASSUME BonusInv, WaitInv, NEW p \in Processes, Step(p)
  PROVE  WaitInv'
<1>t. TypeOK /\ MemoryKept(p) /\ LocksOf(p) /\ CodeKnown(p) /\ p # NoProc
  BY StepMoves, ConstantFacts DEF BonusInv, RewardsInv, WaitInv
<1>q. ASSUME UNCHANGED <<registered, referredBy>>, LocksOf(p)', CodeKnown(p)'
      PROVE  WaitInv'
  BY <1>t, <1>q, WaitQuiet
<1>e. ASSUME End(p), UNCHANGED <<registered, referredBy>>
      PROVE  WaitInv'
  BY <1>t, <1>e, <1>q, EndLocks
<1>r. ASSUME Refuse(p)
      PROVE  WaitInv'
  BY <1>e, <1>r DEF Refuse, tables
<1>1. CASE InsertUser(p)
  <2>1. CASE job[p].user \in registered
    BY <1>1, <1>r, <2>1 DEF InsertUser
  <2>2. CASE job[p].user \notin registered
    <3>1. /\ pc[p] = "insert" /\ userLock' = [userLock EXCEPT ![job[p].user] = p]
          /\ pc' = [pc EXCEPT ![p] = IF job[p].code = 0 THEN "join" ELSE "referrer"]
          /\ UNCHANGED <<tables, claimLock, memory>>
      BY <1>1, <2>2 DEF InsertUser, Goto
    <3>2. pc'[p] = (IF job[p].code = 0 THEN "join" ELSE "referrer") /\ job' = job
      BY <1>t, <3>1 DEF TypeOK, memory
    <3>3. \A v \in Users : userLock'[v] = p => v = job[p].user
      BY <1>t, <3>1 DEF LocksOf, HoldsUsers, TypeOK
    <3>4. \A c \in Claims : claimLock'[c] # p
      BY <1>t, <3>1 DEF LocksOf
    <3>5. LocksOf(p)' /\ CodeKnown(p)'
      BY <3>2, <3>3, <3>4 DEF LocksOf, CodeKnown, HoldsUsers
    <3> QED BY <1>q, <3>1, <3>5 DEF tables
  <2> QED BY <2>1, <2>2
<1>2. CASE LockReferrer(p)
  <2>1. CASE job[p].code \notin registered
    BY <1>2, <1>r, <2>1 DEF LockReferrer
  <2>2. CASE job[p].code \in registered
    <3>1. /\ pc[p] = "referrer" /\ pc' = [pc EXCEPT ![p] = "count paid"]
          /\ UNCHANGED <<tables, claimLock, memory>>
      BY <1>2, <2>2 DEF LockReferrer, Goto
    <3>2. pc'[p] = "count paid" /\ job' = job /\ UNCHANGED <<registered, referredBy>>
      BY <1>t, <3>1 DEF TypeOK, memory, tables
    <3>3. LocksOf(p)'
      BY <3>1, <3>2, MovedOn DEF HoldsUsers
    <3>4. CodeKnown(p)'
      BY <2>2, <3>2 DEF CodeKnown
    <3> QED BY <1>q, <3>2, <3>3, <3>4
  <2> QED BY <2>1, <2>2
<1>3. CASE CountPaid(p) \/ CountPending(p)
  <2>1. /\ pc[p] \in {"count paid", "count pending"} /\ UNCHANGED <<tables, locks, job>>
        /\ \E place \in {"count pending", "join"} : pc' = [pc EXCEPT ![p] = place]
    BY <1>3 DEF CountPaid, CountPending, Goto
  <2>2. pc'[p] \in {"count pending", "join"} /\ UNCHANGED <<registered, referredBy, claimLock>>
    BY <1>t, <2>1 DEF TypeOK, tables, locks
  <2>3. LocksOf(p)'
    BY <2>1, <2>2, MovedOn DEF HoldsUsers
  <2>4. CodeKnown(p)'
    BY <1>t, <2>1, <2>2 DEF CodeKnown
  <2> QED BY <1>q, <2>2, <2>3, <2>4
<1>4. CASE CommitRegister(p)
  BY <1>t, <1>4, RegisterWaits
<1>5. CASE LockWallet(p)
  BY <1>5, <1>q, WalletLocks DEF LockWallet, tables
<1>6. CASE CommitMilestone(p)
  <2>1. CASE End(p)
    BY <1>6, <1>e, <2>1 DEF CommitMilestone
  <2>2. CASE Release(p) /\ pc' = [pc EXCEPT ![p] = "claim"]
    <3>1. pc'[p] = "claim"
      BY <1>t, <2>2 DEF TypeOK
    <3>2. LocksOf(p)' /\ CodeKnown(p)'
      BY <1>t, <2>2, <3>1 DEF Release, ClaimReleased, LocksOf, CodeKnown
    <3> QED BY <1>6, <1>q, <3>2 DEF CommitMilestone
  <2> QED BY <1>6, <2>1, <2>2 DEF CommitMilestone, Goto
<1>7. CASE ClaimReward(p)
  <2>1. CASE ~Claimable(Event(p))
    BY <1>7, <1>r, <2>1 DEF ClaimReward
  <2>2. CASE Claimable(Event(p))
    <3>1. /\ pc[p] = "claim" /\ pc' = [pc EXCEPT ![p] = "payee"]
          /\ UNCHANGED <<tables, userLock, memory>>
      BY <1>7, <2>2 DEF ClaimReward, Goto
    <3>2. pc'[p] = "payee" /\ UNCHANGED <<registered, referredBy>>
      BY <1>t, <3>1 DEF TypeOK, tables
    <3>3. \A v \in Users : userLock'[v] # p
      BY <1>t, <3>1 DEF LocksOf, HoldsUsers
    <3>4. LocksOf(p)' /\ CodeKnown(p)'
      BY <3>2, <3>3 DEF LocksOf, CodeKnown
    <3> QED BY <1>q, <3>2, <3>4
  <2> QED BY <2>1, <2>2
<1>8. CASE LockPayee(p)
  <2>1. /\ pc[p] = "payee" /\ pc' = [pc EXCEPT ![p] = "pay"] /\ UNCHANGED <<tables, claimLock>>
    BY <1>8 DEF LockPayee, Goto
  <2>2. pc'[p] = "pay" /\ UNCHANGED <<registered, referredBy>>
    BY <1>t, <2>1 DEF TypeOK, tables
  <2>3. LocksOf(p)' /\ CodeKnown(p)'
    BY <2>1, <2>2, MovedOn DEF HoldsUsers, CodeKnown
  <2> QED BY <1>q, <2>2, <2>3
<1>9. CASE CommitPay(p)
  BY <1>9, <1>e DEF CommitPay
<1> QED BY <1>1, <1>2, <1>3, <1>4, <1>5, <1>6, <1>7, <1>8, <1>9 DEF Step, PayStep

(* A transaction begins, or fails. *)
LEMMA WaitBegin ==
  ASSUME BonusInv, WaitInv, NEW p \in Processes, Arrive(p) \/ Scan(p)
  PROVE  WaitInv'
<1>t. TypeOK
  BY DEF BonusInv, RewardsInv
<1>1. /\ pc[p] = "idle" /\ UNCHANGED <<tables, locks, count, read>>
      /\ \E first \in {"insert", "wallets", "claim"} : pc' = [pc EXCEPT ![p] = first]
      /\ \E j : job' = [job EXCEPT ![p] = j]
  BY DEF Arrive, RegisterUser, GoogleLogin, Milestone, Scan, ScanPending, Begin
<1>2. pc'[p] \in {"insert", "wallets", "claim"}
  BY <1>t, <1>1 DEF TypeOK
<1>3. MemoryKept(p)
  BY <1>t, <1>1 DEF MemoryKept, LocksKept2, TypeOK, locks
<1>4. LocksOf(p)' /\ CodeKnown(p)'
  BY <1>1, <1>2, FreeLocks DEF HoldsUsers, CodeKnown
<1> QED BY <1>1, <1>3, <1>4, WaitQuiet DEF tables

LEMMA WaitFail ==
  ASSUME BonusInv, WaitInv, NEW p \in Processes, Refuse(p)
  PROVE  WaitInv'
<1>1. TypeOK
  BY DEF BonusInv, RewardsInv
<1> QED BY <1>1, EndFacts, EndLocks, WaitQuiet DEF Refuse, tables

LEMMA WaitInvUnchanged ==
  ASSUME WaitInv, UNCHANGED vars
  PROVE  WaitInv'
<1>1. UNCHANGED <<registered, referredBy, userLock, claimLock, pc, job>>
  BY DEF vars, tables, locks, memory
<1>2. ReferrersKnown'
  BY <1>1 DEF WaitInv, ReferrersKnown
<1>3. ASSUME NEW p \in Processes
      PROVE  LocksOf(p)' /\ CodeKnown(p)'
  <2>1. LocksOf(p) /\ CodeKnown(p)
    BY DEF WaitInv
  <2> QED BY <1>1, <2>1 DEF LocksOf, CodeKnown, Missing, Wallets
<1> QED BY <1>2, <1>3 DEF WaitInv

LEMMA WaitInvStep == BonusInv /\ WaitInv /\ [Next]_vars => WaitInv'
BY WaitStep, WaitBegin, WaitFail, WaitInvUnchanged, ConstantFacts DEF Next, Fail

LEMMA WaitInvInit == Init => WaitInv
<1> SUFFICES ASSUME Init PROVE WaitInv
  OBVIOUS
<1>1. ReferrersKnown
  BY ConstantFacts DEF Init, ReferrersKnown
<1>2. \A p \in Processes : LocksOf(p) /\ CodeKnown(p)
  BY ConstantFacts DEF Init, LocksOf, CodeKnown
<1> QED BY <1>1, <1>2 DEF WaitInv

-----------------------------------------------------------------------------
(* Nobody waits for ever                                                   *)

LEMMA LeastFacts ==
  ASSUME NEW S, S \subseteq Nat, S # {}
  PROVE  \E x \in S : \A y \in S : x <= y
<1> DEFINE R == {ss \in Nat \X Nat : ss[1] < ss[2]}
<1>0. IsWellFoundedOn(R, Nat)
  BY NatLessThanWellFounded DEF OpToRel
<1>1. PICK x \in S : \A y \in S : ~(<<y, x>> \in R)
  <2> HIDE DEF R
  <2> QED BY <1>0, WFMin
<1>2. \A y \in S : ~(y < x)
  BY <1>1
<1>3. \A y \in S : x <= y
  BY <1>2
<1> QED BY <1>3

(* The row p waits for, unless p inserts it, is that of somebody           *)
(* registered: no transaction still to insert its user is waited for.      *)
LEMMA WantsRegistered ==
  ASSUME BonusInv, WaitInv, NEW p \in Processes, NEW q \in Processes, WaitsFor(p, q)
  PROVE  \/ pc[p] = "insert" /\ \E u \in Users : userLock[u] = q
         \/ pc[p] = "claim" /\ \E c \in Claims : claimLock[c] = q
         \/ /\ pc[p] \in {"referrer", "wallets", "payee"}
            /\ \E u \in Users : u \in registered /\ userLock[u] = q
<1>1. CASE pc[p] = "insert" /\ userLock[job[p].user] = q
  BY <1>1, JoiningFacts
<1>2. CASE pc[p] = "referrer" /\ job[p].code \in registered /\ userLock[job[p].code] = q
  BY <1>2, JoiningFacts
<1>3. CASE pc[p] = "wallets" /\ \E w \in Users : IsNext(p, w) /\ userLock[w] = q
  <2>1. PICK w \in Users : w \in Wallets(job[p].user) /\ userLock[w] = q
    BY <1>3 DEF IsNext, Missing
  <2>2. job[p].user \in registered /\ job[p].user \in Users
    BY <1>3, ReachingFacts DEF Reaching
  <2>3. w \in registered
    BY <2>1, <2>2 DEF Wallets, WaitInv, ReferrersKnown
  <2> QED BY <1>3, <2>1, <2>3
<1>4. CASE pc[p] = "claim" /\ claimLock[Event(p)] = q
  <2>1. Event(p) \in Claims
    BY <1>4, PayingFacts
  <2> QED BY <1>4, <2>1
<1>5. CASE pc[p] = "payee" /\ userLock[Payee(Event(p))] = q
  <2>1. /\ Paying(p) /\ Event(p) \in Claims /\ Payee(Event(p)) \in Users
        /\ Event(p)[1] = job[p].user /\ job[p].user \in Users
    BY <1>5, PayingFacts, ClaimFacts DEF Paying, Event
  <2>2. Payee(Event(p)) \in {referredBy[job[p].user], job[p].user}
    BY <2>1 DEF Payee
  <2>3. Payee(Event(p)) \in registered
    BY <2>1, <2>2, ConstantFacts DEF Paying, WaitInv, ReferrersKnown
  <2> QED BY <1>5, <2>1, <2>3
<1> QED BY <1>1, <1>2, <1>3, <1>4, <1>5 DEF WaitsFor

(* Whoever is waited for is at work, and who waits for a transaction that  *)
(* itself waits waits for a wallet, unless it has no lock yet.             *)
LEMMA WaitsFacts ==
  ASSUME BonusInv, WaitInv, NEW p \in Processes, NEW q \in Processes, WaitsFor(p, q)
  PROVE  /\ pc[p] \in {"insert", "claim", "referrer", "wallets", "payee"}
         /\ pc[q] \in HoldsUsers \cup {"payee"}
         /\ pc[q] = "referrer" => pc[p] = "insert"
         /\ pc[q] = "payee" => pc[p] = "claim"
<1>1. LocksOf(q)
  BY DEF WaitInv
<1>2. CASE pc[p] = "insert" /\ \E u \in Users : userLock[u] = q
  BY <1>1, <1>2 DEF LocksOf, HoldsUsers
<1>3. CASE pc[p] = "claim" /\ \E c \in Claims : claimLock[c] = q
  BY <1>1, <1>3 DEF LocksOf, HoldsUsers
<1>4. CASE /\ pc[p] \in {"referrer", "wallets", "payee"}
           /\ \E u \in Users : u \in registered /\ userLock[u] = q
  <2>1. PICK u \in Users : u \in registered /\ userLock[u] = q
    BY <1>4
  <2>2. pc[q] \in HoldsUsers /\ (pc[q] = "referrer" => u = job[q].user)
    BY <1>1, <2>1 DEF LocksOf
  <2>3. pc[q] # "referrer"
    BY <2>1, <2>2, JoiningFacts DEF Joining
  <2> QED BY <1>4, <2>2, <2>3 DEF HoldsUsers
<1> QED BY <1>2, <1>3, <1>4, WantsRegistered

(* So in a circle everybody waits for a wallet; the one who waits for the  *)
(* lowest of all holds one below it that somebody else waits for.          *)
LEMMA NoCircle ==
  ASSUME BonusInv, WaitInv, NEW S \in SUBSET Processes, Circle(S)
  PROVE  FALSE
<1>1. \A p \in S : (\E q \in S : WaitsFor(p, q)) /\ (\E q \in S : WaitsFor(q, p))
  BY DEF Circle
<1>2. \A p \in S : pc[p] \in {"insert", "claim", "referrer", "wallets", "payee"}
  BY <1>1, WaitsFacts
<1>3. \A p \in S : pc[p] \in HoldsUsers \cup {"payee"}
  BY <1>1, WaitsFacts
<1>4. \A p \in S : pc[p] \notin {"insert", "claim"}
  BY <1>3 DEF HoldsUsers
<1>5. \A p \in S : pc[p] = "wallets"
  BY <1>1, <1>2, <1>4, WaitsFacts
<1>6. \A p, q \in S : WaitsFor(p, q) => \E w \in Users : IsNext(p, w) /\ userLock[w] = q
  BY <1>5 DEF WaitsFor
<1> DEFINE W == {w \in Users : \E p \in S : IsNext(p, w)}
<1>7. W # {} /\ W \subseteq Nat
  <2>1. PICK p \in S : TRUE
    BY DEF Circle
  <2>2. PICK q \in S : WaitsFor(p, q)
    BY <1>1
  <2>3. PICK w \in Users : IsNext(p, w)
    BY <1>6, <2>2
  <2>4. w \in W
    BY <2>3
  <2> QED BY <2>4, ConstantFacts
<1>8. PICK w \in W : \A x \in W : w <= x
  <2> HIDE DEF W
  <2> QED BY <1>7, LeastFacts
<1>9. PICK p \in S : IsNext(p, w)
  BY <1>8
<1>10. PICK r \in S : WaitsFor(r, p)
  BY <1>1
<1>11. PICK v \in Users : IsNext(r, v) /\ userLock[v] = p
  BY <1>6, <1>10
<1>12. v < w
  <2>1. w \in Missing(p) /\ pc[p] = "wallets"
    BY <1>5, <1>9 DEF IsNext
  <2> QED BY <1>11, <2>1 DEF WaitInv, LocksOf
<1>13. w <= v /\ v \in Nat /\ w \in Nat
  <2>1. v \in W
    BY <1>11
  <2> QED BY <1>7, <1>8, <2>1
<1> QED BY <1>12, <1>13

LEMMA NobodyIsStuck == BonusInv /\ WaitInv => NobodyStuck
<1> SUFFICES ASSUME BonusInv, WaitInv PROVE NobodyStuck
  OBVIOUS
<1>1. \A p, q \in Processes : WaitsFor(p, q) => pc[q] # "idle"
  BY WaitsFacts DEF HoldsUsers
<1>2. \A S \in SUBSET Processes : ~Circle(S)
  BY NoCircle
<1> QED BY <1>1, <1>2 DEF NobodyStuck

(* Nothing earned is forgotten: whatever requests race, and whatever       *)
(* fails, a milestone on record has its event unless the cap of the        *)
(* referrer is used up (TriggerReferralEventTx, ProcessReferral).  And     *)
(* nobody waits for ever: a registration locks a committed referrer beside *)
(* a row that only a second registration can wait for                      *)
(* (referral_service.go:35), a payout its claim and then one wallet,       *)
(* everything else the wallets in ascending order                          *)
(* (wallet_service.go:169-180).                                            *)
THEOREM NothingForgotten == Spec => []ReferralInv
<1>1. WaitInv /\ BonusInv /\ [Next]_vars => WaitInv'
  BY WaitInvStep
<1>2. BonusInv /\ WaitInv => ReferralInv
  BY NobodyIsStuck DEF BonusInv, ReferralInv
<1> QED BY <1>1, <1>2, WaitInvInit, BonusInvariant, PTL DEF Spec

-----------------------------------------------------------------------------
(* The same beside the verifications.                                      *)

LEMMA EnterWaits ==
  ASSUME VerificationInv, WaitInv, NEW p \in Handlers, NEW s \in Sessions,
         \/ StartKYCSession(p, s)
         \/ \E v \in Verdicts : HypervergeWebhook(p, s, v)
  PROVE  WaitInv'
<1>1. BonusInv /\ TypeOK /\ p \in Processes /\ pc[p] = "idle" /\ LocksOf(p)
  BY ConstantFacts
     DEF VerificationInv, BonusInv, RewardsInv, WaitInv, StartKYCSession, HypervergeWebhook, KycEnter
<1>2. /\ UNCHANGED <<tables, claimLock, count, read>>
      /\ \E place \in {"provider", "wallets"} : pc' = [pc EXCEPT ![p] = place]
      /\ \E j : job' = [job EXCEPT ![p] = j]
  BY DEF StartKYCSession, HypervergeWebhook, KycEnter, Goto
<1>3. pc'[p] \in {"provider", "wallets"}
  BY <1>1, <1>2 DEF TypeOK
<1>4. \A u \in Users : userLock'[u] # userLock[u] =>
        userLock[u] = NoProc /\ userLock'[u] = p /\ pc'[p] = "provider"
  BY <1>1, OwnerFacts DEF StartKYCSession, HypervergeWebhook, KycEnter, LockFree, Goto, TypeOK
<1>5. MemoryKept(p)
  BY <1>1, <1>2, <1>4 DEF MemoryKept, LocksKept2, TypeOK
<1>6. \A u \in Users : userLock[u] # p
  BY <1>1 DEF LocksOf, HoldsUsers
<1>7. LocksOf(p)' /\ CodeKnown(p)'
  BY <1>1, <1>2, <1>3, <1>4, <1>6 DEF LocksOf, CodeKnown, HoldsUsers
<1> QED BY <1>1, <1>2, <1>5, <1>7, WaitQuiet DEF tables

LEMMA KycEndWaits ==
  ASSUME VerificationInv, WaitInv, NEW p \in Handlers, KycEnd(p),
         UNCHANGED <<registered, referredBy>>
  PROVE  WaitInv'
<1>1. BonusInv /\ TypeOK /\ p \in Processes
  BY ConstantFacts DEF VerificationInv, BonusInv, RewardsInv
<1>2. End(p) /\ MemoryKept(p)
  BY KycEndFacts
<1> QED BY <1>1, <1>2, EndLocks, WaitQuiet

LEMMA CallProviderWaits ==
  ASSUME VerificationInv, WaitInv, NEW p \in Handlers, CallProvider(p)
  PROVE  WaitInv'
<1>1. BonusInv /\ TypeOK /\ p \in Processes
  BY ConstantFacts DEF VerificationInv, BonusInv, RewardsInv
<1>2. CASE KycEnd(p)
  BY <1>2, KycEndWaits DEF CallProvider, tables
<1>3. CASE /\ pc[p] = "provider" /\ pc' = [pc EXCEPT ![p] = "store"]
           /\ UNCHANGED <<tables, locks, memory>>
  <2>1. pc'[p] = "store"
    BY <1>1, <1>3 DEF TypeOK
  <2>2. MemoryKept(p)
    BY <1>1, <1>3 DEF MemoryKept, LocksKept2, TypeOK, locks, memory
  <2>3. LocksOf(p)' /\ CodeKnown(p)'
    BY <1>1, <1>3, <2>1, MovedOn DEF HoldsUsers, CodeKnown, locks
  <2> QED BY <1>1, <1>3, <2>2, <2>3, WaitQuiet DEF tables
<1> QED BY <1>2, <1>3 DEF CallProvider, Goto

LEMMA KycWaitStep == VerificationInv /\ WaitInv /\ [KycNext]_allVars => WaitInv'
<1> SUFFICES ASSUME VerificationInv, WaitInv, [KycNext]_allVars PROVE WaitInv'
  OBVIOUS
<1>1. BonusInv
  BY DEF VerificationInv
<1>2. CASE ReferralNext
  <2>1. Next
    BY <1>2, ConstantFacts DEF ReferralNext, Next
  <2> QED BY <1>1, <2>1, WaitInvStep
<1>3. ASSUME NEW p \in Handlers, KycFail(p) PROVE WaitInv'
  BY <1>3, KycEndWaits DEF KycFail, KycRefuse, tables
<1>4. ASSUME NEW s \in Sessions, Age(s), UNCHANGED fails PROVE WaitInv'
  BY <1>4, WaitInvUnchanged DEF Age, vars
<1>5. ASSUME NEW p \in Handlers, KycArrive(p) PROVE WaitInv'
  BY <1>5, EnterWaits DEF KycArrive
<1>6. ASSUME NEW p \in Handlers, KycStep(p) PROVE WaitInv'
  <2>1. CASE CallProvider(p)
    BY <2>1, CallProviderWaits
  <2>2. CASE StoreSession(p) \/ CommitVerdict(p)
    BY <2>2, KycEndWaits DEF StoreSession, CommitVerdict, KycRefuse, tables
  <2> QED BY <1>6, <2>1, <2>2 DEF KycStep
<1>7. CASE UNCHANGED allVars
  BY <1>7, WaitInvUnchanged DEF allVars
<1> QED BY <1>2, <1>3, <1>4, <1>5, <1>6, <1>7 DEF KycNext

(* A session's row is locked by the verdict that is being recorded. *)
LEMMA SessionsHeldStep == VerificationInv /\ SessionsHeld /\ [KycNext]_allVars => SessionsHeld'
<1> SUFFICES ASSUME VerificationInv, SessionsHeld, [KycNext]_allVars PROVE SessionsHeld'
  OBVIOUS
<1>1. /\ BonusInv /\ KycTypeOK /\ TypeOK /\ NoProc \notin Handlers /\ Handlers \cap Crons = {}
      /\ Handlers \subseteq Processes
  BY ConstantsAssumption, ConstantFacts DEF VerificationInv, SessionsInv, KycTypeOK
<1>2. ASSUME UNCHANGED <<sessionLock, about>>,
             \A p \in Handlers : about[p] # NoSession /\ pc[p] \in {"wallets", "reach"} =>
               pc'[p] \in {"wallets", "reach"}
      PROVE  SessionsHeld'
  BY <1>1, <1>2, KycAssumption DEF SessionsHeld, KycTypeOK
<1>e. ASSUME NEW p \in Handlers, KycEnd(p) PROVE SessionsHeld'
  <2>1. /\ \A s \in Sessions : sessionLock'[s] \in {NoProc, sessionLock[s]} \ {p}
        /\ \A q \in Handlers \ {p} : pc'[q] = pc[q] /\ about'[q] = about[q]
    BY <1>1, <1>e, KycEndFacts DEF KycEnd, MemoryKept
  <2> QED BY <1>1, <2>1 DEF SessionsHeld, KycTypeOK
<1>3. CASE ReferralNext
  <2>0. UNCHANGED <<sessionLock, about>>
    BY <1>3 DEF ReferralNext, kycVars
  <2>1. ASSUME NEW p \in Processes, MemoryKept(p),
               \/ p \notin Handlers
               \/ about[p] = NoSession
               \/ pc[p] \notin {"wallets", "reach"}
               \/ pc'[p] \in {"wallets", "reach"}
        PROVE  SessionsHeld'
    BY <1>1, <1>2, <2>0, <2>1 DEF MemoryKept
  <2>2. ASSUME NEW p \in Processes, Arrive(p) \/ Scan(p)
        PROVE  MemoryKept(p) /\ pc[p] = "idle"
    BY <1>1, <2>2 DEF Arrive, RegisterUser, GoogleLogin, Milestone, Scan, ScanPending, Begin,
                      MemoryKept, LocksKept2, TypeOK, locks
  <2>3. ASSUME NEW p \in Processes, Fail(p)
        PROVE  MemoryKept(p)
    BY <1>1, <2>3, EndFacts DEF Fail, Refuse
  <2>4. ASSUME NEW p \in Processes, Step(p)
        PROVE  SessionsHeld'
    <3>1. CASE LockWallet(p)
      <4>1. pc'[p] \in {"wallets", "reach"}
        BY <1>1, <3>1 DEF LockWallet, Goto, TypeOK
      <4> QED BY <1>1, <2>1, <2>4, <4>1, StepMoves
    <3>2. CASE \/ pc[p] \notin {"provider", "store", "wallets", "reach"}
               \/ pc[p] = "reach" /\ job[p].kind # "kyc_completed"
      <4>1. p \in Handlers => about[p] = NoSession
        BY <3>2 DEF VerificationInv, KycPlaceOK
      <4> QED BY <1>1, <2>1, <2>4, <4>1, StepMoves
    <3> QED BY <1>1, <2>4, <3>1, <3>2, StepMoves
  <2>5. ASSUME NEW p \in Crons, Fail(p) PROVE SessionsHeld'
    BY <1>1, <2>1, <2>3, <2>5, ConstantFacts
  <2>6. ASSUME NEW p \in Handlers, about[p] = NoSession, Fail(p) PROVE SessionsHeld'
    BY <1>1, <2>1, <2>3, <2>6
  <2>7. ASSUME NEW p \in Processes, Arrive(p) \/ Scan(p) PROVE SessionsHeld'
    BY <2>1, <2>2, <2>7
  <2> QED BY <1>1, <1>3, <2>4, <2>5, <2>6, <2>7, ConstantFacts DEF ReferralNext
<1>4. ASSUME NEW p \in Handlers, KycFail(p) PROVE SessionsHeld'
  BY <1>4, <1>e DEF KycFail, KycRefuse
<1>5. ASSUME NEW s \in Sessions, Age(s) PROVE SessionsHeld'
  BY <1>2, <1>5 DEF Age
<1>6. ASSUME NEW p \in Handlers, KycArrive(p) PROVE SessionsHeld'
  <2>1. PICK s \in Sessions :
          StartKYCSession(p, s) \/ \E v \in Verdicts : HypervergeWebhook(p, s, v)
    BY <1>6 DEF KycArrive
  <2>2. PICK place \in {"provider", "wallets"} :
          /\ pc[p] = "idle" /\ pc' = [pc EXCEPT ![p] = place]
          /\ about' = [about EXCEPT ![p] = s]
          /\ \/ UNCHANGED sessionLock
             \/ sessionLock' = [sessionLock EXCEPT ![s] = p] /\ place = "wallets"
    BY <2>1 DEF StartKYCSession, HypervergeWebhook, KycEnter, Goto
  <2>3. \A t \in Sessions : sessionLock[t] # p
    BY <1>1, <2>2 DEF SessionsHeld
  <2>4. /\ pc'[p] = place /\ about'[p] = s
        /\ \A q \in Handlers \ {p} : pc'[q] = pc[q] /\ about'[q] = about[q]
        /\ \A t \in Sessions : sessionLock'[t] = sessionLock[t]
                                 \/ (t = s /\ sessionLock'[t] = p /\ place = "wallets")
    BY <1>1, <2>2 DEF TypeOK, KycTypeOK
  <2> QED BY <1>1, <2>3, <2>4 DEF SessionsHeld, KycTypeOK
<1>7. ASSUME NEW p \in Handlers, KycStep(p) PROVE SessionsHeld'
  <2>1. CASE KycEnd(p)
    BY <1>e, <2>1
  <2>2. CASE /\ pc[p] = "provider" /\ pc' = [pc EXCEPT ![p] = "store"]
             /\ UNCHANGED <<sessionLock, about>>
    BY <1>1, <1>2, <2>2 DEF TypeOK
  <2> QED BY <1>7, <2>1, <2>2
          DEF KycStep, CallProvider, StoreSession, CommitVerdict, KycRefuse, Goto
<1>8. CASE UNCHANGED allVars
  BY <1>2, <1>8 DEF allVars, vars, kycVars
<1> QED BY <1>3, <1>4, <1>5, <1>6, <1>7, <1>8 DEF KycNext

(* A user counts as verified exactly when a session of theirs is, whatever *)
(* verdicts come, how often and in which order; two requests at once do    *)
(* not open two sessions, and a user has a second recent one in progress   *)
(* only when a late needs_review put a rejected one back in review; a      *)
(* verdict holds its row until it is recorded (kyc_controller.go,          *)
(* StartKYCSession and HypervergeWebhook), and with the wallets that both  *)
(* lock nobody waits for ever.                                             *)
THEOREM VerificationsHold == KycSpec => []KycInv
<1>1. KycInit => WaitInv /\ SessionsHeld
  BY WaitInvInit DEF KycInit, SessionsHeld
<1>2. VerificationInv /\ WaitInv /\ [KycNext]_allVars => WaitInv'
  BY KycWaitStep
<1>3. VerificationInv /\ SessionsHeld /\ [KycNext]_allVars => SessionsHeld'
  BY SessionsHeldStep
<1>4. VerificationInv /\ WaitInv /\ SessionsHeld => KycInv
  BY NobodyIsStuck DEF VerificationInv, KycInv
<1> QED BY <1>1, <1>2, <1>3, <1>4, VerificationInvariant, PTL DEF KycSpec
=============================================================================
