------------------------------- MODULE Bonus -------------------------------
(***************************************************************************)
(* What bonuses promise: a user joins once; each claim to a bonus arises   *)
(* at most once, within the referrer's cap, and is paid once.  No locks,   *)
(* no replicas, no crashes.                                                *)
(***************************************************************************)
EXTENDS Integers, FiniteSets

CONSTANTS Users, Claims, Milestones, Code, Earnings, MaxReferralRewards

VARIABLES members,
          claim,      \* claim[c]: "none", "owed" or "paid"
          wallet

bonusVars == <<members, claim, wallet>>

BonusInit ==
  /\ members \subseteq Users
  /\ claim = [c \in Claims |-> "none"]
  /\ wallet = [u \in Users |-> 0]

(* The claims that count for referrer r, and the wallet of a claim. *)
Counted(r) == {c \in Claims : Code[c[1]] = r /\ c[2] \in Milestones /\ claim[c] # "none"}
HasRoom(r) == Cardinality(Counted(r)) < MaxReferralRewards
Payee(c) == IF c[2] \in Milestones THEN Code[c[1]] ELSE c[1]
Paid(c) == [wallet EXCEPT ![Payee(c)] = @ + Earnings[c[2]]]

Join(u, owed) ==
  /\ u \notin members
  /\ owed \in {{}, {<<u, "signed_up">>, <<u, "welcome">>}}
  /\ owed # {} => HasRoom(Code[u])
  /\ members' = members \cup {u}
  /\ claim' = [c \in Claims |-> IF c = <<u, "joined">> THEN "paid"
                                ELSE IF c \in owed THEN "owed" ELSE claim[c]]
  /\ wallet' = Paid(<<u, "joined">>)

Earn(c) ==
  /\ c[2] \in Milestones
  /\ c[1] \in members
  /\ claim[c] = "none"
  /\ HasRoom(Code[c[1]])
  /\ claim' = [claim EXCEPT ![c] = "owed"]
  /\ UNCHANGED <<members, wallet>>

(* An achievement is claimed and paid at once. *)
Pay(c) ==
  /\ claim[c] = IF c[2] = "achievement" THEN "none" ELSE "owed"
  /\ c[1] \in members
  /\ claim' = [claim EXCEPT ![c] = "paid"]
  /\ wallet' = Paid(c)
  /\ UNCHANGED members

BonusNext ==
  \/ \E u \in Users :
       \E owed \in {{}, {<<u, "signed_up">>, <<u, "welcome">>}} : Join(u, owed)
  \/ \E c \in Claims : Earn(c) \/ Pay(c)

BonusSpec == BonusInit /\ [][BonusNext]_bonusVars
=============================================================================
