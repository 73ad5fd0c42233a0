------------------------------ MODULE Betting ------------------------------
(***************************************************************************)
(* What prediction markets promise to players: a bet is placed and paid    *)
(* for in one step, and only while the market takes bets; a result decides *)
(* every bet of its market at once, pays each winner once, and is final.   *)
(* No locks, no transactions, no jobs.                                     *)
(***************************************************************************)
EXTENDS Integers

CONSTANTS Users, Markets, Options,
          Seeded,     \* the markets there are from the start
          Payout,     \* Payout[m]: what a correct prediction on m earns
          Stake,      \* what a prediction costs
          Coins       \* Coins[u]: what u has to play with

VARIABLES status, bets, balance

bettingVars == <<status, bets, balance>>

NoBet == [choice |-> "none", grade |-> "none"]

Decide(b, o) ==
  IF b = NoBet THEN b
  ELSE [choice |-> b.choice, grade |-> IF b.choice = o THEN "won" ELSE "lost"]

(* The life of a market, its resolution left out. *)
Edges ==
  {<<"None", "Draft">>, <<"None", "Scheduled">>, <<"None", "Live">>,
   <<"None", "Proposed">>, <<"Proposed", "Live">>,
   <<"Draft", "Scheduled">>, <<"Draft", "Live">>, <<"Draft", "Archived">>,
   <<"Scheduled", "Live">>, <<"Open", "Locked">>, <<"Live", "Locked">>,
   <<"Locked", "Awaiting Resolution">>, <<"Resolved", "Archived">>}

BettingInit ==
  /\ status = [m \in Markets |-> IF m \in Seeded THEN "Open" ELSE "None"]
  /\ bets = [u \in Users |-> [m \in Markets |-> NoBet]]
  /\ balance = Coins

Place(u, m, o) ==
  /\ status[m] \in {"Open", "Live"}
  /\ bets[u][m] = NoBet
  /\ balance[u] >= Stake
  /\ bets' = [bets EXCEPT ![u][m] = [choice |-> o, grade |-> "open"]]
  /\ balance' = [balance EXCEPT ![u] = @ - Stake]
  /\ UNCHANGED status

Move(m, s) ==
  /\ <<status[m], s>> \in Edges
  /\ status' = [status EXCEPT ![m] = s]
  /\ UNCHANGED <<bets, balance>>

Result(m, o) ==
  /\ status[m] \in {"Locked", "Awaiting Resolution"}
  /\ status' = [status EXCEPT ![m] = "Resolved"]
  /\ bets' = [u \in Users |-> [bets[u] EXCEPT ![m] = Decide(@, o)]]
  /\ balance' = [u \in Users |->
                   balance[u] + IF bets[u][m].choice = o THEN Payout[m] ELSE 0]

BettingNext ==
  \E m \in Markets :
    \/ \E u \in Users, o \in Options : Place(u, m, o)
    \/ \E e \in Edges : Move(m, e[2])
    \/ \E o \in Options : Result(m, o)

BettingSpec == BettingInit /\ [][BettingNext]_bettingVars
=============================================================================
