------------------------------- MODULE Income -------------------------------
(***************************************************************************)
(* What businesses bring: game time advances while a job runs, whole days  *)
(* are paid at the end of a turn or when the player asks (rules/world,     *)
(* Engine::collect_income, Engine::run_turn), and the assets window shows  *)
(* what has accrued.                                                       *)
(*                                                                         *)
(* Collecting and paying are one step under state_mutex_.  Gold and time   *)
(* are integers without a width: sums beyond the int of player.gold are    *)
(* not modelled.                                                           *)
(*                                                                         *)
(* The specification's parts are named for it (IncomeInit, IncomeSpec), so *)
(* that RulesProofs can extend this module beside CharacterSheet.          *)
(***************************************************************************)
EXTENDS Integers, Sequences, FiniteSets, FiniteSetsExt

CONSTANTS Day,            \* kMinutesPerDay
          Cap,            \* the most one collection of a business pays
          Incomes,        \* incomes per day
          Advances,       \* minutes a tool may add to the time
          MaxBusinesses, MaxTime   \* bounds

ASSUME IncomeAssumption ==
    /\ Day \in Nat \ {0} /\ Cap \in Nat \ {0}
    /\ Incomes \subseteq Nat /\ Advances \subseteq Int
    /\ MaxBusinesses \in Nat /\ MaxTime \in Nat

VARIABLES
    time,          \* world_state.time_elapsed
    gold,          \* state_.player.gold, here only what businesses paid
    businesses,    \* assets.businesses: income per day and last_collected
    turnInProgress,
    shown,         \* what the frame on the screen says has accrued, -1: none
    bought         \* history: when each business was added

incomeVars == <<time, gold, businesses, turnInProgress, shown, bought>>

Owned == DOMAIN businesses

IncomeInit ==
    /\ time = 0 /\ gold = 0 /\ businesses = <<>>
    /\ turnInProgress = FALSE /\ shown = -1 /\ bought = <<>>

\* What the loop over the businesses adds up.
Sum(f) == LET sum[k \in 0..Len(f)] == IF k = 0 THEN 0 ELSE sum[k - 1] + f[k] IN sum[Len(f)]

-----------------------------------------------------------------------------
\* A job is claimed; its tools advance the time and add businesses.
BeginJob ==
    /\ ~turnInProgress
    /\ turnInProgress' = TRUE /\ shown' = -1
    /\ UNCHANGED <<time, gold, businesses, bought>>

\* advance_time: only a positive number of minutes counts.
SetLocation ==
    /\ turnInProgress
    /\ \E minutes \in Advances :
        /\ minutes > 0 /\ time + minutes <= MaxTime
        /\ time' = time + minutes
    /\ UNCHANGED <<gold, businesses, turnInProgress, shown, bought>>

AddBusiness ==
    /\ turnInProgress /\ Len(businesses) < MaxBusinesses
    /\ \E income \in Incomes :
        businesses' = Append(businesses, [income |-> income, last |-> time])
    /\ bought' = Append(bought, time)
    /\ UNCHANGED <<time, gold, turnInProgress, shown>>

-----------------------------------------------------------------------------
(* rules/world: a collection and its preview are separate code.            *)

WholeDays(minutes) == IF minutes > 0 THEN minutes \div Day ELSE 0

Due(b) == IF b.income > 0 THEN WholeDays(time - b.last) ELSE 0

\* collect_business_income: what it pays and what it leaves.
Pay(b) == Min({Cap, Due(b) * b.income})

\* Mutant: the partial day is forfeited.
CollectedNow(b) == IF Due(b) > 0 THEN [b EXCEPT !.last = time] ELSE b

Collected(b) == [b EXCEPT !.last = @ + Due(b) * Day]

\* Mutant: the preview rounds a day begun up.
PreviewRoundedUp(b) ==
    IF b.income <= 0 \/ time <= b.last THEN 0
    ELSE Min({Cap, ((time - b.last + Day - 1) \div Day) * b.income})

\* pending_business_income.
Preview(b) == IF b.income <= 0 \/ time <= b.last THEN 0
              ELSE Min({Cap, ((time - b.last) \div Day) * b.income})

CollectAll ==
    /\ gold' = gold + Sum([i \in Owned |-> Pay(businesses[i])])
    /\ businesses' = [i \in Owned |-> Collected(businesses[i])]

\* The end of a story turn collects, also of one that failed or was cancelled.
EndTurn ==
    /\ turnInProgress
    /\ CollectAll
    /\ turnInProgress' = FALSE
    /\ UNCHANGED <<time, shown, bought>>

\* The end of another job, or of a turn refused for want of a key, does not.
EndOtherJob ==
    /\ turnInProgress
    /\ turnInProgress' = FALSE
    /\ UNCHANGED <<time, gold, businesses, shown, bought>>

-----------------------------------------------------------------------------
\* The assets window; its button is disabled while a job runs or with nothing due.
DrawFrame ==
    /\ shown' = IF turnInProgress THEN -1
                ELSE Sum([i \in Owned |-> Preview(businesses[i])])
    /\ UNCHANGED <<time, gold, businesses, turnInProgress, bought>>

CollectIncome ==
    /\ shown > 0
    /\ shown' = -1
    /\ IF turnInProgress THEN UNCHANGED <<gold, businesses>> ELSE CollectAll
    /\ UNCHANGED <<time, turnInProgress, bought>>

-----------------------------------------------------------------------------
IncomeNext == \/ BeginJob \/ SetLocation \/ AddBusiness \/ EndTurn \/ EndOtherJob
              \/ DrawFrame \/ CollectIncome

IncomeSpec == IncomeInit /\ [][IncomeNext]_incomeVars

-----------------------------------------------------------------------------
(* Properties.                                                             *)

\* Types.
IncomeTypeOK ==
    /\ time \in 0..MaxTime /\ gold \in Nat
    /\ Len(businesses) <= MaxBusinesses /\ Len(bought) = Len(businesses)
    /\ \A i \in Owned : businesses[i].income \in Incomes /\ businesses[i].last \in bought[i]..time
    /\ turnInProgress \in BOOLEAN /\ shown \in Nat \cup {-1}

\* What a business has brought over its whole life.
Earned(i) == businesses[i].income * ((time - bought[i]) \div Day)
Outstanding(i) == businesses[i].income * ((time - businesses[i].last) \div Day)

\* Every whole day a business was owned is paid once or still due, and no other:
\* two collectors, a partial day carried over and businesses bought at odd times
\* lose and double nothing.  Where a collection meets the cap the rest of its days
\* is forfeited (world.cpp:14-20): then less is paid than was earned, never more.
DaysPaidOnce ==
    LET settled == gold + Sum([i \in Owned |-> Outstanding(i)])
        earnings == Sum([i \in Owned |-> Earned(i)])
    IN /\ settled <= earnings
       /\ (\A i \in Owned : Earned(i) <= Cap) => settled = earnings

\* The player is paid exactly what the window promised at the click, although the
\* preview and the collection are separate code and a frame apart (game_panels.cpp:1246, 1295).
PreviewIsPaid == [][CollectIncome => gold' = gold + shown]_incomeVars
=============================================================================
