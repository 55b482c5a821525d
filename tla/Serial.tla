------------------------------- MODULE Serial -------------------------------
(***************************************************************************)
(* What swym promises of transactions (lib.rs: "Behaves as though a single *)
(* global lock were held for the duration of every transaction").  There   *)
(* is one order of turns.  A transaction that writes takes its turn while  *)
(* it runs, and in the end either has had its effect at that turn, all at  *)
(* once and for good, or none at all.  What it reads is what the turns of  *)
(* others have left: first those that were over when it began, and at its  *)
(* commit those before its own.                                            *)
(***************************************************************************)
EXTENDS Integers, FiniteSetsExt

CONSTANTS
  Threads,
  Cells,
  CellVals,
  InitVal,
  None

VARIABLES
  turns,     \* how many turns have been taken
  history,   \* what was read and written at each turn that had an effect
  active,    \* the threads in a transaction
  turn,      \* the turn each has taken, or NoTurn
  since,     \* the last turn that was over when it began
  borrowed,  \* what its borrows have returned
  logged,    \* the cells of borrows that the commit is to uphold
  pending    \* what it has set

NoTurn == 0
NoEntries == [c \in Cells |-> None]

(* What the turns up to n have left in c.                                  *)
ValueAt(n, c) ==
  LET writers == {i \in DOMAIN history : i <= n /\ history[i].writes[c] # None}
  IN  IF writers = {} THEN InitVal ELSE history[Max(writers)].writes[c]

Init ==
  /\ turns = 0
  /\ history = [i \in {} |-> None]
  /\ active = {}
  /\ turn = [t \in Threads |-> NoTurn]
  /\ since = [t \in Threads |-> 0]
  /\ borrowed = [t \in Threads |-> NoEntries]
  /\ logged = [t \in Threads |-> {}]
  /\ pending = [t \in Threads |-> NoEntries]

(* A transaction sees all that was over before it.                         *)
Begin(t) ==
  /\ t \notin active
  /\ active' = active \cup {t}
  /\ since' = [since EXCEPT ![t] = Max({0} \cup DOMAIN history)]
  /\ UNCHANGED <<turns, history, turn, borrowed, logged, pending>>

Running(t) == t \in active /\ turn[t] = NoTurn

(* Whatever it borrows, it sees one moment (but its own value of a cell it *)
(* has set); uphold says whether c has to be the same at its turn.         *)
Borrow(t, c, uphold) ==
  /\ Running(t)
  /\ pending[t][c] = None
  /\ borrowed' = [borrowed EXCEPT ![t][c] = ValueAt(since[t], c)]
  /\ logged' = IF uphold THEN [logged EXCEPT ![t] = @ \cup {c}] ELSE logged
  /\ UNCHANGED <<turns, history, active, turn, since, pending>>

Set(t, c, v) ==
  /\ Running(t)
  /\ pending' = [pending EXCEPT ![t][c] = v]
  /\ UNCHANGED <<turns, history, active, turn, since, borrowed, logged>>

TakeTurn(t) ==
  /\ Running(t)
  /\ turns' = turns + 1
  /\ turn' = [turn EXCEPT ![t] = turns']
  /\ UNCHANGED <<history, active, since, borrowed, logged, pending>>

Ended(t) ==
  /\ active' = active \ {t}
  /\ turn' = [turn EXCEPT ![t] = NoTurn]
  /\ since' = [since EXCEPT ![t] = 0]
  /\ borrowed' = [borrowed EXCEPT ![t] = NoEntries]
  /\ logged' = [logged EXCEPT ![t] = {}]
  /\ pending' = [pending EXCEPT ![t] = NoEntries]

(* Without an effect: it has failed, or there is nothing to write.         *)
End(t) ==
  /\ t \in active
  /\ Ended(t)
  /\ UNCHANGED <<turns, history>>

(* What t is to uphold: the borrows it logged, and those of cells that it  *)
(* has set.                                                                *)
Upheld(t) ==
  [c \in Cells |-> IF c \in logged[t] \/ pending[t][c] # None
                     THEN borrowed[t][c] ELSE None]

(* At its turn, what t upholds is what it would read.                      *)
ReadsNow(t) ==
  \A c \in Cells :
    Upheld(t)[c] # None => Upheld(t)[c] = ValueAt(turn[t] - 1, c)

(* Nobody with a view from a later turn has looked at what t writes.       *)
Unseen(t) ==
  \A c \in Cells : pending[t][c] # None =>
    /\ \A i \in DOMAIN history : history[i].reads[c] # None => i < turn[t]
    /\ \A u \in active \ {t} : borrowed[u][c] # None => since[u] < turn[t]

Commit(t) ==
  /\ t \in active /\ turn[t] # NoTurn
  /\ ReadsNow(t)
  /\ Unseen(t)
  /\ history' = [i \in DOMAIN history \cup {turn[t]} |->
                   IF i = turn[t]
                     THEN [reads |-> Upheld(t), writes |-> pending[t]]
                     ELSE history[i]]
  /\ Ended(t)
  /\ UNCHANGED turns

Next ==
  \E t \in Threads :
    \/ Begin(t)
    \/ \E c \in Cells, uphold \in BOOLEAN : Borrow(t, c, uphold)
    \/ \E c \in Cells, v \in CellVals : Set(t, c, v)
    \/ TakeTurn(t)
    \/ End(t)
    \/ Commit(t)

Spec ==
  Init /\ [][Next]_<<turns, history, active, turn, since, borrowed, logged,
                     pending>>
=============================================================================
