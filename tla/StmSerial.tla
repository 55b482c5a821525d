------------------------------ MODULE StmSerial ------------------------------
(***************************************************************************)
(* The history of Stm as an implementation of Serial.  The turns are the   *)
(* entries of the order; a turn is over once the clock has dated it, which *)
(* may be long after the turns behind it.                                  *)
(***************************************************************************)
EXTENDS StmHistoryInvariant

(* From the pin until the tick, or until all hope is lost.                 *)
InTransaction(t) == pc[t] \notin {"idle", "repin", "undo", "publish"}

During(t, known, otherwise) == IF InTransaction(t) THEN known ELSE otherwise

TurnsOver == {i \in DOMAIN order : order[i].epoch >= 1}

(* The place of the entry of t, or 0.                                      *)
TurnOf(t) == Max({0} \cup {i \in DOMAIN order : PendingOf(t, order[i])})

(* The variables of Serial.                                                *)
TurnsTaken == Len(order)
Effects == [i \in TurnsOver |-> [reads  |-> order[i].reads,
                                 writes |-> order[i].writes]]
Active == {t \in Threads : InTransaction(t)}
Turn   == [t \in Threads |-> TurnOf(t)]
Since  == [t \in Threads |-> During(t, PrefixAt(thread_epoch[t]), 0)]
Got    == [t \in Threads |-> During(t, reads[t], NoEntries)]
Keeps  == [t \in Threads |-> During(t, Logged(t), {})]
Puts   == [t \in Threads |-> During(t, write_log[t], NoEntries)]

Mapped == <<TurnsTaken, Effects, Active, Turn, Since, Got, Keeps, Puts>>

Abstract ==
  INSTANCE Serial WITH
    turns <- TurnsTaken, history <- Effects, active <- Active, turn <- Turn,
    since <- Since, borrowed <- Got, logged <- Keeps, pending <- Puts

(* Transactions have the effect of turns in one order: what they read and  *)
(* what they write fits there at their commit and ever after, and who      *)
(* begins after a commit comes after it (lib.rs: "Behaves as though a      *)
(* single global lock were held for the duration of every transaction").   *)
IsSerial == Abstract!Spec

(* What the refinement needs in addition to HInv.  An entry has the reads  *)
(* that its owner is to uphold; a cell that is being borrowed has not been *)
(* set; a transaction starts with an empty ReadLog.                        *)
EntryInv ==
  \A t \in Threads :
    /\ \A i \in DOMAIN order :
         PendingOf(t, order[i]) => order[i].reads = CheckedReads(t)
    /\ pc[t] = "load" => write_log[t][cursor[t]] = None
    /\ pc[t] \in {"idle", "repin"} => read_log[t] = {}
=============================================================================
