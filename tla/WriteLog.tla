------------------------------ MODULE WriteLog ------------------------------
(***************************************************************************)
(* The WriteLog of one thread (src/internal/write_log.rs, bloom.rs) under  *)
(* the operations of a read-write transaction (src/rw.rs).  The log is a   *)
(* vector of entries; a one-word bloom filter says whether a cell may be   *)
(* in it, and a hash map, built when the filter fails, says where.  Other  *)
(* threads appear only as the cells they make invalid.                     *)
(***************************************************************************)
EXTENDS Naturals, Sequences, FiniteSetsExt

CONSTANTS
  Cells,            \* the TCells
  Vals,             \* what can be set
  Bits,             \* the bits of the filter
  None              \* the cell of a tombstone; "not set"

ASSUME WriteLogAssumption == None \notin Cells \cup Vals

VARIABLES
  bits,       \* bloom_bit of each cell's address
  filter,     \* Bloom::filter, the bits that are set
  overflow,   \* Bloom::overflow, an index into data, or Absent
  data,       \* the entries, in the order they were pushed
  read_log,   \* the cells of the ReadLog
  invalid,    \* cells that fail rw_valid at present
  pc,         \* where the thread is
  request,    \* the set that has left the fast path
  pending,    \* history: the value of the last successful set of each cell
  failed      \* history: the cells whose set has returned SetError since
              \* the log was cleared

log == <<filter, overflow, data>>
vars == <<bits, log, read_log, invalid, pc, request, pending, failed>>

Absent == 0
OVERFLOWED == Bits
NoRequest == [tcell |-> None, val |-> None]
NothingSet == [c \in Cells |-> None]
EmptyMap == [c \in Cells |-> Absent]

(* A WriteEntry; a tombstone has no cell.                                  *)
Entries == [tcell : Cells \cup {None}, val : Vals]

Pcs == {"run", "set", "failed", "commit", "publish", "undefined"}

(* The cells that epoch_locks and write_entries visit.                     *)
Live == {data[i].tcell : i \in DOMAIN data} \ {None}

-----------------------------------------------------------------------------
(* The filter and the map.                                                 *)

(* Bloom::contained: Maybe or No.                                          *)
contained(c) == bits[c] \in filter

(* Mutant: the last free bit is used up.                                   *)
inserts_any_bit(c) == ~ contained(c)

(* Bloom::insert_inline returns No.  All bits set would mean OVERFLOWED.   *)
inserts_inline(c) == ~ contained(c) /\ filter \cup {bits[c]} # OVERFLOWED

(* Where WriteLog::overflow finds the cell.                                *)
IndexOf(c) == Max({Absent} \cup {i \in DOMAIN data : data[i].tcell = c})

(* Bloom::to_overflow fills the map on the first call only.                *)
to_overflow ==
  IF filter = OVERFLOWED THEN overflow
  ELSE [c \in Cells |-> IF IndexOf(c) # Absent THEN IndexOf(c)
                                               ELSE overflow[c]]

Overflow == filter' = OVERFLOWED /\ overflow' = to_overflow

(* WriteLog::find: the index of the entry, or Absent.                      *)
find(c) == IF contained(c) THEN to_overflow[c] ELSE Absent

(* Mutant: the map is left to the next overflow.                           *)
ClearFilterOnly ==
  /\ filter' = {}
  /\ overflow' = overflow
  /\ data' = <<>>
  /\ failed' = {}

(* Bloom::clear and clear or clear_no_drop of the vector.                  *)
Clear ==
  /\ filter' = {}
  /\ overflow' = IF filter = OVERFLOWED THEN EmptyMap ELSE overflow
  /\ data' = <<>>
  /\ failed' = {}

Push(c, v) == data' = Append(data, [tcell |-> c, val |-> v])

-----------------------------------------------------------------------------
Init ==
  /\ bits \in [Cells -> Bits]
  /\ filter = {}
  /\ overflow = EmptyMap
  /\ data = <<>>
  /\ read_log = {}
  /\ invalid = {}
  /\ pc = "run"
  /\ request = NoRequest
  /\ pending = NothingSet
  /\ failed = {}

(* Another thread locks the cell or commits to it ...                      *)
Invalidate(c) ==
  /\ c \notin invalid
  /\ invalid' = invalid \cup {c}
  /\ UNCHANGED <<bits, log, read_log, pc, request, pending, failed>>

(* ... and releases its lock with unlock_undo, or this thread repins.      *)
Revalidate(c) ==
  /\ c \in invalid
  /\ invalid' = invalid \ {c}
  /\ UNCHANGED <<bits, log, read_log, pc, request, pending, failed>>

-----------------------------------------------------------------------------
(* Borrowing.  What matters is only what it does to the logs; its Error    *)
(* may be ignored.                                                         *)

(* borrow_impl, borrow_slow: a cell that has not been set is recorded.     *)
BorrowLogged(c) ==
  /\ pc = "run"
  /\ find(c) <= Len(data)
  /\ IF contained(c) THEN Overflow ELSE UNCHANGED <<filter, overflow>>
  /\ read_log' = IF find(c) = Absent /\ c \notin invalid
                   THEN read_log \cup {c} ELSE read_log
  /\ UNCHANGED <<bits, data, invalid, pc, request, pending, failed>>

(* borrow_unlogged_slow skips the filter: it overflows always, also when   *)
(* it is here because the fast path saw an invalid cell.                   *)
BorrowUnlogged(c) ==
  /\ pc = "run"
  /\ contained(c) \/ c \in invalid
  /\ to_overflow[c] <= Len(data)
  /\ Overflow
  /\ UNCHANGED <<bits, data, read_log, invalid, pc, request, pending, failed>>

(* find_skip_filter reads past the end of the vector.                      *)
BorrowOutOfBounds(c) ==
  /\ pc = "run"
  /\ find(c) > Len(data)
  /\ Overflow
  /\ pc' = "undefined"
  /\ UNCHANGED <<bits, data, read_log, invalid, request, pending, failed>>

-----------------------------------------------------------------------------
(* Setting.                                                                *)

(* set_impl, the fast path.                                                *)
SetFast(c, v) ==
  /\ pc = "run"
  /\ inserts_inline(c)
  /\ c \notin invalid
  /\ filter' = filter \cup {bits[c]}
  /\ Push(c, v)
  /\ pending' = [pending EXCEPT ![c] = v]
  /\ UNCHANGED <<bits, overflow, read_log, invalid, pc, request, failed>>

(* set_impl calls set_slow: a vector would have to grow (any time), the    *)
(* filter says Maybe, or the cell is invalid, by when its bit is set.      *)
SetFallsBack(c, v) ==
  /\ pc = "run"
  /\ \/ UNCHANGED filter
     \/ /\ inserts_inline(c)
        /\ c \in invalid
        /\ filter' = filter \cup {bits[c]}
  /\ request' = [tcell |-> c, val |-> v]
  /\ pc' = "set"
  /\ UNCHANGED <<bits, overflow, data, read_log, invalid, pending, failed>>

SetReturns(label) == pc' = label /\ request' = NoRequest

(* WriteLog::entry finds nothing and claims the next index for the cell,   *)
(* before set_slow looks at the cell.                                      *)
Vacant(c) ==
  /\ pc = "set" /\ c = request.tcell
  /\ to_overflow[c] = Absent
  /\ filter' = OVERFLOWED
  /\ overflow' = [to_overflow EXCEPT ![c] = Len(data) + 1]

SetVacant(c) ==
  /\ Vacant(c)
  /\ c \notin invalid
  /\ Push(c, request.val)
  /\ pending' = [pending EXCEPT ![c] = request.val]
  /\ SetReturns("run")
  /\ UNCHANGED <<bits, read_log, invalid, failed>>

SetError(c) ==
  /\ Vacant(c)
  /\ c \in invalid
  /\ failed' = failed \cup {c}
  /\ SetReturns("failed")
  /\ UNCHANGED <<bits, data, read_log, invalid, pending>>

Occupied(c) ==
  /\ pc = "set" /\ c = request.tcell
  /\ to_overflow[c] \in DOMAIN data
  /\ filter' = OVERFLOWED

(* OccupiedEntry::overwrite, without a look at the cell.                   *)
SetOverwrite(c) ==
  /\ Occupied(c)
  /\ overflow' = to_overflow
  /\ data' = [data EXCEPT ![to_overflow[c]] = request]
  /\ pending' = [pending EXCEPT ![c] = request.val]
  /\ SetReturns("run")
  /\ UNCHANGED <<bits, read_log, invalid, failed>>

(* Mutants: the old entry stays; its value goes instead of its cell.       *)
keep_entry(i) == data[i]

forget_value(i) == [data[i] EXCEPT !.val = None]

(* The entry that tombstone_replace leaves behind.                         *)
tombstone(i) == [data[i] EXCEPT !.tcell = None]

(* OccupiedEntry::tombstone_replace, for values that are published.        *)
SetTombstone(c) ==
  /\ Occupied(c)
  /\ overflow' = [to_overflow EXCEPT ![c] = Len(data) + 1]
  /\ LET i == to_overflow[c]
     IN  data' = Append([data EXCEPT ![i] = tombstone(i)], request)
  /\ pending' = [pending EXCEPT ![c] = request.val]
  /\ SetReturns("run")
  /\ UNCHANGED <<bits, read_log, invalid, failed>>

(* word_index_unchecked_mut past the end of the vector.                    *)
SetOutOfBounds(c) ==
  /\ pc = "set" /\ c = request.tcell
  /\ to_overflow[c] > Len(data)
  /\ Overflow
  /\ SetReturns("undefined")
  /\ UNCHANGED <<bits, data, read_log, invalid, pending, failed>>

(* "however, this is not required"                                         *)
IgnoreSetError ==
  /\ pc = "failed"
  /\ pc' = "run"
  /\ UNCHANGED <<bits, log, read_log, invalid, request, pending, failed>>

-----------------------------------------------------------------------------
(* The end of a transaction; the next one starts at once.                  *)

NextTransaction ==
  /\ read_log' = {}
  /\ pending' = NothingSet
  /\ pc' = "run"
  /\ UNCHANGED <<bits, invalid, request>>

(* PinRw::drop, after a panic, an Error or a failed commit.                *)
Drop ==
  /\ pc \in {"run", "failed", "publish"} \/ (pc = "commit" /\ data # <<>>)
  /\ Clear
  /\ NextTransaction

(* The closure returns Ok.                                                 *)
ReturnOk ==
  /\ pc = "run"
  /\ pc' = "commit"
  /\ UNCHANGED <<bits, log, read_log, invalid, request, pending, failed>>

(* commit_empty_write_log leaves the write log alone.                      *)
CommitEmpty ==
  /\ pc = "commit"
  /\ data = <<>>
  /\ UNCHANGED <<log, failed>>
  /\ NextTransaction

(* Mutant: the filter's word is taken for the map's.                       *)
maybe_written(c) == contained(c)

(* Is a logged read dropped by remove_writes_from_reads?                   *)
written(c) == find(c) # Absent

(* commit_soft: remove_writes_from_reads looks up every logged read.       *)
RemoveWritesFromReads ==
  /\ pc = "commit"
  /\ data # <<>>
  /\ read_log' = {c \in read_log : ~ written(c)}
  /\ IF \E c \in read_log : contained(c) THEN Overflow
                                         ELSE UNCHANGED <<filter, overflow>>
  /\ pc' = "publish"
  /\ UNCHANGED <<bits, data, invalid, request, pending, failed>>

(* commit_hard locks and writes the entries as they are.                   *)
CommitHard ==
  /\ pc = "commit"
  /\ data # <<>>
  /\ pc' = "publish"
  /\ UNCHANGED <<bits, log, read_log, invalid, request, pending, failed>>

(* The commit succeeds: clear_no_drop.                                     *)
CommitDone ==
  /\ pc = "publish"
  /\ Clear
  /\ NextTransaction

-----------------------------------------------------------------------------
Next ==
  \/ \E c \in Cells :
       \/ Invalidate(c) \/ Revalidate(c)
       \/ BorrowLogged(c) \/ BorrowUnlogged(c) \/ BorrowOutOfBounds(c)
       \/ \E v \in Vals : SetFast(c, v) \/ SetFallsBack(c, v)
       \/ SetVacant(c) \/ SetError(c)
       \/ SetOverwrite(c) \/ SetTombstone(c) \/ SetOutOfBounds(c)
  \/ IgnoreSetError
  \/ Drop
  \/ ReturnOk
  \/ CommitEmpty
  \/ RemoveWritesFromReads
  \/ CommitHard
  \/ CommitDone

Spec == Init /\ [][Next]_vars

-----------------------------------------------------------------------------
(* Properties.                                                             *)

(* Every variable keeps its type.                                          *)
WriteLogTypeOK ==
  /\ bits \in [Cells -> Bits]
  /\ filter \in SUBSET Bits
  /\ overflow \in [Cells -> Nat]
  /\ data \in Seq(Entries)
  /\ read_log \in SUBSET Cells
  /\ invalid \in SUBSET Cells
  /\ pc \in Pcs
  /\ request \in [tcell : Cells, val : Vals] \cup {NoRequest}
  /\ pending \in [Cells -> Vals \cup {None}]
  /\ failed \in SUBSET Cells

(* Bloom::clear, bloom.rs: "`clear` failed to empty the container".  Only  *)
(* an overflowed filter is followed by a clear of the map, so no other     *)
(* filter may leave anything in it, whatever the closure does.             *)
MapOnlyOverflowed == filter # OVERFLOWED => overflow = EmptyMap

(* A transaction reads its own writes: through filter, map and vector, a   *)
(* borrow finds the value set last, and nothing for a cell that was not    *)
(* set.  A SetError spoils the log until it is cleared, and no longer.     *)
ReadsOwnWrites ==
  failed = {} =>
    \A c \in Cells :
      IF pending[c] = None THEN find(c) = Absent
      ELSE /\ find(c) \in DOMAIN data
           /\ data[find(c)] = [tcell |-> c, val |-> pending[c]]

(* What commit walks over is what was set: one live entry for each cell    *)
(* (a second one would find its own lock taken, and fail for ever), with   *)
(* the value set last.                                                     *)
PublishesPending ==
  pc = "publish" /\ failed = {} =>
    /\ Live = {c \in Cells : pending[c] # None}
    /\ \A i, j \in DOMAIN data :
         data[i].tcell # None =>
           /\ data[i].val = pending[data[i].tcell]
           /\ data[i].tcell = data[j].tcell => i = j

(* commit_soft, commit.rs: "So we remove all TCells in the read log that   *)
(* are also in the write log, and assume all TCells in the write log were  *)
(* also in the read log."  A read that is removed and not locked is never  *)
(* validated.                                                              *)
OnlyWritesRemoved ==
  [][pc = "commit" /\ pc' = "publish" /\ failed = {} =>
       read_log \ read_log' \subseteq Live]_vars

(* The map, once there is one, knows exactly the live entries.             *)
Mapped ==
  filter = OVERFLOWED =>
    \A c \in Cells :
      IF c \in Live THEN /\ overflow[c] \in DOMAIN data
                        /\ data[overflow[c]].tcell = c
                   ELSE overflow[c] = Absent

(* The live entries are the pending values, each once, and the filter      *)
(* knows them.                                                             *)
Exact ==
  /\ \A i \in DOMAIN data : data[i].tcell # None =>
       /\ data[i].val = pending[data[i].tcell]
       /\ bits[data[i].tcell] \in filter
       /\ \A j \in DOMAIN data : data[i].tcell = data[j].tcell => i = j
  /\ \A c \in Cells : pending[c] # None => c \in Live

(* The invariant of the log, whatever closures do: a SetError breaks       *)
(* Mapped, until the log is cleared.  It implies ReadsOwnWrites,           *)
(* PublishesPending and OnlyWritesRemoved.                                 *)
LogInv ==
  /\ WriteLogTypeOK
  /\ MapOnlyOverflowed
  /\ pc \in {"failed", "undefined"} => failed # {}
  /\ failed # {} => filter = OVERFLOWED
  /\ pc = "set" => request # NoRequest
  /\ failed = {} => Mapped /\ Exact
=============================================================================
