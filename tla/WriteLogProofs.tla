--------------------------- MODULE WriteLogProofs ---------------------------
(***************************************************************************)
(* The filter, the map and the vector of the WriteLog together are a map   *)
(* from cells to pending values, but for a SetError: it spoils them until  *)
(* the log is cleared.                                                     *)
(***************************************************************************)
EXTENDS WriteLog, TLAPS

USE DEF Absent, OVERFLOWED, NoRequest, NothingSet, EmptyMap, inserts_inline,
        written

(* Elements and updates of sequences.                                      *)
LEMMA SeqFacts ==
  ASSUME NEW R, NEW s \in Seq(R), NEW e \in R
  PROVE  /\ DOMAIN s = 1..Len(s) /\ Len(s) \in Nat
         /\ \A i \in DOMAIN s : s[i] \in R
         /\ \A i \in DOMAIN s : /\ [s EXCEPT ![i] = e] \in Seq(R)
                               /\ Len([s EXCEPT ![i] = e]) = Len(s)
         /\ Append(s, e) \in Seq(R)
         /\ DOMAIN Append(s, e) = 1..(Len(s) + 1)
         /\ Append(s, e)[Len(s) + 1] = e
         /\ \A i \in DOMAIN s : Append(s, e)[i] = s[i]
OBVIOUS

(* What an entry is made of.                                               *)
LEMMA EntryType ==
  ASSUME WriteLogTypeOK, NEW i \in DOMAIN data
  PROVE  data[i].tcell \in Cells \cup {None} /\ data[i].val \in Vals
<1>1. DOMAIN data = 1..Len(data)
  BY DEF WriteLogTypeOK
<1>2. data[i] \in Entries
  BY <1>1 DEF WriteLogTypeOK
<1> QED BY <1>2 DEF Entries

(* An entry that nothing else shares its cell with is the one that         *)
(* WriteLog::overflow puts into the map.                                   *)
LEMMA IndexIsRight ==
  ASSUME WriteLogTypeOK, Exact, NEW c \in Cells
  PROVE  /\ IndexOf(c) \in Nat
         /\ IF c \in Live
              THEN IndexOf(c) \in DOMAIN data /\ data[IndexOf(c)].tcell = c
              ELSE IndexOf(c) = Absent
<1> DEFINE S == {Absent} \cup {i \in DOMAIN data : data[i].tcell = c}
<1>1. DOMAIN data = 1..Len(data) /\ Len(data) \in Nat
  BY DEF WriteLogTypeOK
<1>2. c # None
  BY WriteLogAssumption
<1>3. CASE c \in Live
  <2>1. PICK i \in DOMAIN data : data[i].tcell = c
    BY <1>3 DEF Live
  <2>2. S = {0, i}
    BY <2>1, <1>2 DEF Exact
  <2>3. i \in S /\ \A y \in S : i >= y
    BY <1>1, <2>1, <2>2
  <2>4. Max(S) \in S /\ \A y \in S : Max(S) >= y
    BY <2>3 DEF Max
  <2>5. Max(S) = i
    BY <1>1, <2>2, <2>4
  <2> QED BY <1>1, <1>3, <2>1, <2>5 DEF IndexOf
<1>4. CASE c \notin Live
  <2>1. S = {0}
    BY <1>2, <1>4 DEF Live
  <2>2. Max(S) = 0
    BY <2>1 DEF Max
  <2> QED BY <1>4, <2>2 DEF IndexOf
<1> QED BY <1>3, <1>4

(* So the map that to_overflow leaves is right.                            *)
LEMMA MapIsRight ==
  ASSUME LogInv, failed = {}
  PROVE  /\ to_overflow \in [Cells -> Nat]
         /\ \A c \in Cells :
              IF c \in Live THEN /\ to_overflow[c] \in DOMAIN data
                                 /\ data[to_overflow[c]].tcell = c
                            ELSE to_overflow[c] = Absent
<1>1. CASE filter = OVERFLOWED
  BY <1>1 DEF LogInv, Mapped, to_overflow, WriteLogTypeOK
<1>2. CASE filter # OVERFLOWED
  <2>1. overflow = EmptyMap /\ WriteLogTypeOK /\ Exact
    BY <1>2 DEF LogInv, MapOnlyOverflowed
  <2>2. \A c \in Cells : to_overflow[c] = IndexOf(c)
    BY <1>2, <2>1 DEF to_overflow
  <2>3. to_overflow \in [Cells -> Nat]
    BY <1>2, <2>1, IndexIsRight DEF to_overflow
  <2> QED BY <2>1, <2>2, <2>3, IndexIsRight
<1> QED BY <1>1, <1>2

(* find therefore tells what is in the log.                                *)
LEMMA FindIsRight ==
  ASSUME LogInv, failed = {}, NEW c \in Cells
  PROVE  IF c \in Live THEN find(c) \in DOMAIN data /\ data[find(c)].tcell = c
                       ELSE find(c) = Absent
<1>1. c # None
  BY WriteLogAssumption
<1>2. c \in Live => contained(c)
  BY <1>1 DEF LogInv, Exact, Live, contained
<1> QED BY <1>2, MapIsRight DEF find

-----------------------------------------------------------------------------
(* Membership in Live, without the set.                                    *)
LEMMA LiveMeans ==
  ASSUME NEW c \in Cells
  PROVE  c \in Live <=> \E i \in DOMAIN data : data[i].tcell = c
BY WriteLogAssumption DEF Live

(* A new entry at the end of the vector, for a cell that is not live.      *)
LEMMA PushStep ==
  ASSUME LogInv, failed = {}, NEW c \in Cells, NEW v \in Vals,
         c \notin Live, Push(c, v), bits' = bits,
         filter \cup {bits[c]} \subseteq filter',
         pending' = [pending EXCEPT ![c] = v]
  PROVE  /\ Exact'
         /\ Live' = Live \cup {c}
         /\ data' \in Seq(Entries)
         /\ Len(data') = Len(data) + 1
         /\ data'[Len(data) + 1] = [tcell |-> c, val |-> v]
         /\ \A i \in DOMAIN data : i \in DOMAIN data' /\ data'[i] = data[i]
<1> DEFINE e == [tcell |-> c, val |-> v]
<1>1. /\ data \in Seq(Entries)
      /\ e \in Entries
      /\ pending \in [Cells -> Vals \cup {None}]
  BY DEF LogInv, WriteLogTypeOK, Entries
<1>2. data' = Append(data, e)
  BY DEF Push
<1>3. /\ data' \in Seq(Entries)
      /\ Len(data') = Len(data) + 1
      /\ DOMAIN data = 1..Len(data) /\ DOMAIN data' = 1..(Len(data) + 1)
      /\ Len(data) \in Nat
      /\ data'[Len(data) + 1] = e
      /\ \A i \in 1..Len(data) : data'[i] = data[i]
  BY <1>1, <1>2, SeqFacts
<1>4. \A i \in DOMAIN data : data[i].tcell # c
  BY LiveMeans
<1>5. Live' = Live \cup {c}
  <2>1. c # None
    BY WriteLogAssumption
  <2>2. ASSUME NEW d PROVE d \in Live' <=> d \in Live \cup {c}
    <3>1. d \in Live' <=> d # None /\ \E i \in DOMAIN data' : data'[i].tcell = d
      BY DEF Live
    <3>2. d \in Live <=> d # None /\ \E i \in DOMAIN data : data[i].tcell = d
      BY DEF Live
    <3>3. e.tcell = c
      OBVIOUS
    <3> QED BY <1>3, <2>1, <3>1, <3>2, <3>3
  <2> QED BY <2>2
<1>6. ASSUME NEW i \in DOMAIN data', data'[i].tcell # None
      PROVE  /\ data'[i].val = pending'[data'[i].tcell]
             /\ bits'[data'[i].tcell] \in filter'
             /\ \A j \in DOMAIN data' : data'[i].tcell = data'[j].tcell => i = j
  <2>1. CASE i = Len(data) + 1
    <3>1. data'[i].tcell = c /\ data'[i].val = v
      BY <1>3, <2>1
    <3>2. \A j \in DOMAIN data' : data'[j].tcell = c => j = i
      BY <1>3, <1>4, <2>1
    <3> QED BY <1>1, <3>1, <3>2
  <2>2. CASE i # Len(data) + 1
    <3>1. i \in DOMAIN data /\ data'[i] = data[i]
      BY <1>3, <2>2
    <3>2. data[i].tcell \in Cells /\ data[i].tcell # c
      BY <1>4, <1>6, <3>1, EntryType DEF LogInv
    <3>3. /\ data[i].val = pending[data[i].tcell]
          /\ bits[data[i].tcell] \in filter
          /\ \A j \in DOMAIN data : data[i].tcell = data[j].tcell => i = j
      BY <1>6, <3>1 DEF LogInv, Exact
    <3>4. \A j \in DOMAIN data' : data'[i].tcell = data'[j].tcell => i = j
      BY <1>3, <3>1, <3>2, <3>3
    <3> QED BY <1>1, <3>1, <3>2, <3>3, <3>4
  <2> QED BY <2>1, <2>2
<1>7. \A d \in Cells : pending'[d] # None => d \in Live'
  BY <1>1, <1>5 DEF LogInv, Exact
<1> QED BY <1>3, <1>5, <1>6, <1>7 DEF Exact

(* An entry is overwritten in place.                                       *)
LEMMA OverwriteStep ==
  ASSUME LogInv, failed = {}, NEW c \in Cells, SetOverwrite(c)
  PROVE  LogInv'
<1> DEFINE i == to_overflow[c]
<1>1. /\ pc = "set" /\ c = request.tcell
      /\ i \in DOMAIN data /\ filter' = OVERFLOWED
      /\ overflow' = to_overflow /\ data' = [data EXCEPT ![i] = request]
      /\ pending' = [pending EXCEPT ![c] = request.val]
      /\ pc' = "run" /\ request' = NoRequest
      /\ UNCHANGED <<bits, read_log, invalid, failed>>
  BY DEF SetOverwrite, Occupied, SetReturns
<1>2. /\ request \in [tcell : Cells, val : Vals]
      /\ data \in Seq(Entries)
      /\ pending \in [Cells -> Vals \cup {None}]
      /\ filter \in SUBSET Bits /\ bits \in [Cells -> Bits]
  BY <1>1 DEF LogInv, WriteLogTypeOK
<1>3. /\ DOMAIN data = 1..Len(data) /\ Len(data) \in Nat
      /\ data' \in Seq(Entries)
      /\ DOMAIN data' = DOMAIN data
      /\ data'[i] = request
      /\ \A j \in DOMAIN data : j # i => data'[j] = data[j]
  <2>1. request \in Entries
    BY <1>2 DEF Entries
  <2> QED BY <1>1, <1>2, <2>1
<1>4. /\ to_overflow \in [Cells -> Nat]
      /\ \A d \in Cells :
           IF d \in Live THEN /\ to_overflow[d] \in DOMAIN data
                              /\ data[to_overflow[d]].tcell = d
                         ELSE to_overflow[d] = Absent
  BY MapIsRight
<1>5. data[i].tcell = c
  BY <1>1, <1>3, <1>4
<1>6. \A j \in DOMAIN data : data'[j].tcell = data[j].tcell
  BY <1>1, <1>3, <1>5
<1>7. Live' = Live
  BY <1>3, <1>6 DEF Live
<1>8. Mapped'
  BY <1>1, <1>3, <1>4, <1>6, <1>7 DEF Mapped
<1>9. Exact'
  <2>1. ASSUME NEW j \in DOMAIN data, data[j].tcell # None
        PROVE  /\ data'[j].val = pending'[data'[j].tcell]
               /\ bits'[data'[j].tcell] \in filter'
               /\ \A k \in DOMAIN data : data'[j].tcell = data'[k].tcell => j = k
    <3>1. /\ data[j].val = pending[data[j].tcell]
          /\ \A k \in DOMAIN data : data[j].tcell = data[k].tcell => j = k
      BY <2>1 DEF LogInv, Exact
    <3>2. data[j].tcell \in Cells
      BY <2>1, EntryType DEF LogInv
    <3>3. j # i => data[j].tcell # c
      BY <1>1, <1>5, <3>1
    <3> QED BY <1>1, <1>2, <1>3, <1>5, <1>6, <3>1, <3>2, <3>3
  <2>2. \A d \in Cells : pending'[d] # None => d \in Live'
    <3>1. c \in Live
      BY <1>1, <1>5, LiveMeans
    <3> QED BY <1>1, <1>2, <1>7, <3>1 DEF LogInv, Exact
  <2> QED BY <1>3, <1>6, <2>1, <2>2 DEF Exact
<1>10. WriteLogTypeOK'
  BY <1>1, <1>2, <1>3, <1>4 DEF LogInv, WriteLogTypeOK, Pcs
<1> QED BY <1>1, <1>8, <1>9, <1>10 DEF LogInv, MapOnlyOverflowed

(* An entry is turned into a tombstone and a new one pushed.               *)
LEMMA TombstoneStep ==
  ASSUME LogInv, failed = {}, NEW c \in Cells, SetTombstone(c)
  PROVE  LogInv'
<1> DEFINE i == to_overflow[c]
           n == Len(data) + 1
           marked == [data EXCEPT ![i] = tombstone(i)]
<1>1. /\ pc = "set" /\ c = request.tcell
      /\ i \in DOMAIN data /\ filter' = OVERFLOWED
      /\ overflow' = [to_overflow EXCEPT ![c] = n]
      /\ data' = Append(marked, request)
      /\ pending' = [pending EXCEPT ![c] = request.val]
      /\ pc' = "run" /\ request' = NoRequest
      /\ UNCHANGED <<bits, read_log, invalid, failed>>
  BY DEF SetTombstone, Occupied, SetReturns
<1>2. /\ request \in [tcell : Cells, val : Vals]
      /\ data \in Seq(Entries)
      /\ pending \in [Cells -> Vals \cup {None}]
      /\ filter \in SUBSET Bits /\ bits \in [Cells -> Bits]
  BY <1>1 DEF LogInv, WriteLogTypeOK
<1>3. DOMAIN data = 1..Len(data) /\ Len(data) \in Nat
  BY <1>2
<1>4. /\ tombstone(i) \in Entries
      /\ tombstone(i).tcell = None
  <2>1. data[i] \in Entries
    BY <1>1, <1>2, <1>3
  <2> QED BY <2>1 DEF tombstone, Entries
<1>5. /\ marked \in Seq(Entries)
      /\ Len(marked) = Len(data) /\ DOMAIN marked = DOMAIN data
      /\ marked[i] = tombstone(i)
      /\ \A j \in DOMAIN data : j # i => marked[j] = data[j]
  BY <1>1, <1>2, <1>3, <1>4
<1> HIDE DEF marked, i
<1>r. request \in Entries
  BY <1>2 DEF Entries
<1>6. /\ data' \in Seq(Entries)
      /\ DOMAIN data' = 1..n /\ data'[n] = request
      /\ \A j \in DOMAIN data : data'[j] = marked[j]
  <2>1. data' = Append(marked, request)
    BY <1>1
  <2>2. /\ Append(marked, request) \in Seq(Entries)
        /\ DOMAIN Append(marked, request) = 1..(Len(marked) + 1)
        /\ Append(marked, request)[Len(marked) + 1] = request
        /\ \A j \in DOMAIN marked : Append(marked, request)[j] = marked[j]
    BY <1>r, <1>5, SeqFacts
  <2> QED BY <2>1, <2>2, <1>5
<1>7. /\ to_overflow \in [Cells -> Nat]
      /\ \A d \in Cells :
           IF d \in Live THEN /\ to_overflow[d] \in DOMAIN data
                              /\ data[to_overflow[d]].tcell = d
                         ELSE to_overflow[d] = Absent
  BY MapIsRight
<1>8. data[i].tcell = c /\ c # None /\ c \in Live
  BY <1>1, <1>3, <1>7, WriteLogAssumption DEF i
<1>9. \A j \in DOMAIN data : data[j].tcell = c => j = i
  BY <1>1, <1>8 DEF LogInv, Exact
<1>10. \A j \in DOMAIN data' :
         data'[j].tcell = IF j = n THEN c
                          ELSE IF j = i THEN None ELSE data[j].tcell
  BY <1>1, <1>3, <1>4, <1>5, <1>6
<1>11. Live' = Live
  <2>1. ASSUME NEW d PROVE d \in Live' <=> d \in Live
    <3>1. d \in Live' <=> d # None /\ \E j \in DOMAIN data' : data'[j].tcell = d
      BY DEF Live
    <3>2. d \in Live <=> d # None /\ \E j \in DOMAIN data : data[j].tcell = d
      BY DEF Live
    <3>3. CASE d = c
      BY <1>3, <1>6, <1>8, <1>10, <3>1, <3>3
    <3>4. CASE d # c
      BY <1>3, <1>6, <1>8, <1>10, <3>1, <3>2, <3>4
    <3> QED BY <3>3, <3>4
  <2> QED BY <2>1
<1>12. Mapped'
  <2>1. ASSUME NEW d \in Cells
        PROVE  IF d \in Live' THEN /\ overflow'[d] \in DOMAIN data'
                                   /\ data'[overflow'[d]].tcell = d
                              ELSE overflow'[d] = Absent
    <3>1. CASE d = c
      BY <1>1, <1>2, <1>3, <1>6, <1>7, <1>8, <1>11, <3>1
    <3>2. CASE d # c
      <4>1. overflow'[d] = to_overflow[d]
        BY <1>1, <1>7, <3>2
      <4>2. d \in Live => to_overflow[d] # i
        BY <1>7, <1>8, <3>2
      <4> QED BY <1>3, <1>6, <1>7, <1>10, <1>11, <4>1, <4>2
    <3> QED BY <3>1, <3>2
  <2> QED BY <2>1 DEF Mapped
<1>13. Exact'
  <2>1. ASSUME NEW j \in DOMAIN data', data'[j].tcell # None
        PROVE  /\ data'[j].val = pending'[data'[j].tcell]
               /\ bits'[data'[j].tcell] \in filter'
               /\ \A k \in DOMAIN data' : data'[j].tcell = data'[k].tcell => j = k
    <3>1. CASE j = n
      <4>1. data'[j].tcell = c /\ data'[j].val = request.val
        BY <1>1, <1>6, <3>1
      <4>2. \A k \in DOMAIN data' : data'[k].tcell = c => k = n
        BY <1>3, <1>6, <1>8, <1>9, <1>10
      <4> QED BY <1>1, <1>2, <3>1, <4>1, <4>2
    <3>2. CASE j # n
      <4>1. /\ j \in DOMAIN data /\ j # i /\ data'[j] = data[j]
            /\ data[j].tcell # c /\ data[j].tcell # None
        BY <1>3, <1>5, <1>6, <1>9, <1>10, <2>1, <3>2
      <4>2. data[j].tcell \in Cells
        BY <4>1, EntryType DEF LogInv
      <4>3. /\ data[j].val = pending[data[j].tcell]
            /\ \A k \in DOMAIN data : data[j].tcell = data[k].tcell => j = k
        BY <4>1 DEF LogInv, Exact
      <4>4. \A k \in DOMAIN data' : data'[j].tcell = data'[k].tcell => j = k
        BY <1>3, <1>6, <1>10, <4>1, <4>3
      <4> QED BY <1>1, <1>2, <4>1, <4>2, <4>3, <4>4
    <3> QED BY <3>1, <3>2
  <2>2. \A d \in Cells : pending'[d] # None => d \in Live'
    BY <1>1, <1>2, <1>8, <1>11 DEF LogInv, Exact
  <2> QED BY <2>1, <2>2 DEF Exact
<1>14. WriteLogTypeOK'
  BY <1>1, <1>2, <1>3, <1>6, <1>7 DEF LogInv, WriteLogTypeOK, Pcs
<1> QED BY <1>1, <1>12, <1>13, <1>14 DEF LogInv, MapOnlyOverflowed

(* A step that only moves the filter and the map, as to_overflow does.     *)
LEMMA LookupStep ==
  ASSUME LogInv, failed = {}, UNCHANGED <<bits, data, pending>>,
         Overflow \/ UNCHANGED <<filter, overflow>>
  PROVE  /\ MapOnlyOverflowed' /\ Mapped' /\ Exact'
         /\ filter' \in SUBSET Bits /\ overflow' \in [Cells -> Nat]
<1>1. Live' = Live
  BY DEF Live
<1>2. CASE UNCHANGED <<filter, overflow>>
  BY <1>1, <1>2
     DEF LogInv, MapOnlyOverflowed, Mapped, Exact, WriteLogTypeOK
<1>3. CASE Overflow
  <2>1. filter' = OVERFLOWED /\ overflow' = to_overflow
    BY <1>3 DEF Overflow
  <2>2. Mapped'
    BY <1>1, <2>1, MapIsRight DEF Mapped
  <2>3. Exact'
    <3>1. ASSUME NEW i \in DOMAIN data, data[i].tcell # None
          PROVE  bits[data[i].tcell] \in Bits
      BY <3>1, EntryType DEF LogInv, WriteLogTypeOK
    <3> QED BY <1>1, <2>1, <3>1 DEF LogInv, Exact
  <2> QED BY <2>1, <2>2, <2>3, MapIsRight DEF MapOnlyOverflowed
<1> QED BY <1>2, <1>3

(* The log is empty after Clear, whatever was in it.                       *)
LEMMA ClearStep ==
  ASSUME LogInv, Clear, NextTransaction
  PROVE  LogInv'
<1>1. /\ filter' = {} /\ overflow' = EmptyMap /\ data' = <<>>
      /\ pc' = "run" /\ pending' = NothingSet /\ read_log' = {}
      /\ failed' = {} /\ UNCHANGED <<bits, invalid, request>>
  BY DEF Clear, NextTransaction, LogInv, MapOnlyOverflowed
<1>2. data' \in Seq(Entries) /\ DOMAIN data' = {}
  BY <1>1
<1>3. Live' = {}
  BY <1>2 DEF Live
<1>4. WriteLogTypeOK'
  BY <1>1, <1>2 DEF LogInv, WriteLogTypeOK, Pcs
<1> QED BY <1>1, <1>2, <1>3, <1>4 DEF LogInv, MapOnlyOverflowed, Mapped, Exact

-----------------------------------------------------------------------------
(* A log that is not touched stays as it is.                               *)
LEMMA IdleStep ==
  ASSUME LogInv, failed = {}, UNCHANGED <<bits, log, pending, failed>>,
         pc' \notin {"failed", "undefined"},
         WriteLogTypeOK', pc' = "set" => request' # NoRequest
  PROVE  LogInv'
<1>1. UNCHANGED <<filter, overflow, data>> /\ Live' = Live
  BY DEF log, Live
<1> QED BY <1>1 DEF LogInv, MapOnlyOverflowed, Mapped, Exact

(* The log starts empty.                                                   *)
LEMMA InitLog == Init => LogInv
<1> SUFFICES ASSUME Init PROVE LogInv
  OBVIOUS
<1>1. data \in Seq(Entries) /\ DOMAIN data = {}
  BY DEF Init
<1>2. Live = {}
  BY <1>1 DEF Live
<1>3. WriteLogTypeOK
  BY <1>1 DEF Init, WriteLogTypeOK, Pcs
<1> QED BY <1>1, <1>2, <1>3 DEF Init, LogInv, MapOnlyOverflowed, Mapped, Exact

(* The fast path of set: the filter has never seen the cell.               *)
LEMMA FastStep ==
  ASSUME LogInv, failed = {}, NEW c \in Cells, NEW v \in Vals, SetFast(c, v)
  PROVE  LogInv'
<1>1. /\ pc = "run" /\ bits[c] \notin filter
      /\ filter' = filter \cup {bits[c]} /\ filter' # OVERFLOWED
      /\ Push(c, v) /\ pending' = [pending EXCEPT ![c] = v]
      /\ UNCHANGED <<bits, overflow, read_log, invalid, pc, request, failed>>
  BY DEF SetFast, contained
<1>2. bits \in [Cells -> Bits] /\ filter \in SUBSET Bits /\ Exact
      /\ pending \in [Cells -> Vals \cup {None}]
  BY <1>1 DEF LogInv, WriteLogTypeOK
<1>3. c \notin Live
  <2>1. c # None
    BY WriteLogAssumption
  <2> QED BY <1>1, <1>2, <2>1, LiveMeans DEF Exact
<1>4. filter # OVERFLOWED
  BY <1>1, <1>2
<1>5. Exact' /\ data' \in Seq(Entries)
  BY <1>1, <1>3, PushStep
<1>6. WriteLogTypeOK'
  BY <1>1, <1>2, <1>5 DEF LogInv, WriteLogTypeOK
<1> QED BY <1>1, <1>4, <1>5, <1>6 DEF LogInv, MapOnlyOverflowed, Mapped

(* A set through the map: the index claimed is that of the new entry.      *)
LEMMA VacantStep ==
  ASSUME LogInv, failed = {}, NEW c \in Cells, SetVacant(c)
  PROVE  LogInv'
<1> DEFINE n == Len(data) + 1
<1>1. /\ pc = "set" /\ c = request.tcell /\ to_overflow[c] = Absent
      /\ filter' = OVERFLOWED /\ overflow' = [to_overflow EXCEPT ![c] = n]
      /\ Push(c, request.val)
      /\ pending' = [pending EXCEPT ![c] = request.val]
      /\ pc' = "run" /\ request' = NoRequest
      /\ UNCHANGED <<bits, read_log, invalid, failed>>
  BY DEF SetVacant, Vacant, SetReturns
<1>2. /\ request \in [tcell : Cells, val : Vals] /\ request.val \in Vals
      /\ bits \in [Cells -> Bits] /\ filter \in SUBSET Bits
      /\ pending \in [Cells -> Vals \cup {None}]
  BY <1>1 DEF LogInv, WriteLogTypeOK
<1>3. DOMAIN data = 1..Len(data) /\ Len(data) \in Nat
  BY DEF LogInv, WriteLogTypeOK
<1>4. /\ to_overflow \in [Cells -> Nat]
      /\ \A d \in Cells :
           IF d \in Live THEN /\ to_overflow[d] \in DOMAIN data
                              /\ data[to_overflow[d]].tcell = d
                         ELSE to_overflow[d] = Absent
  BY <1>1, MapIsRight
<1>5. c \notin Live
  BY <1>1, <1>3, <1>4
<1>6. /\ Exact' /\ Live' = Live \cup {c} /\ data' \in Seq(Entries)
      /\ Len(data') = n /\ data'[n].tcell = c
      /\ \A i \in DOMAIN data : i \in DOMAIN data' /\ data'[i] = data[i]
  <2>1. filter \cup {bits[c]} \subseteq filter'
    BY <1>1, <1>2 DEF OVERFLOWED
  <2>2. bits' = bits
    BY <1>1
  <2>3. data'[n] = [tcell |-> c, val |-> request.val] => data'[n].tcell = c
    OBVIOUS
  <2> QED BY <1>1, <1>2, <1>5, <2>1, <2>2, <2>3, PushStep
<1>7. n \in DOMAIN data' /\ n \in Nat
  BY <1>3, <1>6
<1>8. overflow' \in [Cells -> Nat] /\ overflow'[c] = n
      /\ \A d \in Cells : d # c => overflow'[d] = to_overflow[d]
  BY <1>1, <1>4, <1>7
<1>9. Mapped'
  BY <1>4, <1>6, <1>7, <1>8 DEF Mapped
<1>10. WriteLogTypeOK'
  BY <1>1, <1>2, <1>6, <1>8 DEF LogInv, WriteLogTypeOK, Pcs
<1> QED BY <1>1, <1>6, <1>9, <1>10 DEF LogInv, MapOnlyOverflowed

(* While no set has failed, every step preserves the invariant.            *)
LEMMA ExactStep ==
  ASSUME LogInv, failed = {}, [Next]_vars
  PROVE  LogInv'
<1>1. ASSUME NEW c \in Cells, Invalidate(c) \/ Revalidate(c) PROVE LogInv'
  BY <1>1, IdleStep
     DEF Invalidate, Revalidate, LogInv, WriteLogTypeOK, log
<1>2. ASSUME NEW c \in Cells, BorrowLogged(c) \/ BorrowUnlogged(c) PROVE LogInv'
  <2>1. /\ pc = "run" /\ UNCHANGED <<bits, data, invalid, pc, request, pending, failed>>
        /\ Overflow \/ UNCHANGED <<filter, overflow>>
        /\ read_log' \in {read_log, read_log \cup {c}}
    BY <1>2 DEF BorrowLogged, BorrowUnlogged
  <2>2. /\ MapOnlyOverflowed' /\ Mapped' /\ Exact'
        /\ filter' \in SUBSET Bits /\ overflow' \in [Cells -> Nat]
    BY <2>1, LookupStep
  <2>3. WriteLogTypeOK'
    BY <2>1, <2>2 DEF LogInv, WriteLogTypeOK
  <2> QED BY <2>1, <2>2, <2>3 DEF LogInv
<1>3. ASSUME NEW c \in Cells, NEW v \in Vals, SetFast(c, v) PROVE LogInv'
  BY <1>3, FastStep
<1>4. ASSUME NEW c \in Cells, NEW v \in Vals, SetFallsBack(c, v) PROVE LogInv'
  <2>1. /\ pc = "run" /\ pc' = "set" /\ request' = [tcell |-> c, val |-> v]
        /\ UNCHANGED <<bits, overflow, data, read_log, invalid, pending, failed>>
        /\ \/ UNCHANGED filter
           \/ /\ bits[c] \notin filter
              /\ filter' = filter \cup {bits[c]} /\ filter' # OVERFLOWED
    BY <1>4 DEF SetFallsBack, contained
  <2>2. request' # NoRequest /\ request' \in [tcell : Cells, val : Vals]
    BY <2>1, WriteLogAssumption
  <2>3. bits \in [Cells -> Bits] /\ filter \in SUBSET Bits
    BY DEF LogInv, WriteLogTypeOK
  <2>4. /\ filter' \in SUBSET Bits
        /\ filter \subseteq filter'
        /\ filter' = OVERFLOWED <=> filter = OVERFLOWED
    BY <2>1, <2>3
  <2>5. Live' = Live
    BY <2>1 DEF Live
  <2>6. WriteLogTypeOK'
    BY <2>1, <2>2, <2>4 DEF LogInv, WriteLogTypeOK, Pcs
  <2>7. Mapped /\ Exact /\ MapOnlyOverflowed
    BY <2>1 DEF LogInv
  <2>8. MapOnlyOverflowed' /\ Mapped'
    BY <2>1, <2>4, <2>5, <2>7 DEF MapOnlyOverflowed, Mapped
  <2>9. Exact'
    BY <2>1, <2>4, <2>5, <2>7 DEF Exact
  <2> QED BY <2>1, <2>2, <2>6, <2>8, <2>9 DEF LogInv
<1>5. ASSUME NEW c \in Cells, SetVacant(c) PROVE LogInv'
  BY <1>5, VacantStep
<1>6. ASSUME NEW c \in Cells, SetError(c) PROVE LogInv'
  <2>1. /\ pc = "set" /\ pc' = "failed" /\ filter' = OVERFLOWED
        /\ overflow' = [to_overflow EXCEPT ![c] = Len(data) + 1]
        /\ request' = NoRequest /\ failed' = failed \cup {c}
        /\ UNCHANGED <<bits, data, read_log, invalid, pending>>
    BY <1>6 DEF SetError, Vacant, SetReturns
  <2>2. to_overflow \in [Cells -> Nat] /\ Len(data) \in Nat
    BY <2>1, MapIsRight DEF LogInv, WriteLogTypeOK
  <2>3. WriteLogTypeOK'
    BY <2>1, <2>2 DEF LogInv, WriteLogTypeOK, Pcs
  <2> QED BY <2>1, <2>3 DEF LogInv, MapOnlyOverflowed
<1>7. ASSUME NEW c \in Cells, SetOverwrite(c) \/ SetTombstone(c) PROVE LogInv'
  BY <1>7, OverwriteStep, TombstoneStep DEF SetOverwrite, SetTombstone, Occupied
<1>8. ASSUME NEW c \in Cells, SetOutOfBounds(c) PROVE LogInv'
  <2>1. pc = "set" /\ to_overflow[c] > Len(data)
    BY <1>8 DEF SetOutOfBounds
  <2>2. to_overflow[c] \in DOMAIN data \/ to_overflow[c] = Absent
    BY <2>1, MapIsRight
  <2>3. DOMAIN data = 1..Len(data) /\ Len(data) \in Nat
    BY DEF LogInv, WriteLogTypeOK
  <2> QED BY <2>1, <2>2, <2>3
<1>9. CASE IgnoreSetError
  BY <1>9 DEF IgnoreSetError, LogInv
<1>10. CASE Drop \/ CommitDone
  BY <1>10, ClearStep DEF Drop, CommitDone
<1>11. CASE ReturnOk \/ CommitHard
  BY <1>11, IdleStep DEF ReturnOk, CommitHard, LogInv, WriteLogTypeOK, log, Pcs
<1>12. CASE CommitEmpty
  <2>1. /\ pc = "commit" /\ pc' = "run" /\ data = <<>>
        /\ UNCHANGED <<bits, filter, overflow, data, invalid, request>>
        /\ read_log' = {} /\ pending' = NothingSet /\ failed' = {}
    BY <1>12 DEF CommitEmpty, NextTransaction, log
  <2>2. DOMAIN data = {} /\ Live' = Live
    BY <2>1 DEF Live
  <2>3. WriteLogTypeOK'
    BY <2>1 DEF LogInv, WriteLogTypeOK, Pcs
  <2> QED BY <2>1, <2>2, <2>3 DEF LogInv, MapOnlyOverflowed, Mapped, Exact
<1>13. CASE RemoveWritesFromReads
  <2>1. /\ pc = "commit" /\ pc' = "publish"
        /\ UNCHANGED <<bits, data, invalid, request, pending, failed>>
        /\ Overflow \/ UNCHANGED <<filter, overflow>>
        /\ read_log' \subseteq read_log
    BY <1>13 DEF RemoveWritesFromReads
  <2>2. /\ MapOnlyOverflowed' /\ Mapped' /\ Exact'
        /\ filter' \in SUBSET Bits /\ overflow' \in [Cells -> Nat]
    BY <2>1, LookupStep
  <2>3. WriteLogTypeOK'
    BY <2>1, <2>2 DEF LogInv, WriteLogTypeOK, Pcs
  <2> QED BY <2>1, <2>2, <2>3 DEF LogInv
<1>14. ASSUME NEW c \in Cells, BorrowOutOfBounds(c) PROVE LogInv'
  <2>1. pc = "run" /\ find(c) > Len(data)
    BY <1>14 DEF BorrowOutOfBounds
  <2>2. find(c) \in DOMAIN data \/ find(c) = Absent
    BY <2>1, MapIsRight DEF find
  <2>3. DOMAIN data = 1..Len(data) /\ Len(data) \in Nat
    BY DEF LogInv, WriteLogTypeOK
  <2> QED BY <2>1, <2>2, <2>3
<1>15. CASE UNCHANGED vars
  <2>1. UNCHANGED <<bits, filter, overflow, data, read_log, invalid, pc,
                    request, pending, failed>>
    BY <1>15 DEF vars, log
  <2> QED BY <2>1 DEF LogInv, WriteLogTypeOK, MapOnlyOverflowed, Mapped,
                     Exact, Live
<1> QED
  BY <1>1, <1>2, <1>3, <1>4, <1>5, <1>6, <1>7, <1>8, <1>9, <1>10, <1>11,
     <1>12, <1>13, <1>14, <1>15 DEF Next

(* After a SetError the vector and the map no longer agree, but the filter *)
(* stays OVERFLOWED and so the next clear empties both.                    *)
LEMMA SpoiledStep ==
  ASSUME LogInv, failed # {}, [Next]_vars
  PROVE  LogInv'
<1> DEFINE Spoiled == /\ WriteLogTypeOK'
                      /\ filter' = OVERFLOWED /\ failed' = failed
                      /\ pc' = "set" => request' # NoRequest
<1>1. /\ filter = OVERFLOWED /\ to_overflow = overflow
      /\ \A c \in Cells : ~ inserts_inline(c)
  BY DEF LogInv, to_overflow, contained, WriteLogTypeOK
<1>2. Spoiled => LogInv'
  BY DEF LogInv, MapOnlyOverflowed
<1>3. DOMAIN data = 1..Len(data) /\ Len(data) \in Nat
  BY DEF LogInv, WriteLogTypeOK
<1>4. ASSUME pc = "set"
      PROVE  /\ request \in [tcell : Cells, val : Vals]
             /\ request \in Entries /\ request.val \in Vals
  BY <1>4 DEF LogInv, WriteLogTypeOK, Entries
<1> HIDE DEF to_overflow, inserts_inline
<1>5. ASSUME NEW c \in Cells, Invalidate(c) \/ Revalidate(c) PROVE Spoiled
  BY <1>1, <1>5 DEF Invalidate, Revalidate, LogInv, WriteLogTypeOK, log
<1>6. ASSUME NEW c \in Cells,
             BorrowLogged(c) \/ BorrowUnlogged(c) \/ BorrowOutOfBounds(c)
      PROVE  Spoiled
  <2>1. /\ UNCHANGED <<bits, data, invalid, request, pending, failed>>
        /\ pc' \in {"run", "undefined"}
        /\ filter' = OVERFLOWED /\ overflow' = overflow
        /\ read_log' \in {read_log, read_log \cup {c}}
    BY <1>1, <1>6
       DEF BorrowLogged, BorrowUnlogged, BorrowOutOfBounds, Overflow
  <2> QED BY <2>1 DEF LogInv, WriteLogTypeOK, Pcs
<1>7. ASSUME NEW c \in Cells, NEW v \in Vals, SetFast(c, v) \/ SetFallsBack(c, v)
      PROVE  Spoiled
  <2>1. /\ pc' = "set" /\ request' = [tcell |-> c, val |-> v]
        /\ UNCHANGED <<bits, filter, overflow, data, read_log, invalid,
                       pending, failed>>
    BY <1>1, <1>7 DEF SetFast, SetFallsBack
  <2>2. request' # NoRequest /\ request' \in [tcell : Cells, val : Vals]
    BY <2>1, WriteLogAssumption
  <2> QED BY <1>1, <2>1, <2>2 DEF LogInv, WriteLogTypeOK, Pcs
<1>8. ASSUME NEW c \in Cells, SetVacant(c) \/ SetOverwrite(c) \/ SetTombstone(c)
      PROVE  Spoiled
  <2>1. /\ pc = "set" /\ pc' = "run" /\ request' = NoRequest
        /\ filter' = OVERFLOWED
        /\ overflow' \in {overflow, [overflow EXCEPT ![c] = Len(data) + 1]}
        /\ c = request.tcell /\ pending' = [pending EXCEPT ![c] = request.val]
        /\ UNCHANGED <<bits, read_log, invalid, failed>>
    BY <1>1, <1>8 DEF SetVacant, Vacant, SetOverwrite, SetTombstone, Occupied,
                      SetReturns
  <2>2. data' \in Seq(Entries)
    <3>1. data \in Seq(Entries)
      BY DEF LogInv, WriteLogTypeOK
    <3>2. CASE SetVacant(c)
      <4>1. [tcell |-> c, val |-> request.val] \in Entries
        BY <1>4, <2>1 DEF Entries
      <4> QED BY <3>1, <3>2, <4>1, SeqFacts DEF SetVacant, Push
    <3>3. CASE SetOverwrite(c)
      BY <1>1, <1>4, <2>1, <3>1, <3>3, SeqFacts DEF SetOverwrite, Occupied
    <3>4. CASE SetTombstone(c)
      <4>1. PICK i \in DOMAIN data :
              data' = Append([data EXCEPT ![i] = tombstone(i)], request)
        BY <1>1, <3>4 DEF SetTombstone, Occupied
      <4>2. data[i] \in Entries
        BY <1>3, <3>1
      <4>3. tombstone(i) \in Entries
        BY <4>2 DEF tombstone, Entries
      <4>4. [data EXCEPT ![i] = tombstone(i)] \in Seq(Entries)
        BY <3>1, <4>3, SeqFacts
      <4> QED BY <1>4, <2>1, <4>1, <4>4, SeqFacts
    <3> QED BY <1>8, <3>2, <3>3, <3>4
  <2> QED BY <1>3, <1>4, <2>1, <2>2 DEF LogInv, WriteLogTypeOK, Pcs
<1>9. ASSUME NEW c \in Cells, SetError(c) PROVE LogInv'
  <2>1. /\ pc' = "failed" /\ filter' = OVERFLOWED
        /\ overflow' = [overflow EXCEPT ![c] = Len(data) + 1]
        /\ request' = NoRequest /\ failed' = failed \cup {c}
        /\ UNCHANGED <<bits, data, read_log, invalid, pending>>
    BY <1>1, <1>9 DEF SetError, Vacant, SetReturns
  <2>2. WriteLogTypeOK'
    BY <1>3, <2>1 DEF LogInv, WriteLogTypeOK, Pcs
  <2> QED BY <2>1, <2>2 DEF LogInv, MapOnlyOverflowed
<1>10. ASSUME NEW c \in Cells, SetOutOfBounds(c) PROVE Spoiled
  BY <1>1, <1>10
     DEF SetOutOfBounds, Overflow, SetReturns, LogInv, WriteLogTypeOK, Pcs
<1>11. CASE IgnoreSetError \/ ReturnOk \/ CommitHard
  BY <1>1, <1>2, <1>11
     DEF IgnoreSetError, ReturnOk, CommitHard, LogInv, WriteLogTypeOK, Pcs, log
<1>12. CASE Drop \/ CommitDone
  BY <1>12, ClearStep DEF Drop, CommitDone
<1>13. CASE CommitEmpty
  BY <1>1, <1>2, <1>13
     DEF CommitEmpty, NextTransaction, LogInv, WriteLogTypeOK, Pcs, log
<1>14. CASE RemoveWritesFromReads
  <2>1. /\ UNCHANGED <<bits, data, invalid, request, pending, failed>>
        /\ pc' = "publish" /\ read_log' \subseteq read_log
        /\ filter' = OVERFLOWED /\ overflow' = overflow
    BY <1>1, <1>14 DEF RemoveWritesFromReads, Overflow
  <2> QED BY <1>2, <2>1 DEF LogInv, WriteLogTypeOK, Pcs
<1>15. CASE UNCHANGED vars
  BY <1>1, <1>2, <1>15 DEF vars, log, LogInv, WriteLogTypeOK
<1> HIDE DEF Spoiled
<1> QED
  BY <1>2, <1>5, <1>6, <1>7, <1>8, <1>9, <1>10, <1>11, <1>12, <1>13, <1>14,
     <1>15 DEF Next

(* The invariant of the log holds whatever closures do with a SetError,    *)
(* for any number of cells and any filter.                                 *)
THEOREM LogInvariance == Spec => []LogInv
<1>1. Init => LogInv
  BY InitLog
<1>2. LogInv /\ [Next]_vars => LogInv'
  BY ExactStep, SpoiledStep
<1> QED BY <1>1, <1>2, PTL DEF Spec

(* Bloom::clear may leave the map alone if the filter has not overflowed:  *)
(* the map is empty then, even after sets that failed.                     *)
THEOREM MapIsCleared == Spec => []MapOnlyOverflowed
<1>1. LogInv => MapOnlyOverflowed
  BY DEF LogInv
<1> QED BY <1>1, LogInvariance, PTL

(* Every variable of the write log keeps its type, even when a closure     *)
(* goes on after a SetError.                                               *)
THEOREM WriteLogTypes == Spec => []WriteLogTypeOK
<1>1. LogInv => WriteLogTypeOK
  BY DEF LogInv
<1> QED BY <1>1, LogInvariance, PTL

(* WriteLog::find returns the value set last.                              *)
THEOREM OwnWritesAreRead == Spec => []ReadsOwnWrites
<1>1. LogInv => ReadsOwnWrites
  <2> SUFFICES ASSUME LogInv, failed = {}, NEW c \in Cells
               PROVE  IF pending[c] = None THEN find(c) = Absent
                      ELSE /\ find(c) \in DOMAIN data
                           /\ data[find(c)] = [tcell |-> c, val |-> pending[c]]
    BY DEF ReadsOwnWrites
  <2>1. c # None /\ None \notin Vals
    BY WriteLogAssumption
  <2>2. Exact /\ WriteLogTypeOK
    BY DEF LogInv
  <2>3. CASE pending[c] = None
    <3>1. c \notin Live
      BY <2>1, <2>2, <2>3, LiveMeans, EntryType DEF Exact
    <3> QED BY <2>3, <3>1, FindIsRight
  <2>4. CASE pending[c] # None
    <3>1. find(c) \in DOMAIN data /\ data[find(c)].tcell = c
      BY <2>2, <2>4, FindIsRight DEF Exact
    <3>2. data[find(c)].val = pending[c]
      BY <2>1, <2>2, <3>1 DEF Exact
    <3>3. data[find(c)] \in Entries
      BY <2>2, <3>1 DEF WriteLogTypeOK
    <3> QED BY <2>4, <3>1, <3>2, <3>3 DEF Entries
  <2> QED BY <2>3, <2>4
<1> QED BY <1>1, LogInvariance, PTL

(* A commit writes every cell that was set, once, with the value set last. *)
THEOREM PendingIsPublished == Spec => []PublishesPending
<1>1. LogInv => PublishesPending
  <2> SUFFICES ASSUME LogInv, failed = {} PROVE PublishesPending
    BY DEF PublishesPending
  <2>1. Exact /\ WriteLogTypeOK /\ None \notin Vals /\ None \notin Cells
    BY WriteLogAssumption DEF LogInv
  <2>2. \A i \in DOMAIN data : data[i].tcell # None =>
          data[i].tcell \in Cells /\ pending[data[i].tcell] # None
    BY <2>1, EntryType DEF Exact
  <2>3. Live = {c \in Cells : pending[c] # None}
    BY <2>1, <2>2 DEF Exact, Live
  <2> QED BY <2>1, <2>3 DEF PublishesPending, Exact
<1> QED BY <1>1, LogInvariance, PTL

(* commit_soft drops a logged read only if it is going to lock its cell.   *)
THEOREM RemovedReadsAreWrites == Spec => OnlyWritesRemoved
<1> DEFINE Step == pc = "commit" /\ pc' = "publish" /\ failed = {} =>
                     read_log \ read_log' \subseteq Live
<1>1. LogInv /\ [Next]_vars => [Step]_vars
  <2> SUFFICES ASSUME LogInv, Next, pc = "commit", pc' = "publish",
                      failed = {}
               PROVE  read_log \ read_log' \subseteq Live
    OBVIOUS
  <2>1. CommitHard \/ RemoveWritesFromReads
    BY DEF Next, Invalidate, Revalidate, BorrowLogged, BorrowUnlogged,
           BorrowOutOfBounds,
           SetFast, SetFallsBack, SetVacant, SetError, Vacant, SetOverwrite,
           SetTombstone, Occupied, SetOutOfBounds, IgnoreSetError, Drop,
           NextTransaction, ReturnOk, CommitEmpty, CommitDone
  <2>2. CASE CommitHard
    BY <2>2 DEF CommitHard
  <2>3. CASE RemoveWritesFromReads
    <3>1. ASSUME NEW c \in read_log, c \notin read_log' PROVE c \in Live
      <4>1. find(c) # Absent /\ c \in Cells
        BY <2>3, <3>1 DEF RemoveWritesFromReads, LogInv, WriteLogTypeOK
      <4> QED BY <4>1, FindIsRight
    <3> QED BY <3>1
  <2> QED BY <2>1, <2>2, <2>3
<1> QED BY <1>1, LogInvariance, PTL DEF Spec, OnlyWritesRemoved
=============================================================================
