------------------------------ MODULE ArpProofs ------------------------------
(* Proofs about Arp for every cache size, timeout and set of addresses. *)
EXTENDS Arp, FiniteSetTheorems, TLAPS

\* The entries of pa that hold a hardware address.
Resolved(pa) == {i \in Entries(pa) : caches[i].state = "RESOLVED"}

\* No two entries were written at the same time.
TimesDiffer ==
  /\ \A i \in Index : Used(i) => caches[i].timestamp <= clock
  /\ \A i, j \in Index : Used(i) /\ Used(j) /\ i # j => caches[i].timestamp # caches[j].timestamp

AtMostTwo ==
  \A pa \in Addrs : \A i, j, k \in Entries(pa) : i = j \/ j = k \/ i = k

OneIncomplete ==
  \A pa \in Addrs : \A i, j \in Entries(pa) :
    caches[i].state = "INCOMPLETE" /\ caches[j].state = "INCOMPLETE" => i = j

\* Of two resolved entries the first one is the newer: arp_cache_update goes to
\* the one that arp_cache_select returns.
FirstIsNewer ==
  \A pa \in Addrs : \A i, j \in Resolved(pa) :
    i < j => caches[j].timestamp < caches[i].timestamp

NewestIsHeard ==
  \A pa \in Addrs : \A i \in Resolved(pa) :
    (\A j \in Resolved(pa) : caches[j].timestamp <= caches[i].timestamp)
      => caches[i].ha = heard[pa]

\* While arp_input is between its critical sections its sender has no resolved
\* entry.
PendingFirst ==
  input # NoMsg =>
    /\ heard[input.spa] = input.sha
    /\ \A i \in Index : caches[i].state = "RESOLVED" => caches[i].pa # input.spa

IInv ==
  /\ TypeOK /\ TimesDiffer /\ AtMostTwo /\ OneIncomplete
  /\ FirstIsNewer /\ NewestIsHeard /\ PendingFirst
-----------------------------------------------------------------------------
\* Eviction takes nobody's newer entry.
LEMMA AllocOldest ==
  ASSUME NEW i \in Index, Alloc(i), Used(i)
  PROVE  \A j \in Index \ {i} : Used(j) /\ caches[i].timestamp < caches[j].timestamp
  BY DEF Alloc

\* A new entry e for pa, which had no resolved entry, in the place of i.
LEMMA Replaced ==
  ASSUME IInv, NEW i \in Index, Alloc(i), Passes, NEW pa \in Addrs, NEW e \in Entry,
         caches' = [caches EXCEPT ![i] = e], e.pa = pa, e.timestamp = clock + 1,
         \/ e.state = "INCOMPLETE" /\ Entries(pa) = {} /\ input' = input
         \/ e.state = "RESOLVED" /\ e.ha = heard[pa] /\ Resolved(pa) = {} /\ input' = NoMsg,
         heard' = heard
  PROVE  IInv'
  <1>1. /\ caches \in [Index -> Entry] /\ clock \in Nat /\ clock' = clock + 1
        /\ \A j \in Index : caches[j].timestamp \in Nat
    BY DEF IInv, TypeOK, Passes, Now, Entry
  <1>2. caches'[i] = e /\ \A j \in Index : j # i => caches'[j] = caches[j]
    BY <1>1
  <1>3. TypeOK'
    BY <1>1 DEF IInv, TypeOK
  <1>4. \A q \in Addrs : \A j \in Index \ {i} :
          /\ j \in Entries(q)' <=> j \in Entries(q)
          /\ j \in Resolved(q)' <=> j \in Resolved(q)
    BY <1>2 DEF Entries, Resolved, Used
  <1>5. /\ e.state # "FREE" /\ i \in Entries(pa)'
        /\ \A q \in Addrs : i \in Entries(q)' => q = pa
        /\ \A q \in Addrs : i \in Resolved(q)' => q = pa /\ e.state = "RESOLVED"
    BY <1>2 DEF Entries, Resolved, Used
  <1>6. TimesDiffer'
    BY <1>1, <1>2 DEF IInv, TimesDiffer, Used
  <1>7. \A j, k \in Entries(pa) : j = k
    BY DEF IInv, OneIncomplete, Resolved, Entries, Used, TypeOK, Entry
  <1>8. AtMostTwo'
    <2> SUFFICES ASSUME NEW q \in Addrs, NEW j \in Entries(q)', NEW k \in Entries(q)',
                        NEW l \in Entries(q)', j # k, k # l, j # l
                 PROVE  FALSE
      BY DEF AtMostTwo
    <2>1. j \in Index /\ k \in Index /\ l \in Index
      BY DEF Entries
    <2>2. CASE q = pa
      BY <1>4, <1>7, <2>1, <2>2
    <2>3. CASE q # pa
      BY <1>4, <1>5, <2>1, <2>3 DEF IInv, AtMostTwo
    <2> QED
      BY <2>2, <2>3
  <1>9. OneIncomplete'
    <2> SUFFICES ASSUME NEW q \in Addrs, NEW j \in Entries(q)', NEW k \in Entries(q)', j # k,
                        caches'[j].state = "INCOMPLETE", caches'[k].state = "INCOMPLETE"
                 PROVE  FALSE
      BY DEF OneIncomplete
    <2>1. j \in Index /\ k \in Index
      BY DEF Entries
    <2>2. CASE q = pa
      BY <1>2, <1>4, <1>7, <2>1, <2>2
    <2>3. CASE q # pa
      BY <1>2, <1>4, <1>5, <2>1, <2>3 DEF IInv, OneIncomplete
    <2> QED
      BY <2>2, <2>3
  <1>10. \A j \in Resolved(pa)' : j = i
    BY <1>4, <1>5 DEF Resolved, Entries
  <1>11. FirstIsNewer'
    <2> SUFFICES ASSUME NEW q \in Addrs, NEW j \in Resolved(q)', NEW k \in Resolved(q)', j < k
                 PROVE  caches'[k].timestamp < caches'[j].timestamp
      BY DEF FirstIsNewer
    <2>1. j \in Index /\ k \in Index
      BY DEF Entries, Resolved
    <2>2. q # pa
      BY <1>10, <2>1 DEF Index
    <2> QED
      BY <1>2, <1>4, <1>5, <2>1, <2>2 DEF IInv, FirstIsNewer
  <1>12. NewestIsHeard'
    <2> SUFFICES ASSUME NEW q \in Addrs, NEW j \in Resolved(q)',
                        \A k \in Resolved(q)' : caches'[k].timestamp <= caches'[j].timestamp
                 PROVE  caches'[j].ha = heard[q]
      BY DEF NewestIsHeard
    <2>1. j \in Index
      BY DEF Entries, Resolved
    <2>2. CASE q = pa
      BY <1>2, <1>5, <1>10, <2>2
    <2>3. CASE q # pa
      <3>1. j # i /\ j \in Resolved(q)
        BY <1>4, <1>5, <2>1, <2>3
      <3>2. ASSUME NEW k \in Resolved(q)
            PROVE  caches[k].timestamp <= caches[j].timestamp
        <4>1. k \in Index /\ Used(k)
          BY DEF Resolved, Entries
        <4>2. CASE k = i
          BY <1>1, <2>1, <3>1, <4>1, <4>2, AllocOldest
        <4>3. CASE k # i
          BY <1>2, <1>4, <2>1, <3>1, <4>1, <4>3
        <4> QED
          BY <4>2, <4>3
      <3> QED
        BY <1>2, <2>1, <3>1, <3>2 DEF IInv, NewestIsHeard
    <2> QED
      BY <2>2, <2>3
  <1>13. PendingFirst'
    <2>1. CASE input' = NoMsg
      BY <2>1 DEF PendingFirst
    <2>2. CASE input' = input /\ e.state = "INCOMPLETE"
      BY <1>2, <2>2 DEF IInv, PendingFirst
    <2> QED
      BY <2>1, <2>2
  <1> QED
    BY <1>3, <1>6, <1>8, <1>9, <1>11, <1>12, <1>13 DEF IInv

LEMMA ResolveIInv ==
  ASSUME IInv, NEW pa \in Addrs, Resolve(pa)
  PROVE  IInv'
  <1>1. PICK i \in Index :
          /\ Alloc(i) /\ Passes
          /\ caches' = [caches EXCEPT ![i] = [caches[i] EXCEPT !.state = "INCOMPLETE", !.pa = pa,
                                                              !.timestamp = Now]]
    BY DEF Resolve
  <1> DEFINE e == [caches[i] EXCEPT !.state = "INCOMPLETE", !.pa = pa, !.timestamp = Now]
  <1>2. e \in Entry /\ e.pa = pa /\ e.state = "INCOMPLETE" /\ e.timestamp = clock + 1
    <2>1. PICK c \in Entry : c = caches[i]
      BY DEF IInv, TypeOK
    <2>2. PICK t \in Nat : t = Now /\ t = clock + 1
      BY DEF IInv, TypeOK, Now
    <2>3. e = [c EXCEPT !.state = "INCOMPLETE", !.pa = pa, !.timestamp = t]
      BY <2>1, <2>2
    <2> HIDE DEF e
    <2> QED
      BY <2>2, <2>3 DEF Entry
  <1>3. Entries(pa) = {} /\ input' = input /\ heard' = heard
    BY DEF Resolve
  <1> HIDE DEF e
  <1> QED
    BY <1>1, <1>2, <1>3, Replaced DEF e

LEMMA InputInsertIInv ==
  ASSUME IInv, InputInsert
  PROVE  IInv'
  <1>1. input \in Msg /\ input # NoMsg
    BY DEF InputInsert, IInv, TypeOK
  <1> DEFINE pa == input.spa
             e == [state |-> "RESOLVED", pa |-> pa, ha |-> input.sha, timestamp |-> Now]
  <1>2. PICK i \in Index : Alloc(i) /\ Passes /\ caches' = [caches EXCEPT ![i] = e]
    BY DEF InputInsert, Inserted
  <1>3. pa \in Addrs /\ e \in Entry
    BY <1>1 DEF IInv, TypeOK, Entry, Now, Msg
  <1>4. e.pa = pa /\ e.state = "RESOLVED" /\ e.timestamp = clock + 1 /\ e.ha = heard[pa]
    BY <1>1 DEF IInv, PendingFirst, Now
  <1>5. Resolved(pa) = {}
    BY <1>1 DEF IInv, PendingFirst, Resolved, Entries
  <1>6. input' = NoMsg /\ heard' = heard
    BY DEF InputInsert
  <1> HIDE DEF e
  <1> QED
    BY <1>2, <1>3, <1>4, <1>5, <1>6, Replaced

\* A message that finds an entry.
LEMMA UpdateIInv ==
  ASSUME IInv, NEW m \in Msg, input = NoMsg, NEW i \in Index, Select(m.spa, i), Passes,
         caches' = Updated(i, m.sha), heard' = [heard EXCEPT ![m.spa] = m.sha], input' = input
  PROVE  IInv'
  <1> DEFINE pa == m.spa
             e == [caches[i] EXCEPT !.state = "RESOLVED", !.ha = m.sha, !.timestamp = Now]
  <1>0. pa \in Addrs /\ m.sha \in Macs
    BY DEF Msg
  <1>1. /\ caches \in [Index -> Entry] /\ clock \in Nat /\ clock' = clock + 1
        /\ \A j \in Index : caches[j].timestamp \in Nat
    BY DEF IInv, TypeOK, Passes, Now, Entry
  <1>2. /\ e \in Entry /\ e.state = "RESOLVED" /\ e.ha = m.sha /\ e.timestamp = clock + 1
        /\ e.pa = pa /\ i \in Entries(pa) /\ \A j \in Entries(pa) : i <= j
    <2>1. PICK c \in Entry : c = caches[i]
      BY <1>1
    <2>2. PICK t \in Nat : t = Now /\ t = clock + 1
      BY <1>1 DEF Now
    <2>3. i \in Entries(pa) /\ c.pa = pa /\ \A j \in Entries(pa) : i <= j
      BY <2>1 DEF Select, Entries
    <2>4. e = [c EXCEPT !.state = "RESOLVED", !.ha = m.sha, !.timestamp = t]
      BY <2>1, <2>2
    <2> HIDE DEF e
    <2>5. e \in Entry /\ e.state = "RESOLVED" /\ e.ha = m.sha /\ e.timestamp = t /\ e.pa = c.pa
      BY <1>0, <2>4 DEF Entry
    <2> QED
      BY <2>2, <2>3, <2>5
  <1>3. caches'[i] = e /\ \A j \in Index : j # i => caches'[j] = caches[j]
    BY <1>1 DEF Updated
  <1> HIDE DEF e, pa
  <1>4. heard' \in [Addrs -> Macs \cup {NoMac}] /\ heard'[pa] = m.sha
        /\ \A q \in Addrs : q # pa => heard'[q] = heard[q]
    BY <1>0 DEF IInv, TypeOK, pa
  <1>5. TypeOK'
    BY <1>1, <1>2, <1>4 DEF IInv, TypeOK, Updated, e, pa
  <1>6. TimesDiffer'
    BY <1>1, <1>2, <1>3 DEF IInv, TimesDiffer, Used, Entries
  <1>7. \A q \in Addrs : Entries(q)' = Entries(q)
    BY <1>2, <1>3 DEF Entries, Used
  <1>8. AtMostTwo' /\ OneIncomplete'
    BY <1>2, <1>3, <1>7 DEF IInv, AtMostTwo, OneIncomplete, Entries
  <1>9. /\ \A q \in Addrs : q # pa => Resolved(q)' = Resolved(q)
        /\ Resolved(pa)' = Resolved(pa) \cup {i}
    BY <1>0, <1>2, <1>3, <1>7 DEF Resolved, Entries
  <1>10. FirstIsNewer'
    <2> SUFFICES ASSUME NEW q \in Addrs, NEW j \in Resolved(q)', NEW k \in Resolved(q)', j < k
                 PROVE  caches'[k].timestamp < caches'[j].timestamp
      BY DEF FirstIsNewer
    <2>1. j \in Index /\ k \in Index /\ j \in Entries(q)' /\ k \in Entries(q)'
      BY DEF Entries, Resolved
    <2>2. CASE q # pa
      <3>1. j \in Resolved(q) /\ k \in Resolved(q) /\ j # i /\ k # i
        BY <1>2, <1>9, <2>2 DEF Resolved, Entries
      <3> QED
        BY <1>3, <2>1, <3>1 DEF IInv, FirstIsNewer
    <2>3. CASE q = pa
      <3>1. i <= j /\ k # i
        BY <1>0, <1>2, <1>7, <2>1, <2>3 DEF Index
      <3>2. CASE j = i
        BY <1>1, <1>2, <1>3, <1>7, <2>1, <2>3, <3>1, <3>2 DEF IInv, TimesDiffer, Entries
      <3>3. CASE j # i
        BY <1>0, <1>2, <1>7, <2>1, <2>3, <3>1, <3>3 DEF IInv, AtMostTwo, Index
      <3> QED
        BY <3>2, <3>3
    <2> QED
      BY <2>2, <2>3
  <1>11. NewestIsHeard'
    <2> SUFFICES ASSUME NEW q \in Addrs, NEW j \in Resolved(q)',
                        \A k \in Resolved(q)' : caches'[k].timestamp <= caches'[j].timestamp
                 PROVE  caches'[j].ha = heard'[q]
      BY DEF NewestIsHeard
    <2>1. j \in Index
      BY DEF Entries, Resolved
    <2>2. CASE q # pa
      <3>1. \A k \in Resolved(q) : k # i /\ k \in Index
        BY <1>2, <2>2 DEF Resolved, Entries
      <3> QED
        BY <1>3, <1>4, <1>9, <2>1, <2>2, <3>1 DEF IInv, NewestIsHeard
    <2>3. CASE q = pa
      <3>1. i \in Resolved(q)'
        BY <1>9, <2>3
      <3>2. caches'[j].timestamp >= clock + 1
        BY <1>2, <1>3, <3>1
      <3>3. j = i
        BY <1>1, <1>3, <2>1, <3>2 DEF IInv, TimesDiffer, Resolved, Entries, Used
      <3> QED
        BY <1>2, <1>3, <1>4, <2>3, <3>3
    <2> QED
      BY <2>2, <2>3
  <1>12. PendingFirst'
    BY DEF PendingFirst
  <1> QED
    BY <1>5, <1>6, <1>8, <1>10, <1>11, <1>12 DEF IInv

LEMMA TimerIInv ==
  ASSUME IInv, Timer
  PROVE  IInv'
  <1> DEFINE expired == {i \in Index : Used(i) /\ clock - caches[i].timestamp > Timeout}
  <1>1. /\ caches \in [Index -> Entry] /\ clock \in Nat
        /\ \A j \in Index : caches[j].timestamp \in Nat
    BY DEF IInv, TypeOK, Entry
  <1>2. \A j \in Index : caches'[j] = IF j \in expired THEN Cleared ELSE caches[j]
    BY DEF Timer
  <1>3. input = NoMsg /\ clock' = clock /\ input' = input /\ heard' = heard
    BY DEF Timer
  <1>4. TypeOK'
    <2>1. Cleared \in Entry
      BY DEF Cleared, Entry
    <2> QED
      BY <1>1, <1>3, <2>1 DEF Timer, IInv, TypeOK
  <1>5. /\ \A pa \in Addrs : Entries(pa)' = Entries(pa) \ expired
        /\ \A pa \in Addrs : Resolved(pa)' = Resolved(pa) \ expired
    BY <1>2 DEF Entries, Resolved, Used, Cleared
  <1>6. \A pa \in Addrs : \A j \in Entries(pa)' : caches'[j] = caches[j] /\ j \in Index
    BY <1>2, <1>5 DEF Entries
  <1>7. \A pa \in Addrs : \A j \in Resolved(pa)' : caches'[j] = caches[j] /\ j \in Index
    BY <1>2, <1>5 DEF Resolved, Entries
  <1>8. TimesDiffer'
    BY <1>2, <1>3 DEF IInv, TimesDiffer, Used, Cleared
  <1>9. AtMostTwo' /\ OneIncomplete'
    BY <1>5, <1>6 DEF IInv, AtMostTwo, OneIncomplete
  <1>10. FirstIsNewer'
    BY <1>5, <1>7 DEF IInv, FirstIsNewer
  <1>11. NewestIsHeard'
    <2> SUFFICES ASSUME NEW pa \in Addrs, NEW j \in Resolved(pa)',
                        \A k \in Resolved(pa)' : caches'[k].timestamp <= caches'[j].timestamp
                 PROVE  caches'[j].ha = heard[pa]
      BY <1>3 DEF NewestIsHeard
    <2>1. j \in Resolved(pa) \ expired /\ caches'[j] = caches[j] /\ j \in Index
      BY <1>5, <1>7
    <2>2. ASSUME NEW k \in Resolved(pa)
          PROVE  caches[k].timestamp <= caches[j].timestamp
      <3>1. k \in Index /\ Used(k) /\ Used(j)
        BY <2>1 DEF Resolved, Entries
      <3>2. CASE k \in expired
        BY <1>1, <2>1, <3>1, <3>2, CacheAssumption
      <3>3. CASE k \notin expired
        BY <1>5, <1>7, <2>1, <3>3
      <3> QED
        BY <3>2, <3>3
    <2> QED
      BY <2>1, <2>2 DEF IInv, NewestIsHeard
  <1>12. PendingFirst'
    BY <1>3 DEF PendingFirst
  <1> QED
    BY <1>4, <1>8, <1>9, <1>10, <1>11, <1>12 DEF IInv

\* Steps that leave the cache alone.
LEMMA CacheKept ==
  ASSUME IInv, caches' = caches, clock' \in Nat, clock <= clock', TypeOK',
         \/ heard' = heard /\ input' = input
         \/ \E m \in Msg : /\ heard' = [heard EXCEPT ![m.spa] = m.sha]
                          /\ Entries(m.spa) = {} /\ input' \in {m, NoMsg}
  PROVE  IInv'
  <1>1. \A pa \in Addrs : Entries(pa)' = Entries(pa) /\ Resolved(pa)' = Resolved(pa)
    BY DEF Entries, Resolved, Used
  <1>2. \A pa \in Addrs : Resolved(pa) # {} => heard'[pa] = heard[pa]
    BY DEF IInv, TypeOK, Msg, Resolved
  <1>3. TimesDiffer'
    BY DEF IInv, TimesDiffer, TypeOK, Entry, Used
  <1>4. AtMostTwo' /\ OneIncomplete' /\ FirstIsNewer'
    BY <1>1 DEF IInv, AtMostTwo, OneIncomplete, FirstIsNewer
  <1>5. NewestIsHeard'
    BY <1>1, <1>2 DEF IInv, NewestIsHeard
  <1>6. PendingFirst'
    <2>1. CASE heard' = heard /\ input' = input
      BY <2>1 DEF IInv, PendingFirst
    <2>2. CASE \E m \in Msg : /\ heard' = [heard EXCEPT ![m.spa] = m.sha]
                             /\ Entries(m.spa) = {} /\ input' \in {m, NoMsg}
      BY <2>2 DEF IInv, TypeOK, PendingFirst, Msg, Entries, Used
    <2> QED
      BY <2>1, <2>2
  <1> QED
    BY <1>3, <1>4, <1>5, <1>6 DEF IInv

LEMMA InitIInv ==
  Init => IInv
  <1> SUFFICES ASSUME Init PROVE IInv
    OBVIOUS
  <1>1. TypeOK
    BY DEF Init, TypeOK, Cleared, Entry
  <1>2. \A i \in Index : ~Used(i) /\ caches[i].state = "FREE"
    BY DEF Init, Used, Cleared
  <1>3. \A pa \in Addrs : Entries(pa) = {} /\ Resolved(pa) = {}
    BY <1>2 DEF Entries, Resolved
  <1> QED
    BY <1>1, <1>2, <1>3
       DEF Init, IInv, TimesDiffer, AtMostTwo, OneIncomplete, FirstIsNewer, NewestIsHeard,
           PendingFirst

LEMMA NextIInv ==
  IInv /\ [Next]_vars => IInv'
  <1> SUFFICES ASSUME IInv, [Next]_vars PROVE IInv'
    OBVIOUS
  <1>0. TypeOK
    BY DEF IInv
  <1>1. ASSUME NEW m \in Msg, InputUpdate(m)
        PROVE  IInv'
    <2>1. CASE \E i \in Index : /\ Select(m.spa, i) /\ Passes
                               /\ caches' = Updated(i, m.sha) /\ input' = input
      BY <1>1, <2>1, UpdateIInv DEF InputUpdate
    <2>2. CASE /\ Entries(m.spa) = {} /\ input' = IF m.ours THEN m ELSE NoMsg
               /\ caches' = caches /\ clock' = clock
      <3>1. heard' = [heard EXCEPT ![m.spa] = m.sha]
        BY <1>1 DEF InputUpdate
      <3>2. TypeOK' /\ clock' \in Nat /\ clock <= clock' /\ input' \in {m, NoMsg}
        BY <1>0, <2>2, <3>1 DEF TypeOK, Msg
      <3> QED
        BY <2>2, <3>1, <3>2, CacheKept
    <2> QED
      BY <1>1, <2>1, <2>2 DEF InputUpdate
  <1>2. CASE InputInsert
    BY <1>2, InputInsertIInv
  <1>3. CASE \E pa \in Addrs : Resolve(pa)
    BY <1>3, ResolveIInv
  <1>4. CASE Timer
    BY <1>4, TimerIInv
  <1>5. CASE Tick
    <2>1. /\ caches' = caches /\ heard' = heard /\ input' = input /\ clock' = clock + 1
      BY <1>5 DEF Tick, Passes, Now
    <2>2. TypeOK' /\ clock' \in Nat /\ clock <= clock'
      BY <1>0, <2>1 DEF TypeOK
    <2> QED
      BY <2>1, <2>2, CacheKept
  <1>6. CASE UNCHANGED vars
    <2>1. TypeOK' /\ clock' \in Nat /\ clock <= clock'
      BY <1>0, <1>6 DEF TypeOK, vars
    <2> QED
      BY <1>6, <2>1, CacheKept DEF vars
  <1> QED
    BY <1>1, <1>2, <1>3, <1>4, <1>5, <1>6 DEF Next

\* For every cache size and timeout: arp_resolve never answers with an address
\* that its owner has replaced in a later message, in spite of the gap between
\* the two critical sections of arp_input.
THEOREM ResolvesToLatest == Spec => []LatestHeard
  <1>1. IInv => LatestHeard
    <2> SUFFICES ASSUME IInv, NEW pa \in Addrs, NEW i \in Index, Select(pa, i),
                        caches[i].state = "RESOLVED"
                 PROVE  caches[i].ha = heard[pa]
      BY DEF LatestHeard
    <2>1. i \in Resolved(pa) /\ \A j \in Resolved(pa) : i <= j /\ j \in Index
      BY DEF Select, Resolved, Entries
    <2>2. \A j \in Index : caches[j].timestamp \in Nat
      BY DEF IInv, TypeOK, Entry
    <2>3. \A j \in Resolved(pa) : caches[j].timestamp <= caches[i].timestamp
      BY <2>1, <2>2 DEF IInv, FirstIsNewer, Index
    <2> QED
      BY <2>1, <2>3 DEF IInv, NewestIsHeard
  <1> QED
    BY <1>1, InitIInv, NextIInv, PTL DEF Spec


LEMMA AtMostTwoElements ==
  ASSUME NEW S, IsFiniteSet(S), \A i, j, k \in S : i = j \/ j = k \/ i = k
  PROVE  Cardinality(S) <= 2
  <1>1. CASE S = {}
    BY <1>1, FS_EmptySet
  <1>2. CASE S # {}
    <2>1. PICK a \in S : TRUE
      BY <1>2
    <2> DEFINE T == S \ {a}
    <2>2. IsFiniteSet(T) /\ Cardinality(T) = Cardinality(S) - 1 /\ Cardinality(S) \in Nat
      BY <2>1, FS_RemoveElement, FS_CardinalityType
    <2>3. CASE T = {}
      BY <2>2, <2>3, FS_EmptySet
    <2>4. CASE T # {}
      <3>1. PICK b \in T : TRUE
        BY <2>4
      <3>2. T \ {b} = {}
        BY <2>1, <3>1
      <3>3. Cardinality(T \ {b}) = Cardinality(T) - 1
        BY <2>2, <3>1, FS_RemoveElement
      <3>4. Cardinality(T \ {b}) = 0
        BY <3>2, FS_EmptySet
      <3> HIDE DEF T
      <3> QED
        BY <2>2, <3>3, <3>4, FS_CardinalityType
    <2> QED
      BY <2>3, <2>4
  <1> QED
    BY <1>1, <1>2

LEMMA AtMostOneElement ==
  ASSUME NEW S, IsFiniteSet(S), \A i, j \in S : i = j
  PROVE  Cardinality(S) <= 1
  <1>1. CASE S = {}
    BY <1>1, FS_EmptySet
  <1>2. CASE S # {}
    <2>1. PICK a \in S : TRUE
      BY <1>2
    <2>2. S \ {a} = {}
      BY <2>1
    <2>3. Cardinality(S \ {a}) = Cardinality(S) - 1 /\ Cardinality(S) \in Nat
      BY <2>1, FS_RemoveElement, FS_CardinalityType
    <2> QED
      BY <2>2, <2>3, FS_EmptySet
  <1> QED
    BY <1>1, <1>2

\* The same race never fills the cache: it makes one extra entry per address, for
\* any number of threads in arp_resolve.
THEOREM DuplicatesBounded == Spec => []FewDuplicates
  <1>1. IInv => FewDuplicates
    <2> SUFFICES ASSUME IInv, NEW pa \in Addrs
                 PROVE  /\ Cardinality(Entries(pa)) <= 2
                        /\ Cardinality({i \in Entries(pa) : caches[i].state = "INCOMPLETE"}) <= 1
      BY DEF FewDuplicates
    <2> DEFINE I == {i \in Entries(pa) : caches[i].state = "INCOMPLETE"}
    <2>1. IsFiniteSet(Index)
      BY CacheAssumption, FS_Interval DEF Index
    <2>2. IsFiniteSet(Entries(pa)) /\ IsFiniteSet(I)
      BY <2>1, FS_Subset DEF Entries
    <2>3. \A i, j, k \in Entries(pa) : i = j \/ j = k \/ i = k
      BY DEF IInv, AtMostTwo
    <2>4. \A i, j \in I : i = j
      BY DEF IInv, OneIncomplete
    <2> HIDE DEF I
    <2>5. Cardinality(Entries(pa)) <= 2
      BY <2>2, <2>3, AtMostTwoElements
    <2>6. Cardinality(I) <= 1
      BY <2>2, <2>4, AtMostOneElement
    <2> QED
      BY <2>5, <2>6 DEF I
  <1> QED
    BY <1>1, InitIInv, NextIInv, PTL DEF Spec
=============================================================================
