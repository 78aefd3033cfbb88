---------------------------- MODULE Hosts_proofs ----------------------------
(* Proofs about Hosts, for every set of hosts and every number of changes   *)
(* and sessions.                                                            *)
EXTENDS Hosts, SequenceTheorems, FiniteSetTheorems, TLAPS

-----------------------------------------------------------------------------
(* Tables and their places.                                                 *)

\* The hosts at the first n indexes of a table.
Places(t, n) == {t[k] : k \in {j \in DOMAIN t : j <= n}}

\* Taking out one entry shifts the later ones down.
LEMMA RemoveAtShifts ==
    ASSUME NEW t \in Seq(Names), NEW k \in DOMAIN t
    PROVE  /\ RemoveAt(t, k) \in Seq(Names)
           /\ Len(RemoveAt(t, k)) = Len(t) - 1
           /\ \A j \in 1 .. (Len(t) - 1) :
                 RemoveAt(t, k)[j] = IF j < k THEN t[j] ELSE t[j + 1]
<1> DEFINE low  == SubSeq(t, 1, k - 1)
           high == SubSeq(t, k + 1, Len(t))
<1>1. Len(t) \in Nat /\ k \in 1 .. Len(t)
  BY LenProperties
<1>2. /\ low \in Seq(Names) /\ Len(low) = k - 1
      /\ \A j \in 1 .. (k - 1) : low[j] = t[j]
  <2>1. \A j \in 1 .. (k - 1) : t[j] \in Names
    BY <1>1, ElementOfSeq
  <2> QED
    BY <1>1, <2>1, SubSeqProperties
<1>3. /\ high \in Seq(Names) /\ Len(high) = Len(t) - k
      /\ \A j \in 1 .. (Len(t) - k) : high[j] = t[k + j]
  <2>1. \A j \in (k + 1) .. Len(t) : t[j] \in Names
    BY <1>1, ElementOfSeq
  <2>2. /\ high \in Seq(Names)
        /\ Len(high) = IF k + 1 <= Len(t) THEN Len(t) - (k + 1) + 1 ELSE 0
        /\ \A j \in 1 .. (Len(t) - (k + 1) + 1) : high[j] = t[k + 1 + j - 1]
    BY <1>1, <2>1, SubSeqProperties
  <2>3. Len(t) - (k + 1) + 1 = Len(t) - k
    BY <1>1
  <2> HIDE DEF high
  <2>4. \A j \in 1 .. (Len(t) - k) : k + 1 + j - 1 = k + j
    BY <1>1
  <2> QED
    BY <1>1, <2>2, <2>3, <2>4
<1> DEFINE r == RemoveAt(t, k)
<1>4. r = low \o high
  BY DEF RemoveAt
<1> HIDE DEF low, high, r
<1>5. /\ r \in Seq(Names)
      /\ Len(r) = Len(low) + Len(high)
      /\ \A j \in 1 .. (Len(low) + Len(high)) :
            r[j] = IF j <= Len(low) THEN low[j] ELSE high[j - Len(low)]
  BY <1>2, <1>3, <1>4, ConcatProperties
<1>6. ASSUME NEW j \in 1 .. (Len(t) - 1)
      PROVE  r[j] = IF j < k THEN t[j] ELSE t[j + 1]
  <2>1. CASE j < k
    <3>1. j \in 1 .. (k - 1) /\ Len(low) + Len(high) = Len(t) - 1
      BY <1>1, <1>2, <1>3, <2>1
    <3>2. j \in 1 .. (Len(low) + Len(high)) /\ j <= Len(low)
      BY <1>1, <1>2, <3>1
    <3>3. r[j] = low[j]
      BY <1>5, <3>2
    <3> QED
      BY <1>2, <2>1, <3>1, <3>3
  <2>2. CASE j >= k
    <3>1. r[j] = high[j - (k - 1)]
      <4>1. /\ Len(low) = k - 1 /\ Len(high) = Len(t) - k
            /\ j \in 1 .. (Len(low) + Len(high)) /\ ~(j <= k - 1)
        BY <1>1, <1>2, <1>3, <2>2
      <4>2. r[j] = IF j <= Len(low) THEN low[j] ELSE high[j - Len(low)]
        BY <1>5, <4>1
      <4> QED
        BY <4>1, <4>2
    <3>2. j - (k - 1) \in 1 .. (Len(t) - k) /\ k + (j - (k - 1)) = j + 1
      BY <1>1, <2>2
    <3>3. high[j - (k - 1)] = t[k + (j - (k - 1))]
      BY <1>3, <3>2
    <3> QED
      BY <1>1, <2>2, <3>1, <3>2, <3>3
  <2> QED
    BY <1>1, <2>1, <2>2
<1> QED
  BY <1>1, <1>2, <1>3, <1>5, <1>6 DEF r

\* A host that leaves gives each place to the next one.
LEMMA LeavePlaces ==
    ASSUME NEW t \in Seq(Names), IsInjective(t), NEW k \in DOMAIN t,
           NEW n \in Nat
    PROVE  LET r == RemoveAt(t, k)
           IN  /\ r \in Seq(Names) /\ Len(r) = Len(t) - 1 /\ IsInjective(r)
               /\ Range(r) = Range(t) \ {t[k]}
               /\ Places(t, n) \ {t[k]} \subseteq Places(r, n)
               /\ n >= Len(t) => Places(r, n) \subseteq Places(t, n)
               /\ n < Len(t) => Places(r, n) \subseteq Places(t, n) \cup {t[n + 1]}
<1> DEFINE r == RemoveAt(t, k)
<1>1. Len(t) \in Nat /\ k \in 1 .. Len(t) /\ DOMAIN t = 1 .. Len(t)
  BY LenProperties
<1>2. /\ r \in Seq(Names) /\ Len(r) = Len(t) - 1
      /\ DOMAIN r = 1 .. (Len(t) - 1)
      /\ \A j \in 1 .. (Len(t) - 1) : r[j] = IF j < k THEN t[j] ELSE t[j + 1]
  <2>1. r \in Seq(Names) /\ Len(r) = Len(t) - 1
    BY RemoveAtShifts
  <2>2. DOMAIN r = 1 .. Len(r)
    BY <2>1, LenProperties
  <2> QED
    BY <2>1, <2>2, RemoveAtShifts
<1> HIDE DEF r
<1>3. \A j \in 1 .. Len(t) : j # k =>
         \E l \in DOMAIN r : r[l] = t[j] /\ l <= j
  <2> SUFFICES ASSUME NEW j \in 1 .. Len(t), j # k
               PROVE  \E l \in DOMAIN r : r[l] = t[j] /\ l <= j
    OBVIOUS
  <2>1. CASE j < k
    BY <1>1, <1>2, <2>1
  <2>2. CASE j > k
    <3>1. /\ j - 1 \in DOMAIN r /\ ~(j - 1 < k) /\ (j - 1) + 1 = j
          /\ j - 1 <= j
      BY <1>1, <1>2, <2>2
    <3> QED
      BY <1>2, <3>1
  <2> QED
    BY <1>1, <2>1, <2>2
<1>4. \A l \in DOMAIN r : \E j \in 1 .. Len(t) :
         j # k /\ r[l] = t[j] /\ j = IF l < k THEN l ELSE l + 1
  BY <1>1, <1>2
<1>5. IsInjective(r)
  <2> SUFFICES ASSUME NEW a \in DOMAIN r, NEW b \in DOMAIN r, r[a] = r[b]
               PROVE  a = b
    BY DEF IsInjective
  <2>1. PICK j \in 1 .. Len(t) : r[a] = t[j] /\ j = IF a < k THEN a ELSE a + 1
    BY <1>4
  <2>2. PICK l \in 1 .. Len(t) : r[b] = t[l] /\ l = IF b < k THEN b ELSE b + 1
    BY <1>4
  <2>3. j = l
    BY <1>1, <2>1, <2>2 DEF IsInjective
  <2> QED
    BY <1>1, <1>2, <2>1, <2>2, <2>3
<1>6. Range(r) = Range(t) \ {t[k]}
  <2>1. ASSUME NEW x \in Range(r)
        PROVE  x \in Range(t) /\ x # t[k]
    <3>1. PICK l \in DOMAIN r : x = r[l]
      BY DEF Range
    <3>2. PICK j \in 1 .. Len(t) : j # k /\ r[l] = t[j]
      BY <1>4
    <3> QED
      BY <1>1, <3>1, <3>2 DEF Range, IsInjective
  <2>2. ASSUME NEW x \in Range(t), x # t[k]
        PROVE  x \in Range(r)
    BY <1>1, <1>3, <2>2 DEF Range
  <2> QED
    BY <2>1, <2>2
<1>7. Places(t, n) \ {t[k]} \subseteq Places(r, n)
  <2> SUFFICES ASSUME NEW j \in DOMAIN t, j <= n, t[j] # t[k]
               PROVE  \E l \in DOMAIN r : l <= n /\ r[l] = t[j]
    BY DEF Places
  <2>1. PICK l \in DOMAIN r : r[l] = t[j] /\ l <= j
    BY <1>1, <1>3
  <2> QED
    BY <1>1, <1>2, <2>1
<1>8. ASSUME NEW l \in DOMAIN r, l <= n
      PROVE  r[l] \in Places(t, n) \/ (n < Len(t) /\ r[l] = t[n + 1])
  <2>1. PICK j \in 1 .. Len(t) : r[l] = t[j] /\ j \in {l, l + 1}
    BY <1>4, <1>2
  <2>2. CASE j <= n
    BY <1>1, <2>1, <2>2 DEF Places
  <2>3. CASE j = n + 1
    BY <1>1, <2>1, <2>3
  <2> QED
    BY <1>1, <1>2, <1>8, <2>1, <2>2, <2>3
<1>9. /\ n >= Len(t) => Places(r, n) \subseteq Places(t, n)
      /\ n < Len(t) => Places(r, n) \subseteq Places(t, n) \cup {t[n + 1]}
  <2>1. \A x \in Places(r, n) : \E l \in DOMAIN r : l <= n /\ x = r[l]
    BY DEF Places
  <2> QED
    BY <1>1, <1>8, <2>1
<1> QED
  BY <1>2, <1>5, <1>6, <1>7, <1>9 DEF r

\* A host that joins takes the place after the last one.
LEMMA JoinPlaces ==
    ASSUME NEW t \in Seq(Names), IsInjective(t), NEW h \in Names,
           h \notin Range(t), NEW n \in Nat
    PROVE  LET r == Append(t, h)
           IN  /\ r \in Seq(Names) /\ Len(r) = Len(t) + 1 /\ IsInjective(r)
               /\ Range(r) = Range(t) \cup {h}
               /\ Places(t, n) \subseteq Places(r, n)
               /\ Places(r, n) \subseteq Places(t, n) \cup {h}
               /\ n <= Len(t) => Places(r, n) = Places(t, n)
<1> DEFINE r == Append(t, h)
<1>1. Len(t) \in Nat /\ DOMAIN t = 1 .. Len(t)
  BY LenProperties
<1>2. /\ r \in Seq(Names) /\ Len(r) = Len(t) + 1
      /\ DOMAIN r = 1 .. (Len(t) + 1)
      /\ \A j \in 1 .. Len(t) : r[j] = t[j]
      /\ r[Len(t) + 1] = h
  BY <1>1, AppendProperties, LenProperties
<1> HIDE DEF r
<1>3. IsInjective(r)
  BY <1>1, <1>2 DEF IsInjective, Range
<1>4. Range(r) = Range(t) \cup {h}
  BY <1>1, <1>2 DEF Range
<1>5. /\ Places(t, n) \subseteq Places(r, n)
      /\ Places(r, n) \subseteq Places(t, n) \cup {h}
      /\ n <= Len(t) => Places(r, n) = Places(t, n)
  BY <1>1, <1>2 DEF Places
<1> QED
  BY <1>2, <1>3, <1>4, <1>5 DEF r

-----------------------------------------------------------------------------
(* Type correctness.                                                        *)

\* The device changes its table, whatever the scrape is doing.
Changes(h) == Joins(h) \/ Leaves(h) \/ Wakes(h) \/ Sleeps(h)

LEMMA ChangesTouchNoScrape ==
    ASSUME NEW h, Changes(h)
    PROVE  UNCHANGED <<sid, opted, pc, total, index, counted, path, recorded,
                       hit>>
BY DEF Changes, Joins, Leaves, Wakes, Sleeps, Remember

\* Where the enumeration stands: nothing is counted before the number of
\* hosts is known, an entry is only asked for below that number, and each
\* function only calls for the metric it is to record.
ScrapeInv ==
    /\ pc = "count" => index = 0 /\ counted = <<>> /\ changes = 0 /\ leaves = 0
    /\ pc = "entry" => index < total /\ "hosts_active" \in opted
    /\ pc \in {"path", "fetch"} => "hosts_info" \in opted

\* What the head of the loop leaves.
LEMMA LoopLeaves ==
    ASSUME NEW n \in Nat, NEW m \in Nat, NEW points, Loop(n, m, points),
           n <= m, "hosts_active" \in opted, points \subseteq {"hosts_total"} \cup opted
    PROVE  /\ index' = n
           /\ pc' \in {"idle", "entry", "path"}
           /\ pc' = "entry" <=> n < m
           /\ pc' = "entry" => recorded' = points
           /\ pc' = "path" => "hosts_info" \in opted
           /\ recorded' \subseteq {"hosts_total"} \cup opted
<1>1. CASE n < m
  <2>1. index' = n /\ pc' = "entry" /\ recorded' = points
    BY <1>1 DEF Loop
  <2>2. points \subseteq {"hosts_total"} \cup opted
    OBVIOUS
  <2> QED
    BY <1>1, <2>1
<1>2. CASE n >= m
  <2>1. index' = n /\ pc' = AfterHosts /\ recorded' = points \cup {"hosts_active"}
    BY <1>2 DEF Loop
  <2>2. pc' \in {"idle", "path"} /\ (pc' = "path" => "hosts_info" \in opted)
    BY <2>1 DEF AfterHosts
  <2>3. recorded' \subseteq {"hosts_total"} \cup opted
    BY <2>1
  <2> QED
    BY <1>2, <2>1, <2>2, <2>3
<1> QED
  BY <1>1, <1>2

\* How the table and what is remembered of it may change.
LEMMA ChangesTypes ==
    ASSUME TypeOK, NEW h \in Names, Changes(h)
    PROVE  /\ table' \in Seq(Names) /\ IsInjective(table')
           /\ up' \subseteq Range(table') /\ steady' \subseteq up'
           /\ changes' \in 0 .. MaxChanges /\ leaves' \in 0 .. changes'
           /\ pc # "entry" => changes' = changes /\ leaves' = leaves
<1>1. /\ table \in Seq(Names) /\ IsInjective(table)
      /\ up \subseteq Range(table) /\ steady \subseteq up
  BY DEF TypeOK
<1>2. ASSUME NEW left \in {0, 1}, NEW gone, Remember(left, gone)
      PROVE  /\ changes' \in 0 .. MaxChanges /\ leaves' \in 0 .. changes'
             /\ steady' = steady \ gone
             /\ pc # "entry" => changes' = changes /\ leaves' = leaves
  BY <1>2, BoundsAssumption DEF Remember, TypeOK
<1>3. CASE Joins(h)
  <2>1. /\ IsInjective(Append(table, h)) /\ Append(table, h) \in Seq(Names)
        /\ Range(Append(table, h)) = Range(table) \cup {h}
    BY <1>1, <1>3, JoinPlaces, 0 \in Nat DEF Joins
  <2>2. /\ table' = Append(table, h) /\ up' \in {up, up \cup {h}}
        /\ Remember(0, {})
    BY <1>3 DEF Joins
  <2> QED
    BY <1>1, <1>2, <2>1, <2>2
<1>4. CASE Leaves(h)
  <2>1. PICK k \in DOMAIN table : table[k] = h /\ table' = RemoveAt(table, k)
    BY <1>4 DEF Leaves
  <2>2. /\ table' \in Seq(Names) /\ IsInjective(table')
        /\ Range(table') = Range(table) \ {h}
    BY <1>1, <2>1, LeavePlaces, 0 \in Nat
  <2>3. up' = up \ {h} /\ Remember(1, {h})
    BY <1>4 DEF Leaves
  <2> QED
    BY <1>1, <1>2, <2>2, <2>3
<1>5. CASE Wakes(h) \/ Sleeps(h)
  <2>1. /\ table' = table
        /\ \/ h \in Range(table) /\ up' = up \cup {h} /\ Remember(0, {})
           \/ up' = up \ {h} /\ Remember(0, {h})
    BY <1>5 DEF Wakes, Sleeps
  <2> QED
    BY <1>1, <1>2, <2>1
<1> QED
  BY <1>3, <1>4, <1>5 DEF Changes

LEMMA CountedTypes ==
    ASSUME TypeOK, ScrapeInv, Counted
    PROVE  TypeOK' /\ ScrapeInv'
<1>1. Len(table) \in Nat
  BY LenProperties DEF TypeOK
<1>2. /\ total' = Len(table) /\ steady' = up /\ index = 0 /\ counted = <<>>
      /\ UNCHANGED <<table, up, sid, opted, counted, path, changes, leaves, hit>>
  BY DEF Counted, ScrapeInv, device
<1>3. /\ index' = 0 /\ pc' \in {"idle", "entry", "path"}
      /\ pc' = "entry" => index' < total' /\ "hosts_active" \in opted
      /\ pc' = "path" => "hosts_info" \in opted
      /\ recorded' \subseteq {"hosts_total"} \cup opted
  <2>1. CASE "hosts_active" \in opted
    BY <1>1, <1>2, <2>1, LoopLeaves DEF Counted
  <2>2. CASE "hosts_active" \notin opted
    BY <1>2, <2>2 DEF Counted, AfterHosts
  <2> QED
    BY <2>1, <2>2
<1>4. counted' \in Seq(Names) /\ Len(counted') <= index'
  BY <1>2, <1>3, EmptySeq
<1>5. /\ table' \in Seq(Names) /\ IsInjective(table')
      /\ up' \subseteq Range(table') /\ steady' \subseteq up'
  BY <1>2 DEF TypeOK
<1>6. index' \in 0 .. total' /\ total' \in Nat
  BY <1>1, <1>2, <1>3
<1>7. /\ sid' \in 0 .. MaxSessions /\ path' \in 0 .. sid'
      /\ opted' \subseteq {"hosts_active", "hosts_info"}
      /\ changes' \in 0 .. MaxChanges /\ leaves' \in 0 .. changes'
      /\ hit' \in BOOLEAN
  BY <1>2 DEF TypeOK
<1> QED
  BY <1>2, <1>3, <1>4, <1>5, <1>6, <1>7 DEF TypeOK, ScrapeInv

LEMMA EntryTypes ==
    ASSUME TypeOK, ScrapeInv, Entry
    PROVE  TypeOK' /\ ScrapeInv'
<1>1. /\ total \in Nat /\ index \in Nat /\ index < total
      /\ "hosts_active" \in opted
      /\ Loop(index + 1, total, recorded)
      /\ recorded \subseteq {"hosts_total"} \cup opted
  BY DEF TypeOK, ScrapeInv, Entry
<1>2. /\ index' = index + 1 /\ pc' \in {"idle", "entry", "path"}
      /\ pc' = "entry" => index' < total
      /\ pc' = "path" => "hosts_info" \in opted
      /\ recorded' \subseteq {"hosts_total"} \cup opted
  <2>1. index + 1 \in Nat /\ index + 1 <= total
    BY <1>1
  <2> QED
    BY <1>1, <2>1, LoopLeaves
<1>3. UNCHANGED <<table, up, sid, opted, total, path, changes, leaves, steady,
                  hit>>
  BY DEF Entry, device, history
<1>4. counted' \in Seq(Names) /\ Len(counted') <= index'
  <2>1. /\ index + 1 \in 1 .. Len(table) /\ counted \in Seq(Names)
        /\ Len(counted) \in Nat /\ Len(counted) <= index
    BY <1>1, LenProperties DEF Entry, TypeOK
  <2>2. table[index + 1] \in Names
    BY <2>1, ElementOfSeq DEF TypeOK
  <2>3. \/ counted' = counted
        \/ counted' = Append(counted, table[index + 1])
    BY DEF Entry
  <2>4. /\ Append(counted, table[index + 1]) \in Seq(Names)
        /\ Len(Append(counted, table[index + 1])) = Len(counted) + 1
    BY <2>1, <2>2, AppendProperties
  <2>5. counted' \in Seq(Names) /\ Len(counted') <= index + 1
    BY <1>1, <2>1, <2>3, <2>4
  <2> QED
    BY <1>2, <2>5
<1>5. index' \in 0 .. total
  BY <1>1, <1>2
<1>6. /\ table' \in Seq(Names) /\ IsInjective(table')
      /\ up' \subseteq Range(table') /\ steady' \subseteq up'
      /\ sid' \in 0 .. MaxSessions /\ path' \in 0 .. sid'
      /\ opted' \subseteq {"hosts_active", "hosts_info"}
      /\ changes' \in 0 .. MaxChanges /\ leaves' \in 0 .. changes'
      /\ hit' \in BOOLEAN /\ total' \in Nat
  BY <1>3 DEF TypeOK
<1> QED
  BY <1>1, <1>2, <1>3, <1>4, <1>5, <1>6 DEF TypeOK, ScrapeInv

LEMMA TypeStep ==
    ASSUME TypeOK, ScrapeInv, [Next]_vars
    PROVE  TypeOK' /\ ScrapeInv'
<1>1. CASE Begin
  <2>1. Len(<<>>) = 0 /\ <<>> \in Seq(Names)
    BY EmptySeq
  <2>2. 0 \in 0 .. MaxChanges
    BY BoundsAssumption
  <2>3. /\ pc' = "count" /\ recorded' = {} /\ counted' = <<>> /\ hit' = FALSE
        /\ total' = 0 /\ index' = 0 /\ changes' = 0 /\ leaves' = 0
        /\ steady' = {} /\ UNCHANGED <<table, up, sid, opted, path>>
    BY <1>1 DEF Begin, device
  <2>4. /\ counted' \in Seq(Names) /\ Len(counted') <= index'
        /\ index' \in 0 .. total' /\ total' \in Nat
        /\ changes' \in 0 .. MaxChanges /\ leaves' \in 0 .. changes'
    BY <2>1, <2>2, <2>3
  <2>5. ScrapeInv'
    BY <2>3 DEF ScrapeInv
  <2> QED
    BY <2>3, <2>4, <2>5 DEF TypeOK
<1>2. CASE Counted
  BY <1>2, CountedTypes
<1>3. CASE Entry
  BY <1>3, EntryTypes
<1>4. CASE NoEntry
  <2>1. pc' \in {"idle", "path"} /\ (pc' = "path" => "hosts_info" \in opted)
    BY <1>4 DEF NoEntry, AfterHosts
  <2> QED
    BY <1>4, <2>1 DEF NoEntry, TypeOK, ScrapeInv, device, history
<1>5. CASE Path
  BY <1>5 DEF Path, TypeOK, ScrapeInv, device, history
<1>6. CASE Fetched
  <2>1. pc' = "idle" /\ recorded' \subseteq {"hosts_total"} \cup opted
    <3>1. "hosts_info" \in opted
      BY <1>6 DEF Fetched, ScrapeInv
    <3> QED
      BY <1>6, <3>1 DEF Fetched, TypeOK
  <2>2. UNCHANGED <<table, up, sid, opted, total, index, counted, path,
                    changes, leaves, steady, hit>>
    BY <1>6 DEF Fetched, device, history
  <2> QED
    BY <2>1, <2>2 DEF TypeOK, ScrapeInv
<1>7. CASE Fails
  <2>1. /\ pc' \in {"idle", "path"} /\ hit' \in BOOLEAN
        /\ pc' = "path" => "hosts_info" \in opted
    BY <1>7 DEF Fails, AfterHosts
  <2> QED
    BY <1>7, <2>1 DEF Fails, TypeOK, ScrapeInv, device, history
<1>8. ASSUME NEW h \in Names, Changes(h)
      PROVE  TypeOK' /\ ScrapeInv'
  BY <1>8, ChangesTypes, ChangesTouchNoScrape DEF TypeOK, ScrapeInv
<1>9. CASE SessionEnds
  <2>1. hit' \in BOOLEAN
    BY <1>9 DEF SessionEnds, TypeOK
  <2> QED
    BY <1>9, <2>1, BoundsAssumption
       DEF SessionEnds, TypeOK, ScrapeInv, history
<1>10. CASE UNCHANGED vars
  BY <1>10 DEF vars, TypeOK, ScrapeInv
<1> QED
  BY <1>1, <1>2, <1>3, <1>4, <1>5, <1>6, <1>7, <1>8, <1>9, <1>10
     DEF Next, Scrape, Changes

LEMMA EnumerationCorrect == Spec => [](TypeOK /\ ScrapeInv)
<1>1. Init => TypeOK /\ ScrapeInv
  <2> SUFFICES ASSUME Init
               PROVE  TypeOK /\ ScrapeInv
    OBVIOUS
  <2>1. table \in Seq(Names) /\ IsInjective(table)
    <3>1. Cardinality(Names) \in Nat
      BY NamesAssumption, FS_CardinalityType
    <3>2. PICK n \in 0 .. Cardinality(Names) : table \in [1 .. n -> Names]
      BY DEF Init, Tables
    <3>3. table \in Seq(Names)
      BY <3>1, <3>2, SeqDef
    <3> QED
      BY <3>3 DEF Init, Tables
  <2>2. Len(<<>>) = 0 /\ <<>> \in Seq(Names)
    BY EmptySeq
  <2>3. 0 \in 0 .. MaxChanges /\ 0 \in 0 .. MaxSessions
    BY BoundsAssumption
  <2>4. /\ counted \in Seq(Names) /\ Len(counted) <= index
        /\ index \in 0 .. total /\ total \in Nat
        /\ sid \in 0 .. MaxSessions /\ path \in 0 .. sid
        /\ changes \in 0 .. MaxChanges /\ leaves \in 0 .. changes
    BY <2>2, <2>3 DEF Init
  <2>5. ScrapeInv
    BY DEF Init, ScrapeInv
  <2> QED
    BY <2>1, <2>4, <2>5 DEF Init, TypeOK
<1>2. TypeOK /\ ScrapeInv /\ [Next]_vars => TypeOK' /\ ScrapeInv'
  BY TypeStep
<1> QED
  BY <1>1, <1>2, PTL DEF Spec

\* Every state of Hosts is of the stated type: the table names a host once,
\* and no more hosts are counted than entries were read.
THEOREM TypeCorrect == Spec => []TypeOK
BY EnumerationCorrect, PTL

-----------------------------------------------------------------------------
(* How many hosts have been passed.                                         *)

\* Sets of hosts that differ in one host differ by at most one in number.
LEMMA CardinalityBounds ==
    ASSUME NEW S \in SUBSET Names, NEW T \in SUBSET Names
    PROVE  /\ Cardinality(S) \in Nat
           /\ S \subseteq T => Cardinality(S) <= Cardinality(T)
           /\ \A x : S \subseteq T \cup {x} => Cardinality(S) <= Cardinality(T) + 1
<1>1. IsFiniteSet(S) /\ IsFiniteSet(T)
  BY NamesAssumption, FS_Subset
<1>2. Cardinality(S) \in Nat /\ Cardinality(T) \in Nat
  BY <1>1, FS_CardinalityType
<1>3. ASSUME S \subseteq T
      PROVE  Cardinality(S) <= Cardinality(T)
  BY <1>1, <1>3, FS_Subset
<1>4. ASSUME NEW x, S \subseteq T \cup {x}
      PROVE  Cardinality(S) <= Cardinality(T) + 1
  <2>1. /\ IsFiniteSet(T \cup {x})
        /\ Cardinality(T \cup {x}) \in {Cardinality(T), Cardinality(T) + 1}
    BY <1>1, FS_AddElement
  <2>2. Cardinality(S) <= Cardinality(T \cup {x})
    BY <1>4, <2>1, FS_Subset
  <2> QED
    BY <1>2, <2>1, <2>2
<1> QED
  BY <1>2, <1>3, <1>4

\* The places of a table hold its hosts, each at one place only.
LEMMA PlacesOfTable ==
    ASSUME NEW t \in Seq(Names), IsInjective(t), NEW n \in Nat
    PROVE  /\ Places(t, n) \subseteq Range(t) /\ Range(t) \subseteq Names
           /\ Places(t, 0) = {}
           /\ n >= Len(t) => Places(t, n) = Range(t)
           /\ n < Len(t) => /\ Places(t, n + 1) = Places(t, n) \cup {t[n + 1]}
                            /\ t[n + 1] \notin Places(t, n)
<1>1. Len(t) \in Nat /\ DOMAIN t = 1 .. Len(t)
  BY LenProperties
<1>2. Range(t) \subseteq Names
  BY RangeOfSeq
<1>3. Places(t, n) \subseteq Range(t) /\ Places(t, 0) = {}
  BY <1>1 DEF Places, Range
<1>4. n >= Len(t) => Places(t, n) = Range(t)
  BY <1>1 DEF Places, Range
<1>5. ASSUME n < Len(t)
      PROVE  /\ Places(t, n + 1) = Places(t, n) \cup {t[n + 1]}
             /\ t[n + 1] \notin Places(t, n)
  <2>1. n + 1 \in DOMAIN t /\ {j \in DOMAIN t : j <= n + 1}
                               = {j \in DOMAIN t : j <= n} \cup {n + 1}
    BY <1>1, <1>5
  <2>2. Places(t, n + 1) = Places(t, n) \cup {t[n + 1]}
    BY <2>1 DEF Places
  <2>3. t[n + 1] \notin Places(t, n)
    BY <1>1, <2>1 DEF Places, IsInjective
  <2> QED
    BY <2>2, <2>3
<1> QED
  BY <1>2, <1>3, <1>4, <1>5

\* No more hosts lie behind the n-th place than there are places.
LEMMA PlacesBeyond ==
    ASSUME NEW t \in Seq(Names), NEW n \in Nat, n <= Len(t)
    PROVE  Cardinality(Range(t) \ Places(t, n)) <= Len(t) - n
<1> DEFINE I == (n + 1) .. Len(t)
           T == {t[j] : j \in I}
           f == [j \in I |-> t[j]]
<1>1. Len(t) \in Nat /\ DOMAIN t = 1 .. Len(t)
  BY LenProperties
<1>2. IsFiniteSet(I) /\ Cardinality(I) = Len(t) - n
  <2>1. /\ IsFiniteSet(I)
        /\ Cardinality(I) = IF n + 1 > Len(t) THEN 0 ELSE Len(t) - (n + 1) + 1
    <3>1. n + 1 \in Int /\ Len(t) \in Int
      BY <1>1
    <3> QED
      BY <3>1, FS_Interval
  <2> QED
    BY <1>1, <2>1
<1>3. f \in Surjection(I, T)
  BY DEF Surjection
<1>4. IsFiniteSet(T) /\ Cardinality(T) <= Cardinality(I)
  BY <1>2, <1>3, FS_Surjection
<1>5. Range(t) \ Places(t, n) \subseteq T
  BY <1>1 DEF Range, Places
<1>6. /\ IsFiniteSet(Range(t) \ Places(t, n))
      /\ Cardinality(Range(t) \ Places(t, n)) <= Cardinality(T)
  BY <1>4, <1>5, FS_Subset
<1> HIDE DEF I, T
<1>7. /\ Cardinality(T) \in Nat
      /\ Cardinality(Range(t) \ Places(t, n)) \in Nat
  BY <1>4, <1>6, FS_CardinalityType
<1> QED
  BY <1>1, <1>2, <1>4, <1>6, <1>7

-----------------------------------------------------------------------------
(* hosts.active.                                                            *)

\* The active hosts whose entries have been read, as the table is now.
Passed == up \cap Places(table, index)

\* Each change of the table takes the count at most one away from the hosts
\* it has passed, and the table's length at most one from the total.  A host
\* that joins a table shorter than the index counts twice, after the two
\* departures it takes to get there.
Near ==
    /\ Len(counted) <= Cardinality(Passed) + changes
    /\ Cardinality(Passed) + Len(table) <= Len(counted) + total + changes
    /\ Cardinality(Passed) + 2 * index
         <= Len(counted) + total + changes + Len(table)

\* The inductive invariant behind ActiveNearTruth.
ActiveInv == pc = "entry" => Near

\* The numbers of Near are numbers.
NumbersOK ==
    /\ Len(counted) \in Nat /\ Len(table) \in Nat /\ total \in Nat
    /\ index \in Nat /\ changes \in Nat /\ leaves \in Nat
    /\ Passed \in SUBSET Names /\ Cardinality(Passed) \in Nat
    /\ up \in SUBSET Names /\ Cardinality(up) \in Nat

LEMMA NearTypes == TypeOK => NumbersOK
<1> SUFFICES ASSUME TypeOK
             PROVE  NumbersOK
    OBVIOUS
<1>1. Range(table) \subseteq Names
  BY RangeOfSeq DEF TypeOK
<1>2. up \in SUBSET Names /\ Passed \in SUBSET Names
  BY <1>1 DEF TypeOK, Passed
<1>3. Cardinality(Passed) \in Nat /\ Cardinality(up) \in Nat
  BY <1>2, CardinalityBounds
<1>4. Len(counted) \in Nat /\ Len(table) \in Nat
  BY LenProperties DEF TypeOK
<1> QED
  BY <1>2, <1>3, <1>4, BoundsAssumption DEF TypeOK, NumbersOK

LEMMA NextNearTypes == TypeOK' => NumbersOK'
BY NearTypes, PTL

\* What one change does to the hosts passed and to the table's length.
LEMMA ChangePasses ==
    ASSUME TypeOK, TypeOK', NEW h \in Names, Changes(h)
    PROVE  /\ Cardinality(Passed) <= Cardinality(Passed') + 1
           /\ Cardinality(Passed') <= Cardinality(Passed) + 1
           /\ \/ /\ Len(table') = Len(table) + 1
                 /\ index <= Len(table) =>
                       Cardinality(Passed') <= Cardinality(Passed)
              \/ /\ Len(table') = Len(table) - 1
                 /\ index >= Len(table) =>
                       Cardinality(Passed') <= Cardinality(Passed)
              \/ Len(table') = Len(table)
<1>1. /\ table \in Seq(Names) /\ IsInjective(table) /\ index \in Nat
      /\ Len(table) \in Nat
      /\ up \subseteq Range(table) /\ index' = index
      /\ Passed \in SUBSET Names /\ Passed' \in SUBSET Names
      /\ Cardinality(Passed) \in Nat /\ Cardinality(Passed') \in Nat
  <2>1. /\ Passed \in SUBSET Names /\ Cardinality(Passed) \in Nat
        /\ index \in Nat /\ Len(table) \in Nat
    BY NearTypes DEF NumbersOK
  <2>2. (Passed \in SUBSET Names /\ Cardinality(Passed) \in Nat)'
    BY NextNearTypes DEF NumbersOK
  <2> QED
    BY <2>1, <2>2, ChangesTouchNoScrape DEF TypeOK
<1>2. ASSUME NEW x, NEW y, Passed \subseteq Passed' \cup {x},
             Passed' \subseteq Passed \cup {y}
      PROVE  /\ Cardinality(Passed) <= Cardinality(Passed') + 1
             /\ Cardinality(Passed') <= Cardinality(Passed) + 1
  BY <1>1, <1>2, CardinalityBounds
<1>3. CASE Joins(h)
  <2>1. /\ table' = Append(table, h) /\ up' \in {up, up \cup {h}}
        /\ h \notin Range(table)
    BY <1>3 DEF Joins
  <2>2. /\ Len(table') = Len(table) + 1
        /\ Places(table, index) \subseteq Places(table', index)
        /\ Places(table', index) \subseteq Places(table, index) \cup {h}
        /\ index <= Len(table) => Places(table', index) = Places(table, index)
    BY <1>1, <2>1, JoinPlaces
  <2>3. Passed \subseteq Passed' \cup {h} /\ Passed' \subseteq Passed \cup {h}
    BY <1>1, <2>1, <2>2 DEF Passed
  <2>4. index <= Len(table) => Passed' \subseteq Passed
    <3>1. h \notin Places(table, index)
      BY <1>1, <2>1, PlacesOfTable
    <3> QED
      BY <1>1, <2>1, <2>2, <3>1 DEF Passed
  <2>5. index <= Len(table) => Cardinality(Passed') <= Cardinality(Passed)
    BY <1>1, <2>4, CardinalityBounds
  <2> QED
    BY <1>2, <2>2, <2>3, <2>5
<1>4. CASE Leaves(h)
  <2>1. PICK k \in DOMAIN table : table[k] = h /\ table' = RemoveAt(table, k)
    BY <1>4 DEF Leaves
  <2>2. up' = up \ {h}
    BY <1>4 DEF Leaves
  <2>3. /\ Len(table') = Len(table) - 1
        /\ Places(table, index) \ {h} \subseteq Places(table', index)
        /\ index >= Len(table) =>
              Places(table', index) \subseteq Places(table, index)
        /\ index < Len(table) => Places(table', index)
              \subseteq Places(table, index) \cup {table[index + 1]}
    BY <1>1, <2>1, LeavePlaces
  <2>4. Passed \subseteq Passed' \cup {h}
    BY <1>1, <2>2, <2>3 DEF Passed
  <2>5. index >= Len(table) => Passed' \subseteq Passed
    BY <1>1, <2>2, <2>3 DEF Passed
  <2>6. index < Len(table) => Passed' \subseteq Passed \cup {table[index + 1]}
    BY <1>1, <2>2, <2>3 DEF Passed
  <2>7. Passed' \subseteq Passed \cup {table[index + 1]}
    BY <1>1, <2>5, <2>6
  <2>8. index >= Len(table) => Cardinality(Passed') <= Cardinality(Passed)
    BY <1>1, <2>5, CardinalityBounds
  <2> QED
    BY <1>2, <2>3, <2>4, <2>7, <2>8
<1>5. CASE Wakes(h) \/ Sleeps(h)
  <2>1. table' = table /\ up' \in {up \cup {h}, up \ {h}}
    BY <1>5 DEF Wakes, Sleeps
  <2>2. Passed \subseteq Passed' \cup {h} /\ Passed' \subseteq Passed \cup {h}
    BY <1>1, <2>1 DEF Passed
  <2> QED
    BY <1>2, <2>1, <2>2
<1> QED
  BY <1>3, <1>4, <1>5 DEF Changes

\* During the enumeration each change is counted.
LEMMA ChangesCounted ==
    ASSUME TypeOK, NEW h \in Names, Changes(h), pc = "entry"
    PROVE  /\ changes' = changes + 1
           /\ leaves' = IF Leaves(h) THEN leaves + 1 ELSE leaves
<1>1. changes \in Nat /\ leaves \in Nat
  BY NearTypes DEF NumbersOK
<1>2. Leaves(h) => ~Joins(h) /\ ~Wakes(h) /\ ~Sleeps(h)
  <2> SUFFICES ASSUME Leaves(h)
               PROVE  ~Joins(h) /\ ~Wakes(h) /\ ~Sleeps(h)
    OBVIOUS
  <2>1. leaves' = leaves + 1
    BY DEF Leaves, Remember
  <2> QED
    BY <1>1, <2>1 DEF Joins, Wakes, Sleeps, Remember
<1> QED
  BY <1>1, <1>2 DEF Changes, Joins, Leaves, Wakes, Sleeps, Remember

\* Reading an entry passes one host.
LEMMA EntryPasses ==
    ASSUME TypeOK, TypeOK', ScrapeInv, ActiveInv, Entry
    PROVE  /\ Near' /\ index' = index + 1 /\ index' <= Len(table')
           /\ Passed' \subseteq up'
<1>1. /\ table \in Seq(Names) /\ IsInjective(table) /\ counted \in Seq(Names)
      /\ index < total /\ index < Len(table) /\ Near
      /\ Loop(index + 1, total, recorded)
  BY DEF TypeOK, ScrapeInv, ActiveInv, Entry
<1>2. /\ Len(counted) \in Nat /\ Len(table) \in Nat /\ total \in Nat
      /\ index \in Nat /\ changes \in Nat
      /\ Passed \in SUBSET Names /\ Cardinality(Passed) \in Nat
  BY NearTypes DEF NumbersOK
<1>3. /\ table' = table /\ up' = up /\ total' = total /\ changes' = changes
      /\ index' = index + 1
  BY <1>1 DEF Entry, device, history, Loop
<1> DEFINE x == table[index + 1]
<1>4. /\ Places(table, index + 1) = Places(table, index) \cup {x}
      /\ x \notin Places(table, index) /\ x \in Names
  BY <1>1, <1>2, PlacesOfTable, ElementOfSeq
<1>5. counted' = IF x \in up THEN Append(counted, x) ELSE counted
  BY DEF Entry
<1> HIDE DEF x
<1>6. IsFiniteSet(Passed) /\ x \notin Passed
  BY <1>2, <1>4, NamesAssumption, FS_Subset DEF Passed
<1>7. CASE x \in up
  <2>1. Passed' = Passed \cup {x}
    BY <1>3, <1>4, <1>7 DEF Passed
  <2>2. Cardinality(Passed') = Cardinality(Passed) + 1
    BY <1>6, <2>1, FS_AddElement
  <2>3. Len(counted') = Len(counted) + 1
    BY <1>1, <1>4, <1>5, <1>7, AppendProperties
  <2> DEFINE n == Len(counted)
             l == Len(table)
             p == Cardinality(Passed)
  <2>4. /\ n \in Nat /\ l \in Nat /\ p \in Nat
        /\ n <= p + changes /\ p + l <= n + total + changes
        /\ p + 2 * index <= n + total + changes + l
    BY <1>1, <1>2 DEF Near
  <2>5. Len(table') = l
    BY <1>3
  <2>6. index < l
    BY <1>1
  <2> HIDE DEF n, l, p
  <2>7. /\ n + 1 <= (p + 1) + changes
        /\ (p + 1) + l <= (n + 1) + total + changes
    BY <1>2, <2>4
  <2>8. (p + 1) + 2 * (index + 1) <= (n + 1) + total + changes + l
    BY <1>1, <1>2, <2>4, <2>6
  <2>9. Len(counted') = n + 1 /\ Cardinality(Passed') = p + 1
    BY <2>2, <2>3 DEF n, p
  <2>10. /\ Len(counted') <= Cardinality(Passed') + changes'
         /\ Cardinality(Passed') + Len(table')
              <= Len(counted') + total' + changes'
         /\ Cardinality(Passed') + 2 * index'
              <= Len(counted') + total' + changes' + Len(table')
    BY <1>3, <2>5, <2>7, <2>8, <2>9
  <2>11. index' <= Len(table')
    BY <1>2, <1>3, <2>4, <2>5, <2>6
  <2> QED
    BY <1>3, <2>10, <2>11 DEF Near, Passed
<1>8. CASE x \notin up
  <2>1. Passed' = Passed /\ counted' = counted
    BY <1>3, <1>4, <1>5, <1>8 DEF Passed
  <2>2. Near'
    BY <1>1, <1>2, <1>3, <2>1 DEF Near
  <2> QED
    BY <1>1, <1>2, <1>3, <2>2 DEF Passed
<1> QED
  BY <1>7, <1>8

\* The count begins with no host passed.
LEMMA CountedPasses ==
    ASSUME TypeOK, ScrapeInv, Counted
    PROVE  /\ "hosts_active" \in opted => Near'
           /\ total' = Len(table) /\ counted' = <<>> /\ up' = up /\ steady' = up
           /\ table' = table /\ leaves' = 0
           /\ "hosts_active" \in opted => index' = 0
<1>1. /\ total' = Len(table) /\ counted' = <<>> /\ up' = up /\ steady' = up
      /\ table' = table /\ changes' = 0 /\ leaves' = 0
  BY DEF Counted, ScrapeInv, device
<1>2. ASSUME "hosts_active" \in opted
      PROVE  index' = 0 /\ Near'
  <2>1. index' = 0
    BY <1>2 DEF Counted, Loop
  <2>2. Places(table, 0) = {} /\ Len(table) \in Nat
    BY PlacesOfTable, LenProperties, 0 \in Nat DEF TypeOK
  <2>3. Cardinality(Passed') = 0
    BY <1>1, <2>1, <2>2, FS_EmptySet DEF Passed
  <2>4. Len(counted') = 0
    BY <1>1, EmptySeq
  <2> QED
    BY <1>1, <2>1, <2>2, <2>3, <2>4 DEF Near
<1> QED
  BY <1>1, <1>2

LEMMA ActiveStep ==
    ASSUME TypeOK, TypeOK', ScrapeInv, ActiveInv, [Next]_vars
    PROVE  ActiveInv'
<1>1. CASE Begin \/ NoEntry \/ Path \/ Fetched \/ Fails
  <2>1. pc' # "entry"
    BY <1>1 DEF Begin, NoEntry, Path, Fetched, Fails, AfterHosts
  <2> QED
    BY <2>1 DEF ActiveInv
<1>2. CASE Counted
  <2>1. pc' = "entry" => "hosts_active" \in opted
    BY <1>2 DEF Counted, AfterHosts
  <2> QED
    BY <1>2, <2>1, CountedPasses DEF ActiveInv
<1>3. CASE Entry
  BY <1>3, EntryPasses DEF ActiveInv
<1>4. ASSUME NEW h \in Names, Changes(h)
      PROVE  ActiveInv'
  <2> SUFFICES ASSUME pc' = "entry"
               PROVE  Near'
    BY DEF ActiveInv
  <2>1. /\ pc = "entry" /\ index' = index /\ total' = total
        /\ counted' = counted /\ Near
    BY <1>4, ChangesTouchNoScrape DEF ActiveInv
  <2>2. changes' = changes + 1
    BY <1>4, <2>1, ChangesCounted
  <2>3. /\ Len(counted) \in Nat /\ Len(table) \in Nat /\ total \in Nat
        /\ index \in Nat /\ changes \in Nat /\ Cardinality(Passed) \in Nat
    BY NearTypes DEF NumbersOK
  <2>4. (Len(table) \in Nat /\ Cardinality(Passed) \in Nat)'
    BY NextNearTypes DEF NumbersOK
  <2>5. /\ Cardinality(Passed) <= Cardinality(Passed') + 1
        /\ Cardinality(Passed') <= Cardinality(Passed) + 1
        /\ \/ /\ Len(table') = Len(table) + 1
              /\ index <= Len(table) =>
                    Cardinality(Passed') <= Cardinality(Passed)
           \/ /\ Len(table') = Len(table) - 1
              /\ index >= Len(table) =>
                    Cardinality(Passed') <= Cardinality(Passed)
           \/ Len(table') = Len(table)
    BY <1>4, ChangePasses
  <2> DEFINE n == Len(counted)
             l == Len(table)
             k == Len(table')
             p == Cardinality(Passed)
             q == Cardinality(Passed')
  <2>6. /\ n \in Nat /\ l \in Nat /\ k \in Nat /\ p \in Nat /\ q \in Nat
        /\ n <= p + changes /\ p + l <= n + total + changes
        /\ p + 2 * index <= n + total + changes + l
        /\ p <= q + 1 /\ q <= p + 1
        /\ \/ k = l + 1 /\ (index <= l => q <= p)
           \/ k = l - 1 /\ (index >= l => q <= p)
           \/ k = l
    BY <2>1, <2>3, <2>4, <2>5 DEF Near
  <2>7. n = Len(counted')
    BY <2>1
  <2> HIDE DEF n, l, k, p, q
  <2>8. n <= q + (changes + 1)
    BY <2>3, <2>6
  <2>9. q + k <= n + total + (changes + 1)
    BY <2>3, <2>6
  <2>10. q + 2 * index <= n + total + (changes + 1) + k
    BY <2>3, <2>6
  <2>11. /\ Len(counted') <= q + changes'
         /\ q + k <= Len(counted') + total' + changes'
         /\ q + 2 * index' <= Len(counted') + total' + changes' + k
    BY <2>1, <2>2, <2>7, <2>8, <2>9, <2>10
  <2> QED
    BY <2>11 DEF Near, q, k
<1>5. CASE SessionEnds \/ UNCHANGED vars
  <2>1. UNCHANGED <<pc, table, up, index, counted, changes, total>>
    BY <1>5 DEF SessionEnds, vars, history
  <2> QED
    BY <2>1 DEF ActiveInv, Near, Passed
<1> QED
  BY <1>1, <1>2, <1>3, <1>4, <1>5 DEF Next, Scrape, Changes

\* Only the last entry records hosts.active, or the count of an empty table.
LEMMA ActiveRecorded ==
    ASSUME TypeOK, ScrapeInv, [Next]_vars, RecordsActive
    PROVE  \/ Counted /\ Len(table) = 0 /\ "hosts_active" \in opted
           \/ Entry /\ index + 1 = total
<1>1. ~(Begin \/ NoEntry \/ Path \/ Fetched \/ Fails \/ SessionEnds
          \/ UNCHANGED vars)
  BY DEF RecordsActive, Begin, NoEntry, Path, Fetched, Fails, SessionEnds, vars
<1>2. ~(\E h \in Names : Changes(h))
  BY ChangesTouchNoScrape DEF RecordsActive
<1>3. CASE Counted
  <2>1. Len(table) \in Nat
    BY NearTypes DEF NumbersOK
  <2> QED
    BY <1>3, <2>1 DEF Counted, Loop, RecordsActive
<1>4. CASE Entry
  BY <1>4 DEF Entry, Loop, RecordsActive, ScrapeInv, TypeOK
<1> QED
  BY <1>1, <1>2, <1>3, <1>4 DEF Next, Scrape, Changes

\* hosts.active is at most as far from the truth as the table changed while
\* its hosts were counted.
THEOREM ActiveCorrect == Spec => ActiveNearTruth
<1>1. Init => ActiveInv
  BY DEF Init, ActiveInv
<1>2. TypeOK /\ TypeOK' /\ ScrapeInv /\ ActiveInv /\ [Next]_vars => ActiveInv'
  BY ActiveStep
<1>3. TypeOK /\ TypeOK' /\ ScrapeInv /\ ActiveInv /\ [Next]_vars
        => [RecordsActive =>
              LET n == Len(counted') IN
              /\ n <= Cardinality(up') + changes'
              /\ Cardinality(up') <= n + changes']_vars
  <2> SUFFICES ASSUME TypeOK, TypeOK', ScrapeInv, ActiveInv, [Next]_vars,
                      RecordsActive
               PROVE  /\ Len(counted') <= Cardinality(up') + changes'
                      /\ Cardinality(up') <= Len(counted') + changes'
    OBVIOUS
  <2>1. /\ Len(counted') \in Nat /\ Len(table') \in Nat /\ total' \in Nat
        /\ index' \in Nat /\ changes' \in Nat
        /\ Passed' \in SUBSET Names /\ Cardinality(Passed') \in Nat
        /\ up' \in SUBSET Names /\ Cardinality(up') \in Nat
    BY NextNearTypes DEF NumbersOK
  <2>2. CASE Counted /\ Len(table) = 0 /\ "hosts_active" \in opted
    <3>1. up' = {} /\ counted' = <<>>
      <4>1. table \in Seq(Names) /\ IsInjective(table) /\ up \subseteq Range(table)
        BY DEF TypeOK
      <4>2. Places(table, 0) = {} /\ (0 >= Len(table)
               => Places(table, 0) = Range(table))
        BY <4>1, PlacesOfTable, 0 \in Nat
      <4>3. up = {}
        BY <2>2, <4>1, <4>2
      <4> QED
        BY <2>2, <4>3, CountedPasses
    <3>2. Cardinality(up') = 0
      BY <3>1, FS_EmptySet
    <3>3. Len(counted') = 0
      BY <3>1, EmptySeq
    <3>4. ASSUME NEW a \in Nat, NEW c \in Nat, NEW d \in Nat, a = 0, c = 0
          PROVE  a <= c + d /\ c <= a + d
      BY <3>4
    <3> QED
      BY <2>1, <3>2, <3>3, <3>4
  <2>3. CASE Entry /\ index + 1 = total
    <3>1. /\ Near' /\ index' <= Len(table') /\ index' = index + 1
          /\ total' = total /\ Passed' \subseteq up'
      BY <2>3, EntryPasses DEF Entry
    <3>2. Cardinality(Passed') <= Cardinality(up')
      BY <2>1, <3>1, CardinalityBounds
    <3>3. Cardinality(up') <= Cardinality(Passed') + (Len(table') - index')
      <4> DEFINE B == Range(table') \ Places(table', index')
      <4>1. Cardinality(B) <= Len(table') - index'
        BY <2>1, <3>1, PlacesBeyond DEF TypeOK
      <4>2. Range(table') \subseteq Names
        BY RangeOfSeq DEF TypeOK
      <4>3. IsFiniteSet(B) /\ IsFiniteSet(Passed')
        BY <2>1, <4>2, NamesAssumption, FS_Subset
      <4>4. /\ IsFiniteSet(Passed' \cup B)
            /\ Cardinality(Passed' \cup B) = Cardinality(Passed')
                  + Cardinality(B) - Cardinality(Passed' \cap B)
        BY <4>3, FS_Union
      <4>5. /\ Cardinality(B) \in Nat /\ Cardinality(Passed' \cap B) \in Nat
            /\ Cardinality(Passed' \cup B) \in Nat
        BY <2>1, <4>2, CardinalityBounds
      <4>6. up' \subseteq Passed' \cup B
        BY DEF TypeOK, Passed
      <4>7. Cardinality(up') <= Cardinality(Passed' \cup B)
        BY <4>4, <4>6, FS_Subset
      <4> QED
        BY <2>1, <4>1, <4>4, <4>5, <4>7
    <3>4. /\ Len(counted') <= Cardinality(Passed') + changes'
          /\ Cardinality(Passed') + Len(table')
               <= Len(counted') + total' + changes'
      BY <3>1 DEF Near
    <3>5. index' = total'
      BY <2>3, <3>1
    <3>6. ASSUME NEW n \in Nat, NEW l \in Nat, NEW q \in Nat, NEW u \in Nat,
                 NEW m \in Nat, NEW c \in Nat, n <= q + c,
                 q + l <= n + m + c, q <= u, u <= q + (l - m)
          PROVE  n <= u + c /\ u <= n + c
      BY <3>6
    <3>7. index' \in Nat /\ changes' \in Nat
      BY <2>1
    <3> QED
      BY <2>1, <3>2, <3>3, <3>4, <3>5, <3>6, <3>7
  <2> QED
    BY <2>2, <2>3, ActiveRecorded
<1> QED
  BY <1>1, <1>2, <1>3, EnumerationCorrect, PTL DEF Spec, ActiveNearTruth

-----------------------------------------------------------------------------
(* The hosts active from the count on.                                      *)

\* Those that were passed and are not counted.
Missed == (steady \cap Places(table, index)) \ Range(counted)

\* All of them lie before the total; a host that leaves makes the reading
\* miss one at most, and while none leaves no host is met twice, for what was
\* counted stays where it was.
Whole ==
    /\ steady \subseteq Places(table, total)
    /\ Cardinality(Missed) <= leaves
    /\ leaves = 0 => /\ IsInjective(counted)
                     /\ Range(counted) \subseteq Places(table, index)

\* The inductive invariant behind SteadyHostsCounted.
SteadyInv == pc = "entry" => Whole

LEMMA SteadyTypes ==
    TypeOK => /\ table \in Seq(Names) /\ IsInjective(table)
              /\ Range(table) \subseteq Names /\ steady \subseteq Range(table)
              /\ Missed \in SUBSET Names /\ Cardinality(Missed) \in Nat
              /\ counted \in Seq(Names) /\ steady \subseteq up
              /\ total \in Nat /\ index \in Nat /\ leaves \in Nat
<1> SUFFICES ASSUME TypeOK
             PROVE  /\ Range(table) \subseteq Names
                    /\ steady \subseteq Range(table)
                    /\ Missed \in SUBSET Names /\ Cardinality(Missed) \in Nat
                    /\ total \in Nat /\ index \in Nat /\ leaves \in Nat
  BY DEF TypeOK
<1>1. Range(table) \subseteq Names
  BY RangeOfSeq DEF TypeOK
<1>2. steady \subseteq Range(table)
  BY DEF TypeOK
<1>3. Missed \in SUBSET Names
  BY <1>1, <1>2 DEF Missed
<1>4. Cardinality(Missed) \in Nat
  BY <1>3, CardinalityBounds
<1>5. total \in Nat /\ index \in Nat /\ leaves \in Nat
  BY NearTypes DEF NumbersOK
<1> QED
  BY <1>1, <1>2, <1>3, <1>4, <1>5

MissedOK == Missed \in SUBSET Names /\ Cardinality(Missed) \in Nat

LEMMA NextSteadyTypes == TypeOK' => MissedOK'
<1>1. TypeOK => MissedOK
  BY SteadyTypes DEF MissedOK
<1> QED
  BY <1>1, PTL

\* One change makes the reading miss one host at most, and only by leaving.
LEMMA ChangeMisses ==
    ASSUME TypeOK, TypeOK', NEW h \in Names, Changes(h), pc = "entry", Whole
    PROVE  Whole'
<1>1. /\ table \in Seq(Names) /\ IsInjective(table)
      /\ steady \subseteq Range(table) /\ steady \subseteq up
      /\ Missed \in SUBSET Names /\ Cardinality(Missed) \in Nat
      /\ total \in Nat /\ index \in Nat /\ leaves \in Nat
  BY SteadyTypes
<1>2. Missed' \in SUBSET Names /\ Cardinality(Missed') \in Nat
  BY NextSteadyTypes DEF MissedOK
<1>3. total' = total /\ index' = index /\ counted' = counted
  BY ChangesTouchNoScrape
<1>4. /\ steady \subseteq Places(table, total)
      /\ Cardinality(Missed) <= leaves
      /\ leaves = 0 => /\ IsInjective(counted)
                       /\ Range(counted) \subseteq Places(table, index)
  BY DEF Whole
<1>5. CASE Joins(h)
  <2>1. /\ table' = Append(table, h) /\ h \notin Range(table)
        /\ steady' = steady /\ leaves' = leaves
    BY <1>1, <1>5 DEF Joins, Remember
  <2>2. /\ Places(table, index) \subseteq Places(table', index)
        /\ Places(table', index) \subseteq Places(table, index) \cup {h}
        /\ Places(table, total) \subseteq Places(table', total)
    BY <1>1, <2>1, JoinPlaces
  <2>3. Missed' \subseteq Missed
    BY <1>1, <1>3, <2>1, <2>2 DEF Missed
  <2>4. Cardinality(Missed') <= Cardinality(Missed)
    BY <1>1, <1>2, <2>3, CardinalityBounds
  <2>5. Cardinality(Missed') <= leaves'
    BY <1>1, <1>2, <1>4, <2>1, <2>4
  <2>6. steady' \subseteq Places(table', total')
    BY <1>3, <1>4, <2>1, <2>2
  <2>7. leaves' = 0 => /\ IsInjective(counted')
                       /\ Range(counted') \subseteq Places(table', index')
    BY <1>3, <1>4, <2>1, <2>2
  <2> QED
    BY <2>5, <2>6, <2>7 DEF Whole
<1>6. CASE Leaves(h)
  <2>1. PICK k \in DOMAIN table : table[k] = h /\ table' = RemoveAt(table, k)
    BY <1>6 DEF Leaves
  <2>2. steady' = steady \ {h} /\ leaves' = leaves + 1
    BY <1>6 DEF Leaves, Remember
  <2>3. /\ index >= Len(table) =>
              Places(table', index) \subseteq Places(table, index)
        /\ index < Len(table) => Places(table', index)
              \subseteq Places(table, index) \cup {table[index + 1]}
        /\ Places(table, total) \ {h} \subseteq Places(table', total)
    BY <1>1, <2>1, LeavePlaces
  <2>4. Len(table) \in Nat
    BY <1>1, LenProperties
  <2>5. Places(table', index) \subseteq Places(table, index) \cup {table[index + 1]}
    BY <1>1, <2>3, <2>4
  <2>6. Missed' \subseteq Missed \cup {table[index + 1]}
    BY <1>3, <2>2, <2>5 DEF Missed
  <2>7. Cardinality(Missed') <= Cardinality(Missed) + 1
    BY <1>1, <1>2, <2>6, CardinalityBounds
  <2>8. Cardinality(Missed') <= leaves' /\ leaves' # 0
    BY <1>1, <1>2, <1>4, <2>2, <2>7
  <2>9. steady' \subseteq Places(table', total')
    BY <1>3, <1>4, <2>2, <2>3
  <2> QED
    BY <2>8, <2>9 DEF Whole
<1>7. CASE Wakes(h) \/ Sleeps(h)
  <2>1. table' = table /\ steady' \subseteq steady /\ leaves' = leaves
    BY <1>1, <1>7 DEF Wakes, Sleeps, Remember
  <2>2. Missed' \subseteq Missed
    BY <1>3, <2>1 DEF Missed
  <2>3. Cardinality(Missed') <= Cardinality(Missed)
    BY <1>1, <1>2, <2>2, CardinalityBounds
  <2>4. Cardinality(Missed') <= leaves'
    BY <1>1, <1>2, <1>4, <2>1, <2>3
  <2>5. steady' \subseteq Places(table', total')
    BY <1>3, <1>4, <2>1
  <2>6. leaves' = 0 => /\ IsInjective(counted')
                       /\ Range(counted') \subseteq Places(table', index')
    BY <1>3, <1>4, <2>1
  <2> QED
    BY <2>4, <2>5, <2>6 DEF Whole
<1> QED
  BY <1>5, <1>6, <1>7 DEF Changes

LEMMA AppendRange ==
    ASSUME NEW t \in Seq(Names), NEW h \in Names
    PROVE  Range(Append(t, h)) = Range(t) \cup {h}
<1> DEFINE r == Append(t, h)
<1>1. /\ r \in Seq(Names) /\ Len(r) = Len(t) + 1
      /\ \A j \in 1 .. Len(t) : r[j] = t[j]
      /\ r[Len(t) + 1] = h
  BY AppendProperties
<1>2. Len(t) \in Nat /\ DOMAIN t = 1 .. Len(t) /\ DOMAIN r = 1 .. Len(r)
  BY <1>1, LenProperties
<1> HIDE DEF r
<1>3. DOMAIN r = DOMAIN t \cup {Len(t) + 1}
  BY <1>1, <1>2
<1>4. Range(r) = Range(t) \cup {h}
  BY <1>1, <1>2, <1>3 DEF Range
<1> QED
  BY <1>4 DEF r

\* An entry that is read misses no host, and meets none again.
LEMMA EntryMisses ==
    ASSUME TypeOK, TypeOK', ScrapeInv, SteadyInv, Entry
    PROVE  Whole' /\ index' = index + 1 /\ total' = total
<1>1. /\ table \in Seq(Names) /\ IsInjective(table) /\ counted \in Seq(Names)
      /\ steady \subseteq up /\ total \in Nat /\ index \in Nat
      /\ Missed \in SUBSET Names /\ Cardinality(Missed) \in Nat
      /\ leaves \in Nat
  BY SteadyTypes
<1>2. Missed' \in SUBSET Names /\ Cardinality(Missed') \in Nat
  BY NextSteadyTypes DEF MissedOK
<1>3. index < Len(table) /\ Whole /\ Loop(index + 1, total, recorded)
  BY DEF SteadyInv, Entry
<1>4. /\ table' = table /\ total' = total /\ leaves' = leaves
      /\ steady' = steady /\ index' = index + 1
  BY <1>3 DEF Entry, device, history, Loop
<1>5. /\ steady \subseteq Places(table, total)
      /\ Cardinality(Missed) <= leaves
      /\ leaves = 0 => /\ IsInjective(counted)
                       /\ Range(counted) \subseteq Places(table, index)
  BY <1>3 DEF Whole
<1> DEFINE x == table[index + 1]
<1>6. /\ Places(table, index + 1) = Places(table, index) \cup {x}
      /\ x \notin Places(table, index)
  BY <1>1, <1>3, PlacesOfTable
<1>7. x \in Names
  BY <1>1, <1>3, LenProperties, ElementOfSeq
<1>8. counted' = IF x \in up THEN Append(counted, x) ELSE counted
  BY DEF Entry
<1> HIDE DEF x
<1>9. Range(counted') = IF x \in up THEN Range(counted) \cup {x}
                                    ELSE Range(counted)
  <2>1. CASE x \in up
    BY <1>1, <1>7, <1>8, <2>1, AppendRange
  <2>2. CASE x \notin up
    BY <1>8, <2>2
  <2> QED
    BY <2>1, <2>2
<1>10. Cardinality(Missed') <= leaves'
  <2>1. Missed' \subseteq Missed
    BY <1>1, <1>4, <1>6, <1>9 DEF Missed
  <2>2. Cardinality(Missed') <= Cardinality(Missed)
    BY <1>1, <1>2, <2>1, CardinalityBounds
  <2> QED
    BY <1>1, <1>2, <1>4, <1>5, <2>2
<1>11. ASSUME leaves' = 0
       PROVE  IsInjective(counted') /\ Range(counted') \subseteq Places(table', index')
  <2>1. /\ IsInjective(counted) /\ x \notin Range(counted)
        /\ Range(counted) \subseteq Places(table, index)
    BY <1>4, <1>5, <1>6, <1>11
  <2>2. IsInjective(Append(counted, x))
    BY <1>1, <1>7, <2>1, JoinPlaces, 0 \in Nat
  <2>3. IsInjective(counted')
    BY <1>8, <2>1, <2>2
  <2>4. Range(counted') \subseteq Places(table', index')
    BY <1>4, <1>6, <1>9, <2>1
  <2> QED
    BY <2>3, <2>4
<1> QED
  BY <1>4, <1>5, <1>10, <1>11 DEF Whole

\* The count begins with no host missed.
LEMMA CountedMisses ==
    ASSUME TypeOK, ScrapeInv, Counted, "hosts_active" \in opted
    PROVE  Whole'
<1>1. /\ table \in Seq(Names) /\ IsInjective(table) /\ up \subseteq Range(table)
      /\ Len(table) \in Nat
  BY LenProperties DEF TypeOK
<1>2. /\ total' = Len(table) /\ counted' = <<>> /\ steady' = up
      /\ table' = table /\ leaves' = 0 /\ index' = 0
  BY CountedPasses
<1>3. /\ Places(table, 0) = {}
      /\ Len(table) >= Len(table) => Places(table, Len(table)) = Range(table)
  BY <1>1, PlacesOfTable, 0 \in Nat
<1>4. steady' \subseteq Places(table', total')
  BY <1>1, <1>2, <1>3
<1>5. Cardinality(Missed') = 0
  <2>1. Missed' = {}
    BY <1>2, <1>3 DEF Missed
  <2> QED
    BY <2>1, FS_EmptySet
<1>6. IsInjective(counted') /\ Range(counted') = {}
  BY <1>2 DEF IsInjective, Range
<1> QED
  BY <1>2, <1>4, <1>5, <1>6 DEF Whole

LEMMA SteadyStep ==
    ASSUME TypeOK, TypeOK', ScrapeInv, SteadyInv, [Next]_vars
    PROVE  SteadyInv'
<1>1. CASE Begin \/ NoEntry \/ Path \/ Fetched \/ Fails
  <2>1. pc' # "entry"
    BY <1>1 DEF Begin, NoEntry, Path, Fetched, Fails, AfterHosts
  <2> QED
    BY <2>1 DEF SteadyInv
<1>2. CASE Counted
  <2>1. pc' = "entry" => "hosts_active" \in opted
    BY <1>2 DEF Counted, AfterHosts
  <2> QED
    BY <1>2, <2>1, CountedMisses DEF SteadyInv
<1>3. CASE Entry
  BY <1>3, EntryMisses DEF SteadyInv
<1>4. ASSUME NEW h \in Names, Changes(h)
      PROVE  SteadyInv'
  BY <1>4, ChangesTouchNoScrape, ChangeMisses DEF SteadyInv
<1>5. CASE SessionEnds \/ UNCHANGED vars
  <2>1. UNCHANGED <<pc, table, index, total, counted, leaves, steady>>
    BY <1>5 DEF SessionEnds, vars, history
  <2> QED
    BY <2>1 DEF SteadyInv, Whole, Missed
<1> QED
  BY <1>1, <1>2, <1>3, <1>4, <1>5 DEF Next, Scrape, Changes

\* A host active from the count on is in hosts.active, and once, but for one
\* host at most for each that left.
THEOREM SteadyCorrect == Spec => SteadyHostsCounted
<1>1. Init => SteadyInv
  BY DEF Init, SteadyInv
<1>2. TypeOK /\ TypeOK' /\ ScrapeInv /\ SteadyInv /\ [Next]_vars => SteadyInv'
  BY SteadyStep
<1>3. TypeOK /\ TypeOK' /\ ScrapeInv /\ SteadyInv /\ [Next]_vars
        => [RecordsActive =>
              /\ Cardinality(steady' \ Range(counted')) <= leaves'
              /\ leaves' = 0 => IsInjective(counted')]_vars
  <2> SUFFICES ASSUME TypeOK, TypeOK', ScrapeInv, SteadyInv, [Next]_vars,
                      RecordsActive
               PROVE  /\ Cardinality(steady' \ Range(counted')) <= leaves'
                      /\ leaves' = 0 => IsInjective(counted')
    OBVIOUS
  <2>1. CASE Counted /\ Len(table) = 0 /\ "hosts_active" \in opted
    <3>1. Whole' /\ index' = total'
      BY <2>1, CountedMisses, CountedPasses
    <3> QED
      BY <3>1 DEF Whole, Missed
  <2>2. CASE Entry /\ index + 1 = total
    <3>1. Whole' /\ index' = total'
      BY <2>2, EntryMisses
    <3> QED
      BY <3>1 DEF Whole, Missed
  <2> QED
    BY <2>1, <2>2, ActiveRecorded
<1> QED
  BY <1>1, <1>2, <1>3, EnumerationCorrect, PTL DEF Spec, SteadyHostsCounted

-----------------------------------------------------------------------------
(* hosts.info.                                                              *)

\* A fetch under way that nothing has disturbed is one of the device's session.
PathInv == pc = "fetch" /\ ~hit => path = sid

\* With hosts.info asked for, scrapeHosts is followed by scrapeHostInfo.
LEMMA HostsGoOn ==
    ASSUME "hosts_info" \in opted, Begin \/ Counted \/ Entry \/ NoEntry
    PROVE  pc' \in {"count", "entry", "path"}
BY DEF Begin, Counted, Entry, NoEntry, Loop, AfterHosts

LEMMA NextKeepsPath == PathInv /\ [Next]_vars => PathInv'
<1> SUFFICES ASSUME PathInv, [Next]_vars, pc' = "fetch", ~hit'
             PROVE  path' = sid'
    BY DEF PathInv
<1>1. CASE Path
  BY <1>1 DEF Path, device
<1>2. CASE SessionEnds
  BY <1>2 DEF SessionEnds
<1>3. CASE \E h \in Names : Changes(h)
  BY <1>3, ChangesTouchNoScrape DEF PathInv
<1>4. CASE Begin \/ Counted \/ Entry \/ NoEntry \/ Fetched \/ Fails
  BY <1>4
     DEF Begin, Counted, Entry, NoEntry, Fetched, Fails, Loop, AfterHosts
<1>5. CASE UNCHANGED vars
  BY <1>5 DEF vars, PathInv
<1> QED BY <1>1, <1>2, <1>3, <1>4, <1>5 DEF Next, Scrape, Changes

\* hosts.info is lost to its own scrape only: a failed call, a session that
\* ended before the fetch, or no host at all.
THEOREM HostInfoCorrect == Spec => HostInfoOnlyLostToItsScrape
<1>1. Init => PathInv
  BY DEF Init, PathInv
<1>2. PathInv /\ [Next]_vars
      => [pc # "idle" /\ pc' = "idle" /\ "hosts_info" \in opted \ recorded'
             => hit' \/ table = <<>>]_vars
  <2> SUFFICES ASSUME PathInv, Next, pc # "idle", pc' = "idle",
                      "hosts_info" \in opted, "hosts_info" \notin recorded'
               PROVE  hit' \/ table = <<>>
      OBVIOUS
  <2>1. CASE Begin \/ Counted \/ Entry \/ NoEntry
    BY <2>1, HostsGoOn
  <2>2. CASE Path \/ SessionEnds
    BY <2>2 DEF Path, SessionEnds
  <2>3. CASE Fetched
    BY <2>3 DEF Fetched, PathInv
  <2>4. CASE Fails
    BY <2>4 DEF Fails, AfterHosts
  <2>5. CASE \E h \in Names : Changes(h)
    BY <2>5, ChangesTouchNoScrape
  <2> QED BY <2>1, <2>2, <2>3, <2>4, <2>5 DEF Next, Scrape, Changes
<1> QED BY <1>1, <1>2, NextKeepsPath, PTL
        DEF Spec, HostInfoOnlyLostToItsScrape
=============================================================================
