----------------------------- MODULE Admin_proofs ---------------------------
(* Proofs about AdminSystem.tla: the page of the log, the rows of keys and   *)
(* the tables of the pages of users and keys.                                *)
EXTENDS AdminSystem, Sessions_proofs, FiniteSetTheorems, SequenceTheorems, WellFoundedInduction, TLAPS

(* Types of the log, of its file and of its page; the lines of goroutines    *)
(* are not those of deletions.                                               *)
Polls == [pc : {"waiting", "sent", "read", "answered", "status"}, since : 0..lastSecond,
          entries : Seq(Entries), seen : SUBSET Entries, timestamp : 0..lastSecond]
LogTypes ==
    /\ clock \in 1..lastSecond /\ modified \in 1..clock /\ lastLogUpdate \in 0..clock
    /\ log \in Seq(Entries) /\ logContent \in Seq(Entries)
    /\ writers \subseteq [line : Lines, ts : 0..clock]
    /\ poll \in Polls
    /\ deletion \in [state : {"none", "sent", "done", "lost"}, cutoff : 0..lastSecond]
    /\ late \in BOOLEAN /\ overlooked \subseteq Entries

Sorted(s) == \A i, j \in DOMAIN s : i < j => s[i].ts <= s[j].ts
Polling == poll.pc \in {"sent", "read", "answered"}

(* Stamps of lines against those of the file, of the page and of its poll *)
Stamps ==
    /\ \A i \in DOMAIN log : log[i].ts <= modified
    /\ Polling => poll.since = lastLogUpdate
    /\ deletion.state = "sent" => deletion.cutoff < clock /\ \A i \in DOMAIN log : log[i].line # Deletion
    /\ lastLogUpdate # 0 => \A i \in DOMAIN logContent : logContent[i].ts <= lastLogUpdate
    /\ poll.timestamp <= clock /\ (poll.pc = "answered" => lastLogUpdate <= poll.timestamp)
    /\ poll.pc = "read" => \A i \in DOMAIN poll.entries : poll.entries[i].ts <= clock
    /\ poll.pc = "answered" => \A i \in DOMAIN poll.entries : poll.entries[i].ts <= poll.timestamp
    /\ poll.pc \in {"read", "answered"} => \A i \in DOMAIN poll.entries : poll.since <= poll.entries[i].ts

(* What the poll under way brings, or the page has, or need not have *)
Excepted(e) == e \in overlooked \/ (e.line = Deletion /\ deletion.state \in {"done", "lost"})
Brought(e) ==
    e \in Range(poll.entries) \/ (poll.since # 0 /\ e \in Range(logContent)) \/ Excepted(e)
Complete ==
    ~late =>
        /\ Sorted(log) /\ Sorted(logContent)
        /\ poll.pc \in {"read", "answered"} => Sorted(poll.entries)
        /\ \A e \in Range(log) : e.ts < lastLogUpdate => e \in Range(logContent) \/ Excepted(e)
        /\ poll.pc = "read" => \A e \in poll.seen : Brought(e)
        /\ poll.pc = "answered" => \A e \in Range(log) : e.ts < poll.timestamp => Brought(e)

TextShown == textarea # Failed => textarea = filterLogs(logContent, logFilter)
LogInv == LogTypes /\ Stamps /\ Complete /\ TextShown

-----------------------------------------------------------------------------
(* Sequences of lines *)
LEMMA Elements ==
  ASSUME NEW s \in Seq(Entries)
  PROVE  /\ Len(s) \in Nat /\ DOMAIN s = 1..Len(s)
         /\ \A i \in DOMAIN s : s[i] \in Entries /\ s[i].ts \in 0..lastSecond /\ s[i].line \in AllLines
         /\ Range(s) \subseteq Entries
<1>1. Len(s) \in Nat /\ DOMAIN s = 1..Len(s)
  BY LenProperties
<1>2. \A i \in DOMAIN s : s[i] \in Entries
  BY <1>1, ElementOfSeq
<1>3. \A e \in Entries : e.ts \in 0..lastSecond /\ e.line \in AllLines
  BY DEF Entries
<1> QED BY <1>1, <1>2, <1>3 DEF Range

LEMMA Appended ==
  ASSUME NEW s \in Seq(Entries), NEW e \in Entries
  PROVE  /\ Append(s, e) \in Seq(Entries)
         /\ DOMAIN Append(s, e) = 1..Len(s) + 1
         /\ \A i \in DOMAIN s : Append(s, e)[i] = s[i]
         /\ Append(s, e)[Len(s) + 1] = e
         /\ Range(Append(s, e)) = Range(s) \cup {e}
<1>1. /\ Append(s, e) \in Seq(Entries) /\ Len(Append(s, e)) = Len(s) + 1
      /\ \A i \in 1..Len(s) : Append(s, e)[i] = s[i]
      /\ Append(s, e)[Len(s) + 1] = e
  BY AppendProperties
<1>2. DOMAIN Append(s, e) = 1..Len(s) + 1 /\ DOMAIN s = 1..Len(s) /\ Len(s) \in Nat
  BY <1>1, LenProperties
<1> QED BY <1>1, <1>2 DEF Range

LEMMA Concatenated ==
  ASSUME NEW s \in Seq(Entries), NEW t \in Seq(Entries)
  PROVE  /\ s \o t \in Seq(Entries)
         /\ DOMAIN (s \o t) = 1..Len(s) + Len(t)
         /\ \A i \in DOMAIN s : (s \o t)[i] = s[i]
         /\ \A i \in DOMAIN t : (s \o t)[Len(s) + i] = t[i]
         /\ \A i \in DOMAIN (s \o t) : i \in DOMAIN s \/ (i - Len(s) \in DOMAIN t /\ (s \o t)[i] = t[i - Len(s)])
         /\ Range(s \o t) = Range(s) \cup Range(t)
<1>1. /\ s \o t \in Seq(Entries) /\ Len(s \o t) = Len(s) + Len(t)
      /\ \A i \in 1 .. Len(s) + Len(t) : (s \o t)[i] = IF i <= Len(s) THEN s[i] ELSE t[i - Len(s)]
  BY ConcatProperties
<1>2. /\ DOMAIN (s \o t) = 1..Len(s) + Len(t) /\ DOMAIN s = 1..Len(s) /\ DOMAIN t = 1..Len(t)
      /\ Len(s) \in Nat /\ Len(t) \in Nat
  BY <1>1, LenProperties
<1>3. \A i \in DOMAIN s : (s \o t)[i] = s[i]
  BY <1>1, <1>2
<1>4. \A i \in DOMAIN t : (s \o t)[Len(s) + i] = t[i]
  BY <1>1, <1>2
<1>5. \A i \in DOMAIN (s \o t) : i \in DOMAIN s \/ (i - Len(s) \in DOMAIN t /\ (s \o t)[i] = t[i - Len(s)])
  BY <1>1, <1>2
<1>6. \A i \in DOMAIN t : Len(s) + i \in DOMAIN (s \o t)
  BY <1>2
<1>7. \A i \in DOMAIN s : i \in DOMAIN (s \o t)
  BY <1>2
<1> QED BY <1>1, <1>2, <1>3, <1>4, <1>5, <1>6, <1>7 DEF Range

LEMMA SortedConcat ==
  ASSUME NEW s \in Seq(Entries), NEW t \in Seq(Entries), Sorted(s), Sorted(t),
         \A i \in DOMAIN s, j \in DOMAIN t : s[i].ts <= t[j].ts
  PROVE  Sorted(s \o t)
<1> SUFFICES ASSUME NEW i \in DOMAIN (s \o t), NEW j \in DOMAIN (s \o t), i < j
             PROVE  (s \o t)[i].ts <= (s \o t)[j].ts
  BY DEF Sorted
<1>1. i \in Nat /\ j \in Nat /\ Len(s) \in Nat /\ DOMAIN s = 1..Len(s)
  BY Concatenated, Elements
<1>2. CASE i \in DOMAIN s /\ j \in DOMAIN s
  BY <1>2, Concatenated DEF Sorted
<1>3. CASE i \in DOMAIN s /\ j \notin DOMAIN s
  BY <1>3, Concatenated
<1>4. CASE i \notin DOMAIN s
  <2>1. i > Len(s) /\ j > Len(s)
    BY <1>1, <1>4, Concatenated
  <2>2. j \notin DOMAIN s
    BY <1>1, <2>1
  <2>3. /\ i - Len(s) \in DOMAIN t /\ j - Len(s) \in DOMAIN t /\ i - Len(s) < j - Len(s)
        /\ (s \o t)[i] = t[i - Len(s)] /\ (s \o t)[j] = t[j - Len(s)]
    BY <1>1, <1>4, <2>2, Concatenated
  <2> QED BY <2>3 DEF Sorted
<1> QED BY <1>2, <1>3, <1>4

LEMMA SortedAppend ==
  ASSUME NEW s \in Seq(Entries), NEW e \in Entries, Sorted(s), \A i \in DOMAIN s : s[i].ts <= e.ts
  PROVE  Sorted(Append(s, e))
<1>1. DOMAIN s = 1..Len(s) /\ Len(s) \in Nat
  BY Elements
<1> QED BY <1>1, Appended DEF Sorted

LEMMA LastOf ==
  ASSUME NEW n \in Nat, NEW S \in SUBSET (1..n), S # {}
  PROVE  \E m \in S : \A i \in S : i <= m
<1> DEFINE T == {k \in Nat : n - k \in S}
           R == {ss \in Nat \X Nat : ss[1] < ss[2]}
<1>1. PICK i \in S : TRUE
  OBVIOUS
<1>2. i \in 1..n /\ n - i \in Nat /\ n - (n - i) = i
  OBVIOUS
<1>3. n - i \in T
  BY <1>1, <1>2
<1>4. IsWellFoundedOn(R, Nat)
  BY NatLessThanWellFounded DEF OpToRel
<1>5. T \subseteq Nat /\ T # {}
  BY <1>3
<1> HIDE DEF T
<1>6. PICK k \in T : \A l \in T : <<l, k>> \notin R
  BY <1>4, <1>5, WFMin
<1> USE DEF T
<1>7. \A l \in T : k <= l
  <2> SUFFICES ASSUME NEW l \in T, l < k PROVE FALSE
    BY <1>5, <1>6
  <2>1. <<l, k>> \in Nat \X Nat /\ <<l, k>>[1] = l /\ <<l, k>>[2] = k
    BY <1>5, <1>6
  <2>2. <<l, k>> \in R
    BY <2>1
  <2> QED BY <1>6, <2>2
<1>8. n - k \in S
  BY <1>6
<1>9. ASSUME NEW j \in S PROVE j <= n - k
  <2>1. j \in 1..n /\ n - j \in Nat /\ n - (n - j) = j
    OBVIOUS
  <2>2. n - j \in T
    BY <2>1
  <2>3. k <= n - j /\ k \in Nat
    BY <1>6, <1>7, <2>2
  <2> QED BY <2>1, <2>3
<1> QED BY <1>8, <1>9

(* The places of a sequence have an increasing enumeration.                  *)
Increases(f) == \A i, j \in DOMAIN f : i < j => f[i] < f[j]

LEMMA Enumerated ==
  ASSUME NEW n \in Nat, NEW S \in SUBSET (1..n)
  PROVE  Cardinality(S) \in Nat /\ \E f \in [1..Cardinality(S) -> S] : Increases(f)
<1> DEFINE Fine(m) == \A U \in SUBSET (1..m) :
                         Cardinality(U) \in Nat /\ \E f \in [1..Cardinality(U) -> U] : Increases(f)
           B == {m \in Nat : ~Fine(m)}
           R == {ss \in Nat \X Nat : ss[1] < ss[2]}
<1>1. IsWellFoundedOn(R, Nat)
  BY NatLessThanWellFounded DEF OpToRel
<1>2. B = {}
  <2> SUFFICES ASSUME B # {} PROVE FALSE
    OBVIOUS
  <2> HIDE DEF Fine
  <2>1. B \subseteq Nat /\ B # {}
    OBVIOUS
  <2> HIDE DEF B
  <2>2. PICK m \in B : \A l \in B : <<l, m>> \notin R
    BY <1>1, <2>1, WFMin
  <2> USE DEF B
  <2>3. m \in Nat /\ ~Fine(m)
    BY <2>2
  <2> SUFFICES Fine(m)
    BY <2>3
  <2>4. m = 0 \/ (m - 1 \in Nat /\ Fine(m - 1))
    <3>1. ASSUME m # 0 PROVE m - 1 \in Nat /\ <<m - 1, m>> \in R
      BY <2>3, <3>1
    <3> QED BY <2>2, <3>1
  <2> USE DEF Fine
  <2>5. ASSUME NEW U \in SUBSET (1..m)
        PROVE  Cardinality(U) \in Nat /\ \E f \in [1..Cardinality(U) -> U] : Increases(f)
    <3>1. CASE m = 0
      <4>3. U = {}
        BY <3>1
      <4>1. Cardinality(U) = 0 /\ U = {} /\ 1..0 = {}
        BY <4>3, FS_EmptySet
      <4>4. [i \in {} |-> 0] \in [{} -> {}]
        OBVIOUS
      <4>5. [i \in {} |-> 0] \in [1..Cardinality(U) -> U]
        BY <4>1, <4>4
      <4>6. Increases([i \in {} |-> 0])
        BY DEF Increases
      <4>2. \E f \in [1..Cardinality(U) -> U] : Increases(f)
        BY <4>5, <4>6
      <4>7. Cardinality(U) \in Nat
        BY <4>1
      <4> QED BY <4>2, <4>7
    <3>2. CASE m # 0 /\ m \notin U
      <4>1. U \in SUBSET (1..m - 1)
        BY <2>3, <3>2
      <4> QED BY <2>4, <3>2, <4>1
    <3>3. CASE m # 0 /\ m \in U
      <4> DEFINE V == U \ {m}
      <4>1. V \in SUBSET (1..m - 1)
        BY <2>3, <3>3
      <4>2. PICK g \in [1..Cardinality(V) -> V] : Increases(g)
        BY <2>4, <3>3, <4>1
      <4>3. Cardinality(V) \in Nat
        BY <2>4, <3>3, <4>1
      <4>4. IsFiniteSet(V)
        <5>1. IsFiniteSet(1..m)
          BY <2>3, FS_Interval
        <5> QED BY <5>1, FS_Subset
      <4>5. V \cup {m} = U /\ m \notin V
        BY <3>3
      <4>6. Cardinality(U) = Cardinality(V) + 1
        BY <4>4, <4>5, FS_AddElement
      <4> DEFINE k == Cardinality(V)
                 f == [i \in 1..k + 1 |-> IF i = k + 1 THEN m ELSE g[i]]
      <4>7. k \in Nat /\ g \in [1..k -> V] /\ Increases(g) /\ Cardinality(U) = k + 1
        BY <4>2, <4>3, <4>6
      <4> HIDE DEF k, V
      <4>8. \A i \in 1..k : g[i] \in V /\ g[i] < m
        <5>1. \A i \in 1..k : g[i] \in V
          BY <4>7
        <5>2. \A x \in V : x < m
          BY <2>3, <4>1
        <5> QED BY <5>1, <5>2
      <4>9. \A i \in 1..k + 1 : i = k + 1 \/ i \in 1..k
        BY <4>7
      <4>10. \A i \in 1..k + 1 : f[i] \in U
        BY <4>5, <4>8, <4>9
      <4>11. f \in [1..k + 1 -> U]
        BY <4>10
      <4>12. Increases(f)
        <5> SUFFICES ASSUME NEW i \in 1..k + 1, NEW j \in 1..k + 1, i < j PROVE f[i] < f[j]
          BY DEF Increases
        <5>1. i \in 1..k /\ f[i] = g[i]
          BY <4>7
        <5>2. CASE j = k + 1
          BY <4>8, <5>1, <5>2
        <5>3. CASE j # k + 1
          <6>1. j \in 1..k /\ f[j] = g[j]
            BY <4>7, <5>3
          <6> QED BY <4>7, <5>1, <6>1 DEF Increases
        <5> QED BY <5>2, <5>3
      <4> HIDE DEF f
      <4>13. f \in [1..Cardinality(U) -> U] /\ Cardinality(U) \in Nat
        BY <4>7, <4>11
      <4> QED BY <4>12, <4>13
    <3> QED BY <3>1, <3>2, <3>3
  <2> QED BY <2>5
<1>3. n \notin B
  BY <1>2
<1> HIDE DEF Fine
<1>4. Fine(n)
  BY <1>3
<1> QED BY <1>4 DEF Fine

(* Only keeps lines of the sequence, in their order. *)
LEMMA OnlyKeeps ==
  ASSUME NEW s \in Seq(Entries), NEW S
  PROVE  /\ Only(s, S) \in Seq(Entries)
         /\ \A i \in DOMAIN Only(s, S) : Only(s, S)[i] \in Range(s) \cap S
         /\ Sorted(s) => Sorted(Only(s, S))
<1> DEFINE places == {i \in DOMAIN s : s[i] \in S}
           n == Cardinality(places)
           place == CHOOSE f \in [1..n -> places] : \A i, j \in DOMAIN f : i < j => f[i] < f[j]
<1>1. n \in Nat /\ \E f \in [1..n -> places] : \A i, j \in DOMAIN f : i < j => f[i] < f[j]
  <2>1. Len(s) \in Nat /\ places \in SUBSET (1..Len(s))
    BY Elements
  <2> HIDE DEF places
  <2> QED BY <2>1, Enumerated DEF Increases
<1>2. place \in [1..n -> places] /\ \A i, j \in DOMAIN place : i < j => place[i] < place[j]
  BY <1>1
<1>3. Only(s, S) = [i \in 1..n |-> s[place[i]]]
  BY DEF Only
<1> HIDE DEF n, place
<1>4. \A i \in 1..n : place[i] \in DOMAIN s /\ s[place[i]] \in S /\ s[place[i]] \in Entries
  BY <1>2, Elements
<1>5. Only(s, S) \in Seq(Entries) /\ DOMAIN Only(s, S) = 1..n /\ \A i \in 1..n : Only(s, S)[i] = s[place[i]]
  BY <1>1, <1>3, <1>4
<1>6. ASSUME Sorted(s), NEW i \in 1..n, NEW j \in 1..n, i < j
      PROVE  Only(s, S)[i].ts <= Only(s, S)[j].ts
  BY <1>2, <1>4, <1>5, <1>6 DEF Sorted
<1> QED BY <1>4, <1>5, <1>6 DEF Range, Sorted

(* GetSince returns the end of the file, up to where a line is older. *)
LEMMA GetSinceReturns ==
  ASSUME log \in Seq(Entries), NEW since \in Nat, modified \in Nat,
         \A i \in DOMAIN log : log[i].ts <= modified
  PROVE  /\ GetSince(since) \in Seq(Entries)
         /\ \A i \in DOMAIN GetSince(since) :
               since <= GetSince(since)[i].ts /\ GetSince(since)[i] \in Range(log)
         /\ Sorted(log) => Sorted(GetSince(since))
         /\ Sorted(log) => \A e \in Range(log) : e.ts >= since => e \in Range(GetSince(since))
<1> DEFINE old == {i \in DOMAIN log : log[i].ts < since}
           last == CHOOSE i \in old : \A j \in old : j <= i
           first == IF old = {} THEN 1 ELSE 1 + last
<1>1. DOMAIN log = 1..Len(log) /\ Len(log) \in Nat /\ \A i \in DOMAIN log : log[i] \in Entries /\ log[i].ts \in Nat
  BY Elements
<1>2. ASSUME old # {} PROVE last \in old /\ \A j \in old : j <= last
  <2>1. old \in SUBSET (1..Len(log))
    BY <1>1
  <2>2. \E i \in old : \A j \in old : j <= i
    BY <1>1, <1>2, <2>1, LastOf
  <2> QED BY <2>2
<1>3. first \in 1..Len(log) + 1 /\ \A i \in DOMAIN log : i >= first => log[i].ts >= since
  <2>1. CASE old = {}
    BY <1>1, <2>1
  <2>2. CASE old # {}
    <3>1. last \in old /\ \A j \in old : j <= last
      BY <1>2, <2>2
    <3> HIDE DEF last
    <3>2. first = 1 + last /\ last \in 1..Len(log)
      BY <1>1, <2>2, <3>1
    <3>3. ASSUME NEW i \in DOMAIN log, i >= first PROVE log[i].ts >= since
      <4>1. i \notin old
        BY <1>1, <3>1, <3>2, <3>3
      <4> QED BY <1>1, <4>1
    <3> QED BY <1>1, <3>2, <3>3
  <2> QED BY <2>1, <2>2
<1>4. ASSUME Sorted(log) PROVE \A i \in DOMAIN log : log[i].ts >= since => i >= first
  <2> HIDE DEF first
  <2> SUFFICES ASSUME NEW i \in DOMAIN log, log[i].ts >= since, i < first PROVE FALSE
    BY <1>1, <1>3
  <2> USE DEF first
  <2>1. old # {}
    BY <1>1
  <2>2. last \in DOMAIN log /\ log[last].ts < since /\ i <= last /\ i # last
    BY <1>1, <1>2, <2>1
  <2> QED BY <1>1, <1>4, <2>2 DEF Sorted
<1>5. CASE modified < since
  <2>1. GetSince(since) = <<>>
    BY <1>5 DEF GetSince
  <2>2. \A e \in Range(log) : e.ts < since
    BY <1>1, <1>5 DEF Range
  <2>3. \A e \in Range(log) : e.ts \in Nat
    BY <1>1 DEF Range
  <2>4. <<>> \in Seq(Entries) /\ DOMAIN <<>> = {}
    OBVIOUS
  <2> QED BY <2>1, <2>2, <2>3, <2>4 DEF Sorted, Range
<1>6. CASE ~(modified < since)
  <2> DEFINE s == SubSeq(log, first, Len(log))
  <2>1. GetSince(since) = s
    BY <1>6 DEF GetSince
  <2> HIDE DEF first
  <2>2. /\ s \in Seq(Entries)
        /\ Len(s) = Len(log) - first + 1
        /\ \A i \in 1 .. Len(log) - first + 1 : s[i] = log[first + i - 1]
    <3>1. first \in 1..Len(log)+1 /\ Len(log) \in 0..Len(log)
      BY <1>1, <1>3
    <3>2. /\ s \in Seq(Entries)
          /\ Len(s) = IF first <= Len(log) THEN Len(log) - first + 1 ELSE 0
          /\ \A i \in 1 .. Len(log) - first + 1 : s[i] = log[first + i - 1]
      BY <3>1, SubSeqProperties
    <3> QED BY <1>1, <3>1, <3>2
  <2>3. DOMAIN s = 1..Len(log) - first + 1
    BY <2>2, LenProperties
  <2> HIDE DEF s
  <2>8. first \in Nat \ {0} /\ Len(log) \in Nat /\ DOMAIN log = 1..Len(log)
    BY <1>1, <1>3
  <2>4. ASSUME NEW i \in DOMAIN s
        PROVE  first + i - 1 \in DOMAIN log /\ first + i - 1 >= first /\ s[i] = log[first + i - 1]
    <3>1. i \in 1..Len(log) - first + 1
      BY <2>3
    <3>2. first + i - 1 \in 1..Len(log) /\ first + i - 1 >= first
      BY <2>8, <3>1
    <3> QED BY <2>2, <2>8, <3>1, <3>2
  <2>5. \A i \in DOMAIN s : since <= s[i].ts /\ s[i] \in Range(log)
    BY <1>3, <2>4 DEF Range
  <2>6. ASSUME Sorted(log), NEW i \in DOMAIN s, NEW j \in DOMAIN s, i < j PROVE s[i].ts <= s[j].ts
    <3>1. first + i - 1 < first + j - 1
      BY <1>1, <1>3, <2>3, <2>6
    <3>2. log[first + i - 1].ts <= log[first + j - 1].ts
      BY <2>4, <2>6, <3>1 DEF Sorted
    <3> QED BY <2>4, <3>2
  <2>7. ASSUME Sorted(log), NEW e \in Range(log), e.ts >= since PROVE e \in Range(s)
    <3>1. PICK i \in DOMAIN log : e = log[i]
      BY DEF Range
    <3>2. i >= first
      BY <1>4, <2>7, <3>1
    <3>3. i - first + 1 \in DOMAIN s /\ first + (i - first + 1) - 1 = i
      BY <1>1, <1>3, <2>3, <3>2
    <3> QED BY <2>4, <3>1, <3>3 DEF Range
  <2> QED BY <2>1, <2>2, <2>5, <2>6, <2>7 DEF Sorted
<1> QED BY <1>5, <1>6

-----------------------------------------------------------------------------
(* Every step of the log, of its file and of its page *)
LEMMA LogBegins == LogInit => LogInv
<1> SUFFICES ASSUME LogInit PROVE LogInv
  OBVIOUS
<1>1. <<>> \in Seq(Entries) /\ DOMAIN <<>> = {} /\ {} \subseteq Entries
  OBVIOUS
<1>2. LogTypes
  <2>1. 1 \in 1..lastSecond /\ 0 \in 0..lastSecond
    BY LogAssumption
  <2>2. poll \in Polls
    BY <1>1, <2>1 DEF LogInit, Polls, NoPoll
  <2>3. deletion \in [state : {"none", "sent", "done", "lost"}, cutoff : 0..lastSecond]
    BY <2>1 DEF LogInit, NoDeletion
  <2>4. late \in BOOLEAN
    BY DEF LogInit
  <2>5. clock \in 1..lastSecond /\ modified \in 1..clock /\ lastLogUpdate \in 0..clock
    BY <2>1 DEF LogInit
  <2> QED BY <1>1, <2>2, <2>3, <2>4, <2>5 DEF LogInit, LogTypes
<1>3. Stamps
  BY <1>1 DEF LogInit, Stamps, Polling, NoPoll, NoDeletion
<1>4. Complete
  BY <1>1 DEF LogInit, Complete, Sorted, NoPoll, Range
<1>5. TextShown
  BY DEF LogInit, TextShown, filterLogs
<1> QED BY <1>2, <1>3, <1>4, <1>5 DEF LogInv

(* What is true of every line *)
LEMMA Facts ==
  ASSUME LogInv
  PROVE  /\ clock \in Nat /\ clock <= lastSecond /\ modified \in Nat /\ modified <= clock
         /\ lastSecond \in Nat /\ lastLogUpdate \in Nat /\ lastLogUpdate <= clock
         /\ log \in Seq(Entries) /\ logContent \in Seq(Entries) /\ poll.entries \in Seq(Entries)
         /\ \A i \in DOMAIN log : log[i] \in Entries /\ log[i].ts \in Nat /\ log[i].ts <= modified
         /\ \A e \in Range(log) : e \in Entries /\ e.ts \in Nat /\ e.ts <= clock
         /\ \A i \in DOMAIN logContent : logContent[i] \in Entries /\ logContent[i].ts \in Nat
         /\ \A i \in DOMAIN poll.entries : poll.entries[i] \in Entries /\ poll.entries[i].ts \in Nat
         /\ \A e \in writers : e \in Entries /\ e.ts \in Nat /\ e.ts <= clock /\ e.line # Deletion
         /\ poll.since \in Nat /\ poll.timestamp \in Nat /\ poll.timestamp <= clock
<1>1. /\ clock \in Nat /\ clock <= lastSecond /\ modified \in Nat /\ modified <= clock
      /\ lastSecond \in Nat /\ lastLogUpdate \in Nat /\ lastLogUpdate <= clock
      /\ log \in Seq(Entries) /\ logContent \in Seq(Entries) /\ poll.entries \in Seq(Entries)
      /\ poll.since \in Nat /\ poll.timestamp \in Nat /\ poll.timestamp <= clock
  BY LogAssumption DEF LogInv, LogTypes, Polls, Stamps
<1>2. \A i \in DOMAIN log : log[i] \in Entries /\ log[i].ts \in Nat /\ log[i].ts <= modified
  BY <1>1, Elements DEF LogInv, Stamps
<1>3. \A e \in Range(log) : e \in Entries /\ e.ts \in Nat /\ e.ts <= clock
  BY <1>1, <1>2 DEF Range
<1>4. /\ \A i \in DOMAIN logContent : logContent[i] \in Entries /\ logContent[i].ts \in Nat
      /\ \A i \in DOMAIN poll.entries : poll.entries[i] \in Entries /\ poll.entries[i].ts \in Nat
  BY <1>1, Elements
<1>5. ASSUME NEW e \in writers PROVE e \in Entries /\ e.ts \in Nat /\ e.ts <= clock /\ e.line # Deletion
  <2>1. e \in [line : Lines, ts : 0..clock]
    BY DEF LogInv, LogTypes
  <2>2. 0..clock \subseteq 0..lastSecond /\ Lines \subseteq AllLines
    BY <1>1 DEF AllLines
  <2> QED BY <1>1, <2>1, <2>2, LogAssumption DEF Entries
<1> QED BY <1>1, <1>2, <1>3, <1>4, <1>5

LEMMA WriteKept ==
  ASSUME LogInv, NEW e \in writers, writeToFile(e)
  PROVE  LogInv'
<1>1. /\ e \in Entries /\ e.ts \in Nat /\ e.ts <= clock /\ e.line # Deletion
      /\ log' = Append(log, e) /\ modified' = clock /\ clock' = clock
      /\ late' = (late \/ e.ts < clock) /\ writers' = writers \ {e}
      /\ UNCHANGED <<poll, polls, lastLogUpdate, logContent, logFilter, textarea, deletion, events, overlooked>>
  BY Facts DEF writeToFile
<1>2. /\ log' \in Seq(Entries)
      /\ DOMAIN log' = 1..Len(log) + 1
      /\ \A i \in DOMAIN log : log'[i] = log[i]
      /\ log'[Len(log) + 1] = e
      /\ Range(log') = Range(log) \cup {e}
      /\ DOMAIN log = 1..Len(log) /\ Len(log) \in Nat
  BY <1>1, Facts, Appended, Elements
<1>3. LogTypes'
  BY <1>1, <1>2, Facts DEF LogInv, LogTypes
<1>4. \A i \in DOMAIN log' : log'[i].ts <= clock /\ (log'[i].line = Deletion => \E j \in DOMAIN log : log[j].line = Deletion)
  BY <1>1, <1>2, Facts
<1>5. Stamps'
  BY <1>1, <1>4, Facts DEF LogInv, Stamps, Polling
<1>7. ASSUME ~late' PROVE ~late /\ e.ts = clock
  <2>1. ~late /\ ~(e.ts < clock)
    BY <1>1, <1>7, Zenon
  <2> QED BY <1>1, <2>1, Facts
<1>6. ASSUME ~late' PROVE Sorted(log)'
  <2>1. Sorted(log) /\ e.ts = clock
    BY <1>6, <1>7 DEF LogInv, Complete
  <2>2. \A i \in DOMAIN log : log[i].ts <= e.ts
    BY <2>1, Facts
  <2> QED BY <1>1, <2>1, <2>2, SortedAppend, Facts
<1>8. Complete'
  BY <1>1, <1>2, <1>6, <1>7, Facts DEF LogInv, Complete, Excepted, Brought
<1>9. TextShown'
  BY <1>1 DEF LogInv, TextShown
<1> QED BY <1>3, <1>5, <1>8, <1>9 DEF LogInv

LEMMA CreateKept ==
  ASSUME LogInv, NEW l \in Lines, createLogEntry(l)
  PROVE  LogInv'
<1>1. Entry(l, clock) \in [line : Lines, ts : 0..clock]
  BY Facts DEF Entry
<1>2. LogTypes'
  BY <1>1 DEF createLogEntry, LogInv, LogTypes
<1>3. Stamps' /\ Complete' /\ TextShown'
  BY DEF createLogEntry, LogInv, Stamps, Polling, Complete, Excepted, Brought, TextShown
<1> QED BY <1>2, <1>3 DEF LogInv

LEMMA TickKept ==
  ASSUME LogInv, Tick
  PROVE  LogInv'
<1>1. clock' = clock + 1 /\ clock' <= lastSecond
  BY Facts, LogAssumption DEF Tick, LogInv, LogTypes
<1>2. LogTypes'
  <2>1. writers' \subseteq [line : Lines, ts : 0..clock']
    BY <1>1, Facts DEF Tick, LogInv, LogTypes
  <2> QED BY <1>1, <2>1, Facts DEF Tick, LogInv, LogTypes
<1>3. Stamps'
  BY <1>1, Facts DEF Tick, LogInv, Stamps, Polling, LogTypes
<1>4. Complete' /\ TextShown'
  BY DEF Tick, LogInv, Complete, Excepted, Brought, TextShown
<1> QED BY <1>2, <1>3, <1>4 DEF LogInv

LEMMA GetKept ==
  ASSUME LogInv, apiLogsGet
  PROVE  LogInv'
<1> DEFINE lines == IF poll.since = 0 THEN log ELSE GetSince(poll.since)
<1>1. /\ poll.pc = "sent" /\ poll.since = lastLogUpdate
      /\ UNCHANGED <<clock, log, modified, writers, polls, lastLogUpdate, logContent, logFilter, textarea, deletion, events, late, overlooked>>
      /\ poll'.pc = "read" /\ poll'.seen = Range(log) /\ poll'.entries = lines
      /\ poll'.since = poll.since /\ poll'.timestamp = poll.timestamp /\ poll' \in [pc : {"read"}, since : {poll.since},
          entries : {lines}, seen : {Range(log)}, timestamp : {poll.timestamp}]
  BY DEF apiLogsGet, LogInv, LogTypes, Stamps, Polling, Polls
<1>2. /\ lines \in Seq(Entries)
      /\ \A i \in DOMAIN lines : poll.since <= lines[i].ts /\ lines[i] \in Range(log)
      /\ Sorted(log) => Sorted(lines)
      /\ Sorted(log) => \A e \in Range(log) : e.ts >= poll.since => e \in Range(lines)
  <2>1. CASE poll.since = 0
    <3>1. \A i \in DOMAIN log : log[i] \in Range(log)
      BY DEF Range
    <3> QED BY <2>1, <3>1, Facts
  <2>2. CASE poll.since # 0
    BY <2>2, GetSinceReturns, Facts
  <2> QED BY <2>1, <2>2
<1> HIDE DEF lines
<1>3. Range(log) \subseteq Entries
  BY Facts
<1>4. LogTypes'
  BY <1>1, <1>2, <1>3 DEF LogInv, LogTypes, Polls
<1>5. \A i \in DOMAIN lines : lines[i].ts <= clock
  BY <1>2, Facts
<1>6. Stamps'
  BY <1>1, <1>2, <1>5 DEF LogInv, Stamps, Polling
<1>7. ASSUME ~late, NEW e \in Range(log) PROVE Brought(e)'
  <2>1. CASE e.ts >= poll.since
    BY <1>1, <1>2, <1>7, <2>1 DEF LogInv, Complete, Brought
  <2>2. CASE e.ts < poll.since
    BY <1>1, <1>7, <2>2, Facts DEF LogInv, Complete, Brought, Excepted
  <2> QED BY <2>1, <2>2, Facts
<1>8. Complete'
  BY <1>1, <1>2, <1>7 DEF LogInv, Complete, Excepted
<1>9. TextShown'
  BY <1>1 DEF LogInv, TextShown
<1> QED BY <1>4, <1>6, <1>8, <1>9 DEF LogInv

LEMMA StampKept ==
  ASSUME LogInv, StampAnswer
  PROVE  LogInv'
<1>1. /\ poll.pc = "read"
      /\ UNCHANGED <<clock, log, modified, writers, polls, lastLogUpdate, logContent, logFilter, textarea, deletion, events, late>>
      /\ overlooked' = overlooked \cup {e \in Range(log) \ poll.seen : e.ts < clock}
      /\ poll'.pc = "answered" /\ poll'.seen = poll.seen /\ poll'.entries = poll.entries
      /\ poll'.since = poll.since /\ poll'.timestamp = clock
      /\ poll' \in [pc : {"answered"}, since : {poll.since},
          entries : {poll.entries}, seen : {poll.seen}, timestamp : {clock}]
  BY DEF StampAnswer, LogInv, LogTypes, Polls
<1>2. LogTypes'
  BY <1>1, Facts DEF LogInv, LogTypes, Polls
<1>3. Stamps'
  BY <1>1, Facts DEF LogInv, Stamps, Polling
<1>4. ASSUME ~late, NEW e \in Range(log), e.ts < clock PROVE Brought(e)'
  <2>1. CASE e \in poll.seen
    BY <1>1, <1>4, <2>1 DEF LogInv, Complete, Brought, Excepted
  <2>2. CASE e \notin poll.seen
    BY <1>1, <1>4, <2>2 DEF Brought, Excepted
  <2> QED BY <2>1, <2>2
<1>5. Complete'
  BY <1>1, <1>4 DEF LogInv, Complete, Excepted
<1>6. TextShown'
  BY <1>1 DEF LogInv, TextShown
<1> QED BY <1>2, <1>3, <1>5, <1>6 DEF LogInv

LEMMA SendKept ==
  ASSUME LogInv, apiLogGet
  PROVE  LogInv'
<1>1. /\ UNCHANGED <<clock, log, modified, writers, lastLogUpdate, logContent, logFilter, textarea, deletion, events, late, overlooked>>
      /\ poll' = [pc |-> "sent", since |-> lastLogUpdate, entries |-> <<>>, seen |-> {}, timestamp |-> 0]
  BY DEF apiLogGet, NoPoll
<1>2. <<>> \in Seq(Entries) /\ DOMAIN <<>> = {} /\ lastLogUpdate \in 0..lastSecond /\ 0 \in 0..lastSecond
  BY Facts
<1>3. LogTypes'
  BY <1>1, <1>2 DEF LogInv, LogTypes, Polls
<1>4. Stamps'
  BY <1>1, <1>2, Facts DEF LogInv, Stamps, Polling
<1>5. Complete' /\ TextShown'
  BY <1>1 DEF LogInv, Complete, Excepted, TextShown
<1> QED BY <1>3, <1>4, <1>5 DEF LogInv

(* The page is waiting for nothing. *)
LEMMA PollEnds ==
  ASSUME LogInv, poll'.pc \in {"waiting", "status"},
         poll' = [NoPoll EXCEPT !.pc = poll'.pc]
  PROVE  poll' \in Polls /\ ~Polling' /\ poll'.pc \notin {"sent", "read", "answered"} /\ poll'.timestamp = 0
<1>1. <<>> \in Seq(Entries) /\ 0 \in 0..lastSecond
  BY Facts
<1> QED BY <1>1 DEF Polls, NoPoll, Polling

LEMMA LoadKept ==
  ASSUME LogInv, loadLogs
  PROVE  LogInv'
<1>1. /\ poll.pc = "answered" /\ poll.since = lastLogUpdate /\ lastLogUpdate' = poll.timestamp
      /\ UNCHANGED <<clock, log, modified, writers, polls, logFilter, deletion, events, late, overlooked>>
  BY DEF loadLogs, LogInv, Stamps, Polling
<1>2. poll' \in Polls /\ ~Polling' /\ poll'.pc \notin {"sent", "read", "answered"} /\ poll'.timestamp = 0
  <2>1. poll'.pc \in {"waiting", "status"} /\ poll' = [NoPoll EXCEPT !.pc = poll'.pc]
    BY DEF loadLogs, NoPoll
  <2> QED BY <2>1, PollEnds
<1>3. \/ poll.since # 0 /\ poll.entries = <<>> /\ UNCHANGED <<logContent, textarea>>
      \/ poll.since = 0 /\ logContent' = poll.entries /\ textarea' = filterLogs(logContent', logFilter)
      \/ /\ poll.since # 0 /\ logContent' = logContent \o poll.entries
         /\ textarea' = filterLogs(logContent', logFilter)
  BY DEF loadLogs
<1>4. /\ logContent' \in Seq(Entries)
      /\ \A i \in DOMAIN logContent' : logContent'[i].ts <= poll.timestamp
      /\ ~late => Sorted(logContent')
      /\ Range(logContent') = Range(poll.entries) \cup (IF poll.since = 0 THEN {} ELSE Range(logContent))
  <2>1. \A i \in DOMAIN poll.entries : poll.entries[i].ts <= poll.timestamp /\ poll.since <= poll.entries[i].ts
    BY <1>1 DEF LogInv, Stamps
  <2>2. poll.since # 0 => \A i \in DOMAIN logContent : logContent[i].ts <= poll.since
    BY <1>1 DEF LogInv, Stamps
  <2>3. poll.since <= poll.timestamp
    BY <1>1 DEF LogInv, Stamps
  <2>4. CASE poll.since # 0 /\ poll.entries = <<>> /\ UNCHANGED <<logContent, textarea>>
    <3>1. Range(poll.entries) = {}
      BY <2>4 DEF Range
    <3>2. ASSUME NEW i \in DOMAIN logContent PROVE logContent[i].ts <= poll.timestamp
      BY <2>2, <2>3, <2>4, Facts
    <3>3. ~late => Sorted(logContent)
      BY DEF LogInv, Complete
    <3> QED BY <2>4, <3>1, <3>2, <3>3, Facts
  <2>5. CASE poll.since = 0 /\ logContent' = poll.entries
    BY <1>1, <2>1, <2>5, Facts DEF LogInv, Complete
  <2>6. CASE poll.since # 0 /\ poll.entries # <<>> /\ logContent' = logContent \o poll.entries
    <3>1. \A i \in DOMAIN logContent, j \in DOMAIN poll.entries : logContent[i].ts <= poll.entries[j].ts
      BY <2>1, <2>2, <2>6, Facts
    <3>2. ~late => Sorted(logContent')
      BY <1>1, <2>6, <3>1, SortedConcat, Facts DEF LogInv, Complete
    <3>3. ASSUME NEW i \in DOMAIN logContent' PROVE logContent'[i].ts <= poll.timestamp
      <4>1. CASE i \in DOMAIN logContent
        <5>1. logContent'[i] = logContent[i]
          BY <2>6, <4>1, Concatenated, Facts
        <5> QED BY <2>2, <2>3, <2>6, <4>1, <5>1, Facts
      <4>2. CASE i \notin DOMAIN logContent
        <5>1. i - Len(logContent) \in DOMAIN poll.entries /\ logContent'[i] = poll.entries[i - Len(logContent)]
          BY <2>6, <4>2, Concatenated, Facts
        <5> QED BY <2>1, <5>1
      <4> QED BY <4>1, <4>2
    <3> QED BY <2>6, <3>2, <3>3, Concatenated, Facts
  <2>7. CASE poll.since # 0 /\ poll.entries = <<>> /\ logContent' = logContent \o poll.entries
    <3>1. logContent' = logContent /\ Range(poll.entries) = {}
      BY <2>7, ConcatEmptySeq, Facts DEF Range
    <3>2. ASSUME NEW i \in DOMAIN logContent PROVE logContent[i].ts <= poll.timestamp
      BY <2>2, <2>3, <2>7, Facts
    <3>3. ~late => Sorted(logContent)
      BY DEF LogInv, Complete
    <3> QED BY <2>7, <3>1, <3>2, <3>3, Facts
  <2> QED BY <1>3, <2>4, <2>5, <2>6, <2>7
<1>5. LogTypes'
  BY <1>1, <1>2, <1>4, Facts DEF LogInv, LogTypes
<1>6. Stamps'
  BY <1>1, <1>2, <1>4, Facts DEF LogInv, Stamps
<1>7. ASSUME ~late, NEW e \in Range(log), e.ts < poll.timestamp PROVE e \in Range(logContent') \/ Excepted(e)
  BY <1>1, <1>4, <1>7 DEF LogInv, Complete, Brought
<1>8. Complete'
  BY <1>1, <1>2, <1>4, <1>7 DEF LogInv, Complete, Excepted
<1>9. TextShown'
  BY <1>1, <1>3 DEF LogInv, TextShown
<1> QED BY <1>5, <1>6, <1>8, <1>9 DEF LogInv

LEMMA FailKept ==
  ASSUME LogInv, LoadFails
  PROVE  LogInv'
<1>1. /\ lastLogUpdate' = 0 /\ textarea' = Failed
      /\ UNCHANGED <<clock, log, modified, writers, polls, logContent, logFilter, deletion, late, overlooked>>
  BY DEF LoadFails
<1>2. poll' \in Polls /\ ~Polling' /\ poll'.pc \notin {"sent", "read", "answered"} /\ poll'.timestamp = 0
  <2>1. poll'.pc \in {"waiting", "status"} /\ poll' = [NoPoll EXCEPT !.pc = poll'.pc]
    BY DEF LoadFails, NoPoll
  <2> QED BY <2>1, PollEnds
<1>3. LogTypes' /\ Stamps'
  BY <1>1, <1>2, Facts DEF LogInv, LogTypes, Stamps
<1>4. Complete'
  BY <1>1, <1>2, Facts DEF LogInv, Complete
<1>5. TextShown'
  BY <1>1 DEF TextShown, Failed, Entry
<1> QED BY <1>3, <1>4, <1>5 DEF LogInv

LEMMA StatusKept ==
  ASSUME LogInv, loadStatus
  PROVE  LogInv'
<1>1. UNCHANGED <<clock, log, modified, writers, lastLogUpdate, logContent, logFilter, textarea, deletion, late, overlooked>>
  BY DEF loadStatus
<1>2. poll' \in Polls /\ ~Polling' /\ poll'.pc \notin {"sent", "read", "answered"} /\ poll'.timestamp = 0
  <2>1. poll'.pc \in {"waiting", "status"} /\ poll' = [NoPoll EXCEPT !.pc = poll'.pc]
    BY DEF loadStatus, NoPoll
  <2> QED BY <2>1, PollEnds
<1>3. LogTypes' /\ Stamps'
  BY <1>1, <1>2, Facts DEF LogInv, LogTypes, Stamps
<1>4. Complete' /\ TextShown'
  BY <1>1, <1>2 DEF LogInv, Complete, Excepted, TextShown
<1> QED BY <1>3, <1>4 DEF LogInv

LEMMA FilterKept ==
  ASSUME LogInv, NEW tag \in Tags, SelectFilter(tag)
  PROVE  LogInv'
<1>1. LogTypes' /\ Stamps'
  BY DEF SelectFilter, LogInv, LogTypes, Stamps, Polling
<1>2. Complete' /\ TextShown'
  BY DEF SelectFilter, LogInv, Complete, Excepted, Brought, TextShown
<1> QED BY <1>1, <1>2 DEF LogInv

LEMMA RequestKept ==
  ASSUME LogInv, deleteLogs
  PROVE  LogInv'
<1>1. /\ UNCHANGED <<clock, log, modified, writers, poll, polls, lastLogUpdate, logContent, logFilter, textarea, late, overlooked>>
      /\ deletion.state = "none" /\ Unlogged(Deletion)
  BY DEF deleteLogs
<1>2. PICK cutoff \in {0, clock - 1} : deletion' = [state |-> "sent", cutoff |-> cutoff]
  BY DEF deleteLogs
<1>3. cutoff \in 0..lastSecond /\ cutoff < clock /\ deletion'.state = "sent" /\ deletion'.cutoff = cutoff
  BY <1>2, Facts DEF LogInv, LogTypes
<1>4. LogTypes'
  BY <1>1, <1>2, <1>3 DEF LogInv, LogTypes
<1>5. \A i \in DOMAIN log : log[i].line # Deletion
  BY <1>1 DEF Unlogged, Range
<1>6. Stamps'
  BY <1>1, <1>3, <1>5 DEF LogInv, Stamps, Polling
<1>7. Complete' /\ TextShown'
  BY <1>1, <1>3 DEF LogInv, Complete, Excepted, Brought, TextShown
<1> QED BY <1>4, <1>6, <1>7 DEF LogInv

(* What a deletion leaves: its own line, and some of the lines in their order *)
LEMMA DeletionLeaves ==
  ASSUME LogInv, DeleteLogs
  PROVE  /\ log' \in Seq(Entries) /\ \A i \in DOMAIN log' : log'[i].ts <= clock
         /\ \A e \in Range(log') : e \in Range(log) \/ e.line = Deletion
         /\ Sorted(log) => Sorted(log')
<1>1. /\ deletion.state = "sent" /\ deletion.cutoff \in 0..lastSecond /\ deletion.cutoff < clock
      /\ clock \in 0..lastSecond
  BY Facts DEF DeleteLogs, LogInv, LogTypes, Stamps
<1>2. ASSUME NEW ts \in 0..lastSecond
      PROVE  /\ <<Entry(Deletion, ts)>> \in Seq(Entries)
             /\ DOMAIN <<Entry(Deletion, ts)>> = {1} /\ Len(<<Entry(Deletion, ts)>>) = 1
             /\ <<Entry(Deletion, ts)>>[1].line = Deletion /\ <<Entry(Deletion, ts)>>[1].ts = ts
             /\ Sorted(<<Entry(Deletion, ts)>>)
  <2>1. Entry(Deletion, ts) \in Entries
    BY DEF Entry, Entries, AllLines
  <2>2. DOMAIN <<Entry(Deletion, ts)>> = 1..1 /\ 1..1 = {1}
    OBVIOUS
  <2> QED BY <2>1, <2>2 DEF Sorted, Entry
<1>3. CASE deletion.cutoff = 0
  <2>1. log' = <<Entry(Deletion, clock)>>
    BY <1>3 DEF DeleteLogs
  <2> QED BY <1>1, <1>2, <2>1 DEF Range
<1>4. CASE deletion.cutoff # 0
  <2> DEFINE rest == Only(log, {e \in Entries : e.ts > deletion.cutoff})
             line == <<Entry(Deletion, deletion.cutoff)>>
  <2>2. log' = line \o rest
    BY <1>4 DEF DeleteLogs
  <2>4. /\ rest \in Seq(Entries) /\ (Sorted(log) => Sorted(rest))
        /\ \A i \in DOMAIN rest : rest[i] \in Range(log) /\ rest[i].ts > deletion.cutoff
    BY OnlyKeeps, Facts
  <2> HIDE DEF rest
  <2>5. /\ line \in Seq(Entries) /\ DOMAIN line = {1} /\ Len(line) = 1 /\ Sorted(line)
        /\ line[1].line = Deletion /\ line[1].ts = deletion.cutoff
    BY <1>1, <1>2
  <2> HIDE DEF line
  <2>7. Range(line) \subseteq {line[1]} /\ Range(rest) \subseteq Range(log)
    BY <2>4, <2>5 DEF Range
  <2>8. log' \in Seq(Entries) /\ Range(log') = Range(line) \cup Range(rest)
    BY <2>2, <2>4, <2>5, Concatenated
  <2>9. \A e \in Range(log') : e \in Range(log) \/ e = line[1]
    BY <2>7, <2>8
  <2>10. \A i \in DOMAIN log' : log'[i] \in Range(log')
    BY DEF Range
  <2>11. \A i \in DOMAIN log' : log'[i].ts <= clock
    BY <1>1, <2>5, <2>9, <2>10, Facts
  <2>12. ASSUME Sorted(log) PROVE Sorted(log')
    <3>2. \A i \in DOMAIN line, j \in DOMAIN rest : line[i].ts <= rest[j].ts
      <4>1. \A j \in DOMAIN rest : rest[j].ts \in Nat /\ deletion.cutoff < rest[j].ts
        BY <2>4, Elements
      <4> QED BY <1>1, <2>5, <4>1
    <3> QED BY <2>2, <2>4, <2>5, <2>12, <3>2, SortedConcat
  <2> QED BY <2>5, <2>8, <2>9, <2>11, <2>12
<1> QED BY <1>3, <1>4 DEF DeleteLogs

LEMMA DeleteKept ==
  ASSUME LogInv, DeleteLogs
  PROVE  LogInv'
<1>1. /\ UNCHANGED <<clock, writers, poll, polls, lastLogUpdate, logContent, logFilter, textarea, events, late, overlooked>>
      /\ deletion.state = "sent" /\ deletion' = [deletion EXCEPT !.state = "done"] /\ modified' = clock
  BY DEF DeleteLogs
<1>2. deletion'.state = "done" /\ deletion' \in [state : {"none", "sent", "done", "lost"}, cutoff : 0..lastSecond]
  BY <1>1 DEF LogInv, LogTypes
<1>3. LogTypes'
  BY <1>1, <1>2, DeletionLeaves, Facts DEF LogInv, LogTypes
<1>4. Stamps'
  BY <1>1, <1>2, DeletionLeaves DEF LogInv, Stamps, Polling
<1>5. \A e : Excepted(e) => Excepted(e)'
  BY <1>1, <1>2 DEF Excepted
<1>6. \A e : Brought(e) => Brought(e)'
  BY <1>1, <1>5 DEF Brought
<1>7. \A e : e.line = Deletion => Excepted(e)' /\ Brought(e)'
  BY <1>2 DEF Excepted, Brought
<1>8. Complete'
  <2> SUFFICES ASSUME ~late PROVE Complete'
    BY <1>1 DEF Complete
  <2>1. Sorted(log)' /\ Sorted(logContent)' /\ (poll.pc \in {"read", "answered"} => Sorted(poll.entries))'
    BY <1>1, DeletionLeaves DEF LogInv, Complete
  <2>2. \A e \in Range(log') : e.ts < lastLogUpdate' => e \in Range(logContent') \/ Excepted(e)'
    BY <1>1, <1>5, <1>7, DeletionLeaves DEF LogInv, Complete
  <2>3. poll'.pc = "read" => \A e \in poll'.seen : Brought(e)'
    BY <1>1, <1>6 DEF LogInv, Complete
  <2>4. poll'.pc = "answered" => \A e \in Range(log') : e.ts < poll'.timestamp => Brought(e)'
    BY <1>1, <1>6, <1>7, DeletionLeaves DEF LogInv, Complete
  <2> QED BY <2>1, <2>2, <2>3, <2>4 DEF Complete
<1>9. TextShown'
  BY <1>1 DEF LogInv, TextShown
<1> QED BY <1>3, <1>4, <1>8, <1>9 DEF LogInv

LEMMA DeletionFailsKept ==
  ASSUME LogInv, DeletionFails
  PROVE  LogInv'
<1>1. /\ UNCHANGED <<clock, log, modified, writers, poll, polls, lastLogUpdate, logContent, logFilter, textarea, late, overlooked>>
      /\ deletion.state \in {"sent", "done"}
      /\ deletion.state = "sent" => deletion'.state = "none"
      /\ deletion.state = "done" => deletion'.state = "lost"
  BY DEF DeletionFails, NoDeletion, LogInv, LogTypes
<1>2. deletion' \in [state : {"none", "sent", "done", "lost"}, cutoff : 0..lastSecond]
  BY Facts DEF DeletionFails, NoDeletion, LogInv, LogTypes
<1>3. LogTypes'
  BY <1>1, <1>2 DEF LogInv, LogTypes
<1>4. Stamps'
  BY <1>1 DEF LogInv, Stamps, Polling
<1>5. Complete' /\ TextShown'
  BY <1>1 DEF LogInv, Complete, Excepted, Brought, TextShown
<1> QED BY <1>3, <1>4, <1>5 DEF LogInv

LEMMA ReloadKept ==
  ASSUME LogInv, Reload
  PROVE  LogInv'
<1>1. /\ UNCHANGED <<clock, log, modified, writers, polls, late, overlooked>>
      /\ poll' = NoPoll /\ lastLogUpdate' = 0 /\ logContent' = <<>> /\ textarea' = <<>> /\ logFilter' = "all"
      /\ deletion' = NoDeletion
  BY DEF Reload
<1>2. poll' \in Polls /\ ~Polling' /\ poll'.pc \notin {"sent", "read", "answered"} /\ poll'.timestamp = 0
  <2>1. poll'.pc \in {"waiting", "status"} /\ poll' = [NoPoll EXCEPT !.pc = poll'.pc]
    BY <1>1 DEF NoPoll
  <2> QED BY <2>1, PollEnds
<1>3. <<>> \in Seq(Entries) /\ DOMAIN <<>> = {}
  OBVIOUS
<1>4. LogTypes' /\ Stamps'
  BY <1>1, <1>2, <1>3, Facts DEF LogInv, LogTypes, Stamps, NoDeletion
<1>5. Complete'
  BY <1>1, <1>2, <1>3, Facts DEF LogInv, Complete, Sorted
<1>6. TextShown'
  BY <1>1 DEF TextShown, filterLogs
<1> QED BY <1>4, <1>5, <1>6 DEF LogInv

LEMMA LogNext ==
  ASSUME LogInv, [LogStep]_logVars
  PROVE  LogInv'
<1>1. CASE UNCHANGED logVars
  BY <1>1 DEF logVars, LogInv, LogTypes, Stamps, Polling, Complete, Excepted, Brought, TextShown
<1>2. CASE Deleted \/ resetTrafficStat
  BY <1>2, ReloadKept DEF Deleted, resetTrafficStat
<1> QED BY <1>1, <1>2, WriteKept, CreateKept, TickKept, GetKept, StampKept, SendKept, LoadKept,
           FailKept, StatusKept, FilterKept, RequestKept, DeleteKept, DeletionFailsKept
        DEF LogStep

(* However lines are logged, polls fail and the log is deleted, the page     *)
(* lacks no line that a later poll does not bring, and shows what it has in  *)
(* the order of the file, but for lines that were written late or while the  *)
(* answer was stamped.                                                       *)
THEOREM LogShown == Spec => []LogsComplete
<1>1. Init => LogInv
  BY LogBegins DEF Init
<1>2. LogInv /\ [Next]_vars => LogInv'
  <2> SUFFICES ASSUME LogInv, [Next]_vars PROVE LogInv'
    OBVIOUS
  <2>1. [LogStep]_logVars
    BY DEF Next, vars
  <2> QED BY <2>1, LogNext
<1>3. LogInv => LogsComplete
  BY DEF LogInv, Complete, TextShown, LogsComplete, Sorted, Excepted
<1> QED BY <1>1, <1>2, <1>3, PTL DEF Spec

-----------------------------------------------------------------------------
(* Calls of the API                                                          *)
Operations == {"modifyUser", "rank", "createUser", "reset", "modifyKey", "rename", "deleteKey", "createKey"}
AnyRow == UserRows \cup KeyRows
PlanSeq == Seq(UserPermissions \cup {"save"})
TodoSets == SUBSET (AllKeys \X KeyRows)
LockSets == SUBSET ({"user", "public", "private"} \X (Users \cup Keys))
Calls == [page : Pages \cup {"gone"}, by : Users,
          pc : {"token", "generate", "sent", "arrived", "work", "ok", "error"},
          token : Tokens \cup {NoToken}, as : Seq(UserRows), row : Seq(AnyRow),
          lock : LockSets,
          plan : PlanSeq, todo : TodoSets,
          needs : {"PERM_API_MOD", "PERM_MANAGE_USERS"}, op : Operations,
          target : Users \cup Keys \cup {NoToken},
          arg : UserPermissions \cup ApiPermissions \cup Names \cup {"ADMIN", "USER", ""},
          grant : BOOLEAN]

(* What a call asks for: a request, but for the key that has been created    *)
Asks(c) ==
    /\ \/ c.op = "modifyUser" /\ c.target \in Users /\ c.arg \in UserPermissions
       \/ c.op = "rank" /\ c.target \in Users /\ c.arg \in {"ADMIN", "USER"}
       \/ c.op \in {"createUser", "reset"} /\ c.target \in Users
       \/ c.op = "modifyKey" /\ c.target \in Keys /\ c.arg \in ApiPermissions
       \/ c.op = "rename" /\ c.target \in Keys /\ c.arg \in Names
       \/ c.op = "deleteKey" /\ c.target \in Keys
       \/ c.op = "createKey" /\ (c.target = NoToken \/ (c.target \in Keys /\ c.pc \in {"ok", "error"}))
    /\ c.page = "users" => c.op \in {"modifyUser", "rank", "createUser", "reset"}
    /\ c.page = "keys" => c.op \in {"modifyKey", "rename", "deleteKey", "createKey"}

Rests(c) ==
    /\ c.page = "gone" => c.pc \in {"sent", "arrived", "work"}
    /\ c.pc = "sent" => c.token \in Tokens
    /\ c.pc # "work" => c.plan = <<>> /\ c.todo = {}
    /\ c.pc = "ok" /\ c.op = "createUser" => \E r \in UserRows : c.row = <<r>>
    /\ c.pc = "ok" /\ c.op = "createKey" => c.target \in Keys

(* What is left of a demotion *)
DemotionPlans ==
    {<<"PERM_REPLACE", "PERM_USERS", "PERM_LOGS", "PERM_GUEST_UPLOAD", "save">>,
     <<"PERM_USERS", "PERM_LOGS", "PERM_GUEST_UPLOAD", "save">>,
     <<"PERM_LOGS", "PERM_GUEST_UPLOAD", "save">>, <<"PERM_GUEST_UPLOAD", "save">>, <<"save">>}

(* Handlers that have read a row: of a user *)
Grants(c) ==
    /\ c.plan = <<"save">> /\ c.todo = {}
    /\ \/ c.op = "reset"
       \/ c.op = "modifyUser" /\ c.grant /\ c.arg \in c.row[1].perms
       \/ c.op = "rank" /\ c.arg = "ADMIN" /\ c.row[1].perms = UserPermissions
Revokes(c) ==
    /\ c.op = "modifyUser" /\ ~c.grant /\ c.arg \notin c.row[1].perms
    /\ \/ c.plan \in {<<"save", c.arg>>, <<c.arg>>} /\ c.todo = {}
       \/ c.plan = <<>> /\ c.todo # {}
Demotes(c) == c.op = "rank" /\ c.arg = "USER" /\ c.plan \in DemotionPlans /\ c.row[1].perms = {}
UserWork(c) ==
    /\ c.target \in Users /\ \E r \in UserRows : c.row = <<r>> /\ r.live
    /\ Grants(c) \/ Revokes(c) \/ Demotes(c)
    /\ \A x \in c.todo : x[2].owner = c.target /\ x[2].state = "live"
    /\ \A x, y \in c.todo : x[1] = y[1] => x = y

(* Or of a key *)
KeyWork(c) ==
    /\ c.target \in Keys /\ c.op \in {"modifyKey", "rename"}
    /\ \E r \in KeyRows : c.row = <<r>> /\ r.state = "live"
    /\ c.plan = <<"save">> /\ c.todo = {}
    /\ c.op = "modifyKey" => (c.arg \in c.row[1].perms) = c.grant
    /\ c.op = "rename" => c.row[1].name = c.arg

Typed(c) == c \in Calls /\ Asks(c) /\ Rests(c) /\ (c.pc = "work" => UserWork(c) \/ KeyWork(c))

Tables ==
    /\ scenario \in DOMAIN Scenarios
    /\ user \in [Users -> UserRows] /\ key \in [AllKeys -> KeyRows]
    /\ stored \in [Pages -> [ApiPermissions -> Tokens \cup {NoToken}]]
    /\ actions \in 0..Now.maxActions /\ faults \in 0..Now.maxFaults
    /\ overtaken \subseteq AllKeys \X Gated
    /\ excused \subseteq CellsOf("users") \cup CellsOf("keys")
    /\ \A c \in calls : Typed(c)

(* Only keys in use have permissions, and a row that will be saved names the *)
(* owner of its key.                                                         *)
DeadKeys == \A k \in AllKeys : key[k].state # "live" => key[k].perms = {}
OwnsRows(c) ==
    /\ c.target \in Keys => c.row[1].owner = key[c.target].owner /\ key[c.target].state # "none"
    /\ \A x \in c.todo : key[x[1]].owner = c.target /\ key[x[1]].state # "none"
RowsOwned == \A c \in calls : c.pc = "work" => OwnsRows(c)

(* A handler that takes permissions from a user has left none that depends   *)
(* on them to the user's keys, but for the rows that it will still save, and *)
(* those that have overtaken it.                                             *)
Cuts(c) == IF c.op = "modifyUser" /\ ~c.grant THEN {c.arg}
           ELSE IF c.op = "rank" /\ c.arg = "USER" THEN Range(Swept) ELSE {}
Done(c) == Cuts(c) \ Range(c.plan)
Dropped(c, k, p) == \E x \in c.todo : x[1] = k /\ p \notin x[2].perms
SweepsKeys(c) ==
    \A k \in AllKeys : key[k].owner = c.target =>
        \A p \in key[k].perms \cap Gated :
            Needs[p] \in Done(c) => <<k, p>> \in overtaken \/ Dropped(c, k, p)
KeysSwept == \A c \in calls : c.pc = "work" => SweepsKeys(c)

KeysInv == DeadKeys /\ RowsOwned /\ KeysSwept /\ KeysBounded

-----------------------------------------------------------------------------
(* Plans *)
LEMMA Plans ==
  ASSUME NEW s \in DemotionPlans
  PROVE  /\ s # <<>> /\ (Head(s) = "save" => s = <<"save">>)
         /\ s # <<"save">> => Tail(s) \in DemotionPlans /\ Head(s) \in Range(Swept)
         /\ Range(s) \subseteq {Head(s)} \cup Range(Tail(s))
         /\ s \in PlanSeq
<1>1. ASSUME NEW a, NEW b, NEW c, NEW d, NEW e
      PROVE  Tail(<<a, b, c, d, e>>) = <<b, c, d, e>> /\ Head(<<a, b, c, d, e>>) = a
  OBVIOUS
<1>2. ASSUME NEW a, NEW b, NEW c, NEW d
      PROVE  Tail(<<a, b, c, d>>) = <<b, c, d>> /\ Head(<<a, b, c, d>>) = a
  OBVIOUS
<1>3. ASSUME NEW a, NEW b, NEW c PROVE Tail(<<a, b, c>>) = <<b, c>> /\ Head(<<a, b, c>>) = a
  OBVIOUS
<1>4. ASSUME NEW a, NEW b PROVE Tail(<<a, b>>) = <<b>> /\ Head(<<a, b>>) = a
  OBVIOUS
<1>5. ASSUME NEW a PROVE Tail(<<a>>) = <<>> /\ Head(<<a>>) = a /\ Range(<<a>>) = {a}
  BY DEF Range
<1>6. ASSUME NEW a, NEW b, NEW c, NEW d, NEW e
      PROVE  Range(<<a, b, c, d, e>>) = {a, b, c, d, e}
  BY DEF Range
<1>7. ASSUME NEW a, NEW b, NEW c, NEW d PROVE Range(<<a, b, c, d>>) = {a, b, c, d}
  BY DEF Range
<1>8. ASSUME NEW a, NEW b, NEW c PROVE Range(<<a, b, c>>) = {a, b, c}
  BY DEF Range
<1>9. ASSUME NEW a, NEW b PROVE Range(<<a, b>>) = {a, b}
  BY DEF Range
<1>10. Range(Swept) = {"PERM_REPLACE", "PERM_USERS", "PERM_LOGS", "PERM_GUEST_UPLOAD"}
  BY <1>7 DEF Swept
<1> DEFINE W == UserPermissions \cup {"save"}
<1>11. /\ "PERM_REPLACE" \in W /\ "PERM_USERS" \in W /\ "PERM_LOGS" \in W /\ "PERM_GUEST_UPLOAD" \in W
       /\ "save" \in W
  BY DEF UserPermissions
<1> HIDE DEF W
<1>12. CASE s = <<"PERM_REPLACE", "PERM_USERS", "PERM_LOGS", "PERM_GUEST_UPLOAD", "save">>
  <2>1. Tail(s) = <<"PERM_USERS", "PERM_LOGS", "PERM_GUEST_UPLOAD", "save">> /\ Head(s) = "PERM_REPLACE"
    BY <1>1, <1>12
  <2>2. Range(s) \subseteq {Head(s)} \cup Range(Tail(s))
    BY <1>6, <1>7, <1>12, <2>1
  <2>3. s \in Seq(W) /\ s # <<>>
    BY <1>11, <1>12
  <2> QED BY <1>10, <2>1, <2>2, <2>3 DEF DemotionPlans, W, PlanSeq
<1>13. CASE s = <<"PERM_USERS", "PERM_LOGS", "PERM_GUEST_UPLOAD", "save">>
  <2>1. Tail(s) = <<"PERM_LOGS", "PERM_GUEST_UPLOAD", "save">> /\ Head(s) = "PERM_USERS"
    BY <1>2, <1>13
  <2>2. Range(s) \subseteq {Head(s)} \cup Range(Tail(s))
    BY <1>7, <1>8, <1>13, <2>1
  <2>3. s \in Seq(W) /\ s # <<>>
    BY <1>11, <1>13
  <2> QED BY <1>10, <2>1, <2>2, <2>3 DEF DemotionPlans, W, PlanSeq
<1>14. CASE s = <<"PERM_LOGS", "PERM_GUEST_UPLOAD", "save">>
  <2>1. Tail(s) = <<"PERM_GUEST_UPLOAD", "save">> /\ Head(s) = "PERM_LOGS"
    BY <1>3, <1>14
  <2>2. Range(s) \subseteq {Head(s)} \cup Range(Tail(s))
    BY <1>8, <1>9, <1>14, <2>1
  <2>3. s \in Seq(W) /\ s # <<>>
    BY <1>11, <1>14
  <2> QED BY <1>10, <2>1, <2>2, <2>3 DEF DemotionPlans, W, PlanSeq
<1>15. CASE s = <<"PERM_GUEST_UPLOAD", "save">>
  <2>1. Tail(s) = <<"save">> /\ Head(s) = "PERM_GUEST_UPLOAD"
    BY <1>4, <1>15
  <2>2. Range(s) \subseteq {Head(s)} \cup Range(Tail(s))
    BY <1>5, <1>9, <1>15, <2>1
  <2>3. s \in Seq(W) /\ s # <<>>
    BY <1>11, <1>15
  <2> QED BY <1>10, <2>1, <2>2, <2>3 DEF DemotionPlans, W, PlanSeq
<1>16. CASE s = <<"save">>
  <2>1. s \in Seq(W) /\ s # <<>> /\ Range(s) = {Head(s)}
    BY <1>5, <1>11, <1>16
  <2> QED BY <1>16, <2>1 DEF W, PlanSeq
<1> QED BY <1>12, <1>13, <1>14, <1>15, <1>16 DEF DemotionPlans

LEMMA ShortPlans ==
  ASSUME NEW a \in UserPermissions
  PROVE  /\ <<"save", a>> \in PlanSeq /\ <<a>> \in PlanSeq
         /\ <<"save">> \in PlanSeq /\ <<>> \in PlanSeq
         /\ Tail(<<"save", a>>) = <<a>> /\ Tail(<<a>>) = <<>> /\ Tail(<<"save">>) = <<>>
         /\ Head(<<"save", a>>) = "save" /\ Head(<<a>>) = a /\ Head(<<"save">>) = "save" /\ a # "save"
         /\ Range(<<"save", a>>) = {"save", a} /\ Range(<<a>>) = {a} /\ Range(<<"save">>) = {"save"}
         /\ \A x : x \notin Range(<<>>)
         /\ <<"save", a>> # <<>> /\ <<a>> # <<>> /\ <<"save">> # <<>> /\ <<"save", a>> # <<"save">>
<1>1. a # "save"
  BY DEF UserPermissions
<1>2. /\ Range(<<"save", a>>) = {"save", a} /\ Range(<<a>>) = {a} /\ Range(<<"save">>) = {"save"}
      /\ \A x : x \notin Range(<<>>)
  BY DEF Range
<1>3. /\ Tail(<<"save", a>>) = <<a>> /\ Tail(<<a>>) = <<>> /\ Tail(<<"save">>) = <<>>
      /\ Head(<<"save", a>>) = "save" /\ Head(<<a>>) = a /\ Head(<<"save">>) = "save"
  OBVIOUS
<1>4. <<"save", a>> # <<>> /\ <<a>> # <<>> /\ <<"save">> # <<>> /\ <<"save", a>> # <<"save">>
  OBVIOUS
<1>5. /\ <<"save", a>> \in PlanSeq /\ <<a>> \in PlanSeq
      /\ <<"save">> \in PlanSeq /\ <<>> \in PlanSeq
  BY DEF AnyRow, PlanSeq
<1> QED BY <1>1, <1>2, <1>3, <1>4, <1>5

LEMMA SweptPlan == Append(Swept, "save") \in DemotionPlans /\ Range(Swept) \subseteq Range(Append(Swept, "save"))
<1>1. ASSUME NEW a, NEW b, NEW c, NEW d, NEW e
      PROVE  Append(<<a, b, c, d>>, e) = <<a, b, c, d, e>>
  <2> DEFINE t == Append(<<a, b, c, d>>, e)
             s == <<a, b, c, d, e>>
             W == {a, b, c, d, e}
  <2>1. t \in Seq(W) /\ Len(t) = 5
    OBVIOUS
  <2>2. \A i \in 1..5 : t[i] = s[i]
    OBVIOUS
  <2>3. s \in Seq(W) /\ Len(s) = 5
    OBVIOUS
  <2> HIDE DEF t, s, W
  <2>4. t = s
    BY <2>1, <2>2, <2>3, SeqEqual
  <2> QED BY <2>4 DEF t, s
<1> DEFINE s == <<"PERM_REPLACE", "PERM_USERS", "PERM_LOGS", "PERM_GUEST_UPLOAD", "save">>
<1>2. Append(Swept, "save") = s
  BY <1>1 DEF Swept
<1>3. Range(Swept) \subseteq Range(s)
  BY DEF Swept, Range
<1> QED BY <1>2, <1>3 DEF DemotionPlans

(* The permissions that a demotion sweeps are those that keys depend on, and *)
(* users have.                                                               *)
LEMMA SweptNeeds ==
  /\ \A p \in Gated : Needs[p] \in Range(Swept) /\ Needs[p] \in UserPermissions
  /\ Gated \subseteq ApiPermissions /\ ApiPermDefault \cap Gated = {}
<1>1. Range(Swept) = {"PERM_REPLACE", "PERM_USERS", "PERM_LOGS", "PERM_GUEST_UPLOAD"}
  BY DEF Swept, Range
<1>2. Gated = {"PERM_REPLACE", "PERM_MANAGE_USERS", "PERM_MANAGE_LOGS", "PERM_MANAGE_FILE_REQUESTS"}
  BY DEF Gated, Needs
<1>3. \A p \in Gated : Needs[p] \in {"PERM_REPLACE", "PERM_USERS", "PERM_LOGS", "PERM_GUEST_UPLOAD"}
  BY <1>2 DEF Needs
<1> QED BY <1>1, <1>2, <1>3 DEF UserPermissions, ApiPermDefault, ApiPermissions

-----------------------------------------------------------------------------
(* What the records of calls keep when they change *)
SameRequest(c, d) ==
    d.by = c.by /\ d.needs = c.needs /\ d.op = c.op /\ d.target = c.target /\ d.arg = c.arg /\ d.grant = c.grant

LEMMA CallFields ==
  ASSUME NEW c \in Calls
  PROVE  /\ c.page \in Pages \cup {"gone"} /\ c.by \in Users
         /\ c.pc \in {"token", "generate", "sent", "arrived", "work", "ok", "error"}
         /\ c.token \in Tokens \cup {NoToken} /\ c.as \in Seq(UserRows) /\ c.row \in Seq(AnyRow)
         /\ c.lock \in LockSets
         /\ c.plan \in PlanSeq /\ c.todo \in TodoSets
         /\ c.needs \in {"PERM_API_MOD", "PERM_MANAGE_USERS"} /\ c.op \in Operations
         /\ c.target \in Users \cup Keys \cup {NoToken}
         /\ c.arg \in UserPermissions \cup ApiPermissions \cup Names \cup {"ADMIN", "USER", ""}
         /\ c.grant \in BOOLEAN
BY DEF Calls

LEMMA AnswerFields ==
  ASSUME NEW c \in Calls, NEW pc \in {"ok", "error"}
  PROVE  /\ AnswerTo(c, pc) \in Calls /\ SameRequest(c, AnswerTo(c, pc))
         /\ AnswerTo(c, pc).page = c.page /\ AnswerTo(c, pc).pc = pc /\ AnswerTo(c, pc).row = <<>>
         /\ AnswerTo(c, pc).plan = <<>> /\ AnswerTo(c, pc).todo = {} /\ AnswerTo(c, pc).token = NoToken
<1>1. <<>> \in Seq(UserRows) /\ <<>> \in Seq(AnyRow) /\ <<>> \in PlanSeq
  BY DEF AnyRow, PlanSeq
<1> QED BY <1>1 DEF LockSets, TodoSets, Calls, AnswerTo, SameRequest

LEMMA GoneFields ==
  ASSUME NEW c \in Calls
  PROVE  /\ [c EXCEPT !.page = "gone"] \in Calls /\ SameRequest(c, [c EXCEPT !.page = "gone"])
         /\ [c EXCEPT !.page = "gone"].page = "gone" /\ [c EXCEPT !.page = "gone"].pc = c.pc
         /\ [c EXCEPT !.page = "gone"].row = c.row /\ [c EXCEPT !.page = "gone"].plan = c.plan
         /\ [c EXCEPT !.page = "gone"].todo = c.todo /\ [c EXCEPT !.page = "gone"].token = c.token
BY DEF Calls, SameRequest

LEMMA SentFields ==
  ASSUME NEW c \in Calls, NEW token \in Tokens
  PROVE  LET d == [c EXCEPT !.pc = "sent", !.token = token] IN
         /\ d \in Calls /\ SameRequest(c, d) /\ d.page = c.page /\ d.pc = "sent" /\ d.token = token
         /\ d.row = c.row /\ d.plan = c.plan /\ d.todo = c.todo
BY DEF Calls, SameRequest

LEMMA GenerateFields ==
  ASSUME NEW c \in Calls
  PROVE  LET d == [c EXCEPT !.pc = "generate"] IN
         /\ d \in Calls /\ SameRequest(c, d) /\ d.page = c.page /\ d.pc = "generate" /\ d.token = c.token
         /\ d.row = c.row /\ d.plan = c.plan /\ d.todo = c.todo
BY DEF Calls, SameRequest

LEMMA ArrivedFields ==
  ASSUME NEW c \in Calls, NEW u \in UserRows
  PROVE  LET d == [c EXCEPT !.pc = "arrived", !.as = <<u>>] IN
         /\ d \in Calls /\ SameRequest(c, d) /\ d.page = c.page /\ d.pc = "arrived" /\ d.token = c.token
         /\ d.row = c.row /\ d.plan = c.plan /\ d.todo = c.todo
<1>1. <<u>> \in Seq(UserRows)
  OBVIOUS
<1> QED BY <1>1 DEF Calls, SameRequest

LEMMA CreatedFields ==
  ASSUME NEW c \in Calls, NEW row \in UserRows
  PROVE  LET d == [AnswerTo(c, "ok") EXCEPT !.row = <<row>>] IN
         /\ d \in Calls /\ SameRequest(c, d) /\ d.page = c.page /\ d.pc = "ok" /\ d.token = NoToken
         /\ d.row = <<row>> /\ d.row[1] = row /\ d.plan = <<>> /\ d.todo = {}
<1>1. <<row>> \in Seq(AnyRow) /\ <<row>>[1] = row
  BY DEF AnyRow, PlanSeq
<1>2. AnswerTo(c, "ok") \in Calls
  BY AnswerFields
<1> DEFINE a == AnswerTo(c, "ok")
           d == [a EXCEPT !.row = <<row>>]
<1>3. /\ a \in Calls /\ SameRequest(c, a) /\ a.page = c.page /\ a.pc = "ok" /\ a.token = NoToken
      /\ a.plan = <<>> /\ a.todo = {}
  BY AnswerFields
<1> HIDE DEF a
<1>4. /\ d \in Calls /\ SameRequest(a, d) /\ d.page = a.page /\ d.pc = a.pc /\ d.token = a.token
      /\ d.row = <<row>> /\ d.plan = a.plan /\ d.todo = a.todo
  BY <1>1, <1>3 DEF Calls, SameRequest
<1> HIDE DEF d
<1>5. /\ d \in Calls /\ SameRequest(c, d) /\ d.page = c.page /\ d.pc = "ok" /\ d.token = NoToken
      /\ d.row = <<row>> /\ d.row[1] = row /\ d.plan = <<>> /\ d.todo = {}
  BY <1>1, <1>3, <1>4 DEF SameRequest
<1> QED BY <1>5 DEF d, a

LEMMA NamedFields ==
  ASSUME NEW c \in Calls, NEW k \in Keys
  PROVE  LET d == AnswerTo([c EXCEPT !.target = k], "ok") IN
         /\ d \in Calls /\ d.page = c.page /\ d.pc = "ok" /\ d.token = NoToken
         /\ d.row = <<>> /\ d.plan = <<>> /\ d.todo = {}
         /\ d.by = c.by /\ d.needs = c.needs /\ d.op = c.op /\ d.target = k /\ d.arg = c.arg /\ d.grant = c.grant
<1> DEFINE a == [c EXCEPT !.target = k]
<1>1. /\ a \in Calls /\ a.page = c.page
      /\ a.by = c.by /\ a.needs = c.needs /\ a.op = c.op /\ a.target = k /\ a.arg = c.arg /\ a.grant = c.grant
  BY DEF Calls
<1> HIDE DEF a
<1>2. /\ AnswerTo(a, "ok") \in Calls /\ SameRequest(a, AnswerTo(a, "ok")) /\ AnswerTo(a, "ok").page = a.page
      /\ AnswerTo(a, "ok").pc = "ok" /\ AnswerTo(a, "ok").token = NoToken
      /\ AnswerTo(a, "ok").row = <<>> /\ AnswerTo(a, "ok").plan = <<>> /\ AnswerTo(a, "ok").todo = {}
  BY <1>1, AnswerFields
<1> QED BY <1>1, <1>2 DEF a, SameRequest

-----------------------------------------------------------------------------
(* The permissions of keys, when the tables change *)
LEMMA SameCuts ==
  ASSUME NEW c, NEW d, SameRequest(c, d)
  PROVE  Cuts(d) = Cuts(c) /\ d.target = c.target
BY DEF SameRequest, Cuts

LEMMA RemovingCuts ==
  ASSUME NEW u, NEW p \in Gated
  PROVE  Removing(u, Needs[p]) <=> \E c \in calls : c.pc = "work" /\ c.target = u /\ Needs[p] \in Cuts(c)
<1>1. Needs[p] \in Range(Swept)
  BY SweptNeeds
<1>2. \A c : Needs[p] \in Cuts(c) <=> \/ c.op = "modifyUser" /\ ~c.grant /\ c.arg = Needs[p]
                                      \/ c.op = "rank" /\ c.arg = "USER"
  BY <1>1 DEF Cuts
<1> QED BY <1>2 DEF Removing

(* A handler that has nothing to remove any more *)
Finished(c) ==
    \A k \in AllKeys : key[k].owner = c.target =>
        \A p \in key[k].perms \cap Gated : Needs[p] \in Cuts(c) => <<k, p>> \in overtaken

(* The row of a user is saved, or none. *)
LEMMA UserSaved ==
  ASSUME Tables, KeysInv, key' = key, overtaken \subseteq overtaken',
         \A d \in calls' : d.pc = "work" => OwnsRows(d) /\ SweepsKeys(d),
         \A c \in calls : c.pc = "work" => Finished(c) \/ \E d \in calls' : d.pc = "work" /\ SameRequest(c, d),
         \A k \in AllKeys : \A p \in key[k].perms \cap Gated :
            Needs[p] \in user[key[k].owner].perms \ user'[key[k].owner].perms =>
               \/ <<k, p>> \in overtaken'
               \/ \E d \in calls' : d.pc = "work" /\ d.target = key[k].owner /\ Needs[p] \in Cuts(d)
  PROVE  KeysInv'
<1>1. DeadKeys'
  BY DEF KeysInv, DeadKeys
<1>2. RowsOwned'
  BY DEF RowsOwned, OwnsRows
<1>3. KeysSwept'
  BY DEF KeysSwept, SweepsKeys, Dropped, Done, Cuts
<1>4. KeysBounded'
  <2> SUFFICES ASSUME NEW k \in AllKeys, key[k].state = "live", NEW p \in key[k].perms \cap Gated,
                      <<k, p>> \notin overtaken', Needs[p] \notin user'[key[k].owner].perms
               PROVE  Removing(key[k].owner, Needs[p])'
    BY DEF KeysBounded
  <2>1. \A u : Removing(u, Needs[p])' <=> \E d \in calls' : d.pc = "work" /\ d.target = u /\ Needs[p] \in Cuts(d)
    <3>1. Needs[p] \in Range(Swept)
      BY SweptNeeds
    <3>2. \A c : Needs[p] \in Cuts(c) <=> \/ c.op = "modifyUser" /\ ~c.grant /\ c.arg = Needs[p]
                                          \/ c.op = "rank" /\ c.arg = "USER"
      BY <3>1 DEF Cuts
    <3> QED BY <3>2 DEF Removing
  <2>2. CASE Needs[p] \in user[key[k].owner].perms
    BY <2>1, <2>2
  <2>3. CASE Removing(key[k].owner, Needs[p])
    <3>1. PICK c \in calls : c.pc = "work" /\ c.target = key[k].owner /\ Needs[p] \in Cuts(c)
      BY <2>3, RemovingCuts
    <3>2. ~Finished(c)
      BY <3>1 DEF Finished
    <3>3. PICK d \in calls' : d.pc = "work" /\ SameRequest(c, d)
      BY <3>1, <3>2
    <3> QED BY <2>1, <3>1, <3>3, SameCuts
  <2> QED BY <2>2, <2>3 DEF KeysInv, KeysBounded
<1> QED BY <1>1, <1>2, <1>3, <1>4 DEF KeysInv

(* No table changes: handlers may leave, go on unheard, or take up work that *)
(* removes nothing yet.                                                      *)
LEMMA TablesKept ==
  ASSUME Tables, KeysInv, UNCHANGED <<user, key, overtaken>>,
         \A d \in calls' : d.pc = "work" => OwnsRows(d) /\ SweepsKeys(d),
         \A c \in calls : c.pc = "work" => Finished(c) \/ \E d \in calls' : d.pc = "work" /\ SameRequest(c, d)
  PROVE  KeysInv'
<1> HIDE DEF Tables, KeysInv
<1> QED BY UserSaved

(* The row of a key is saved. *)
LEMMA KeySaved ==
  ASSUME Tables, KeysInv, NEW k \in AllKeys, NEW row \in KeyRows,
         key' = [key EXCEPT ![k] = row], user' = user, overtaken' = overtaken \cup Overtakes(k, row),
         row.state # "live" => row.perms = {}, row.state # "none",
         row.owner = key[k].owner \/ key[k].state = "none",
         \A d \in calls' : d.pc = "work" =>
            \E c \in calls : /\ c.pc = "work" /\ SameRequest(c, d) /\ d.row = c.row /\ d.plan = c.plan
                             /\ d.todo \subseteq c.todo /\ \A x \in c.todo \ d.todo : x[1] = k /\ x[2] = row,
         \A c \in calls : c.pc = "work" =>
            \/ \E d \in calls' : d.pc = "work" /\ SameRequest(c, d)
            \/ Cuts(c) = {}
            \/ c.plan = <<>> /\ \A x \in c.todo : x[1] = k /\ x[2] = row
  PROVE  KeysInv'
<1> USE DEF Tables
<1>1. /\ \A j \in AllKeys : key[j] \in KeyRows /\ key'[j] = IF j = k THEN row ELSE key[j]
      /\ key' \in [AllKeys -> KeyRows]
  OBVIOUS
<1>2. \A j \in AllKeys : key[j].state # "none" => key'[j].owner = key[j].owner /\ key'[j].state # "none"
  BY <1>1
<1>3. DeadKeys'
  BY <1>1 DEF KeysInv, DeadKeys
<1>4. \A c \in calls : c.pc = "work" => OwnsRows(c) /\ SweepsKeys(c) /\ c.todo \subseteq AllKeys \X KeyRows
  BY CallFields DEF TodoSets, KeysInv, RowsOwned, KeysSwept, Typed
<1>5. \A c \in calls : c.pc = "work" => (c.target \in Keys => c.target \in AllKeys)
  BY DEF AllKeys
<1>6. RowsOwned'
  <2> SUFFICES ASSUME NEW d \in calls', d.pc = "work" PROVE OwnsRows(d)'
    BY DEF RowsOwned
  <2>1. PICK c \in calls : /\ c.pc = "work" /\ SameRequest(c, d) /\ d.row = c.row /\ d.todo \subseteq c.todo
    OBVIOUS
  <2>2. OwnsRows(c) /\ d.target = c.target /\ c.todo \subseteq AllKeys \X KeyRows
    BY <1>4, <2>1 DEF SameRequest
  <2>3. \A x \in d.todo : x[1] \in AllKeys
    BY <2>1, <2>2
  <2> QED BY <1>2, <1>5, <2>1, <2>2, <2>3 DEF OwnsRows
<1>7. ASSUME NEW j \in AllKeys, NEW p \in key'[j].perms \cap Gated, p \notin key[j].perms
      PROVE  <<j, p>> \in overtaken' \/ (/\ Needs[p] \in user[key'[j].owner].perms
                                         /\ ~Removing(key'[j].owner, Needs[p]))
  BY <1>1, <1>7 DEF Overtakes
<1>8. ASSUME NEW j \in AllKeys, NEW p \in key[j].perms \cap Gated
      PROVE  key[j].state = "live" /\ key'[j].owner = key[j].owner
  <2>1. key[j].state = "live"
    BY <1>8 DEF KeysInv, DeadKeys
  <2> QED BY <1>2, <2>1
<1>9. KeysSwept'
  <2> SUFFICES ASSUME NEW d \in calls', d.pc = "work",
                      NEW j \in AllKeys, key'[j].owner = d.target, NEW p \in key'[j].perms \cap Gated,
                      Needs[p] \in Done(d), <<j, p>> \notin overtaken'
               PROVE  Dropped(d, j, p)
    BY DEF KeysSwept, SweepsKeys, Dropped, Done, Cuts
  <2>1. PICK c \in calls : /\ c.pc = "work" /\ SameRequest(c, d) /\ d.plan = c.plan
                           /\ d.todo \subseteq c.todo /\ \A x \in c.todo \ d.todo : x[1] = k /\ x[2] = row
    OBVIOUS
  <2>2. Needs[p] \in Cuts(c) /\ Needs[p] \in Done(c) /\ d.target = c.target
    BY <2>1, SameCuts DEF Done
  <2>3. CASE p \in key[j].perms
    <3>1. key[j].owner = c.target /\ SweepsKeys(c)
      BY <1>4, <1>8, <2>1, <2>2, <2>3
    <3>2. Dropped(c, j, p)
      BY <2>2, <2>3, <3>1 DEF SweepsKeys
    <3>3. PICK x \in c.todo : x[1] = j /\ p \notin x[2].perms
      BY <3>2 DEF Dropped
    <3>4. x \in d.todo
      BY <1>1, <2>1, <3>3
    <3> QED BY <3>3, <3>4 DEF Dropped
  <2>4. CASE p \notin key[j].perms
    <3>1. Removing(d.target, Needs[p])
      BY <2>1, <2>2, RemovingCuts
    <3> QED BY <1>7, <2>4, <3>1
  <2> QED BY <2>3, <2>4
<1>10. KeysBounded'
  <2> SUFFICES ASSUME NEW j \in AllKeys, key'[j].state = "live", NEW p \in key'[j].perms \cap Gated,
                      <<j, p>> \notin overtaken', Needs[p] \notin user[key'[j].owner].perms
               PROVE  \E d \in calls' : /\ d.pc = "work" /\ d.target = key'[j].owner
                                        /\ \/ d.op = "modifyUser" /\ ~d.grant /\ d.arg = Needs[p]
                                           \/ d.op = "rank" /\ d.arg = "USER"
    BY DEF KeysBounded, Removing
  <2>1. p \in key[j].perms
    BY <1>7
  <2>2. key[j].state = "live" /\ key'[j].owner = key[j].owner
    BY <1>8, <2>1
  <2>3. Removing(key[j].owner, Needs[p])
    BY <2>1, <2>2 DEF KeysInv, KeysBounded
  <2>4. PICK c \in calls : c.pc = "work" /\ c.target = key[j].owner /\ Needs[p] \in Cuts(c)
    BY <2>3, RemovingCuts
  <2>5. PICK d \in calls' : d.pc = "work" /\ SameRequest(c, d)
    <3> SUFFICES ASSUME c.plan = <<>>, \A x \in c.todo : x[1] = k /\ x[2] = row PROVE FALSE
      BY <2>4
    <3>1. Needs[p] \in Done(c) /\ SweepsKeys(c)
      BY <1>4, <2>4 DEF Done, Range
    <3>2. PICK x \in c.todo : x[1] = j /\ p \notin x[2].perms
      BY <2>1, <2>4, <3>1 DEF SweepsKeys, Dropped
    <3> QED BY <1>1, <3>2
  <2>6. d.target = key[j].owner /\ Needs[p] \in Cuts(d)
    BY <2>4, <2>5, SameCuts
  <2>7. \/ d.op = "modifyUser" /\ ~d.grant /\ d.arg = Needs[p]
        \/ d.op = "rank" /\ d.arg = "USER"
    BY <2>6 DEF Cuts
  <2> QED BY <2>2, <2>5, <2>6, <2>7
<1> QED BY <1>3, <1>6, <1>9, <1>10 DEF KeysInv

-----------------------------------------------------------------------------
(* The server *)
LEMMA NowFacts ==
  ASSUME scenario \in DOMAIN Scenarios
  PROVE  /\ IsScenario(Now) /\ Now.operator \in [Pages -> Users] /\ Now.super \in Users
         /\ \A r \in Now.elsewhere : IsRequest(r)
         /\ Now.clicked \subseteq UserPermissions /\ Now.keyClicked \subseteq ApiPermissions
         /\ Now.typed \subseteq Names /\ Now.created \subseteq Users /\ Now.grantedByDefault \subseteq UserPermissions
         /\ Now.maxActions \in Nat /\ Now.maxFaults \in Nat
<1>1. IsScenario(Now)
  BY AdminAssumption DEF Now
<1> QED BY <1>1 DEF IsScenario

LEMMA OwnCells ==
  ASSUME NEW c, Typed(c)
  PROVE  Own(c) \subseteq CellsOf("users") \cup CellsOf("keys")
<1>1. Asks(c)
  BY DEF Typed
<1> DEFINE U == CellsOf("users")
           K == CellsOf("keys")
<1>2. \A u \in Users, p \in UserPermissions : UserCell(u, p) \in U
  BY DEF CellsOf
<1>3. \A k \in Keys : /\ NameCell(k) \in K /\ RowCell(k) \in K
                      /\ \A p \in ApiPermissions : KeyCell(k, p) \in K
  BY DEF CellsOf
<1> HIDE DEF U, K
<1>4. ASSUME c.op = "modifyUser" PROVE Own(c) \subseteq U
  BY <1>1, <1>2, <1>4 DEF Own, Asks
<1>5. ASSUME c.op = "createUser" PROVE Own(c) \subseteq U
  BY <1>1, <1>2, <1>5 DEF Own, Asks
<1>6. ASSUME c.op = "modifyKey" PROVE Own(c) \subseteq K
  BY <1>1, <1>3, <1>6 DEF Own, Asks
<1>7. ASSUME c.op \notin {"modifyUser", "createUser", "modifyKey"} PROVE Own(c) \subseteq K
  BY <1>1, <1>3, <1>7 DEF Own, Asks
<1> QED BY <1>4, <1>5, <1>6, <1>7 DEF U, K

Unchanged == UNCHANGED <<scenario, stored, actions, faults>>

LEMMA AnsweredShapes ==
  ASSUME Tables, NEW c \in calls, NEW pc \in {"ok", "error"}, Answered(c, pc),
         c.op \in {"createUser", "createKey"} => pc = "error"
  PROVE  /\ \A d \in calls' : Typed(d) /\ (d \in calls \ {c} \/ (d = AnswerTo(c, pc) /\ d.pc # "work"))
         /\ \A b \in calls \ {c} : b \in calls'
<1>1. Typed(c) /\ c \in Calls /\ \A b \in calls : Typed(b)
  BY DEF Tables, Typed
<1>2. CASE c.page = "gone"
  BY <1>1, <1>2 DEF Answered, Reply
<1>3. CASE c.page # "gone"
  <2>1. calls' = (calls \ {c}) \cup {AnswerTo(c, pc)}
    BY <1>3 DEF Answered, Reply, Becomes
  <2>2. Asks(AnswerTo(c, pc))
    BY <1>1, AnswerFields DEF Typed, Asks, SameRequest
  <2>3. Rests(AnswerTo(c, pc))
    BY <1>1, <1>3, AnswerFields DEF Rests, SameRequest
  <2>4. Typed(AnswerTo(c, pc)) /\ AnswerTo(c, pc).pc # "work"
    BY <1>1, <2>2, <2>3, AnswerFields DEF Typed
  <2> QED BY <1>1, <2>1, <2>4
<1> QED BY <1>2, <1>3

(* A call that no handler is at work for goes on, or ends. *)
LEMMA TalkKept ==
  ASSUME Tables, KeysInv, NEW c \in calls, c.pc # "work", UNCHANGED <<user, key, overtaken>>,
         \A d \in calls' : d \in calls \/ d.pc # "work",
         \A b \in calls \ {c} : b \in calls'
  PROVE  KeysInv'
<1>1. \A d \in calls' : d.pc = "work" => OwnsRows(d) /\ SweepsKeys(d)
  BY DEF KeysInv, RowsOwned, KeysSwept
<1>2. \A b \in calls : b.pc = "work" => b \in calls' /\ SameRequest(b, b)
  BY DEF SameRequest
<1> HIDE DEF Tables, KeysInv
<1> QED BY <1>1, <1>2, TablesKept

LEMMA AnswerKept ==
  ASSUME Tables, KeysInv, NEW c \in calls, NEW pc \in {"ok", "error"}, c.pc # "work", Answered(c, pc),
         c.op \in {"createUser", "createKey"} => pc = "error",
         Unchanged, UNCHANGED <<user, key, overtaken>>, excused' \subseteq excused
  PROVE  Tables' /\ KeysInv'
<1>1. /\ \A d \in calls' : Typed(d) /\ (d \in calls \/ d.pc # "work")
      /\ \A b \in calls \ {c} : b \in calls'
  BY AnsweredShapes
<1>2. KeysInv'
  <2> HIDE DEF Tables, KeysInv
  <2> QED BY <1>1, TalkKept
<1>3. Tables'
  BY <1>1 DEF Tables, Unchanged, Now
<1> QED BY <1>2, <1>3

LEMMA NextCall ==
  ASSUME Tables, NEW c \in calls, NEW d, Typed(d), Becomes(c, d)
  PROVE  /\ \A b \in calls' : Typed(b) /\ (b \in calls \ {c} \/ b = d)
         /\ \A b \in calls \ {c} : b \in calls' /\ d \in calls'
         /\ d \in calls'
BY DEF Tables, Becomes

LEMMA TokenKept ==
  ASSUME Tables, KeysInv, NEW c \in calls, handleGenerateAuthToken(c), UNCHANGED <<scenario, actions, faults>>
  PROVE  Tables' /\ KeysInv'
<1>1. c.pc = "token" /\ Unchanged /\ UNCHANGED <<user, key, overtaken, excused>>
  BY DEF handleGenerateAuthToken, Unchanged
<1>2. CASE Answered(c, "error")
  BY <1>1, <1>2, AnswerKept
<1>3. CASE Becomes(c, [c EXCEPT !.pc = "generate"])
  <2> DEFINE d == [c EXCEPT !.pc = "generate"]
  <2>1. Typed(c) /\ c \in Calls
    BY DEF Tables, Typed
  <2>2. /\ d \in Calls /\ SameRequest(c, d) /\ d.page = c.page /\ d.pc = "generate" /\ d.token = c.token
        /\ d.row = c.row /\ d.plan = c.plan /\ d.todo = c.todo
    BY <2>1, GenerateFields
  <2> HIDE DEF d
  <2>3. Asks(d)
    BY <1>1, <2>1, <2>2 DEF Typed, Asks, SameRequest
  <2>4. Rests(d)
    BY <1>1, <2>1, <2>2 DEF Typed, Rests, SameRequest
  <2>5. Typed(d)
    BY <2>2, <2>3, <2>4 DEF Typed
  <2>6. /\ \A b \in calls' : Typed(b) /\ (b \in calls \/ b.pc # "work")
        /\ \A b \in calls \ {c} : b \in calls'
    BY <1>3, <2>2, <2>5, NextCall DEF d
  <2>7. KeysInv'
    <3> HIDE DEF Tables, KeysInv
    <3> QED BY <1>1, <2>6, TalkKept
  <2>8. Tables'
    BY <1>1, <2>6 DEF Tables, Unchanged, Now
  <2> QED BY <2>7, <2>8
<1> QED BY <1>2, <1>3 DEF handleGenerateAuthToken

LEMMA AuthorisedKept ==
  ASSUME Tables, KeysInv, NEW c \in calls, isAuthorisedForApi(c), Unchanged
  PROVE  Tables' /\ KeysInv'
<1>1. c.pc = "sent" /\ UNCHANGED <<user, key, overtaken, excused>>
  BY DEF isAuthorisedForApi
<1>2. CASE Answered(c, "error")
  BY <1>1, <1>2, AnswerKept
<1>3. CASE Becomes(c, [c EXCEPT !.pc = "arrived", !.as = <<user[key[c.token].owner]>>])
  <2> DEFINE d == [c EXCEPT !.pc = "arrived", !.as = <<user[key[c.token].owner]>>]
  <2>1. Typed(c) /\ c \in Calls
    BY DEF Tables, Typed
  <2>2. user[key[c.token].owner] \in UserRows
    <3>1. c.token \in AllKeys
      BY <1>1, <2>1 DEF Typed, Rests, AllKeys
    <3> QED BY <3>1 DEF Tables, KeyRows
  <2>3. /\ d \in Calls /\ SameRequest(c, d) /\ d.page = c.page /\ d.pc = "arrived"
        /\ d.row = c.row /\ d.plan = c.plan /\ d.todo = c.todo
    BY <2>1, <2>2, ArrivedFields
  <2>10. Becomes(c, d)
    BY <1>3
  <2> HIDE DEF d
  <2>4. Asks(d)
    BY <1>1, <2>1, <2>3 DEF Typed, Asks, SameRequest
  <2>5. Rests(d)
    BY <1>1, <2>1, <2>3 DEF Typed, Rests, SameRequest
  <2>6. Typed(d)
    BY <2>3, <2>4, <2>5 DEF Typed
  <2>7. /\ \A b \in calls' : Typed(b) /\ (b \in calls \/ b.pc # "work")
        /\ \A b \in calls \ {c} : b \in calls'
    BY <2>3, <2>6, <2>10, NextCall
  <2>8. KeysInv'
    <3> HIDE DEF Tables, KeysInv
    <3> QED BY <1>1, <2>7, TalkKept
  <2>9. Tables'
    BY <1>1, <2>7 DEF Tables, Unchanged, Now
  <2> QED BY <2>8, <2>9
<1> QED BY <1>2, <1>3 DEF isAuthorisedForApi

(* The tables, when the row of a key is saved *)
LEMMA KeyTables ==
  ASSUME Tables, NEW c, NEW k \in AllKeys, NEW row \in KeyRows, SaveApiKey(c, k, row)
  PROVE  /\ key' \in [AllKeys -> KeyRows] /\ user' \in [Users -> UserRows]
         /\ overtaken' \subseteq AllKeys \X Gated
         /\ excused' \subseteq CellsOf("users") \cup CellsOf("keys")
<1>1. key' \in [AllKeys -> KeyRows] /\ user' \in [Users -> UserRows]
  BY DEF Tables, SaveApiKey
<1>2. overtaken' \subseteq AllKeys \X Gated
  BY DEF Tables, SaveApiKey, Overtakes
<1>3. k \notin Tokens => Changed(k, row) \subseteq CellsOf("keys")
  <2>1. ASSUME k \notin Tokens PROVE k \in Keys
    BY <2>1 DEF AllKeys
  <2>2. Differing(key[k].perms, row.perms) \subseteq ApiPermissions
    BY DEF Tables, KeyRows, Differing
  <2> QED BY <2>1, <2>2 DEF Changed, CellsOf, KeyCell, NameCell, RowCell
<1>4. excused' \subseteq excused \cup CellsOf("keys")
  BY <1>3 DEF SaveApiKey, Settled
<1> QED BY <1>1, <1>2, <1>4 DEF Tables

LEMMA UserTables ==
  ASSUME Tables, NEW c, NEW u \in Users, NEW row \in UserRows, SaveUser(c, u, row)
  PROVE  /\ key' \in [AllKeys -> KeyRows] /\ user' \in [Users -> UserRows]
         /\ overtaken' \subseteq AllKeys \X Gated
         /\ excused' \subseteq CellsOf("users") \cup CellsOf("keys")
<1>1. key' \in [AllKeys -> KeyRows] /\ user' \in [Users -> UserRows]
  BY DEF Tables, SaveUser
<1>2. overtaken' \subseteq AllKeys \X Gated
  BY DEF Tables, SaveUser
<1>3. {UserCell(u, p) : p \in Differing(user[u].perms, row.perms)} \subseteq CellsOf("users")
  <2>1. Differing(user[u].perms, row.perms) \subseteq UserPermissions
    BY DEF Tables, UserRows, Differing
  <2> QED BY <2>1 DEF CellsOf
<1>4. excused' \subseteq excused \cup CellsOf("users")
  BY <1>3 DEF SaveUser, Settled
<1> QED BY <1>1, <1>2, <1>4 DEF Tables

LEMMA GenerateKept ==
  ASSUME Tables, KeysInv, NEW c \in calls, Generate(c), UNCHANGED <<scenario, actions, faults>>
  PROVE  Tables' /\ KeysInv'
<1> DEFINE token == CHOOSE t \in Tokens : key[t].state = "none"
           row == [state |-> "live", owner |-> c.by, perms |-> {c.needs}, name |-> ""]
           d == [c EXCEPT !.pc = "sent", !.token = token]
<1>1. /\ c.pc = "generate" /\ \E t \in Tokens : key[t].state = "none"
      /\ SaveApiKey([c EXCEPT !.page = "gone"], token, row)
      /\ stored' = [stored EXCEPT ![c.page][c.needs] = token]
      /\ Becomes(c, d)
  BY DEF Generate
<1>2. token \in Tokens /\ token \in AllKeys /\ key[token].state = "none"
  BY <1>1 DEF AllKeys
<1>3. Typed(c) /\ c \in Calls
  BY DEF Tables, Typed
<1>4. /\ c.page \in Pages /\ c.by \in Users /\ c.needs \in {"PERM_API_MOD", "PERM_MANAGE_USERS"}
      /\ c.needs \in ApiPermissions
  BY <1>1, <1>3, CallFields DEF Typed, Rests, ApiPermissions, Gated, Needs
<1>5. row \in KeyRows
  BY <1>4 DEF KeyRows, KeyStates
<1>6. /\ d \in Calls /\ SameRequest(c, d) /\ d.page = c.page /\ d.pc = "sent" /\ d.token = token
      /\ d.row = c.row /\ d.plan = c.plan /\ d.todo = c.todo
  BY <1>2, <1>3, SentFields
<1> HIDE DEF d, token
<1>7. Asks(d)
  BY <1>1, <1>3, <1>6 DEF Typed, Asks, SameRequest
<1>8. Rests(d)
  BY <1>1, <1>2, <1>3, <1>6 DEF Typed, Rests, SameRequest
<1>9. /\ \A b \in calls' : Typed(b) /\ (b \in calls \/ b.pc # "work")
      /\ \A b \in calls \ {c} : b \in calls'
  BY <1>1, <1>6, <1>7, <1>8, NextCall DEF Typed
<1>10. stored' \in [Pages -> [ApiPermissions -> Tokens \cup {NoToken}]]
  BY <1>1, <1>2, <1>4 DEF Tables
<1>11. Tables'
  BY <1>1, <1>2, <1>5, <1>9, <1>10, KeyTables DEF Tables, Now
<1>12. \A b \in calls : b.pc = "work" => b \in calls' /\ SameRequest(b, b)
  BY <1>1, <1>9 DEF SameRequest
<1>13. \A b \in calls' : b.pc = "work" => b \in calls /\ SameRequest(b, b)
  BY <1>9 DEF SameRequest
<1>14. row.state = "live"
  OBVIOUS
<1>15. key' = [key EXCEPT ![token] = row] /\ user' = user /\ overtaken' = overtaken \cup Overtakes(token, row)
  BY <1>1 DEF SaveApiKey
<1> HIDE DEF row, Tables, KeysInv
<1>16. KeysInv'
  BY <1>2, <1>5, <1>12, <1>13, <1>14, <1>15, KeySaved
<1> QED BY <1>11, <1>16

-----------------------------------------------------------------------------
(* The handlers *)
StartsUser(c, row, plan) ==
    /\ c.target \in Users /\ row \in UserRows /\ row.live
    /\ \/ plan = <<"save">> /\ \/ c.op = "reset"
                               \/ c.op = "modifyUser" /\ c.grant /\ c.arg \in row.perms
                               \/ c.op = "rank" /\ c.arg = "ADMIN" /\ row.perms = UserPermissions
       \/ c.op = "modifyUser" /\ ~c.grant /\ c.arg \notin row.perms /\ plan = <<"save", c.arg>>
       \/ c.op = "rank" /\ c.arg = "USER" /\ row.perms = {} /\ plan = Append(Swept, "save")
StartsKey(c, row, plan) ==
    /\ c.target \in Keys /\ c.op \in {"modifyKey", "rename"} /\ plan = <<"save">>
    /\ row \in KeyRows /\ row.state = "live" /\ row.owner = key[c.target].owner /\ key[c.target].state # "none"
    /\ c.op = "modifyKey" => (c.arg \in row.perms) = c.grant
    /\ c.op = "rename" => row.name = c.arg

LEMMA WorksKept ==
  ASSUME Tables, KeysInv, NEW c \in calls, c.pc = "arrived",
         NEW lock \in LockSets, NEW row, NEW plan,
         StartsUser(c, row, plan) \/ StartsKey(c, row, plan), Works(c, lock, row, plan), Unchanged
  PROVE  Tables' /\ KeysInv'
<1> DEFINE d == [c EXCEPT !.pc = "work", !.lock = lock, !.row = <<row>>, !.plan = plan]
<1>1. Typed(c) /\ c \in Calls /\ c.todo = {}
  BY DEF Tables, Typed, Rests
<1>2. row \in AnyRow
  BY DEF AnyRow, StartsUser, StartsKey
<1>3. plan \in PlanSeq /\ (c.target \in Users => Cuts(c) \subseteq Range(plan))
  <2>1. "PERM_API" \in UserPermissions
    BY DEF UserPermissions
  <2>2. CASE plan = <<"save">> /\ ~(c.op = "modifyUser" /\ ~c.grant) /\ ~(c.op = "rank" /\ c.arg = "USER")
    BY <2>1, <2>2, ShortPlans DEF Cuts
  <2>3. CASE c.op = "modifyUser" /\ ~c.grant /\ plan = <<"save", c.arg>> /\ c.target \in Users
    <3>1. c.arg \in UserPermissions
      <4>1. Users \cap Keys = {}
        BY AdminAssumption DEF AllKeys
      <4> QED BY <1>1, <2>3, <4>1 DEF Typed, Asks
    <3> QED BY <2>3, <3>1, ShortPlans DEF Cuts
  <2>4. CASE c.op = "rank" /\ c.arg = "USER" /\ plan = Append(Swept, "save")
    BY <2>4, SweptPlan, Plans DEF Cuts
  <2> QED BY <2>2, <2>3, <2>4 DEF StartsUser, StartsKey
<1>4. /\ d \in Calls /\ SameRequest(c, d) /\ d.page = c.page /\ d.pc = "work"
      /\ d.row = <<row>> /\ d.row[1] = row /\ d.plan = plan /\ d.todo = {}
  <2>1. plan \in PlanSeq /\ c \in Calls
    BY <1>1, <1>3
  <2>2. /\ d \in Calls /\ SameRequest(c, d) /\ d.page = c.page /\ d.pc = "work"
        /\ d.row = <<row>> /\ d.row[1] = row /\ d.plan = plan /\ d.todo = c.todo
    <3>1. d = [c EXCEPT !.pc = "work", !.lock = lock, !.row = <<row>>, !.plan = plan]
      OBVIOUS
    <3> HIDE DEF d
    <3>2. <<row>> \in Seq(AnyRow) /\ <<row>>[1] = row
      BY <1>2
    <3> QED BY <2>1, <3>1, <3>2 DEF Calls, SameRequest
  <2> QED BY <1>1, <2>2
<1>5. Becomes(c, d) /\ UNCHANGED <<user, key, overtaken, excused>>
  BY DEF Works
<1> HIDE DEF d
<1>6. Users \cap Keys = {}
  BY AdminAssumption DEF AllKeys
<1>7. UserWork(d) \/ KeyWork(d)
  <2>1. ASSUME StartsUser(c, row, plan) PROVE UserWork(d)
    <3>1. Grants(d) \/ Revokes(d) \/ Demotes(d)
      BY <1>4, <2>1, SweptPlan DEF StartsUser, SameRequest, Grants, Revokes, Demotes
    <3> QED BY <1>4, <2>1, <3>1 DEF StartsUser, SameRequest, UserWork
  <2>2. ASSUME StartsKey(c, row, plan) PROVE KeyWork(d)
    BY <1>4, <2>2 DEF StartsKey, SameRequest, KeyWork
  <2> QED BY <2>1, <2>2
<1>8. Asks(d)
  BY <1>1, <1>4, <1>7, <1>6 DEF Typed, Asks, SameRequest, UserWork, KeyWork
<1>9. Rests(d)
  BY <1>1, <1>4 DEF Typed, Rests, SameRequest
<1>10. /\ \A b \in calls' : Typed(b) /\ (b \in calls \ {c} \/ b = d)
       /\ \A b \in calls \ {c} : b \in calls'
  BY <1>4, <1>5, <1>7, <1>8, <1>9, NextCall DEF Typed
<1>11. OwnsRows(d)
  BY <1>4, <1>6 DEF OwnsRows, SameRequest, StartsUser, StartsKey
<1>12. SweepsKeys(d)
  <2>1. Cuts(d) \subseteq Range(plan) \/ Cuts(d) = {}
    <3>1. Cuts(d) = Cuts(c)
      BY <1>4, SameCuts
    <3>2. c.target \in Keys => c.op \notin {"modifyUser", "rank"}
      BY <1>1, <1>6 DEF Typed, Asks
    <3>3. c.target \in Users \/ c.target \in Keys
      BY DEF StartsUser, StartsKey
    <3> QED BY <1>3, <3>1, <3>2, <3>3 DEF Cuts
  <2>2. Done(d) = {}
    BY <1>4, <2>1 DEF Done
  <2> QED BY <2>2 DEF SweepsKeys
<1>13. \A b \in calls' : b.pc = "work" => OwnsRows(b) /\ SweepsKeys(b)
  BY <1>10, <1>11, <1>12 DEF KeysInv, RowsOwned, KeysSwept
<1>14. \A b \in calls : b.pc = "work" => b \in calls' /\ SameRequest(b, b)
  BY <1>10 DEF SameRequest
<1>15. Tables'
  BY <1>5, <1>10 DEF Tables, Unchanged, Now
<1> HIDE DEF Tables, KeysInv
<1>16. KeysInv'
  BY <1>5, <1>13, <1>14, TablesKept
<1> QED BY <1>15, <1>16

LEMMA RefuseKept ==
  ASSUME Tables, KeysInv, NEW c \in calls, c.pc = "arrived", Unchanged,
         Refuse(c) \/ (NothingToDo(c) /\ c.op \notin {"createUser", "createKey"})
  PROVE  Tables' /\ KeysInv'
<1>1. \E pc \in {"ok", "error"} : Answered(c, pc) /\ (c.op \in {"createUser", "createKey"} => pc = "error")
  BY DEF Refuse, NothingToDo
<1>2. UNCHANGED <<user, key, overtaken>> /\ excused' \subseteq excused
  BY DEF Refuse, NothingToDo, Settled
<1> HIDE DEF Tables, KeysInv
<1> QED BY <1>1, <1>2, AnswerKept

LEMMA ModifyUserKept ==
  ASSUME Tables, KeysInv, NEW c \in calls, c.pc = "arrived", apiModifyUser(c), Unchanged
  PROVE  Tables' /\ KeysInv'
<1>1. Typed(c) /\ c \in Calls /\ c.op = "modifyUser" /\ c.target \in Users /\ c.arg \in UserPermissions
  BY DEF Tables, Typed, Asks, apiModifyUser
<1>2. user[c.target] \in UserRows
  BY <1>1 DEF Tables
<1>3. {<<"user", c.target>>} \in LockSets
  BY <1>1 DEF LockSets
<1>4. CASE Refuse(c) \/ NothingToDo(c)
  BY <1>1, <1>4, RefuseKept
<1>5. CASE /\ ~NotEditable(c) /\ c.grant
           /\ Works(c, {<<"user", c.target>>}, [user[c.target] EXCEPT !.perms = @ \cup {c.arg}], <<"save">>)
  <2> DEFINE row == [user[c.target] EXCEPT !.perms = @ \cup {c.arg}]
  <2>1. row \in UserRows /\ row.live /\ c.arg \in row.perms
    BY <1>1, <1>2, <1>5 DEF UserRows, NotEditable
  <2> HIDE DEF row
  <2>2. StartsUser(c, row, <<"save">>)
    BY <1>1, <1>5, <2>1 DEF StartsUser
  <2>3. Works(c, {<<"user", c.target>>}, row, <<"save">>)
    BY <1>5 DEF row
  <2> QED BY <1>3, <2>2, <2>3, WorksKept
<1>6. CASE /\ ~NotEditable(c) /\ ~c.grant
           /\ Works(c, {<<"user", c.target>>}, [user[c.target] EXCEPT !.perms = @ \ {c.arg}], <<"save", c.arg>>)
  <2> DEFINE row == [user[c.target] EXCEPT !.perms = @ \ {c.arg}]
  <2>1. row \in UserRows /\ row.live /\ c.arg \notin row.perms
    BY <1>1, <1>2, <1>6 DEF UserRows, NotEditable
  <2> HIDE DEF row
  <2>2. StartsUser(c, row, <<"save", c.arg>>)
    BY <1>1, <1>6, <2>1 DEF StartsUser
  <2>3. Works(c, {<<"user", c.target>>}, row, <<"save", c.arg>>)
    BY <1>6 DEF row
  <2> QED BY <1>3, <2>2, <2>3, WorksKept
<1> QED BY <1>4, <1>5, <1>6 DEF apiModifyUser

LEMMA RankKept ==
  ASSUME Tables, KeysInv, NEW c \in calls, c.pc = "arrived", apiChangeUserRank(c), Unchanged
  PROVE  Tables' /\ KeysInv'
<1>1. Typed(c) /\ c \in Calls /\ c.op = "rank" /\ c.target \in Users
  BY DEF Tables, Typed, Asks, apiChangeUserRank
<1>2. user[c.target] \in UserRows
  BY <1>1 DEF Tables
<1>3. {<<"user", c.target>>} \in LockSets
  BY <1>1 DEF LockSets
<1>4. CASE Refuse(c)
  BY <1>1, <1>4, RefuseKept
<1>5. CASE /\ ~NotEditable(c) /\ c.arg = "ADMIN"
           /\ Works(c, {<<"user", c.target>>},
                    [user[c.target] EXCEPT !.rank = "ADMIN", !.perms = UserPermissions], <<"save">>)
  <2> DEFINE row == [user[c.target] EXCEPT !.rank = "ADMIN", !.perms = UserPermissions]
  <2>1. row \in UserRows /\ row.live /\ row.perms = UserPermissions
    BY <1>1, <1>2, <1>5 DEF UserRows, NotEditable
  <2> HIDE DEF row
  <2>2. StartsUser(c, row, <<"save">>)
    BY <1>1, <1>5, <2>1 DEF StartsUser
  <2>3. Works(c, {<<"user", c.target>>}, row, <<"save">>)
    BY <1>5 DEF row
  <2> QED BY <1>3, <2>2, <2>3, WorksKept
<1>6. CASE /\ ~NotEditable(c) /\ c.arg = "USER"
           /\ Works(c, {<<"user", c.target>>},
                    [user[c.target] EXCEPT !.rank = "USER", !.perms = {}], Append(Swept, "save"))
  <2> DEFINE row == [user[c.target] EXCEPT !.rank = "USER", !.perms = {}]
             plan == Append(Swept, "save")
  <2>1. row \in UserRows /\ row.live /\ row.perms = {}
    BY <1>1, <1>2, <1>6 DEF UserRows, NotEditable
  <2> HIDE DEF row
  <2>2. StartsUser(c, row, plan)
    BY <1>1, <1>6, <2>1 DEF StartsUser
  <2>3. Works(c, {<<"user", c.target>>}, row, plan)
    BY <1>6 DEF row
  <2> HIDE DEF plan
  <2> QED BY <1>3, <2>2, <2>3, WorksKept
<1> QED BY <1>4, <1>5, <1>6 DEF apiChangeUserRank

LEMMA ResetKept ==
  ASSUME Tables, KeysInv, NEW c \in calls, c.pc = "arrived", apiResetPassword(c), Unchanged
  PROVE  Tables' /\ KeysInv'
<1>1. Typed(c) /\ c \in Calls /\ c.op = "reset" /\ c.target \in Users
  BY DEF Tables, Typed, Asks, apiResetPassword
<1>2. user[c.target] \in UserRows
  BY <1>1 DEF Tables
<1>3. CASE Refuse(c)
  BY <1>1, <1>3, RefuseKept
<1>4. CASE ~NotEditable(c) /\ Works(c, {}, [user[c.target] EXCEPT !.reset = TRUE], <<"save">>)
  <2> DEFINE row == [user[c.target] EXCEPT !.reset = TRUE]
  <2>1. row \in UserRows /\ row.live
    BY <1>1, <1>2, <1>4 DEF UserRows, NotEditable
  <2> HIDE DEF row
  <2>2. StartsUser(c, row, <<"save">>)
    BY <1>1, <2>1 DEF StartsUser
  <2>3. Works(c, {}, row, <<"save">>)
    BY <1>4 DEF row
  <2>4. {} \in LockSets
    BY DEF LockSets
  <2> QED BY <2>2, <2>3, <2>4, WorksKept
<1> QED BY <1>3, <1>4 DEF apiResetPassword

LEMMA ModifyKeyKept ==
  ASSUME Tables, KeysInv, NEW c \in calls, c.pc = "arrived", apiModifyApiKey(c), Unchanged
  PROVE  Tables' /\ KeysInv'
<1>1. Typed(c) /\ c \in Calls /\ c.op = "modifyKey" /\ c.target \in Keys /\ c.arg \in ApiPermissions
  BY DEF Tables, Typed, Asks, apiModifyApiKey
<1>2. key[c.target] \in KeyRows /\ c.grant \in BOOLEAN
  BY <1>1, CallFields DEF Tables, AllKeys
<1>3. {<<"public", c.target>>} \in LockSets
  BY <1>1 DEF LockSets
<1>4. CASE Refuse(c) \/ NothingToDo(c)
  BY <1>1, <1>4, RefuseKept
<1>5. ASSUME NEW perms \in {key[c.target].perms \cup {c.arg}, key[c.target].perms \ {c.arg}},
             MayEdit(c), (c.arg \in perms) = c.grant,
             Works(c, {<<"public", c.target>>}, [key[c.target] EXCEPT !.perms = perms], <<"save">>)
      PROVE  Tables' /\ KeysInv'
  <2> DEFINE row == [key[c.target] EXCEPT !.perms = perms]
  <2>1. /\ row \in KeyRows /\ row.state = "live" /\ row.owner = key[c.target].owner /\ row.perms = perms
        /\ key[c.target].state = "live"
    BY <1>1, <1>2, <1>5 DEF KeyRows, MayEdit
  <2> HIDE DEF row
  <2>2. StartsKey(c, row, <<"save">>)
    BY <1>1, <1>5, <2>1 DEF StartsKey
  <2>3. Works(c, {<<"public", c.target>>}, row, <<"save">>)
    BY <1>5 DEF row
  <2> QED BY <1>3, <2>2, <2>3, WorksKept
<1>6. CASE /\ MayEdit(c)
           /\ Works(c, {<<"public", c.target>>},
                    [key[c.target] EXCEPT !.perms = IF c.grant THEN @ \cup {c.arg} ELSE @ \ {c.arg}], <<"save">>)
  <2>1. CASE c.grant
    <3>1. (c.arg \in key[c.target].perms \cup {c.arg}) = c.grant
      <4>1. c.grant = TRUE
        BY <1>2, <2>1
      <4> QED BY <4>1
    <3> QED BY <1>5, <1>6, <2>1, <3>1
  <2>2. CASE ~c.grant
    <3>1. (c.arg \in key[c.target].perms \ {c.arg}) = c.grant
      BY <1>2, <2>2
    <3> QED BY <1>5, <1>6, <2>2, <3>1
  <2> QED BY <1>2, <2>1, <2>2
<1> QED BY <1>4, <1>6 DEF apiModifyApiKey

LEMMA RenameKept ==
  ASSUME Tables, KeysInv, NEW c \in calls, c.pc = "arrived", apiChangeFriendlyName(c), Unchanged
  PROVE  Tables' /\ KeysInv'
<1>1. Typed(c) /\ c \in Calls /\ c.op = "rename" /\ c.target \in Keys /\ c.arg \in Names
  BY DEF Tables, Typed, Asks, apiChangeFriendlyName
<1>2. key[c.target] \in KeyRows
  BY <1>1 DEF Tables, AllKeys
<1>3. {<<"private", c.target>>} \in LockSets
  BY <1>1 DEF LockSets
<1>4. CASE Refuse(c) \/ NothingToDo(c)
  BY <1>1, <1>4, RefuseKept
<1>5. CASE /\ MayEdit(c)
           /\ Works(c, {<<"private", c.target>>}, [key[c.target] EXCEPT !.name = c.arg], <<"save">>)
  <2> DEFINE row == [key[c.target] EXCEPT !.name = c.arg]
  <2>1. /\ row \in KeyRows /\ row.state = "live" /\ row.owner = key[c.target].owner /\ row.name = c.arg
        /\ key[c.target].state = "live"
    BY <1>1, <1>2, <1>5 DEF KeyRows, MayEdit
  <2> HIDE DEF row
  <2>2. StartsKey(c, row, <<"save">>)
    BY <1>1, <2>1 DEF StartsKey
  <2>3. Works(c, {<<"private", c.target>>}, row, <<"save">>)
    BY <1>5 DEF row
  <2> QED BY <1>3, <2>2, <2>3, WorksKept
<1> QED BY <1>4, <1>5 DEF apiChangeFriendlyName

LEMMA CreateUserKept ==
  ASSUME Tables, KeysInv, NEW c \in calls, c.pc = "arrived", apiCreateUser(c), Unchanged
  PROVE  Tables' /\ KeysInv'
<1>1. Typed(c) /\ c \in Calls /\ c.op = "createUser" /\ c.target \in Users
  BY DEF Tables, Typed, Asks, apiCreateUser
<1>2. CASE Refuse(c)
  BY <1>1, <1>2, RefuseKept
<1> DEFINE row == [NoUser EXCEPT !.live = TRUE, !.perms = Now.grantedByDefault]
           d == [AnswerTo(c, "ok") EXCEPT !.row = <<row>>]
<1>3. CASE SaveUser(c, c.target, row) /\ Reply(c, d)
  <2>1. row \in UserRows
    BY NowFacts DEF Tables, UserRows, NoUser
  <2>2. SaveUser(c, c.target, row) /\ Reply(c, d)
    BY <1>3
  <2>3. /\ d \in Calls /\ SameRequest(c, d) /\ d.page = c.page /\ d.pc = "ok" /\ d.token = NoToken
        /\ d.row = <<row>> /\ d.row[1] = row /\ d.plan = <<>> /\ d.todo = {}
    BY <1>1, <2>1, CreatedFields
  <2> HIDE DEF row, d
  <2>4. c.page # "gone" => Typed(d)
    <3>1. Asks(d)
      BY <1>1, <2>3 DEF Typed, Asks, SameRequest
    <3>2. c.page # "gone" => Rests(d)
      BY <1>1, <2>1, <2>3 DEF Rests, SameRequest
    <3> QED BY <2>3, <3>1, <3>2 DEF Typed
  <2>5. /\ \A b \in calls' : Typed(b) /\ (b \in calls \/ b.pc # "work")
        /\ \A b \in calls \ {c} : b \in calls'
    BY <2>2, <2>3, <2>4 DEF Tables, Reply, Becomes
  <2>6. Tables'
    BY <1>1, <2>1, <2>2, <2>5, UserTables DEF Tables, Unchanged, Now
  <2>7. /\ key' = key /\ user' = [user EXCEPT ![c.target] = row]
        /\ overtaken' = overtaken \cup
             {x \in AllKeys \X Gated : /\ key[x[1]].owner = c.target
                                       /\ x[2] \in key[x[1]].perms
                                       /\ Needs[x[2]] \in (user[c.target].perms \ row.perms) \ Intended(c)}
    BY <2>2 DEF SaveUser
  <2>8. ASSUME NEW k \in AllKeys, NEW p \in key[k].perms \cap Gated,
               Needs[p] \in user[key[k].owner].perms \ user'[key[k].owner].perms
        PROVE  <<k, p>> \in overtaken'
    <3>1. key[k].owner \in Users /\ Intended(c) = {} /\ user \in [Users -> UserRows]
      BY <1>1 DEF Tables, KeyRows, Intended
    <3>2. key[k].owner = c.target
      BY <2>7, <2>8, <3>1
    <3>3. user'[c.target] = row
      BY <1>1, <2>7, <3>1
    <3> QED BY <2>7, <2>8, <3>1, <3>2, <3>3
  <2>9. \A b \in calls' : b.pc = "work" => OwnsRows(b) /\ SweepsKeys(b)
    BY <2>5 DEF KeysInv, RowsOwned, KeysSwept
  <2>10. \A b \in calls : b.pc = "work" => b \in calls' /\ SameRequest(b, b)
    BY <2>5 DEF SameRequest
  <2>11. key' = key /\ overtaken \subseteq overtaken'
    BY <2>7
  <2> HIDE DEF Tables, KeysInv
  <2>12. KeysInv'
    BY <2>8, <2>9, <2>10, <2>11, UserSaved
  <2> QED BY <2>6, <2>12
<1> QED BY <1>2, <1>3 DEF apiCreateUser

LEMMA DeleteKeyKept ==
  ASSUME Tables, KeysInv, NEW c \in calls, c.pc = "arrived", apiDeleteKey(c), Unchanged
  PROVE  Tables' /\ KeysInv'
<1>1. Typed(c) /\ c \in Calls /\ c.op = "deleteKey" /\ c.target \in Keys /\ c.target \in AllKeys
  BY DEF Tables, Typed, Asks, apiDeleteKey, AllKeys
<1>2. CASE Refuse(c)
  BY <1>1, <1>2, RefuseKept
<1> DEFINE row == [key[c.target] EXCEPT !.state = "deleted", !.perms = {}]
<1>3. CASE SaveApiKey(c, c.target, row) /\ Answered(c, "ok")
  <2>1. /\ row \in KeyRows /\ row.state = "deleted" /\ row.perms = {} /\ row.owner = key[c.target].owner
        /\ key[c.target] \in KeyRows
    BY <1>1 DEF Tables, KeyRows, KeyStates
  <2>2. SaveApiKey(c, c.target, row) /\ Answered(c, "ok")
    BY <1>3
  <2> HIDE DEF row
  <2>3. /\ \A b \in calls' : Typed(b) /\ (b \in calls \ {c} \/ b.pc # "work")
        /\ \A b \in calls \ {c} : b \in calls'
    BY <1>1, <2>2, AnsweredShapes
  <2>4. Tables'
    BY <1>1, <2>1, <2>2, <2>3, KeyTables DEF Tables, Unchanged, Now
  <2>5. \A b \in calls : b.pc = "work" => b \in calls' /\ SameRequest(b, b)
    BY <2>3 DEF SameRequest
  <2>6. \A b \in calls' : b.pc = "work" => b \in calls /\ SameRequest(b, b)
    BY <2>3 DEF SameRequest
  <2>7. /\ key' = [key EXCEPT ![c.target] = row] /\ user' = user
        /\ overtaken' = overtaken \cup Overtakes(c.target, row)
    BY <2>2 DEF SaveApiKey
  <2> HIDE DEF Tables, KeysInv
  <2>8. KeysInv'
    BY <1>1, <2>1, <2>5, <2>6, <2>7, KeySaved
  <2> QED BY <2>4, <2>8
<1> QED BY <1>2, <1>3 DEF apiDeleteKey

LEMMA CreateKeyKept ==
  ASSUME Tables, KeysInv, NEW c \in calls, c.pc = "arrived", apiCreateApiKey(c), Unchanged
  PROVE  Tables' /\ KeysInv'
<1> DEFINE k == CHOOSE x \in Keys : key[x].state = "none"
           created == [c EXCEPT !.target = k]
           row == [state |-> "live", owner |-> c.by, perms |-> ApiPermDefault, name |-> "Unnamed key"]
           d == AnswerTo(created, "ok")
<1>1. Typed(c) /\ c \in Calls /\ c.op = "createKey" /\ c.by \in Users
  BY CallFields DEF Tables, Typed, apiCreateApiKey
<1>2. /\ \E x \in Keys : key[x].state = "none"
      /\ SaveApiKey(created, k, row)
      /\ Reply(c, d)
  BY DEF apiCreateApiKey
<1>3. k \in Keys /\ k \in AllKeys /\ key[k].state = "none"
  BY <1>2 DEF AllKeys
<1>4. row \in KeyRows /\ row.state = "live"
  BY <1>1, AdminAssumption DEF KeyRows, KeyStates, ApiPermissions
<1> HIDE DEF k
<1>5. /\ d \in Calls /\ d.page = c.page /\ d.pc = "ok" /\ d.plan = <<>> /\ d.todo = {}
      /\ d.op = "createKey" /\ d.target = k
  BY <1>1, <1>3, NamedFields
<1> HIDE DEF d, row, created
<1>6. c.page # "gone" => Typed(d)
  <2>1. Asks(d)
    BY <1>1, <1>3, <1>5 DEF Typed, Asks
  <2>2. c.page # "gone" => Rests(d)
    BY <1>3, <1>5 DEF Rests
  <2> QED BY <1>5, <2>1, <2>2 DEF Typed
<1>7. /\ \A b \in calls' : Typed(b) /\ (b \in calls \/ b.pc # "work")
      /\ \A b \in calls \ {c} : b \in calls'
  BY <1>2, <1>5, <1>6 DEF Tables, Reply, Becomes
<1>8. Tables'
  BY <1>2, <1>3, <1>4, <1>7, KeyTables DEF Tables, Unchanged, Now
<1>9. \A b \in calls : b.pc = "work" => b \in calls' /\ SameRequest(b, b)
  BY <1>7 DEF SameRequest
<1>10. \A b \in calls' : b.pc = "work" => b \in calls /\ SameRequest(b, b)
  BY <1>7 DEF SameRequest
<1>11. key' = [key EXCEPT ![k] = row] /\ user' = user /\ overtaken' = overtaken \cup Overtakes(k, row)
  BY <1>2 DEF SaveApiKey
<1> HIDE DEF Tables, KeysInv
<1>12. KeysInv'
  BY <1>3, <1>4, <1>9, <1>10, <1>11, KeySaved
<1> QED BY <1>8, <1>12

LEMMA HandlesKept ==
  ASSUME Tables, KeysInv, NEW c \in calls, Handles(c), Unchanged
  PROVE  Tables' /\ KeysInv'
<1> HIDE DEF Tables, KeysInv
<1> QED BY ModifyUserKept, RankKept, ResetKept, CreateUserKept, ModifyKeyKept, RenameKept,
           DeleteKeyKept, CreateKeyKept DEF Handles

(* A handler goes on, or is done and answers. *)
Resumed(c, plan, todo) == [c EXCEPT !.plan = plan, !.todo = todo]

LEMMA ContinuedShapes ==
  ASSUME Tables, NEW c \in calls, c.pc = "work", NEW plan \in PlanSeq, NEW todo \in TodoSets,
         Continues(c, plan, todo),
         ~(plan = <<>> /\ todo = {}) => UserWork(Resumed(c, plan, todo))
  PROVE  /\ \A b \in calls' : Typed(b)
         /\ \A b \in calls' : \/ b \in calls \ {c} \/ b.pc # "work"
                              \/ /\ ~(plan = <<>> /\ todo = {})
                                 /\ b \in Calls /\ SameRequest(c, b) /\ b.pc = "work" /\ b.row = c.row
                                 /\ b.plan = plan /\ b.todo = todo
         /\ \A b \in calls \ {c} : b \in calls'
         /\ ~(plan = <<>> /\ todo = {}) => \E b \in calls' : b.pc = "work" /\ SameRequest(c, b)
<1>1. Typed(c) /\ c \in Calls
  BY DEF Tables, Typed
<1>2. CASE plan = <<>> /\ todo = {}
  <2>1. Answered(c, "ok")
    BY <1>2 DEF Continues
  <2>2. c.op \notin {"createUser", "createKey"}
    BY <1>1 DEF Typed, UserWork, KeyWork, Grants, Revokes, Demotes
  <2> QED BY <1>2, <2>1, <2>2, AnsweredShapes
<1>3. CASE ~(plan = <<>> /\ todo = {})
  <2> DEFINE next == Resumed(c, plan, todo)
  <2>1. Becomes(c, next) /\ UserWork(next)
    BY <1>3 DEF Continues, Resumed
  <2>2. /\ next \in Calls /\ SameRequest(c, next) /\ next.page = c.page /\ next.pc = "work"
        /\ next.row = c.row /\ next.plan = plan /\ next.todo = todo
    BY <1>1 DEF Calls, SameRequest, Resumed
  <2> HIDE DEF next
  <2>3. Asks(next)
    BY <1>1, <2>2 DEF Typed, Asks, SameRequest
  <2>4. Rests(next)
    BY <1>1, <2>2 DEF Typed, Rests, SameRequest
  <2>5. Typed(next)
    BY <2>1, <2>2, <2>3, <2>4 DEF Typed
  <2>6. /\ \A b \in calls' : Typed(b) /\ (b \in calls \ {c} \/ b = next)
        /\ \A b \in calls \ {c} : b \in calls'
        /\ next \in calls'
    BY <2>1, <2>5, NextCall
  <2> QED BY <1>3, <2>2, <2>6
<1> QED BY <1>2, <1>3

LEMMA SaveUserKept ==
  ASSUME Tables, KeysInv, NEW c \in calls, Saves(c), c.target \in Users, Unchanged
  PROVE  Tables' /\ KeysInv'
<1> DEFINE row == c.row[1]
<1>1. Typed(c) /\ c \in Calls /\ c.pc = "work" /\ c.todo = {} /\ OwnsRows(c) /\ SweepsKeys(c) /\ c.grant \in BOOLEAN
  BY CallFields DEF Tables, Typed, Saves, KeysInv, RowsOwned, KeysSwept
<1>2. Users \cap Keys = {}
  BY AdminAssumption DEF AllKeys
<1>3. UserWork(c) /\ row \in UserRows
  <2>1. UserWork(c)
    BY <1>1, <1>2 DEF Typed, KeyWork
  <2>2. PICK r \in UserRows : c.row = <<r>>
    BY <2>1 DEF UserWork
  <2> QED BY <2>1, <2>2
<1>4. SaveUser(c, c.target, row) /\ Continues(c, Tail(c.plan), {}) /\ c.plan # <<>> /\ Head(c.plan) = "save"
  BY <1>2 DEF Saves
<1> HIDE DEF row
<1>5. \/ c.plan = <<"save">> /\ Tail(c.plan) = <<>> /\ (Grants(c) \/ Demotes(c))
      \/ c.plan = <<"save", c.arg>> /\ Tail(c.plan) = <<c.arg>> /\ Revokes(c) /\ c.arg \in UserPermissions
  <2>1. "PERM_API" \in UserPermissions
    BY DEF UserPermissions
  <2>2. CASE Grants(c)
    BY <2>1, <2>2, ShortPlans DEF Grants
  <2>3. CASE Demotes(c)
    BY <1>4, <2>1, <2>3, Plans, ShortPlans DEF Demotes
  <2>4. CASE Revokes(c)
    <3>1. c.arg \in UserPermissions
      BY <1>1, <1>2, <2>4 DEF Typed, Asks, Revokes
    <3> QED BY <1>4, <2>4, <3>1, ShortPlans DEF Revokes
  <2> QED BY <1>3, <2>2, <2>3, <2>4 DEF UserWork
<1>6. Tail(c.plan) \in PlanSeq /\ {} \in TodoSets
  <2>1. "PERM_API" \in UserPermissions
    BY DEF UserPermissions
  <2>2. Tail(c.plan) \in PlanSeq
    BY <1>5, <2>1, ShortPlans
  <2> QED BY <2>2 DEF TodoSets
<1> DEFINE next == Resumed(c, Tail(c.plan), {})
<1>7. Tail(c.plan) # <<>> => UserWork(next)
  <2> SUFFICES ASSUME Tail(c.plan) # <<>> PROVE UserWork(next)
    OBVIOUS
  <2>1. SameRequest(c, next) /\ next.plan = <<c.arg>> /\ next.todo = {} /\ next.row = c.row
    BY <1>1, <1>5 DEF Calls, SameRequest, Resumed
  <2> HIDE DEF next
  <2>2. Revokes(next)
    BY <1>5, <2>1 DEF Revokes, SameRequest
  <2> QED BY <1>3, <2>1, <2>2 DEF UserWork, SameRequest
<1>8. /\ \A b \in calls' : Typed(b)
      /\ \A b \in calls' : \/ b \in calls \ {c} \/ b.pc # "work"
                           \/ /\ Tail(c.plan) # <<>>
                              /\ b \in Calls /\ SameRequest(c, b) /\ b.pc = "work" /\ b.row = c.row
                              /\ b.plan = Tail(c.plan) /\ b.todo = {}
      /\ \A b \in calls \ {c} : b \in calls'
      /\ Tail(c.plan) # <<>> => \E b \in calls' : b.pc = "work" /\ SameRequest(c, b)
  <2> DEFINE plan == Tail(c.plan)
             todo == {}
  <2>1. /\ Continues(c, plan, todo) /\ plan \in PlanSeq /\ todo \in TodoSets
        /\ ~(plan = <<>> /\ todo = {}) => UserWork(Resumed(c, plan, todo))
    BY <1>4, <1>6, <1>7
  <2> HIDE DEF plan, todo
  <2>2. /\ \A b \in calls' : Typed(b)
        /\ \A b \in calls' : \/ b \in calls \ {c} \/ b.pc # "work"
                             \/ /\ ~(plan = <<>> /\ todo = {})
                                /\ b \in Calls /\ SameRequest(c, b) /\ b.pc = "work" /\ b.row = c.row
                                /\ b.plan = plan /\ b.todo = todo
        /\ \A b \in calls \ {c} : b \in calls'
        /\ ~(plan = <<>> /\ todo = {}) => \E b \in calls' : b.pc = "work" /\ SameRequest(c, b)
    BY <1>1, <2>1, ContinuedShapes
  <2> QED BY <2>2 DEF plan, todo
<1>9. Tables'
  BY <1>3, <1>4, <1>8, UserTables DEF Tables, Unchanged, Now
<1>10. /\ key' = key /\ user' = [user EXCEPT ![c.target] = row]
       /\ overtaken' = overtaken \cup
            {x \in AllKeys \X Gated : /\ key[x[1]].owner = c.target
                                      /\ x[2] \in key[x[1]].perms
                                      /\ Needs[x[2]] \in (user[c.target].perms \ row.perms) \ Intended(c)}
  BY <1>4 DEF SaveUser
<1>11. \A b \in calls' : b.pc = "work" => OwnsRows(b) /\ SweepsKeys(b)
  <2> SUFFICES ASSUME NEW b \in calls', b.pc = "work", b \notin calls \ {c}
               PROVE  OwnsRows(b) /\ SweepsKeys(b)
    BY DEF KeysInv, RowsOwned, KeysSwept
  <2>1. SameRequest(c, b) /\ b.plan = <<c.arg>> /\ b.todo = {} /\ Revokes(c) /\ c.arg \in UserPermissions
    BY <1>5, <1>8
  <2>2. Cuts(b) = {c.arg} /\ b.target = c.target
    BY <2>1, SameCuts DEF Cuts, Revokes
  <2>3. Done(b) = {}
    BY <2>1, <2>2, ShortPlans DEF Done
  <2> QED BY <1>2, <2>1, <2>2, <2>3 DEF OwnsRows, SweepsKeys
<1>12. Tail(c.plan) = <<>> => Finished(c)
  <2> SUFFICES ASSUME c.plan = <<"save">>, Grants(c) \/ Demotes(c),
                      NEW k \in AllKeys, key[k].owner = c.target,
                      NEW p \in key[k].perms \cap Gated, Needs[p] \in Cuts(c)
               PROVE  <<k, p>> \in overtaken
    BY <1>5, ShortPlans DEF Finished
  <2>1. Needs[p] \in Done(c)
    BY SweptNeeds, ShortPlans DEF Done, UserPermissions
  <2>2. ~Dropped(c, k, p)
    BY <1>1 DEF Dropped
  <2> QED BY <1>1, <2>1, <2>2 DEF SweepsKeys
<1>13. \A b \in calls : b.pc = "work" => Finished(b) \/ \E d \in calls' : d.pc = "work" /\ SameRequest(b, d)
  BY <1>8, <1>12 DEF SameRequest
<1>14. ASSUME NEW k \in AllKeys, NEW p \in key[k].perms \cap Gated,
              Needs[p] \in user[key[k].owner].perms \ user'[key[k].owner].perms
       PROVE  \/ <<k, p>> \in overtaken'
              \/ \E d \in calls' : d.pc = "work" /\ d.target = key[k].owner /\ Needs[p] \in Cuts(d)
  <2>1. key[k].owner \in Users /\ user \in [Users -> UserRows]
    BY DEF Tables, KeyRows
  <2>2. key[k].owner = c.target
    BY <1>10, <1>14, <2>1
  <2>3. user'[c.target] = row
    BY <1>10, <2>1, <2>2
  <2>4. Needs[p] \in user[c.target].perms \ row.perms /\ Needs[p] \in UserPermissions
    BY <1>14, <2>2, <2>3, SweptNeeds
  <2>5. CASE Needs[p] \notin Intended(c)
    BY <1>10, <2>2, <2>4, <2>5
  <2>6. CASE Needs[p] \in Intended(c)
    <3>1. ~Grants(c)
      BY <2>4, <2>6 DEF Grants, Intended, row
    <3>2. CASE Demotes(c)
      <4>1. Needs[p] \in Cuts(c) /\ c.plan = <<"save">> /\ Tail(c.plan) = <<>>
        BY <1>5, <3>2, SweptNeeds DEF Demotes, Revokes, Cuts
      <4> QED BY <1>10, <1>12, <2>2, <4>1 DEF Finished
    <3>3. CASE ~Demotes(c)
      <4>1. Revokes(c) /\ Tail(c.plan) # <<>>
        BY <1>5, <3>1, <3>3, ShortPlans
      <4>2. Needs[p] \in Cuts(c)
        BY <2>6, <4>1 DEF Revokes, Cuts, Intended
      <4> QED BY <1>8, <2>2, <4>1, <4>2, SameCuts
    <3> QED BY <3>2, <3>3
  <2> QED BY <2>5, <2>6
<1>15. key' = key /\ overtaken \subseteq overtaken'
  BY <1>10
<1> HIDE DEF Tables, KeysInv
<1>16. KeysInv'
  BY <1>11, <1>13, <1>14, <1>15, UserSaved
<1> QED BY <1>9, <1>16

LEMMA SaveKeyKept ==
  ASSUME Tables, KeysInv, NEW c \in calls, Saves(c), c.target \in Keys, Unchanged
  PROVE  Tables' /\ KeysInv'
<1> DEFINE row == c.row[1]
<1>1. Typed(c) /\ c \in Calls /\ c.pc = "work" /\ OwnsRows(c)
  BY DEF Tables, Typed, Saves, KeysInv, RowsOwned
<1>2. Users \cap Keys = {} /\ c.target \in AllKeys
  BY AdminAssumption DEF AllKeys
<1>3. KeyWork(c) /\ row \in KeyRows /\ row.state = "live"
  <2>1. KeyWork(c)
    BY <1>1, <1>2 DEF Typed, UserWork
  <2>2. PICK r \in KeyRows : c.row = <<r>> /\ r.state = "live"
    BY <2>1 DEF KeyWork
  <2> QED BY <2>1, <2>2
<1>4. SaveApiKey(c, c.target, row) /\ Continues(c, Tail(c.plan), {})
  BY <1>2 DEF Saves
<1>5. row.owner = key[c.target].owner
  BY <1>1 DEF OwnsRows
<1> HIDE DEF row
<1>6. c.plan = <<"save">> /\ Tail(c.plan) = <<>> /\ Cuts(c) = {}
  <2>1. "PERM_API" \in UserPermissions
    BY DEF UserPermissions
  <2> QED BY <1>3, <2>1, ShortPlans DEF KeyWork, Cuts
<1>7. Answered(c, "ok")
  BY <1>4, <1>6 DEF Continues
<1>8. c.op \notin {"createUser", "createKey"}
  BY <1>3 DEF KeyWork
<1>9. /\ \A b \in calls' : Typed(b) /\ (b \in calls \ {c} \/ b.pc # "work")
      /\ \A b \in calls \ {c} : b \in calls'
  BY <1>7, <1>8, AnsweredShapes
<1>10. Tables'
  BY <1>2, <1>3, <1>4, <1>9, KeyTables DEF Tables, Unchanged, Now
<1>11. \A b \in calls : b.pc = "work" => (b \in calls' /\ SameRequest(b, b)) \/ Cuts(b) = {}
  BY <1>6, <1>9 DEF SameRequest
<1>12. \A b \in calls' : b.pc = "work" => b \in calls /\ SameRequest(b, b)
  BY <1>9 DEF SameRequest
<1>13. /\ key' = [key EXCEPT ![c.target] = row] /\ user' = user
       /\ overtaken' = overtaken \cup Overtakes(c.target, row)
  BY <1>4 DEF SaveApiKey
<1> HIDE DEF Tables, KeysInv
<1>14. KeysInv'
  BY <1>2, <1>3, <1>5, <1>11, <1>12, <1>13, KeySaved
<1> QED BY <1>10, <1>14

LEMMA SweepKept ==
  ASSUME Tables, KeysInv, NEW c \in calls, updateApiKeyPermsOnUserPermChange(c), Unchanged
  PROVE  Tables' /\ KeysInv'
<1> DEFINE lost == Affected(Head(c.plan))
           hit == {k \in AllKeys : key[k].owner = c.target /\ key[k].perms \cap lost # {}}
           todo == {<<k, [key[k] EXCEPT !.perms = @ \ lost]>> : k \in hit}
<1>1. Typed(c) /\ c \in Calls /\ c.pc = "work" /\ c.todo = {} /\ SweepsKeys(c)
  BY DEF Tables, Typed, KeysInv, KeysSwept, updateApiKeyPermsOnUserPermChange
<1>2. /\ c.plan # <<>> /\ Head(c.plan) # "save" /\ Continues(c, Tail(c.plan), todo)
      /\ UNCHANGED <<user, key, overtaken, excused>>
  BY DEF updateApiKeyPermsOnUserPermChange
<1>3. \A k \in hit : k \in AllKeys /\ key[k] \in KeyRows /\ key[k].owner = c.target /\ key[k].state = "live"
  BY DEF Tables, KeysInv, DeadKeys
<1> HIDE DEF hit
<1>4. \A x \in todo : /\ x \in AllKeys \X KeyRows /\ x[1] \in hit /\ x = <<x[1], [key[x[1]] EXCEPT !.perms = @ \ lost]>>
                      /\ x[2].owner = c.target /\ x[2].state = "live"
                      /\ x[2].perms = key[x[1]].perms \ lost
  <2> SUFFICES ASSUME NEW x \in todo
               PROVE  /\ x \in AllKeys \X KeyRows /\ x[1] \in hit
                      /\ x = <<x[1], [key[x[1]] EXCEPT !.perms = @ \ lost]>>
                      /\ x[2].owner = c.target /\ x[2].state = "live"
                      /\ x[2].perms = key[x[1]].perms \ lost
    OBVIOUS
  <2>1. PICK k \in hit : x = <<k, [key[k] EXCEPT !.perms = @ \ lost]>>
    OBVIOUS
  <2> DEFINE row == [key[k] EXCEPT !.perms = @ \ lost]
  <2>2. row \in KeyRows /\ row.owner = c.target /\ row.state = "live" /\ row.perms = key[k].perms \ lost
    BY <1>3 DEF KeyRows
  <2>3. x = <<k, row>> /\ x[1] = k /\ x[2] = row
    BY <2>1
  <2>4. x = <<x[1], [key[x[1]] EXCEPT !.perms = @ \ lost]>>
    BY <2>1
  <2> HIDE DEF row
  <2> QED BY <1>3, <2>2, <2>3, <2>4
<1>5. \A x, y \in todo : x[1] = y[1] => x = y
  <2> SUFFICES ASSUME NEW x \in todo, NEW y \in todo, x[1] = y[1] PROVE x = y
    OBVIOUS
  <2> QED BY <1>4
<1>6. \A k \in hit : \E x \in todo : x[1] = k
  <2> SUFFICES ASSUME NEW k \in hit PROVE \E x \in todo : x[1] = k
    OBVIOUS
  <2> DEFINE y == <<k, [key[k] EXCEPT !.perms = @ \ lost]>>
  <2>1. y \in todo /\ y[1] = k
    OBVIOUS
  <2> QED BY <2>1
<1> HIDE DEF todo
<1>7. todo \in TodoSets
  BY <1>4 DEF TodoSets
<1>8. Users \cap Keys = {}
  BY AdminAssumption DEF AllKeys
<1>9. /\ UserWork(c)
      /\ \/ Revokes(c) /\ c.plan = <<c.arg>> /\ Head(c.plan) = c.arg /\ Tail(c.plan) = <<>> /\ c.arg \in UserPermissions
         \/ Demotes(c) /\ Tail(c.plan) \in DemotionPlans
  <2>1. "PERM_API" \in UserPermissions
    BY DEF UserPermissions
  <2>2. UserWork(c) /\ ~Grants(c)
    BY <1>1, <1>2, <2>1, ShortPlans DEF Typed, KeyWork, Grants
  <2>3. CASE Revokes(c)
    <3>1. c.arg \in UserPermissions
      BY <1>1, <1>8, <2>2, <2>3 DEF Typed, Asks, Revokes, UserWork
    <3> QED BY <1>2, <2>2, <2>3, <3>1, ShortPlans DEF Revokes
  <2>4. CASE Demotes(c)
    BY <1>2, <2>1, <2>2, <2>4, ShortPlans, Plans DEF Demotes
  <2> QED BY <2>2, <2>3, <2>4 DEF UserWork
<1>10. Tail(c.plan) \in PlanSeq /\ Range(c.plan) \subseteq {Head(c.plan)} \cup Range(Tail(c.plan))
  BY <1>9, ShortPlans, Plans DEF Demotes
<1> DEFINE next == Resumed(c, Tail(c.plan), todo)
<1>11. ~(Tail(c.plan) = <<>> /\ todo = {}) =>
          UserWork(next)
  <2> SUFFICES ASSUME ~(Tail(c.plan) = <<>> /\ todo = {}) PROVE UserWork(next)
    OBVIOUS
  <2>1. SameRequest(c, next) /\ next.plan = Tail(c.plan) /\ next.todo = todo /\ next.row = c.row
    BY <1>1 DEF Calls, SameRequest, Resumed
  <2> HIDE DEF next
  <2>2. Revokes(next) \/ Demotes(next)
    BY <1>9, <2>1 DEF Revokes, Demotes, SameRequest
  <2> QED BY <1>4, <1>5, <1>9, <2>1, <2>2 DEF UserWork, SameRequest
<1>12. /\ \A b \in calls' : Typed(b)
       /\ \A b \in calls' : \/ b \in calls \ {c} \/ b.pc # "work"
                            \/ SameRequest(c, b) /\ b.plan = Tail(c.plan) /\ b.todo = todo
       /\ \A b \in calls \ {c} : b \in calls'
       /\ ~(Tail(c.plan) = <<>> /\ todo = {}) => \E b \in calls' : b.pc = "work" /\ SameRequest(c, b)
  <2> DEFINE plan == Tail(c.plan)
  <2>1. /\ Continues(c, plan, todo) /\ plan \in PlanSeq
        /\ ~(plan = <<>> /\ todo = {}) => UserWork(Resumed(c, plan, todo))
    BY <1>2, <1>10, <1>11
  <2> HIDE DEF plan
  <2>2. /\ \A b \in calls' : Typed(b)
        /\ \A b \in calls' : \/ b \in calls \ {c} \/ b.pc # "work"
                             \/ SameRequest(c, b) /\ b.plan = plan /\ b.todo = todo
        /\ \A b \in calls \ {c} : b \in calls'
        /\ ~(plan = <<>> /\ todo = {}) => \E b \in calls' : b.pc = "work" /\ SameRequest(c, b)
    BY <1>1, <1>7, <2>1, ContinuedShapes
  <2> QED BY <2>2 DEF plan
<1>13. Tables'
  BY <1>2, <1>12 DEF Tables, Unchanged, Now
<1>14. ASSUME NEW k \in AllKeys, key[k].owner = c.target, NEW p \in key[k].perms \cap Gated,
              Needs[p] = Head(c.plan)
       PROVE  \E x \in todo : x[1] = k /\ p \notin x[2].perms
  <2>1. p \in lost
    BY <1>14 DEF Affected
  <2>2. k \in hit
    BY <1>14, <2>1 DEF hit
  <2> QED BY <1>4, <1>6, <2>1, <2>2
<1>15. \A b \in calls' : b.pc = "work" => OwnsRows(b) /\ SweepsKeys(b)
  <2> SUFFICES ASSUME NEW b \in calls', b.pc = "work", b \notin calls \ {c}
               PROVE  OwnsRows(b) /\ SweepsKeys(b)
    BY DEF KeysInv, RowsOwned, KeysSwept
  <2>1. SameRequest(c, b) /\ b.plan = Tail(c.plan) /\ b.todo = todo
    BY <1>12
  <2>2. Cuts(b) = Cuts(c) /\ b.target = c.target
    BY <2>1, SameCuts
  <2>3. OwnsRows(b)
    BY <1>3, <1>4, <1>8, <1>9, <2>1, <2>2 DEF OwnsRows, UserWork
  <2>4. SweepsKeys(b)
    <3> SUFFICES ASSUME NEW k \in AllKeys, key[k].owner = c.target, NEW p \in key[k].perms \cap Gated,
                        Needs[p] \in Done(b), <<k, p>> \notin overtaken
                 PROVE  Dropped(b, k, p)
      BY <2>2 DEF SweepsKeys
    <3>1. Needs[p] \in Cuts(c) /\ Needs[p] \notin Range(Tail(c.plan))
      BY <2>1, <2>2 DEF Done
    <3>2. CASE Needs[p] = Head(c.plan)
      BY <1>14, <2>1, <3>2 DEF Dropped
    <3>3. CASE Needs[p] # Head(c.plan)
      <4>1. Needs[p] \in Done(c)
        BY <1>10, <3>1, <3>3 DEF Done
      <4> QED BY <1>1, <4>1 DEF SweepsKeys, Dropped
    <3> QED BY <3>2, <3>3
  <2> QED BY <2>3, <2>4
<1>16. Tail(c.plan) = <<>> /\ todo = {} => Finished(c)
  <2> SUFFICES ASSUME Tail(c.plan) = <<>>, todo = {},
                      NEW k \in AllKeys, key[k].owner = c.target,
                      NEW p \in key[k].perms \cap Gated, Needs[p] \in Cuts(c)
               PROVE  FALSE
    BY DEF Finished
  <2>1. Revokes(c) /\ Head(c.plan) = c.arg
    BY <1>9, Plans
  <2>2. Needs[p] = Head(c.plan)
    BY <2>1 DEF Cuts, Revokes
  <2> QED BY <1>14, <2>2
<1>17. \A b \in calls : b.pc = "work" => Finished(b) \/ \E d \in calls' : d.pc = "work" /\ SameRequest(b, d)
  BY <1>12, <1>16 DEF SameRequest
<1> HIDE DEF Tables, KeysInv
<1>18. KeysInv'
  BY <1>2, <1>15, <1>17, TablesKept
<1> QED BY <1>13, <1>18

LEMMA SweptKept ==
  ASSUME Tables, KeysInv, NEW c \in calls, SavesSwept(c), Unchanged
  PROVE  Tables' /\ KeysInv'
<1>1. Typed(c) /\ c \in Calls /\ c.pc = "work" /\ OwnsRows(c) /\ c.plan \in PlanSeq /\ c.todo \in TodoSets
  BY CallFields DEF Tables, Typed, SavesSwept, KeysInv, RowsOwned
<1>2. PICK x \in c.todo : /\ SaveApiKey([c EXCEPT !.page = "gone"], x[1], x[2])
                          /\ Continues(c, c.plan, c.todo \ {x})
  BY DEF SavesSwept
<1> DEFINE rest == c.todo \ {x}
<1>3. rest \in TodoSets /\ x[1] \in AllKeys /\ x[2] \in KeyRows /\ x = <<x[1], x[2]>>
  BY <1>1 DEF TodoSets
<1>4. /\ UserWork(c) /\ x[2].state = "live" /\ x[2].owner = key[x[1]].owner
      /\ Demotes(c) \/ (Revokes(c) /\ c.plan = <<>>)
  <2>1. UserWork(c) /\ ~Grants(c)
    BY <1>1 DEF Typed, KeyWork, Grants
  <2> QED BY <1>1, <2>1 DEF UserWork, Revokes, OwnsRows
<1> DEFINE next == Resumed(c, c.plan, rest)
<1>5. ~(c.plan = <<>> /\ rest = {}) => UserWork(next)
  <2> SUFFICES ASSUME ~(c.plan = <<>> /\ rest = {}) PROVE UserWork(next)
    OBVIOUS
  <2>1. SameRequest(c, next) /\ next.plan = c.plan /\ next.todo = rest /\ next.row = c.row
    BY <1>1 DEF Calls, SameRequest, Resumed
  <2> HIDE DEF next
  <2>2. Revokes(next) \/ Demotes(next)
    BY <1>4, <2>1 DEF Revokes, Demotes, SameRequest
  <2> QED BY <1>4, <2>1, <2>2 DEF UserWork, SameRequest
<1>6. /\ \A b \in calls' : Typed(b)
      /\ \A b \in calls' : \/ b \in calls \ {c} \/ b.pc # "work"
                           \/ SameRequest(c, b) /\ b.row = c.row /\ b.plan = c.plan /\ b.todo = rest
      /\ \A b \in calls \ {c} : b \in calls'
      /\ ~(c.plan = <<>> /\ rest = {}) => \E b \in calls' : b.pc = "work" /\ SameRequest(c, b)
  <2>1. Continues(c, c.plan, rest)
    BY <1>2
  <2> HIDE DEF rest
  <2> QED BY <1>1, <1>3, <1>5, <2>1, ContinuedShapes
<1>7. Tables'
  BY <1>2, <1>3, <1>6, KeyTables DEF Tables, Unchanged, Now
<1>8. /\ key' = [key EXCEPT ![x[1]] = x[2]] /\ user' = user
      /\ overtaken' = overtaken \cup Overtakes(x[1], x[2])
  BY <1>2 DEF SaveApiKey
<1>9. \A d \in calls' : d.pc = "work" =>
         \E b \in calls : /\ b.pc = "work" /\ SameRequest(b, d) /\ d.row = b.row /\ d.plan = b.plan
                          /\ d.todo \subseteq b.todo /\ \A y \in b.todo \ d.todo : y[1] = x[1] /\ y[2] = x[2]
  <2> SUFFICES ASSUME NEW d \in calls', d.pc = "work"
               PROVE  \E b \in calls : /\ b.pc = "work" /\ SameRequest(b, d) /\ d.row = b.row /\ d.plan = b.plan
                          /\ d.todo \subseteq b.todo /\ \A y \in b.todo \ d.todo : y[1] = x[1] /\ y[2] = x[2]
    OBVIOUS
  <2>1. CASE d \in calls
    BY <2>1 DEF SameRequest
  <2>2. CASE SameRequest(c, d) /\ d.row = c.row /\ d.plan = c.plan /\ d.todo = rest
    BY <1>1, <1>3, <2>2
  <2> QED BY <1>6, <2>1, <2>2
<1>10. \A b \in calls : b.pc = "work" =>
         \/ \E d \in calls' : d.pc = "work" /\ SameRequest(b, d)
         \/ b.plan = <<>> /\ \A y \in b.todo : y[1] = x[1] /\ y[2] = x[2]
  <2>1. \A b \in calls \ {c} : b \in calls' /\ SameRequest(b, b)
    BY <1>6 DEF SameRequest
  <2>2. CASE c.plan = <<>> /\ rest = {}
    BY <1>3, <2>1, <2>2
  <2> QED BY <1>6, <2>1, <2>2
<1> DEFINE k == x[1]
           row == x[2]
<1>13. /\ k \in AllKeys /\ row \in KeyRows /\ row.state = "live" /\ row.owner = key[k].owner
       /\ key' = [key EXCEPT ![k] = row] /\ user' = user
       /\ overtaken' = overtaken \cup Overtakes(k, row)
  BY <1>3, <1>4, <1>8
<1>14. \A d \in calls' : d.pc = "work" =>
         \E b \in calls : /\ b.pc = "work" /\ SameRequest(b, d) /\ d.row = b.row /\ d.plan = b.plan
                          /\ d.todo \subseteq b.todo /\ \A y \in b.todo \ d.todo : y[1] = k /\ y[2] = row
  BY <1>9
<1>15. \A b \in calls : b.pc = "work" =>
         \/ \E d \in calls' : d.pc = "work" /\ SameRequest(b, d)
         \/ Cuts(b) = {}
         \/ b.plan = <<>> /\ \A y \in b.todo : y[1] = k /\ y[2] = row
  BY <1>10
<1>16. row.state # "none" /\ (row.state # "live" => row.perms = {})
  BY <1>13
<1> HIDE DEF Tables, KeysInv, k, row
<1>11. KeysInv'
  BY <1>13, <1>14, <1>15, <1>16, KeySaved
<1> QED BY <1>7, <1>11

-----------------------------------------------------------------------------
(* Connections, and other browsers *)
LEMMA SameWork ==
  ASSUME NEW c, NEW d, SameRequest(c, d), d.row = c.row, d.plan = c.plan, d.todo = c.todo,
         OwnsRows(c), SweepsKeys(c)
  PROVE  OwnsRows(d) /\ SweepsKeys(d)
<1>1. Cuts(d) = Cuts(c) /\ d.target = c.target
  BY SameCuts
<1>2. Done(d) = Done(c) /\ \A k, p : Dropped(d, k, p) <=> Dropped(c, k, p)
  BY <1>1 DEF Done, Dropped
<1> QED BY <1>1, <1>2 DEF OwnsRows, SweepsKeys

Gone(c) == [c EXCEPT !.page = "gone"]

LEMMA GoneShape ==
  ASSUME NEW c, Typed(c), c.pc \in {"sent", "arrived", "work"}
  PROVE  /\ Typed(Gone(c)) /\ SameRequest(c, Gone(c)) /\ Gone(c).pc = c.pc
         /\ Gone(c).row = c.row /\ Gone(c).plan = c.plan /\ Gone(c).todo = c.todo
<1> DEFINE d == Gone(c)
<1>1. /\ d \in Calls /\ SameRequest(c, d) /\ d.page = "gone" /\ d.pc = c.pc /\ d.row = c.row
      /\ d.plan = c.plan /\ d.todo = c.todo /\ d.token = c.token
  BY GoneFields DEF Typed, Gone
<1> HIDE DEF d
<1>2. Asks(d)
  BY <1>1 DEF Typed, Asks, SameRequest
<1>3. Rests(d)
  BY <1>1 DEF Typed, Rests, SameRequest
<1>4. c.pc = "work" => UserWork(d) \/ KeyWork(d)
  <2>1. ASSUME UserWork(c) PROVE UserWork(d)
    BY <1>1, <2>1 DEF UserWork, Grants, Revokes, Demotes, SameRequest
  <2>2. ASSUME KeyWork(c) PROVE KeyWork(d)
    BY <1>1, <2>2 DEF KeyWork, SameRequest
  <2> QED BY <2>1, <2>2 DEF Typed
<1>5. Typed(d)
  BY <1>1, <1>2, <1>3, <1>4 DEF Typed
<1> QED BY <1>1, <1>5 DEF d

LEMMA ErrorShape ==
  ASSUME NEW c, Typed(c), c.page # "gone"
  PROVE  Typed(AnswerTo(c, "error")) /\ AnswerTo(c, "error").pc = "error"
<1> DEFINE d == AnswerTo(c, "error")
<1>1. /\ d \in Calls /\ SameRequest(c, d) /\ d.page = c.page /\ d.pc = "error"
      /\ d.plan = <<>> /\ d.todo = {}
  BY AnswerFields DEF Typed
<1> HIDE DEF d
<1>2. Asks(d) /\ Rests(d)
  BY <1>1 DEF Typed, Asks, Rests, SameRequest
<1>3. Typed(d) /\ d.pc = "error"
  BY <1>1, <1>2 DEF Typed
<1> QED BY <1>3 DEF d

(* Calls go on unheard, are answered with an error, or end. *)
LEMMA UnheardKept ==
  ASSUME Tables, KeysInv, UNCHANGED <<user, key, overtaken>>,
         \A d \in calls' : \/ d \in calls \/ d.pc # "work"
                           \/ \E c \in calls : c.pc = "work" /\ d = Gone(c),
         \A c \in calls : c.pc = "work" => c \in calls' \/ Gone(c) \in calls'
  PROVE  KeysInv'
<1>1. \A c \in calls : c.pc = "work" => /\ SameRequest(c, Gone(c)) /\ Gone(c).pc = "work"
                                        /\ OwnsRows(Gone(c)) /\ SweepsKeys(Gone(c))
  BY GoneShape, SameWork DEF Tables, KeysInv, RowsOwned, KeysSwept
<1>2. \A d \in calls' : d.pc = "work" => OwnsRows(d) /\ SweepsKeys(d)
  BY <1>1 DEF KeysInv, RowsOwned, KeysSwept
<1>3. \A c \in calls : c.pc = "work" => \E d \in calls' : d.pc = "work" /\ SameRequest(c, d)
  BY <1>1 DEF SameRequest
<1> HIDE DEF Tables, KeysInv
<1> QED BY <1>2, <1>3, TablesKept

LEMMA FailsKept ==
  ASSUME Tables, KeysInv, NEW c \in calls, ConnectionFails(c)
  PROVE  Tables' /\ KeysInv'
<1>1. Typed(c) /\ c.page # "gone" /\ \A b \in calls : Typed(b)
  BY DEF Tables, ConnectionFails
<1>2. /\ UNCHANGED <<scenario, user, key, stored, actions, overtaken>>
      /\ faults < Now.maxFaults /\ faults' = faults + 1 /\ excused' \subseteq excused \cup Own(c)
      /\ c.pc \in {"arrived", "work"} => calls' = (calls \ {c}) \cup {AnswerTo(c, "error"), Gone(c)}
      /\ c.pc \notin {"arrived", "work"} => calls' = (calls \ {c}) \cup {AnswerTo(c, "error")}
  BY DEF ConnectionFails, Becomes, Gone
<1>3. /\ Typed(AnswerTo(c, "error")) /\ AnswerTo(c, "error").pc = "error"
      /\ c.pc \in {"arrived", "work"} => Typed(Gone(c)) /\ Gone(c).pc = c.pc
  BY <1>1, ErrorShape, GoneShape
<1>4. /\ \A d \in calls' : /\ Typed(d)
                           /\ \/ d \in calls \/ d.pc # "work"
                              \/ \E b \in calls : b.pc = "work" /\ d = Gone(b)
      /\ \A b \in calls : b.pc = "work" => b \in calls' \/ Gone(b) \in calls'
  BY <1>1, <1>2, <1>3
<1>5. faults' \in 0..Now.maxFaults /\ Now' = Now
  <2>1. Now.maxFaults \in Nat
    BY NowFacts DEF Tables
  <2>2. Now' = Now
    BY <1>2 DEF Now
  <2> HIDE DEF Now
  <2> QED BY <1>2, <2>1, <2>2 DEF Tables
<1>6. excused' \subseteq CellsOf("users") \cup CellsOf("keys")
  BY <1>1, <1>2, OwnCells DEF Tables
<1>7. Tables'
  BY <1>2, <1>4, <1>5, <1>6 DEF Tables
<1> HIDE DEF Tables, KeysInv
<1>8. KeysInv'
  BY <1>2, <1>4, UnheardKept
<1> QED BY <1>7, <1>8

Suits(page, r) ==
    /\ IsRequest(r)
    /\ page = "users" => r.op \in {"modifyUser", "rank", "createUser", "reset"}
    /\ page = "keys" => r.op \in {"modifyKey", "rename", "deleteKey", "createKey"}

LEMMA CallShape ==
  ASSUME NEW page \in Pages \cup {"gone"}, NEW by \in Users,
         NEW pc \in {"token", "sent", "arrived"}, NEW token \in Tokens \cup {NoToken}, NEW as \in Seq(UserRows),
         NEW r, Suits(page, r), page = "gone" => pc = "arrived", pc = "sent" => token \in Tokens
  PROVE  Typed(Call(page, by, pc, token, as, r)) /\ Call(page, by, pc, token, as, r).pc # "work"
<1> DEFINE d == Call(page, by, pc, token, as, r)
<1>1. <<>> \in Seq(UserRows) /\ <<>> \in Seq(AnyRow) /\ <<>> \in PlanSeq
  BY DEF AnyRow, PlanSeq
<1>2. /\ r.needs \in {"PERM_API_MOD", "PERM_MANAGE_USERS"} /\ r.op \in Operations
      /\ r.target \in Users \cup Keys \cup {NoToken}
      /\ r.arg \in UserPermissions \cup ApiPermissions \cup Names \cup {"ADMIN", "USER", ""}
      /\ r.grant \in BOOLEAN
  BY DEF Suits, IsRequest, Operations
<1>3. /\ d.page = page /\ d.by = by /\ d.pc = pc /\ d.token = token
      /\ d.row = <<>> /\ d.plan = <<>> /\ d.todo = {}
      /\ d.needs = r.needs /\ d.op = r.op /\ d.target = r.target /\ d.arg = r.arg /\ d.grant = r.grant
  BY DEF Call
<1>4. d \in Calls
  <2>1. /\ {} \in LockSets /\ {} \in TodoSets
        /\ pc \in {"token", "generate", "sent", "arrived", "work", "ok", "error"}
    BY DEF LockSets, TodoSets
  <2> DEFINE P == Pages \cup {"gone"}
             L == LockSets
             A == UserPermissions \cup ApiPermissions \cup Names \cup {"ADMIN", "USER", ""}
             T == TodoSets
             S == PlanSeq
             R == Seq(AnyRow)
             W == Seq(UserRows)
             G == Users \cup Keys \cup {NoToken}
             K == Tokens \cup {NoToken}
  <2>2. /\ page \in P /\ token \in K /\ as \in W /\ <<>> \in R /\ <<>> \in S /\ {} \in L /\ {} \in T
        /\ r.target \in G /\ r.arg \in A
    BY <1>1, <1>2, <2>1
  <2>3. Calls = [page : P, by : Users,
                 pc : {"token", "generate", "sent", "arrived", "work", "ok", "error"},
                 token : K, as : W, row : R, lock : L, plan : S, todo : T,
                 needs : {"PERM_API_MOD", "PERM_MANAGE_USERS"}, op : Operations,
                 target : G, arg : A, grant : BOOLEAN]
    BY DEF Calls
  <2> HIDE DEF P, L, A, T, S, R, W, G, K
  <2> QED BY <1>2, <2>1, <2>2, <2>3 DEF Call
<1> HIDE DEF d
<1>5. Asks(d)
  BY <1>3 DEF Suits, IsRequest, Asks
<1>6. Rests(d)
  BY <1>3 DEF Rests
<1>7. Typed(d) /\ d.pc # "work"
  BY <1>3, <1>4, <1>5, <1>6 DEF Typed
<1> QED BY <1>7 DEF d

(* Calls begin. *)
LEMMA BegunKept ==
  ASSUME Tables, KeysInv, UNCHANGED <<scenario, user, key, stored, faults, overtaken>>,
         actions < Now.maxActions, actions' = actions + 1,
         excused' \subseteq CellsOf("users") \cup CellsOf("keys"),
         calls \subseteq calls', \A d \in calls' : d \in calls \/ (Typed(d) /\ d.pc # "work")
  PROVE  Tables' /\ KeysInv'
<1>1. actions' \in 0..Now.maxActions /\ Now' = Now
  <2>1. Now.maxActions \in Nat
    BY NowFacts DEF Tables
  <2>2. Now' = Now
    BY DEF Now
  <2> HIDE DEF Now
  <2> QED BY <2>1, <2>2 DEF Tables
<1>2. \A d \in calls' : Typed(d)
  BY DEF Tables
<1>3. Tables'
  BY <1>1, <1>2 DEF Tables
<1> HIDE DEF Tables, KeysInv
<1>4. KeysInv'
  BY UnheardKept
<1> QED BY <1>3, <1>4

LEMMA ElsewhereKept ==
  ASSUME Tables, KeysInv, Elsewhere
  PROVE  Tables' /\ KeysInv'
<1>1. PICK r \in Now.elsewhere :
         calls' = calls \cup {Call("gone", Now.super, "arrived", NoToken, <<user[Now.super]>>, r)}
  BY DEF Elsewhere
<1>2. Now.super \in Users /\ IsRequest(r)
  BY NowFacts DEF Tables
<1>3. <<user[Now.super]>> \in Seq(UserRows)
  BY <1>2 DEF Tables
<1> DEFINE d == Call("gone", Now.super, "arrived", NoToken, <<user[Now.super]>>, r)
<1>4. Typed(d) /\ d.pc # "work"
  <2>1. Suits("gone", r)
    BY <1>2 DEF Suits
  <2> DEFINE by == Now.super
             as == <<user[Now.super]>>
  <2>2. by \in Users /\ as \in Seq(UserRows)
    BY <1>2, <1>3
  <2> HIDE DEF by, as
  <2>3. Typed(Call("gone", by, "arrived", NoToken, as, r)) /\ Call("gone", by, "arrived", NoToken, as, r).pc # "work"
    BY <2>1, <2>2, CallShape
  <2> QED BY <2>3 DEF by, as
<1>5. calls' = calls \cup {d}
  BY <1>1
<1> HIDE DEF d
<1>6. calls \subseteq calls' /\ \A b \in calls' : b \in calls \/ (Typed(b) /\ b.pc # "work")
  BY <1>4, <1>5
<1>7. excused' \subseteq CellsOf("users") \cup CellsOf("keys")
  BY DEF Elsewhere, Tables
<1>8. /\ UNCHANGED <<scenario, user, key, stored, faults, overtaken>>
      /\ actions < Now.maxActions /\ actions' = actions + 1
  BY DEF Elsewhere
<1> HIDE DEF Tables, KeysInv
<1> QED BY <1>6, <1>7, <1>8, BegunKept

LEMMA ServerKept ==
  ASSUME Tables, KeysInv, ServerStep
  PROVE  Tables' /\ KeysInv'
<1>1. ASSUME NEW c \in calls, UNCHANGED <<scenario, actions, faults>>, UNCHANGED stored,
             \/ isAuthorisedForApi(c) \/ Handles(c) \/ Saves(c)
             \/ updateApiKeyPermsOnUserPermChange(c) \/ SavesSwept(c)
      PROVE  Tables' /\ KeysInv'
  <2>1. Unchanged
    BY <1>1 DEF Unchanged
  <2>2. c \in calls
    BY <1>1
  <2>3. Saves(c) => c.target \in Users \/ c.target \in Keys
    BY DEF Saves
  <2> QED BY <1>1, <2>1, <2>2, <2>3, AuthorisedKept, HandlesKept, SaveUserKept, SaveKeyKept, SweepKept, SweptKept
<1>2. ASSUME NEW c \in calls, UNCHANGED <<scenario, actions, faults>>,
             handleGenerateAuthToken(c) \/ Generate(c)
      PROVE  Tables' /\ KeysInv'
  BY <1>2, TokenKept, GenerateKept
<1>3. ASSUME NEW c \in calls, ConnectionFails(c)
      PROVE  Tables' /\ KeysInv'
  BY <1>3, FailsKept
<1>4. ASSUME Elsewhere
      PROVE  Tables' /\ KeysInv'
  BY <1>4, ElsewhereKept
<1> QED BY <1>1, <1>2, <1>3, <1>4 DEF ServerStep

-----------------------------------------------------------------------------
(* The pages *)
UsersPages ==
    [rows : SUBSET Users, granted : SUBSET Cells, processing : SUBSET Cells, fixed : SUBSET Cells,
     next : [Users -> {"ADMIN", "USER", "none"}], perms : SUBSET UserPermissions, admin : BOOLEAN,
     form : {"idle", "busy"},
     reset : [state : {"closed", "open", "sending", "shown"},
              for : SUBSET Users, password : SUBSET Users, left : SUBSET Users]]
KeysPages ==
    [rows : SUBSET Keys, granted : SUBSET KeyCells, processing : SUBSET KeyCells,
     fixed : SUBSET (Keys \X Gated), hidden : SUBSET (Keys \X Gated), name : [Keys -> Names \cup {"", NewName}],
     busy : SUBSET Keys, new : {"idle", "busy"}, can : SUBSET Gated]
PageTypes == usersPage \in UsersPages /\ keysPage \in KeysPages /\ keysPage.hidden \subseteq keysPage.fixed

LEMMA RenderedUsersType ==
  ASSUME Tables, NEW operator \in Users
  PROVE  RenderedUsers(operator) \in UsersPages
<1>1. /\ \A u \in Users : user[u].perms \subseteq UserPermissions
      /\ {u \in Users : user[u].live} \subseteq Users
  BY DEF Tables, UserRows
<1>2. Closed \in [state : {"closed", "open", "sending", "shown"},
                  for : SUBSET Users, password : SUBSET Users, left : SUBSET Users]
  BY DEF Closed
<1> DEFINE R == [state : {"closed", "open", "sending", "shown"},
                 for : SUBSET Users, password : SUBSET Users, left : SUBSET Users]
           C == SUBSET Cells
           Untouchable(u) == user[u].rank = "SUPER" \/ u = operator
           IsAdmin(u) == user[u].rank # "USER"
           granted == {x \in Cells : x[2] \in user[x[1]].perms}
           fixed == {x \in Cells : x[2] \notin user[operator].perms \/ Untouchable(x[1])}
           next == [u \in Users |->
                     IF Untouchable(u) \/ (~IsAdmin(u) /\ ~IsAdmin(operator)) THEN "none"
                     ELSE IF IsAdmin(u) THEN "USER" ELSE "ADMIN"]
           rows == {u \in Users : user[u].live}
           leads == IsAdmin(operator)
           own == user[operator].perms
<1>3. /\ granted \in C /\ fixed \in C /\ {} \in C /\ next \in [Users -> {"ADMIN", "USER", "none"}]
      /\ rows \in SUBSET Users /\ leads \in BOOLEAN /\ own \in SUBSET UserPermissions
  BY <1>1
<1>4. RenderedUsers(operator) =
        [rows |-> rows, granted |-> granted, processing |-> {}, fixed |-> fixed, next |-> next,
         perms |-> own, admin |-> leads, form |-> "idle", reset |-> Closed]
  BY DEF RenderedUsers
<1>5. UsersPages = [rows : SUBSET Users, granted : C, processing : C, fixed : C,
                    next : [Users -> {"ADMIN", "USER", "none"}], perms : SUBSET UserPermissions, admin : BOOLEAN,
                    form : {"idle", "busy"}, reset : R]
  BY DEF UsersPages
<1>6. Closed \in R
  BY <1>2
<1> HIDE DEF R, C, granted, fixed, next, rows, leads, own
<1> QED BY <1>3, <1>4, <1>5, <1>6

LEMMA RenderedKeysType ==
  ASSUME Tables, NEW operator \in Users
  PROVE  RenderedKeys(operator) \in KeysPages /\ RenderedKeys(operator).hidden = RenderedKeys(operator).fixed
<1> DEFINE rows == {k \in Keys : /\ key[k].state = "live"
                                 /\ key[k].owner = operator \/ "PERM_API" \in user[operator].perms}
           unavailable == {x \in rows \X Gated : ~Suffices(user[key[x[1]].owner], x[2])}
           granted == {x \in KeyCells : x[2] \in key[x[1]].perms}
           name == [k \in Keys |-> key[k].name]
           can == {p \in Gated : Suffices(user[operator], p)}
           N == [Keys -> Names \cup {"", NewName}]
           C == SUBSET KeyCells
           F == SUBSET (Keys \X Gated)
<1>1. RenderedKeys(operator) = [rows |-> rows, granted |-> granted, processing |-> {}, fixed |-> unavailable,
                                hidden |-> unavailable, name |-> name, busy |-> {}, new |-> "idle", can |-> can]
  BY DEF RenderedKeys
<1>2. name \in N
  BY DEF Tables, KeyRows, AllKeys
<1>3. /\ rows \in SUBSET Keys /\ {} \in SUBSET Keys /\ granted \in C /\ {} \in C
      /\ can \in SUBSET Gated
  OBVIOUS
<1>4. unavailable \in F
  OBVIOUS
<1>5. KeysPages = [rows : SUBSET Keys, granted : C, processing : C, fixed : F, hidden : F, name : N,
                   busy : SUBSET Keys, new : {"idle", "busy"}, can : SUBSET Gated]
  BY DEF KeysPages
<1> HIDE DEF rows, unavailable, granted, name, can, N, C, F
<1> QED BY <1>1, <1>2, <1>3, <1>4, <1>5

(* Calls of a page *)
LEMMA SendsKept ==
  ASSUME Tables, KeysInv, NEW page \in Pages, NEW requests, \A r \in requests : Suits(page, r),
         Sends(page, requests), UNCHANGED <<scenario, user, key, stored, faults, overtaken>>,
         excused' \subseteq CellsOf("users") \cup CellsOf("keys")
  PROVE  Tables' /\ KeysInv'
<1>1. /\ actions < Now.maxActions /\ actions' = actions + 1
      /\ calls' = calls \cup {getToken(page, Now.operator[page], r) : r \in requests}
  BY DEF Sends
<1>2. Now.operator[page] \in Users
  BY NowFacts DEF Tables
<1>3. ASSUME NEW r \in requests
      PROVE  /\ Typed(getToken(page, Now.operator[page], r))
             /\ getToken(page, Now.operator[page], r).pc # "work"
  <2> DEFINE by == Now.operator[page]
             token == stored[page][r.needs]
             pc == IF token = NoToken THEN "token" ELSE "sent"
             as == <<>>
  <2>1. r.needs \in ApiPermissions
    BY <1>3 DEF Suits, IsRequest, ApiPermissions, Gated, Needs
  <2>2. token \in Tokens \cup {NoToken}
    BY <2>1 DEF Tables
  <2>3. /\ by \in Users /\ pc \in {"token", "sent", "arrived"} /\ (pc = "sent" => token \in Tokens)
        /\ as \in Seq(UserRows) /\ page # "gone" /\ page \in Pages \cup {"gone"} /\ Suits(page, r)
    BY <1>2, <1>3, <2>2 DEF Pages
  <2>4. getToken(page, by, r) = Call(page, by, pc, token, as, r)
    BY DEF getToken
  <2> HIDE DEF by, token, pc, as
  <2>5. Typed(Call(page, by, pc, token, as, r)) /\ Call(page, by, pc, token, as, r).pc # "work"
    BY <2>2, <2>3, CallShape
  <2>6. Typed(getToken(page, by, r)) /\ getToken(page, by, r).pc # "work"
    BY <2>4, <2>5
  <2> QED BY <2>6 DEF by
<1>4. calls \subseteq calls' /\ \A d \in calls' : d \in calls \/ (Typed(d) /\ d.pc # "work")
  BY <1>1, <1>3
<1> HIDE DEF Tables, KeysInv
<1> QED BY <1>1, <1>4, BegunKept

(* An answer is heard. *)
LEMMA HeardKept ==
  ASSUME Tables, KeysInv, NEW c \in calls, c.pc \in {"ok", "error"}, calls' = calls \ {c},
         UNCHANGED <<scenario, user, key, stored, actions, faults, overtaken>>,
         excused' \subseteq CellsOf("users") \cup CellsOf("keys")
  PROVE  Tables' /\ KeysInv'
<1>1. Tables'
  BY DEF Tables, Now
<1>2. \A b \in calls : b.pc = "work" => b \in calls'
  OBVIOUS
<1> HIDE DEF Tables, KeysInv
<1>3. KeysInv'
  BY <1>2, UnheardKept
<1> QED BY <1>1, <1>3

(* A page is loaded again. *)
LEMMA AbandonedKept ==
  ASSUME Tables, KeysInv, calls' = Abandoned("users"),
         stored' = [stored EXCEPT !.users = [p \in ApiPermissions |-> NoToken]],
         excused' \subseteq excused, UNCHANGED <<scenario, user, key, actions, faults, overtaken>>
  PROVE  Tables' /\ KeysInv'
<1>1. \A c \in calls : c.pc \in {"sent", "arrived", "work"} => Typed(Gone(c)) /\ Gone(c).pc = c.pc
  BY GoneShape DEF Tables
<1>2. calls' = {c \in calls : c.page # "users"} \cup
               {Gone(c) : c \in {c \in calls : c.page = "users" /\ c.pc \in {"sent", "arrived", "work"}}}
  BY DEF Abandoned, Gone
<1>3. \A d \in calls' : \/ d \in calls
                        \/ \E c \in calls : c.pc \in {"sent", "arrived", "work"} /\ d = Gone(c)
  BY <1>2
<1>4. \A d \in calls' : Typed(d) /\ \/ d \in calls \/ d.pc # "work"
                                    \/ \E c \in calls : c.pc = "work" /\ d = Gone(c)
  BY <1>1, <1>3 DEF Tables
<1>5. \A c \in calls : c.pc = "work" => c \in calls' \/ Gone(c) \in calls'
  BY <1>2
<1>6. stored' \in [Pages -> [ApiPermissions -> Tokens \cup {NoToken}]]
  BY DEF Tables, Pages
<1>7. Tables'
  BY <1>4, <1>6 DEF Tables, Now
<1> HIDE DEF Tables, KeysInv
<1>8. KeysInv'
  BY <1>4, <1>5, UnheardKept
<1> QED BY <1>7, <1>8

LEMMA AgesKept ==
  ASSUME Tables, KeysInv, NEW page \in Pages, TokenAges(page)
  PROVE  Tables' /\ KeysInv'
<1>1. PICK perm \in ApiPermissions : stored' = [stored EXCEPT ![page][perm] = NoToken]
  BY DEF TokenAges
<1>2. /\ faults < Now.maxFaults /\ faults' = faults + 1
      /\ UNCHANGED <<scenario, user, key, calls, actions, overtaken, excused>>
  BY DEF TokenAges
<1>3. stored' \in [Pages -> [ApiPermissions -> Tokens \cup {NoToken}]]
  BY <1>1 DEF Tables
<1>4. faults' \in 0..Now.maxFaults /\ Now' = Now
  <2>1. Now.maxFaults \in Nat
    BY NowFacts DEF Tables
  <2>2. Now' = Now
    BY <1>2 DEF Now
  <2> HIDE DEF Now
  <2> QED BY <1>2, <2>1, <2>2 DEF Tables
<1>5. Tables'
  BY <1>2, <1>3, <1>4 DEF Tables
<1> HIDE DEF Tables, KeysInv
<1>6. KeysInv'
  BY <1>2, UnheardKept
<1> QED BY <1>5, <1>6

LEMMA UsersFields ==
  ASSUME usersPage \in UsersPages
  PROVE  /\ usersPage.rows \subseteq Users /\ usersPage.granted \subseteq Cells
         /\ usersPage.processing \subseteq Cells /\ usersPage.fixed \subseteq Cells
         /\ usersPage.next \in [Users -> {"ADMIN", "USER", "none"}]
         /\ usersPage.perms \subseteq UserPermissions /\ usersPage.admin \in BOOLEAN
         /\ usersPage.form \in {"idle", "busy"}
         /\ usersPage.reset \in [state : {"closed", "open", "sending", "shown"},
                                 for : SUBSET Users, password : SUBSET Users, left : SUBSET Users]
BY DEF UsersPages

LEMMA UserCallsKept ==
  ASSUME Tables, KeysInv, NEW requests, \A r \in requests : Suits("users", r),
         Sends("users", requests), UNCHANGED <<scenario, user, key, stored, faults, overtaken, excused>>
  PROVE  Tables' /\ KeysInv'
<1>1. excused' \subseteq CellsOf("users") \cup CellsOf("keys") /\ "users" \in Pages
  BY DEF Tables, Pages
<1> HIDE DEF Tables, KeysInv
<1> QED BY <1>1, SendsKept

LEMMA ChangePermissionKept ==
  ASSUME Tables, KeysInv, usersPage \in UsersPages, NEW u, NEW p \in Now.clicked, changeUserPermission(u, p),
         UNCHANGED <<scenario, user, key, stored, faults, overtaken, excused>>
  PROVE  Tables' /\ KeysInv' /\ usersPage' \in UsersPages
<1> DEFINE changed == {p} \cup AlsoChanged(u, p)
           cells == {u} \X changed
<1>1. /\ Changeable(u, p)
      /\ Sends("users", {apiUserModify(u, q, NotGranted(<<u, q>>)) : q \in changed})
      /\ usersPage' = [usersPage EXCEPT !.granted = @ \ cells, !.processing = @ \cup cells]
  BY DEF changeUserPermission
<1>2. u \in Users /\ changed \subseteq UserPermissions
  <2>1. p \in UserPermissions
    BY NowFacts DEF Tables
  <2> QED BY <1>1, <2>1, UsersFields DEF Changeable, AlsoChanged
<1>3. cells \subseteq Cells
  BY <1>2 DEF Cells
<1> HIDE DEF changed, cells
<1>4. usersPage' \in UsersPages
  BY <1>1, <1>3 DEF UsersPages
<1>5. \A q \in changed : Suits("users", apiUserModify(u, q, NotGranted(<<u, q>>)))
  BY <1>2 DEF Suits, IsRequest, apiUserModify, Request, NotGranted
<1> DEFINE requests == {apiUserModify(u, q, NotGranted(<<u, q>>)) : q \in changed}
<1>6. (\A r \in requests : Suits("users", r)) /\ Sends("users", requests)
  BY <1>1, <1>5
<1> HIDE DEF Tables, KeysInv, requests
<1>7. Tables' /\ KeysInv'
  BY <1>6, UserCallsKept
<1> QED BY <1>4, <1>7

LEMMA ChangeRankKept ==
  ASSUME Tables, KeysInv, usersPage \in UsersPages, NEW u, changeRank(u),
         UNCHANGED <<scenario, user, key, stored, faults, overtaken, excused>>
  PROVE  Tables' /\ KeysInv' /\ usersPage' \in UsersPages
<1> DEFINE requests == {apiUserChangeRank(u, usersPage.next[u])}
<1>1. /\ u \in usersPage.rows /\ usersPage.next[u] # "none" /\ Sends("users", requests)
      /\ usersPage' = [usersPage EXCEPT !.next[u] = "none"]
  BY DEF changeRank
<1>2. u \in Users /\ usersPage.next[u] \in {"ADMIN", "USER"}
  BY <1>1, UsersFields
<1>3. usersPage' \in UsersPages
  BY <1>1, <1>2 DEF UsersPages
<1>4. \A r \in requests : Suits("users", r)
  <2>1. Suits("users", apiUserChangeRank(u, usersPage.next[u]))
    BY <1>2 DEF Suits, IsRequest, apiUserChangeRank, Request
  <2> QED BY <2>1
<1> HIDE DEF Tables, KeysInv, requests
<1>5. Tables' /\ KeysInv'
  BY <1>1, <1>4, UserCallsKept
<1> QED BY <1>3, <1>5

LEMMA AddUserKept ==
  ASSUME Tables, KeysInv, usersPage \in UsersPages, NEW u, addNewUser(u),
         UNCHANGED <<scenario, user, key, stored, faults, overtaken, excused>>
  PROVE  Tables' /\ KeysInv' /\ usersPage' \in UsersPages
<1> DEFINE requests == {apiUserCreate(u)}
<1>1. u \in Now.created /\ Sends("users", requests) /\ usersPage' = [usersPage EXCEPT !.form = "busy"]
  BY DEF addNewUser
<1>2. u \in Users
  BY <1>1, NowFacts DEF Tables
<1>3. usersPage' \in UsersPages
  BY <1>1 DEF UsersPages
<1>4. \A r \in requests : Suits("users", r)
  <2>1. Suits("users", apiUserCreate(u))
    BY <1>2 DEF Suits, IsRequest, apiUserCreate, Request
  <2> QED BY <2>1
<1> HIDE DEF Tables, KeysInv, requests
<1>5. Tables' /\ KeysInv'
  BY <1>1, <1>4, UserCallsKept
<1> QED BY <1>3, <1>5

LEMMA ResetSentKept ==
  ASSUME Tables, KeysInv, usersPage \in UsersPages, resetPw,
         UNCHANGED <<scenario, user, key, stored, faults, overtaken, excused>>
  PROVE  Tables' /\ KeysInv' /\ usersPage' \in UsersPages
<1>1. PICK u \in usersPage.reset.for, new \in BOOLEAN : Sends("users", {apiUserResetPassword(u, new)})
  BY DEF resetPw
<1> DEFINE requests == {apiUserResetPassword(u, new)}
<1>2. u \in Users
  BY <1>1, UsersFields
<1>3. usersPage' \in UsersPages
  BY DEF resetPw, UsersPages
<1>4. (\A r \in requests : Suits("users", r)) /\ Sends("users", requests)
  <2>1. Suits("users", apiUserResetPassword(u, new))
    BY <1>2 DEF Suits, IsRequest, apiUserResetPassword, Request
  <2> QED BY <1>1, <2>1
<1> HIDE DEF Tables, KeysInv, requests
<1>5. Tables' /\ KeysInv'
  BY <1>4, UserCallsKept
<1> QED BY <1>3, <1>5

LEMMA ResetDialogType ==
  ASSUME usersPage \in UsersPages, NEW u, showResetPwModal(u) \/ DismissReset
  PROVE  usersPage' \in UsersPages /\ UNCHANGED adminVars
<1> DEFINE R == [state : {"closed", "open", "sending", "shown"},
                 for : SUBSET Users, password : SUBSET Users, left : SUBSET Users]
<1>1. usersPage.reset \in R /\ usersPage.rows \subseteq Users
  BY UsersFields
<1>2. ASSUME NEW r \in R, usersPage' = [usersPage EXCEPT !.reset = r]
      PROVE  usersPage' \in UsersPages
  BY <1>2 DEF UsersPages
<1>3. CASE showResetPwModal(u)
  <2> DEFINE r == [usersPage.reset EXCEPT !.state = "open", !.for = {u}, !.password = usersPage.reset.left]
  <2>1. r \in R
    BY <1>1, <1>3 DEF showResetPwModal
  <2>2. usersPage' = [usersPage EXCEPT !.reset = r]
    BY <1>3 DEF showResetPwModal
  <2> HIDE DEF r, R
  <2> QED BY <1>2, <1>3, <2>1, <2>2 DEF showResetPwModal
<1>4. CASE DismissReset
  <2>1. Hidden \in R
    BY <1>1 DEF Hidden, Closed
  <2> HIDE DEF R
  <2> QED BY <1>2, <1>4, <2>1 DEF DismissReset
<1> QED BY <1>3, <1>4

(* What the page of users makes of an answer *)
UsersAnswered(c) == ModifyUserAnswered(c) \/ RankRefused(c) \/ ResetAnswered(c) \/ CreateUserAnswered(c)

LEMMA UsersAnsweredType ==
  ASSUME Tables, usersPage \in UsersPages, NEW c \in calls, UsersAnswered(c)
  PROVE  usersPage' \in UsersPages
<1>1. Asks(c) /\ Rests(c)
  BY DEF Tables, Typed
<1> DEFINE R == [state : {"closed", "open", "sending", "shown"},
                 for : SUBSET Users, password : SUBSET Users, left : SUBSET Users]
<1>2. usersPage.reset \in R
  BY UsersFields
<1>3. ASSUME NEW r \in R, usersPage' = [usersPage EXCEPT !.reset = r]
      PROVE  usersPage' \in UsersPages
  BY <1>3 DEF UsersPages
<1>4. CASE ModifyUserAnswered(c)
  <2>1. {<<c.target, c.arg>>} \subseteq Cells
    BY <1>1, <1>4 DEF Asks, Cells, ModifyUserAnswered
  <2> DEFINE cell == {<<c.target, c.arg>>}
             granted == IF c.grant = (c.pc = "ok") THEN usersPage.granted \cup cell ELSE usersPage.granted
  <2>2. usersPage' = [usersPage EXCEPT !.processing = @ \ cell, !.granted = granted]
    BY <1>4 DEF ModifyUserAnswered
  <2>3. granted \subseteq Cells /\ usersPage.processing \ cell \subseteq Cells
    BY <2>1, UsersFields
  <2> HIDE DEF cell, granted
  <2> QED BY <2>2, <2>3 DEF UsersPages
<1>5. CASE RankRefused(c)
  <2>1. c.target \in Users /\ c.arg \in {"ADMIN", "USER"}
    BY <1>1, <1>5 DEF Asks, RankRefused
  <2> QED BY <1>5, <2>1 DEF RankRefused, UsersPages
<1>6. CASE ResetAnswered(c)
  <2>1. c.target \in Users
    BY <1>1, <1>6 DEF Asks, ResetAnswered
  <2>2. Hidden \in R
    BY <1>2 DEF Hidden, Closed
  <2>3. \E r \in R : usersPage' = [usersPage EXCEPT !.reset = r]
    <3>1. CASE c.pc = "ok" /\ c.grant
      <4> DEFINE shown == [usersPage.reset EXCEPT !.state = IF usersPage.reset.state = "sending" THEN "shown"
                                                             ELSE usersPage.reset.state,
                                                  !.password = {c.target}]
                 r == IF usersPage.reset.state = "closed" THEN [usersPage.reset EXCEPT !.left = {c.target}] ELSE shown
      <4>1. r \in R
        <5>1. shown \in R
          BY <1>2, <2>1
        <5>2. [usersPage.reset EXCEPT !.left = {c.target}] \in R
          BY <1>2, <2>1
        <5> HIDE DEF R, shown
        <5> QED BY <5>1, <5>2
      <4>2. usersPage' = [usersPage EXCEPT !.reset = r]
        BY <1>6, <3>1 DEF ResetAnswered
      <4> QED BY <4>1, <4>2
    <3>2. CASE c.pc = "ok" /\ ~c.grant
      BY <1>6, <2>2, <3>2 DEF ResetAnswered
    <3>3. CASE c.pc = "error"
      <4> DEFINE another == \E d \in calls \ {c} : d.page = "users" /\ d.op = "reset" /\ d.target = c.target
                 state == IF usersPage.reset.state = "sending" /\ usersPage.reset.for = {c.target} /\ ~another
                          THEN "open" ELSE usersPage.reset.state
                 r == [usersPage.reset EXCEPT !.state = state]
      <4>1. r \in R
        BY <1>2
      <4>2. usersPage' = [usersPage EXCEPT !.reset = r]
        BY <1>6, <3>3 DEF ResetAnswered
      <4> QED BY <4>1, <4>2
    <3> QED BY <1>6, <3>1, <3>2, <3>3 DEF ResetAnswered
  <2> HIDE DEF R
  <2> QED BY <1>3, <2>3
<1>7. CASE CreateUserAnswered(c)
  <2>1. CASE c.pc = "error" /\ usersPage' = [usersPage EXCEPT !.form = "idle"]
    BY <2>1 DEF UsersPages
  <2>2. CASE c.pc = "ok" /\ usersPage' = addRowUser(c.target, c.row[1].perms)
    <3>1. c.target \in Users /\ c.op = "createUser"
      BY <1>1, <1>7 DEF Asks, CreateUserAnswered
    <3>2. PICK row \in UserRows : c.row = <<row>>
      BY <1>1, <2>2, <3>1 DEF Rests
    <3> DEFINE u == c.target
               perms == c.row[1].perms
               rows == usersPage.rows \cup {u}
               granted == {x \in usersPage.granted : x[1] # u} \cup ({u} \X perms)
               fixed == {x \in usersPage.fixed : x[1] # u} \cup {<<u, p>> : p \in UserPermissions \ usersPage.perms}
               next == IF usersPage.admin THEN "ADMIN" ELSE "none"
    <3>3. perms \subseteq UserPermissions
      BY <3>2 DEF UserRows
    <3>4. rows \subseteq Users /\ granted \subseteq Cells /\ fixed \subseteq Cells /\ next \in {"ADMIN", "USER", "none"}
      BY <3>1, <3>3, UsersFields DEF Cells
    <3>5. usersPage' = [usersPage EXCEPT !.form = "idle", !.rows = rows, !.granted = granted, !.fixed = fixed,
                                         !.next[u] = next]
      BY <2>2 DEF addRowUser
    <3>6. u \in Users
      BY <3>1
    <3> HIDE DEF u, perms, rows, granted, fixed, next
    <3> QED BY <3>4, <3>5, <3>6 DEF UsersPages
  <2> QED BY <1>7, <2>1, <2>2 DEF CreateUserAnswered
<1> QED BY <1>4, <1>5, <1>6, <1>7 DEF UsersAnswered

LEMMA UsersKept ==
  ASSUME Tables, KeysInv, usersPage \in UsersPages, UsersStep
  PROVE  Tables' /\ KeysInv' /\ usersPage' \in UsersPages
<1>1. ASSUME NEW u \in Now.edited,
             (\E p \in Now.clicked : changeUserPermission(u, p)) \/ changeRank(u) \/ addNewUser(u),
             UNCHANGED <<scenario, user, key, stored, faults, overtaken, excused>>
      PROVE  Tables' /\ KeysInv' /\ usersPage' \in UsersPages
  BY <1>1, ChangePermissionKept, ChangeRankKept, AddUserKept
<1>2. ASSUME resetPw, UNCHANGED <<scenario, user, key, stored, faults, overtaken, excused>>
      PROVE  Tables' /\ KeysInv' /\ usersPage' \in UsersPages
  BY <1>2, ResetSentKept
<1>3. ASSUME NEW u, showResetPwModal(u) \/ DismissReset
      PROVE  Tables' /\ KeysInv' /\ usersPage' \in UsersPages
  <2>1. usersPage' \in UsersPages /\ UNCHANGED adminVars
    BY <1>3, ResetDialogType
  <2>2. Tables'
    BY <2>1 DEF adminVars, Tables, Now
  <2>3. UNCHANGED <<user, key, overtaken, calls>>
    BY <2>1 DEF adminVars
  <2> HIDE DEF Tables, KeysInv
  <2>4. KeysInv'
    BY <2>3, UnheardKept
  <2> QED BY <2>1, <2>2, <2>4
<1>4. ASSUME NEW c \in calls, c.pc \in {"ok", "error"}, UsersAnswered(c),
             calls' = calls \ {c}, UNCHANGED <<stored, excused>>,
             UNCHANGED <<scenario, user, key, actions, faults, overtaken>>
      PROVE  Tables' /\ KeysInv' /\ usersPage' \in UsersPages
  <2>1. usersPage' \in UsersPages
    BY <1>4, UsersAnsweredType
  <2>2. excused' \subseteq CellsOf("users") \cup CellsOf("keys")
    BY <1>4 DEF Tables
  <2> HIDE DEF Tables, KeysInv
  <2>3. Tables' /\ KeysInv'
    BY <1>4, <2>2, HeardKept
  <2> QED BY <2>1, <2>3
<1>5. ASSUME NEW c \in calls, RankChanged(c), calls' = Abandoned("users"),
             stored' = [stored EXCEPT !.users = [p \in ApiPermissions |-> NoToken]],
             excused' = excused \ CellsOf("users"),
             UNCHANGED <<scenario, user, key, actions, faults, overtaken>>
      PROVE  Tables' /\ KeysInv' /\ usersPage' \in UsersPages
  <2>1. Now.operator.users \in Users
    BY NowFacts DEF Tables, Pages
  <2>2. usersPage' \in UsersPages
    BY <1>5, <2>1, RenderedUsersType DEF RankChanged
  <2>3. excused' \subseteq excused
    BY <1>5
  <2> HIDE DEF Tables, KeysInv
  <2>4. Tables' /\ KeysInv'
    BY <1>5, <2>3, AbandonedKept
  <2> QED BY <2>2, <2>4
<1> QED BY <1>1, <1>2, <1>3, <1>4, <1>5 DEF UsersStep, UsersAnswered

-----------------------------------------------------------------------------
(* The page of keys *)
LEMMA KeysFields ==
  ASSUME keysPage \in KeysPages
  PROVE  /\ keysPage.rows \subseteq Keys /\ keysPage.granted \subseteq KeyCells
         /\ keysPage.processing \subseteq KeyCells /\ keysPage.fixed \subseteq Keys \X Gated
         /\ keysPage.hidden \subseteq Keys \X Gated /\ keysPage.name \in [Keys -> Names \cup {"", NewName}]
         /\ keysPage.busy \subseteq Keys /\ keysPage.new \in {"idle", "busy"} /\ keysPage.can \subseteq Gated
BY DEF KeysPages

KeysShown == keysPage \in KeysPages /\ keysPage.hidden \subseteq keysPage.fixed

LEMMA KeyCallsKept ==
  ASSUME Tables, KeysInv, NEW r, Suits("keys", r),
         Sends("keys", {r}), UNCHANGED <<scenario, user, key, stored, faults, overtaken>>,
         excused' \subseteq CellsOf("users") \cup CellsOf("keys")
  PROVE  Tables' /\ KeysInv'
<1> DEFINE requests == {r}
<1>1. (\A x \in requests : Suits("keys", x)) /\ Sends("keys", requests) /\ "keys" \in Pages
  BY DEF Pages
<1> HIDE DEF Tables, KeysInv, requests
<1> QED BY <1>1, SendsKept

LEMMA KeysSentType ==
  ASSUME KeysShown, NEW k \in Keys, NEW p \in ApiPermissions, NEW name \in Names,
         \/ /\ changeApiPermission(k, p)
         \/ deleteApiKey(k)
         \/ newApiKey
         \/ addFriendlyNameChange(k, name)
  PROVE  KeysShown'
<1>1. <<k, p>> \in KeyCells
  BY DEF KeyCells
<1>2. CASE changeApiPermission(k, p)
  <2> DEFINE cell == {<<k, p>>}
  <2>1. keysPage' = [keysPage EXCEPT !.granted = @ \ cell, !.processing = @ \cup cell] /\ cell \subseteq KeyCells
    BY <1>1, <1>2 DEF changeApiPermission
  <2> HIDE DEF cell
  <2> QED BY <2>1 DEF KeysShown, KeysPages
<1>3. CASE deleteApiKey(k)
  BY <1>3 DEF deleteApiKey, KeysShown, KeysPages
<1>4. CASE newApiKey
  BY <1>4 DEF newApiKey, KeysShown, KeysPages
<1>5. CASE addFriendlyNameChange(k, name)
  BY <1>5 DEF addFriendlyNameChange, KeysShown, KeysPages
<1> QED BY <1>2, <1>3, <1>4, <1>5

LEMMA KeysSentKept ==
  ASSUME Tables, KeysInv, KeysShown, NEW k \in Keys,
         \/ \E p \in Now.keyClicked : changeApiPermission(k, p)
         \/ deleteApiKey(k)
         \/ newApiKey,
         UNCHANGED <<scenario, user, key, stored, faults, overtaken, excused>>
  PROVE  Tables' /\ KeysInv' /\ KeysShown'
<1>1. excused' \subseteq CellsOf("users") \cup CellsOf("keys")
  BY DEF Tables
<1>2. "Unnamed key" \in Names /\ "PERM_VIEW" \in ApiPermissions
  BY AdminAssumption DEF ApiPermissions, ApiPermDefault
<1>3. ASSUME NEW p \in Now.keyClicked, changeApiPermission(k, p) PROVE Tables' /\ KeysInv' /\ KeysShown'
  <2>1. p \in ApiPermissions
    BY NowFacts DEF Tables
  <2> DEFINE r == apiAuthModify(k, p, <<k, p>> \notin keysPage.granted)
  <2>2. Suits("keys", r)
    BY <2>1 DEF Suits, IsRequest, apiAuthModify, Request
  <2>3. Sends("keys", {r})
    BY <1>3 DEF changeApiPermission
  <2>4. KeysShown'
    BY <1>2, <1>3, <2>1, KeysSentType
  <2> HIDE DEF Tables, KeysInv, r
  <2> QED BY <1>1, <2>2, <2>3, <2>4, KeyCallsKept
<1>4. ASSUME deleteApiKey(k) PROVE Tables' /\ KeysInv' /\ KeysShown'
  <2> DEFINE r == apiAuthDelete(k)
  <2>1. Suits("keys", r)
    BY DEF Suits, IsRequest, apiAuthDelete, Request
  <2>2. Sends("keys", {r})
    BY <1>4 DEF deleteApiKey
  <2>3. KeysShown'
    BY <1>2, <1>4, KeysSentType
  <2> HIDE DEF Tables, KeysInv, r
  <2> QED BY <1>1, <2>1, <2>2, <2>3, KeyCallsKept
<1>5. ASSUME newApiKey PROVE Tables' /\ KeysInv' /\ KeysShown'
  <2> DEFINE r == apiAuthCreate
  <2>1. Suits("keys", r)
    BY DEF Suits, IsRequest, apiAuthCreate, Request
  <2>2. Sends("keys", {r})
    BY <1>5 DEF newApiKey
  <2>3. KeysShown'
    BY <1>2, <1>5, KeysSentType
  <2> HIDE DEF Tables, KeysInv, r
  <2> QED BY <1>1, <2>1, <2>2, <2>3, KeyCallsKept
<1> QED BY <1>3, <1>4, <1>5

LEMMA NameSentKept ==
  ASSUME Tables, KeysInv, KeysShown, NEW k \in Keys, NEW name \in Now.typed, addFriendlyNameChange(k, name),
         UNCHANGED <<scenario, user, key, stored, faults, overtaken>>
  PROVE  Tables' /\ KeysInv' /\ KeysShown'
<1>1. name \in Names /\ "PERM_VIEW" \in ApiPermissions
  BY NowFacts DEF Tables, ApiPermissions, ApiPermDefault
<1>2. excused' \subseteq CellsOf("users") \cup CellsOf("keys")
  <2>1. NameCell(k) \in CellsOf("keys")
    BY DEF CellsOf
  <2> QED BY <2>1 DEF addFriendlyNameChange, Tables
<1> DEFINE r == apiAuthFriendlyName(k, name)
<1>3. Suits("keys", r)
  BY <1>1 DEF Suits, IsRequest, apiAuthFriendlyName, Request
<1>4. Sends("keys", {r})
  BY DEF addFriendlyNameChange
<1>5. KeysShown'
  BY <1>1, KeysSentType
<1> HIDE DEF Tables, KeysInv, r
<1> QED BY <1>2, <1>3, <1>4, <1>5, KeyCallsKept

KeysAnswered(c) ==
    ModifyKeyAnswered(c) \/ DeleteKeyAnswered(c) \/ CreateKeyAnswered(c) \/ (c.op = "rename" /\ UNCHANGED keysPage)

LEMMA KeysAnsweredType ==
  ASSUME Tables, KeysShown, NEW c \in calls, c.page = "keys", KeysAnswered(c)
  PROVE  KeysShown'
<1>1. Asks(c) /\ Rests(c)
  BY DEF Tables, Typed
<1>2. CASE ModifyKeyAnswered(c)
  <2>1. {<<c.target, c.arg>>} \subseteq KeyCells
    BY <1>1, <1>2 DEF Asks, KeyCells, ModifyKeyAnswered
  <2> DEFINE cell == {<<c.target, c.arg>>}
             granted == IF c.grant = (c.pc = "ok") THEN keysPage.granted \cup cell ELSE keysPage.granted
  <2>2. keysPage' = [keysPage EXCEPT !.processing = @ \ cell, !.granted = granted]
    BY <1>2 DEF ModifyKeyAnswered
  <2>3. granted \subseteq KeyCells
    BY <2>1, KeysFields DEF KeysShown
  <2> HIDE DEF cell, granted
  <2> QED BY <2>2, <2>3 DEF KeysShown, KeysPages
<1>3. CASE DeleteKeyAnswered(c)
  BY <1>3 DEF DeleteKeyAnswered, KeysShown, KeysPages
<1>4. CASE CreateKeyAnswered(c)
  <2>1. CASE UNCHANGED keysPage
    BY <2>1 DEF KeysShown
  <2>2. CASE c.pc = "ok" /\ keysPage' = addRowApi(c.target)
    <3>1. c.target \in Keys
      BY <1>1, <1>4, <2>2 DEF Rests, CreateKeyAnswered
    <3> DEFINE k == c.target
               rows == keysPage.rows \cup {k}
               granted == keysPage.granted \cup ({k} \X {"PERM_VIEW", "PERM_UPLOAD", "PERM_EDIT", "PERM_DELETE"})
               more == {<<k, p>> : p \in Gated \ keysPage.can}
    <3>2. rows \subseteq Keys /\ granted \subseteq KeyCells /\ more \subseteq Keys \X Gated /\ k \in Keys
      <4>1. {"PERM_VIEW", "PERM_UPLOAD", "PERM_EDIT", "PERM_DELETE"} \subseteq ApiPermissions
        BY DEF ApiPermissions, ApiPermDefault
      <4>2. {k} \X {"PERM_VIEW", "PERM_UPLOAD", "PERM_EDIT", "PERM_DELETE"} \subseteq KeyCells
        BY <3>1, <4>1 DEF KeyCells
      <4>3. more \subseteq Keys \X Gated
        BY <3>1
      <4>4. rows \subseteq Keys /\ granted \subseteq KeyCells
        BY <3>1, <4>2, KeysFields DEF KeysShown
      <4> QED BY <3>1, <4>3, <4>4
    <3>3. keysPage' = [keysPage EXCEPT !.rows = rows, !.new = "idle", !.name[k] = NewName, !.granted = granted,
                                       !.fixed = @ \cup more]
      BY <2>2 DEF addRowApi
    <3> HIDE DEF k, rows, granted, more
    <3> QED BY <3>2, <3>3 DEF KeysShown, KeysPages
  <2> QED BY <1>4, <2>1, <2>2 DEF CreateKeyAnswered
<1>5. CASE UNCHANGED keysPage
  BY <1>5 DEF KeysShown
<1> QED BY <1>2, <1>3, <1>4, <1>5 DEF KeysAnswered

LEMMA KeysAnsweredKept ==
  ASSUME Tables, KeysInv, KeysShown, NEW c \in calls, c.page = "keys", c.pc \in {"ok", "error"}, KeysAnswered(c),
         calls' = calls \ {c},
         excused' = excused \cup (IF c.op = "rename" /\ c.pc = "error" THEN {NameCell(c.target)} ELSE {}),
         UNCHANGED <<scenario, user, key, stored, actions, faults, overtaken>>
  PROVE  Tables' /\ KeysInv' /\ KeysShown'
<1>1. KeysShown'
  BY KeysAnsweredType
<1>2. excused' \subseteq CellsOf("users") \cup CellsOf("keys")
  <2>1. c.op = "rename" => c.target \in Keys
    BY DEF Tables, Typed, Asks
  <2>2. c.op = "rename" => NameCell(c.target) \in CellsOf("keys")
    BY <2>1 DEF CellsOf
  <2> QED BY <2>2 DEF Tables
<1> HIDE DEF Tables, KeysInv
<1>3. Tables' /\ KeysInv'
  BY <1>2, HeardKept
<1> QED BY <1>1, <1>3

LEMMA KeysKept ==
  ASSUME Tables, KeysInv, KeysShown, KeysStep
  PROVE  Tables' /\ KeysInv' /\ KeysShown'
<1>1. ASSUME \/ \E k \in Keys : (\E p \in Now.keyClicked : changeApiPermission(k, p)) \/ deleteApiKey(k)
             \/ newApiKey,
             UNCHANGED <<scenario, user, key, stored, faults, overtaken, excused>>
      PROVE  Tables' /\ KeysInv' /\ KeysShown'
  <2>1. newApiKey => \E k \in Keys : TRUE
    BY DEF newApiKey
  <2> HIDE DEF Tables, KeysInv, KeysShown
  <2> QED BY <1>1, <2>1, KeysSentKept
<1>2. ASSUME NEW k \in Keys, NEW name \in Now.typed, addFriendlyNameChange(k, name),
             UNCHANGED <<scenario, user, key, stored, faults, overtaken>>
      PROVE  Tables' /\ KeysInv' /\ KeysShown'
  BY <1>2, NameSentKept
<1>3. ASSUME NEW c \in calls, c.page = "keys", c.pc \in {"ok", "error"}, KeysAnswered(c), calls' = calls \ {c},
             excused' = excused \cup (IF c.op = "rename" /\ c.pc = "error" THEN {NameCell(c.target)} ELSE {}),
             UNCHANGED <<scenario, user, key, stored, actions, faults, overtaken>>
      PROVE  Tables' /\ KeysInv' /\ KeysShown'
  BY <1>3, KeysAnsweredKept
<1> QED BY <1>1, <1>2, <1>3 DEF KeysStep, KeysAnswered

-----------------------------------------------------------------------------
(* All of it *)
PagesInv == Tables /\ KeysInv /\ usersPage \in UsersPages /\ KeysShown

LEMMA PagesBegin == Init => PagesInv
<1> SUFFICES ASSUME Init PROVE PagesInv
  OBVIOUS
<1> USE DEF Init
<1>1. scenario \in DOMAIN Scenarios /\ AdminInit /\ UsersInit /\ KeysInit
  OBVIOUS
<1>2. /\ DOMAIN Now.user \subseteq Users /\ Now.user \in [DOMAIN Now.user -> UserRows]
      /\ DOMAIN Now.key \subseteq AllKeys /\ Now.key \in [DOMAIN Now.key -> KeyRows]
      /\ \A k \in DOMAIN Now.key :
            /\ Now.key[k].state # "live" => Now.key[k].perms = {}
            /\ \A p \in Now.key[k].perms \cap Gated :
                  Now.key[k].owner \in DOMAIN Now.user /\ Needs[p] \in Now.user[Now.key[k].owner].perms
      /\ Now.maxActions \in Nat /\ Now.maxFaults \in Nat
      /\ Now.operator.users \in Users /\ Now.operator.keys \in Users
  BY <1>1, NowFacts DEF IsScenario, Pages
<1> DEFINE someone == CHOOSE u \in Users : TRUE
           noKey == [state |-> "none", owner |-> someone, perms |-> {}, name |-> ""]
<1>3. someone \in Users
  BY AdminAssumption
<1>4. noKey \in KeyRows /\ noKey.perms = {} /\ NoUser \in UserRows
  BY <1>3 DEF KeyRows, KeyStates, NoUser, UserRows
<1>5. /\ user = [u \in Users |-> IF u \in DOMAIN Now.user THEN Now.user[u] ELSE NoUser]
      /\ key = [k \in AllKeys |-> IF k \in DOMAIN Now.key THEN Now.key[k] ELSE noKey]
      /\ calls = {} /\ actions = 0 /\ faults = 0 /\ overtaken = {} /\ excused = {}
      /\ stored = [page \in Pages |-> [perm \in ApiPermissions |-> NoToken]]
  BY <1>1 DEF AdminInit
<1> HIDE DEF noKey
<1>6. user \in [Users -> UserRows] /\ key \in [AllKeys -> KeyRows]
  BY <1>2, <1>4, <1>5
<1>7. stored \in [Pages -> [ApiPermissions -> Tokens \cup {NoToken}]]
  BY <1>5
<1>8. Tables
  <2>1. actions \in 0..Now.maxActions /\ faults \in 0..Now.maxFaults
    BY <1>2, <1>5
  <2> QED BY <1>1, <1>5, <1>6, <1>7, <2>1 DEF Tables
<1>9. DeadKeys
  BY <1>2, <1>4, <1>5 DEF DeadKeys
<1>10. KeysBounded
  BY <1>2, <1>4, <1>5 DEF KeysBounded
<1>11. KeysInv
  BY <1>5, <1>9, <1>10 DEF KeysInv, RowsOwned, KeysSwept
<1>12. usersPage \in UsersPages
  BY <1>1, <1>2, <1>8, RenderedUsersType DEF UsersInit
<1>13. KeysShown
  BY <1>1, <1>2, <1>8, RenderedKeysType DEF KeysInit, KeysShown
<1> QED BY <1>8, <1>11, <1>12, <1>13 DEF PagesInv

LEMMA PagesStep == PagesInv /\ [Next]_vars => PagesInv'
<1> SUFFICES ASSUME PagesInv, [Next]_vars PROVE PagesInv'
  OBVIOUS
<1>1. Tables /\ KeysInv /\ usersPage \in UsersPages /\ KeysShown
  BY DEF PagesInv
<1>2. CASE UNCHANGED pagesVars
  <2>1. UNCHANGED adminVars /\ UNCHANGED <<usersPage, keysPage>>
    BY <1>2 DEF pagesVars
  <2>2. Tables' /\ UNCHANGED <<user, key, overtaken, calls>>
    BY <1>1, <2>1 DEF adminVars, Tables, Now
  <2>3. usersPage' \in UsersPages /\ KeysShown'
    BY <1>1, <2>1 DEF KeysShown
  <2> HIDE DEF Tables, KeysInv
  <2>4. KeysInv'
    BY <1>1, <2>2, UnheardKept
  <2> QED BY <2>2, <2>3, <2>4 DEF PagesInv
<1>3. CASE UsersStep /\ UNCHANGED keysPage
  BY <1>1, <1>3, UsersKept DEF PagesInv, KeysShown
<1>4. CASE KeysStep /\ UNCHANGED usersPage
  BY <1>1, <1>4, KeysKept DEF PagesInv
<1>5. CASE (TokenAges("users") \/ TokenAges("keys") \/ ServerStep) /\ UNCHANGED <<usersPage, keysPage>>
  <2>1. Tables' /\ KeysInv'
    BY <1>1, <1>5, AgesKept, ServerKept DEF Pages
  <2> QED BY <1>1, <1>5, <2>1 DEF PagesInv, KeysShown
<1> QED BY <1>2, <1>3, <1>4, <1>5 DEF Next, AdminNext, vars

(* Whatever the pages, others and lost connections ask for, in any order, no *)
(* key has a permission that its owner lacks, but for one that is being      *)
(* taken away, or that a race of two handlers has left.                      *)
THEOREM KeysWithinOwners == Spec => []KeysBounded
<1>1. PagesInv => KeysBounded
  BY DEF PagesInv, KeysInv
<1> QED BY <1>1, PagesBegin, PagesStep, PTL DEF Spec

-----------------------------------------------------------------------------
(* What the pages show.  A call has saved what it asks for, or will save it, *)
(* or never will.                                                            *)
Hears(c, op) == c.op = op /\ c.page # "gone"
Saved(c) == c.pc = "ok" \/ (c.pc = "work" /\ (c.plan = <<>> \/ Head(c.plan) # "save"))
Expected(c) == Saved(c) <=> c.grant

(* Rows of the page of users are of users that exist, and the indicators     *)
(* being changed are those that a call is about, one each.                   *)
UserCallTrue(c) ==
    UserCell(c.target, c.arg) \in excused \/ (c.arg \in user[c.target].perms <=> Expected(c))
LiveRows ==
    /\ \A u \in usersPage.rows : user[u].live
    /\ \A x \in usersPage.processing : x[1] \in usersPage.rows /\ x \notin usersPage.granted
UserCalls ==
    \A c \in calls : Hears(c, "modifyUser") =>
        /\ c.target \in usersPage.rows /\ <<c.target, c.arg>> \in usersPage.processing
        /\ UserCallTrue(c)
        /\ \A d \in calls : Hears(d, "modifyUser") /\ d.target = c.target /\ d.arg = c.arg => d = c
NewRow(c) ==
    /\ c.target \notin usersPage.rows /\ user[c.target].live
    /\ \A p \in UserPermissions :
          UserCell(c.target, p) \in excused \/ (p \in c.row[1].perms <=> p \in user[c.target].perms)
NewUsers ==
    \A c \in calls : Hears(c, "createUser") /\ c.pc = "ok" =>
        /\ NewRow(c)
        /\ \A d \in calls : Hears(d, "createUser") /\ d.pc = "ok" /\ d.target = c.target => d = c
UserCellTrue(u, p) ==
    \/ <<u, p>> \in usersPage.granted <=> p \in user[u].perms
    \/ UserCell(u, p) \in excused
    \/ \E c \in calls : Hears(c, "modifyUser") /\ c.target = u /\ c.arg = p
UserCellsTrue == \A u \in usersPage.rows, p \in UserPermissions : UserCellTrue(u, p)
UsersMirror == LiveRows /\ UserCalls /\ NewUsers /\ UserCellsTrue

(* The same of the page of keys, whose rows, names and indicators calls are  *)
(* about                                                                     *)
KeyCallTrue(c) ==
    KeyCell(c.target, c.arg) \in excused \/ (c.arg \in key[c.target].perms <=> Expected(c))
SeenKeys ==
    /\ \A k \in keysPage.rows \cup keysPage.busy : key[k].state # "none"
    /\ \A x \in keysPage.processing : key[x[1]].state # "none" /\ x \notin keysPage.granted
    /\ \A x \in keysPage.granted : key[x[1]].state # "none"
    /\ \A c \in calls : c.target \in Keys /\ c.page # "gone" => key[c.target].state # "none"
KeyCalls ==
    \A c \in calls : Hears(c, "modifyKey") =>
        /\ <<c.target, c.arg>> \in keysPage.processing
        /\ KeyCallTrue(c)
        /\ \A d \in calls : Hears(d, "modifyKey") /\ d.target = c.target /\ d.arg = c.arg => d = c
RowTrue(k) ==
    \/ k \in keysPage.rows <=> key[k].state = "live"
    \/ key[k].owner # Now.operator.keys \/ RowCell(k) \in excused
Deletions ==
    \A c \in calls : Hears(c, "deleteKey") =>
        /\ c.target \in keysPage.busy
        /\ c.pc # "ok" => RowTrue(c.target)
        /\ c.pc = "ok" => key[c.target].state # "live" \/ RowCell(c.target) \in excused
        /\ \A d \in calls : Hears(d, "deleteKey") /\ d.target = c.target => d = c
NewKeyRow(c) ==
    /\ c.target \notin keysPage.rows /\ (key[c.target].state = "live" \/ RowCell(c.target) \in excused)
    /\ key[c.target].name = "Unnamed key" \/ NameCell(c.target) \in excused
    /\ \A p \in ApiPermissions :
          /\ <<c.target, p>> \notin keysPage.granted \cup keysPage.processing
          /\ KeyCell(c.target, p) \in excused \/ (p \in ApiPermDefault <=> p \in key[c.target].perms)
NewKeys ==
    \A c \in calls : Hears(c, "createKey") /\ c.pc = "ok" =>
        NewKeyRow(c) /\ \A d \in calls : d.page # "gone" /\ d.target = c.target => d = c
RowAnswered(k) ==
    \E c \in calls : c.page # "gone" /\ c.op \in {"createKey", "deleteKey"} /\ c.pc = "ok" /\ c.target = k
RowsTrue == \A k \in Keys : RowTrue(k) \/ RowAnswered(k)
NameShown(k) ==
    \/ k \notin keysPage.rows \/ keysPage.name[k] = key[k].name
    \/ keysPage.name[k] = NewName /\ key[k].name = "Unnamed key"
NameTrue(k) ==
    NameCell(k) \notin excused =>
        /\ \A c \in calls : Hears(c, "rename") /\ c.target = k =>
              /\ keysPage.name[k] = c.arg /\ (c.pc = "ok" => key[k].name = c.arg)
              /\ \A d \in calls : Hears(d, "rename") /\ d.target = k => d = c
        /\ NameShown(k) \/ \E c \in calls : Hears(c, "rename") /\ c.target = k
NamesTrue == \A k \in Keys : NameTrue(k)
KeyCellTrue(k, p) ==
    \/ <<k, p>> \in keysPage.granted <=> p \in key[k].perms
    \/ KeyCell(k, p) \in excused
    \/ \E c \in calls : Hears(c, "modifyKey") /\ c.target = k /\ c.arg = p
KeyCellsTrue == \A k \in keysPage.rows, p \in ApiPermissions : KeyCellTrue(k, p)
KeysMirror == SeenKeys /\ KeyCalls /\ Deletions /\ NewKeys /\ RowsTrue /\ NamesTrue /\ KeyCellsTrue

MirrorInv == PagesInv /\ UsersMirror /\ KeysMirror

-----------------------------------------------------------------------------
(* One step of the server: c becomes d, for a page that hears it.            *)
Follows(c, d) ==
    /\ d.page = c.page /\ d.op = c.op /\ d.arg = c.arg /\ d.grant = c.grant
    /\ \A e \in calls' : e.page # "gone" => e = d \/ e \in calls \ {c}
    /\ \A e \in calls \ {c} : e.page # "gone" => e \in calls'
    /\ c.page # "gone" => d \in calls'

(* What it may do to users: a cell changes that was not excused only by the  *)
(* call that the page waits for.                                             *)
UserCellKept(u, p) ==
    \/ UserCell(u, p) \in excused'
    \/ UserCell(u, p) \notin excused /\ (p \in user'[u].perms <=> p \in user[u].perms)
UsersEffects(c, d) ==
    /\ \A u \in Users : user[u].live => user'[u].live
    /\ \A u \in Users, p \in UserPermissions :
          \/ UserCellKept(u, p)
          \/ Hears(c, "modifyUser") /\ u = c.target /\ p = c.arg
          \/ Hears(c, "createUser") /\ u = c.target /\ ~user[u].live
    /\ Hears(c, "modifyUser") =>
          /\ d.target = c.target
          /\ UserCallTrue(c) => \/ UserCell(c.target, c.arg) \in excused'
                                \/ c.arg \in user'[c.target].perms <=> Expected(d)
    /\ Hears(c, "createUser") /\ d.pc = "ok" =>
          /\ d.target = c.target /\ ~user[c.target].live /\ user'[c.target].live
          /\ \A p \in UserPermissions : \/ UserCell(c.target, p) \in excused'
                                        \/ p \in d.row[1].perms <=> p \in user'[c.target].perms

LEMMA UsersServed ==
  ASSUME Tables, usersPage \in UsersPages, UsersMirror, NEW c \in calls, NEW d,
         Follows(c, d), UsersEffects(c, d), UNCHANGED usersPage
  PROVE  UsersMirror'
<1>1. /\ \A e \in calls : /\ Hears(e, "modifyUser") => e.target \in Users /\ e.arg \in UserPermissions
                          /\ Hears(e, "createUser") => e.target \in Users
      /\ usersPage.rows \subseteq Users
  <2>1. \A e \in calls : Asks(e)
    BY DEF Tables, Typed
  <2> QED BY <2>1 DEF Asks, Hears, UsersPages
<1> DEFINE Own_(u, p) == Hears(c, "modifyUser") /\ u = c.target /\ p = c.arg
<1>2. \A u \in usersPage.rows, p \in UserPermissions : UserCellKept(u, p) \/ Own_(u, p)
  BY <1>1 DEF UsersEffects, UsersMirror, LiveRows
<1>3. \A e \in calls' : e.page # "gone" => e = d \/ e \in calls \ {c}
  BY DEF Follows
<1>4. \A e \in calls' : Hears(e, "modifyUser") => 
         \/ e \in calls \ {c}
         \/ e = d /\ Hears(c, "modifyUser") /\ d.target = c.target /\ d.arg = c.arg
  BY <1>3 DEF Hears, Follows, UsersEffects
<1>5. LiveRows'
  BY <1>1 DEF UsersMirror, LiveRows, UsersEffects
<1>6. UserCalls'
  <2> SUFFICES ASSUME NEW e \in calls', Hears(e, "modifyUser")
               PROVE  /\ e.target \in usersPage.rows /\ <<e.target, e.arg>> \in usersPage.processing
                      /\ UserCallTrue(e)'
                      /\ \A b \in calls' : Hears(b, "modifyUser") /\ b.target = e.target /\ b.arg = e.arg => b = e
    BY DEF UserCalls, Hears
  <2>1. CASE e \in calls \ {c}
    <3>1. /\ e.target \in usersPage.rows /\ <<e.target, e.arg>> \in usersPage.processing /\ UserCallTrue(e)
          /\ \A b \in calls : Hears(b, "modifyUser") /\ b.target = e.target /\ b.arg = e.arg => b = e
          /\ e.target \in Users /\ e.arg \in UserPermissions
      BY <1>1, <2>1 DEF UsersMirror, UserCalls
    <3>2. ~Own_(e.target, e.arg)
      BY <2>1, <3>1 DEF Hears
    <3>3. UserCallTrue(e)'
      BY <1>2, <3>1, <3>2 DEF UserCellKept, UserCallTrue, Expected, Saved
    <3> QED BY <1>4, <3>1, <3>2, <3>3
  <2>2. CASE e = d /\ e \notin calls \ {c} /\ Hears(c, "modifyUser") /\ d.target = c.target /\ d.arg = c.arg
    <3>1. /\ c.target \in usersPage.rows /\ <<c.target, c.arg>> \in usersPage.processing /\ UserCallTrue(c)
          /\ \A b \in calls : Hears(b, "modifyUser") /\ b.target = c.target /\ b.arg = c.arg => b = c
      BY <2>2 DEF UsersMirror, UserCalls
    <3>2. UserCallTrue(d)'
      BY <2>2, <3>1 DEF UsersEffects, UserCallTrue, Expected, Saved
    <3> QED BY <1>4, <2>2, <3>1, <3>2
  <2> QED BY <1>4, <2>1, <2>2
<1>7. NewUsers'
  <2> SUFFICES ASSUME NEW e \in calls', Hears(e, "createUser"), e.pc = "ok"
               PROVE  /\ NewRow(e)'
                      /\ \A b \in calls' : Hears(b, "createUser") /\ b.pc = "ok" /\ b.target = e.target => b = e
    BY DEF NewUsers, Hears
  <2>1. /\ e = d \/ e \in calls \ {c}
        /\ \A b \in calls' : Hears(b, "createUser") => b = d \/ b \in calls \ {c}
        /\ d.op = c.op /\ d.page = c.page
    BY <1>3 DEF Hears, Follows
  <2>2. ASSUME NEW b \in calls \ {c}, Hears(b, "createUser"), b.pc = "ok"
        PROVE  /\ b.target \in Users /\ b.target \notin usersPage.rows /\ user[b.target].live
               /\ \A p \in UserPermissions :
                    UserCell(b.target, p) \in excused \/ (p \in b.row[1].perms <=> p \in user[b.target].perms)
               /\ \A a \in calls : Hears(a, "createUser") /\ a.pc = "ok" /\ a.target = b.target => a = b
    BY <1>1, <2>2 DEF UsersMirror, NewUsers, NewRow
  <2>3. Hears(c, "modifyUser") => c.target \in usersPage.rows
    BY DEF UsersMirror, UserCalls
  <2>4. Hears(c, "createUser") /\ d.pc = "ok" => d.target = c.target /\ ~user[c.target].live
    BY DEF UsersEffects
  <2>5. CASE e \in calls \ {c}
    <3>1. \A p \in UserPermissions : UserCellKept(e.target, p)
      BY <2>2, <2>3, <2>5 DEF UsersEffects
    <3>2. NewRow(e)'
      BY <2>2, <2>5, <3>1 DEF NewRow, UserCellKept, UsersEffects
    <3> QED BY <2>1, <2>2, <2>4, <2>5, <3>2 DEF Hears
  <2>6. CASE e = d /\ e \notin calls \ {c}
    <3>1. Hears(c, "createUser") /\ d.pc = "ok"
      BY <2>1, <2>6 DEF Hears
    <3>2. c.target \in Users /\ ~user[c.target].live /\ c.target \notin usersPage.rows
      BY <1>1, <2>4, <3>1 DEF UsersMirror, LiveRows
    <3>3. NewRow(d)'
      BY <3>1, <3>2 DEF NewRow, UsersEffects
    <3> QED BY <2>1, <2>2, <2>4, <2>6, <3>1, <3>2, <3>3
  <2> QED BY <2>1, <2>5, <2>6
<1>8. UserCellsTrue'
  <2> SUFFICES ASSUME NEW u \in usersPage.rows, NEW p \in UserPermissions
               PROVE  UserCellTrue(u, p)'
    BY DEF UserCellsTrue
  <2>1. CASE Own_(u, p)
    <3>1. d \in calls' /\ Hears(d, "modifyUser") /\ d.target = u /\ d.arg = p
      BY <2>1 DEF Follows, Hears, UsersEffects
    <3> QED BY <3>1 DEF UserCellTrue, Hears
  <2>2. CASE ~Own_(u, p)
    <3>1. UserCellKept(u, p)
      BY <1>2, <2>2
    <3>2. \A e \in calls : Hears(e, "modifyUser") /\ e.target = u /\ e.arg = p => e \in calls'
      BY <2>2 DEF Follows, Hears
    <3>3. UserCellTrue(u, p)
      BY DEF UsersMirror, UserCellsTrue
    <3> QED BY <3>1, <3>2, <3>3 DEF UserCellKept, UserCellTrue, Hears
  <2> QED BY <2>1, <2>2
<1> QED BY <1>5, <1>6, <1>7, <1>8 DEF UsersMirror

(* Steps that neither users nor their page take part in *)
SameUserCells ==
    \A u \in Users, p \in UserPermissions : UserCell(u, p) \in excused' <=> UserCell(u, p) \in excused
SameUserCalls ==
    \A e : Hears(e, "modifyUser") \/ (Hears(e, "createUser") /\ e.pc = "ok") => (e \in calls' <=> e \in calls)
SameUserTable ==
    usersPage'.rows = usersPage.rows /\ usersPage'.granted = usersPage.granted /\ usersPage'.processing = usersPage.processing

LEMMA UserTypes ==
  ASSUME Tables, usersPage \in UsersPages
  PROVE  /\ \A e \in calls : /\ Hears(e, "modifyUser") => e.target \in Users /\ e.arg \in UserPermissions
                             /\ Hears(e, "createUser") => e.target \in Users
         /\ usersPage.rows \subseteq Users
         /\ usersPage.granted \subseteq Cells /\ usersPage.processing \subseteq Cells
<1>1. \A e \in calls : Asks(e)
  BY DEF Tables, Typed
<1> QED BY <1>1, UsersFields DEF Asks, Hears

LEMMA UsersAlone ==
  ASSUME Tables, usersPage \in UsersPages, UsersMirror, UNCHANGED user,
         SameUserCells, SameUserCalls, SameUserTable
  PROVE  UsersMirror'
<1>1. LiveRows'
  BY DEF UsersMirror, LiveRows, SameUserTable
<1>2. UserCalls'
  <2> SUFFICES ASSUME NEW e \in calls', Hears(e, "modifyUser")
               PROVE  /\ e.target \in usersPage'.rows /\ <<e.target, e.arg>> \in usersPage'.processing
                      /\ UserCallTrue(e)'
                      /\ \A b \in calls' : Hears(b, "modifyUser") /\ b.target = e.target /\ b.arg = e.arg => b = e
    BY DEF UserCalls, Hears
  <2>1. e \in calls /\ e.target \in Users /\ e.arg \in UserPermissions
    BY UserTypes DEF SameUserCalls
  <2>2. /\ e.target \in usersPage.rows /\ <<e.target, e.arg>> \in usersPage.processing /\ UserCallTrue(e)
        /\ \A b \in calls : Hears(b, "modifyUser") /\ b.target = e.target /\ b.arg = e.arg => b = e
    BY <2>1 DEF UsersMirror, UserCalls
  <2>3. UserCallTrue(e)'
    BY <2>1, <2>2 DEF UserCallTrue, Expected, Saved, SameUserCells
  <2> QED BY <2>2, <2>3 DEF SameUserCalls, SameUserTable
<1>3. NewUsers'
  <2> SUFFICES ASSUME NEW e \in calls', Hears(e, "createUser"), e.pc = "ok"
               PROVE  /\ NewRow(e)'
                      /\ \A b \in calls' : Hears(b, "createUser") /\ b.pc = "ok" /\ b.target = e.target => b = e
    BY DEF NewUsers, Hears
  <2>1. e \in calls /\ e.target \in Users
    BY UserTypes DEF SameUserCalls
  <2>2. /\ NewRow(e)
        /\ \A b \in calls : Hears(b, "createUser") /\ b.pc = "ok" /\ b.target = e.target => b = e
    BY <2>1 DEF UsersMirror, NewUsers
  <2>3. NewRow(e)'
    BY <2>1, <2>2 DEF NewRow, SameUserCells, SameUserTable
  <2> QED BY <2>2, <2>3 DEF SameUserCalls
<1>4. UserCellsTrue'
  <2> SUFFICES ASSUME NEW u \in usersPage'.rows, NEW p \in UserPermissions
               PROVE  UserCellTrue(u, p)'
    BY DEF UserCellsTrue
  <2>1. u \in Users /\ UserCellTrue(u, p)
    BY UserTypes DEF SameUserTable, UsersMirror, UserCellsTrue
  <2> QED BY <2>1 DEF UserCellTrue, SameUserTable, SameUserCells, SameUserCalls, Hears
<1> QED BY <1>1, <1>2, <1>3, <1>4 DEF UsersMirror

(* The calls that a page sends *)
Made(page, r) == getToken(page, Now.operator[page], r)

LEMMA SentCalls ==
  ASSUME NEW page \in Pages, NEW requests, Sends(page, requests)
  PROVE  /\ calls \subseteq calls'
         /\ \A e \in calls' : e \in calls \/ \E r \in requests : e = Made(page, r)
         /\ \A r \in requests : Made(page, r) \in calls'
BY DEF Sends, Made

LEMMA SentIs ==
  ASSUME NEW page \in Pages, NEW r
  PROVE  /\ Made(page, r).page = page /\ page # "gone" /\ Made(page, r).pc \in {"token", "sent"}
         /\ Made(page, r).op = r.op /\ Made(page, r).target = r.target
         /\ Made(page, r).arg = r.arg /\ Made(page, r).grant = r.grant
<1>1. page # "gone"
  BY DEF Pages
<1> QED BY <1>1 DEF Made, getToken, Call

LEMMA PermissionMirror ==
  ASSUME Tables, usersPage \in UsersPages, UsersMirror, NEW u, NEW p \in Now.clicked, changeUserPermission(u, p),
         UNCHANGED <<scenario, user, key, stored, faults, overtaken, excused>>
  PROVE  UsersMirror'
<1> DEFINE changed == {p} \cup AlsoChanged(u, p)
           cells == {u} \X changed
           req(q) == apiUserModify(u, q, NotGranted(<<u, q>>))
           new(q) == Made("users", req(q))
<1>1. /\ Changeable(u, p)
      /\ Sends("users", {req(q) : q \in changed})
      /\ usersPage' = [usersPage EXCEPT !.granted = @ \ cells, !.processing = @ \cup cells]
  BY DEF changeUserPermission
<1>2. u \in usersPage.rows /\ u \in Users /\ changed \subseteq UserPermissions /\ \A q \in changed : <<u, q>> \notin usersPage.processing
  <2>1. p \in UserPermissions
    BY NowFacts DEF Tables
  <2> QED BY <1>1, <2>1, UserTypes DEF Changeable, AlsoChanged
<1>3. /\ usersPage'.rows = usersPage.rows /\ usersPage'.granted = usersPage.granted \ cells
      /\ usersPage'.processing = usersPage.processing \cup cells
  BY <1>1, UsersFields DEF UsersPages
<1> HIDE DEF changed
<1>4. /\ calls \subseteq calls' /\ \A e \in calls' : e \in calls \/ \E q \in changed : e = new(q)
      /\ \A q \in changed : new(q) \in calls'
  BY <1>1, SentCalls DEF Pages
<1>5. ASSUME NEW q \in changed
      PROVE  /\ Hears(new(q), "modifyUser") /\ new(q).target = u /\ new(q).arg = q
             /\ Expected(new(q)) <=> <<u, q>> \in usersPage.granted
  <2>1. /\ req(q).op = "modifyUser" /\ req(q).target = u /\ req(q).arg = q
        /\ req(q).grant = NotGranted(<<u, q>>)
    BY DEF apiUserModify, Request
  <2> HIDE DEF req
  <2>2. /\ Hears(new(q), "modifyUser") /\ new(q).target = u /\ new(q).arg = q
        /\ new(q).grant = NotGranted(<<u, q>>) /\ ~Saved(new(q))
    BY <2>1, SentIs DEF Pages, Hears, Saved
  <2>3. NotGranted(<<u, q>>) <=> <<u, q>> \notin usersPage.granted
    BY <1>2 DEF NotGranted
  <2> HIDE DEF new
  <2> QED BY <2>2, <2>3 DEF Expected
<1> HIDE DEF new, req
<1>6. \A e \in calls : Hears(e, "modifyUser") => ~(e.target = u /\ e.arg \in changed)
  BY <1>2 DEF UsersMirror, UserCalls
<1>7. LiveRows'
  BY <1>2, <1>3 DEF UsersMirror, LiveRows
<1>8. UserCalls'
  <2> SUFFICES ASSUME NEW e \in calls', Hears(e, "modifyUser")
               PROVE  /\ e.target \in usersPage'.rows /\ <<e.target, e.arg>> \in usersPage'.processing
                      /\ UserCallTrue(e)'
                      /\ \A b \in calls' : Hears(b, "modifyUser") /\ b.target = e.target /\ b.arg = e.arg => b = e
    BY DEF UserCalls, Hears
  <2>1. CASE e \in calls
    <3>1. /\ e.target \in usersPage.rows /\ <<e.target, e.arg>> \in usersPage.processing /\ UserCallTrue(e)
          /\ \A b \in calls : Hears(b, "modifyUser") /\ b.target = e.target /\ b.arg = e.arg => b = e
      BY <2>1 DEF UsersMirror, UserCalls
    <3>2. UserCallTrue(e)'
      BY <3>1 DEF UserCallTrue, Expected, Saved
    <3>3. ASSUME NEW b \in calls', Hears(b, "modifyUser"), b.target = e.target, b.arg = e.arg PROVE b = e
      <4>1. CASE b \in calls
        BY <3>1, <3>3, <4>1
      <4>2. ASSUME NEW q \in changed, b = new(q) PROVE FALSE
        BY <1>5, <1>6, <2>1, <3>3, <4>2
      <4> QED BY <1>4, <4>1, <4>2
    <3>4. e.target \in usersPage'.rows /\ <<e.target, e.arg>> \in usersPage'.processing
      BY <1>3, <3>1
    <3> QED BY <3>2, <3>3, <3>4
  <2>2. ASSUME NEW q \in changed, e = new(q)
        PROVE  /\ e.target \in usersPage'.rows /\ <<e.target, e.arg>> \in usersPage'.processing
               /\ UserCallTrue(e)'
               /\ \A b \in calls' : Hears(b, "modifyUser") /\ b.target = e.target /\ b.arg = e.arg => b = e
    <3>1. UserCellTrue(u, q) /\ e.target = u /\ e.arg = q /\ q \in UserPermissions
      BY <1>2, <1>5, <2>2 DEF UsersMirror, UserCellsTrue
    <3>2. ~\E b \in calls : Hears(b, "modifyUser") /\ b.target = u /\ b.arg = q
      BY <1>6
    <3>3. UserCell(u, q) \in excused \/ (q \in user[u].perms <=> Expected(e))
      BY <1>5, <2>2, <3>1, <3>2 DEF UserCellTrue
    <3>4. UserCallTrue(e)'
      BY <3>1, <3>3 DEF UserCallTrue, Expected, Saved
    <3>5. ASSUME NEW b \in calls', Hears(b, "modifyUser"), b.target = e.target, b.arg = e.arg PROVE b = e
      <4>1. b \notin calls
        BY <1>6, <3>1, <3>5
      <4>2. PICK x \in changed : b = new(x)
        BY <1>4, <4>1
      <4>3. x = q
        BY <1>5, <3>1, <3>5, <4>2
      <4> QED BY <2>2, <4>2, <4>3
    <3>6. e.target \in usersPage'.rows /\ <<e.target, e.arg>> \in usersPage'.processing
      BY <1>2, <1>3, <3>1
    <3> QED BY <3>4, <3>5, <3>6
  <2> QED BY <1>4, <2>1, <2>2
<1>9. NewUsers'
  <2> SUFFICES ASSUME NEW e \in calls', Hears(e, "createUser"), e.pc = "ok"
               PROVE  /\ NewRow(e)'
                      /\ \A b \in calls' : Hears(b, "createUser") /\ b.pc = "ok" /\ b.target = e.target => b = e
    BY DEF NewUsers, Hears
  <2>1. \A b \in calls' : Hears(b, "createUser") => b \in calls
    BY <1>4, <1>5 DEF Hears
  <2>2. /\ NewRow(e)
        /\ \A b \in calls : Hears(b, "createUser") /\ b.pc = "ok" /\ b.target = e.target => b = e
    BY <2>1 DEF UsersMirror, NewUsers
  <2>3. NewRow(e)'
    BY <1>3, <2>2 DEF NewRow
  <2> QED BY <2>1, <2>2, <2>3
<1>10. UserCellsTrue'
  <2> SUFFICES ASSUME NEW v \in usersPage'.rows, NEW q \in UserPermissions
               PROVE  UserCellTrue(v, q)'
    BY DEF UserCellsTrue
  <2>1. UserCellTrue(v, q)
    BY <1>3 DEF UsersMirror, UserCellsTrue
  <2>2. CASE v = u /\ q \in changed
    BY <1>4, <1>5, <2>2 DEF UserCellTrue, Hears
  <2>3. CASE ~(v = u /\ q \in changed)
    <3>1. <<v, q>> \in usersPage'.granted <=> <<v, q>> \in usersPage.granted
      BY <1>3, <2>3
    <3> QED BY <1>4, <2>1, <3>1 DEF UserCellTrue, Hears
  <2> QED BY <2>2, <2>3
<1> QED BY <1>7, <1>8, <1>9, <1>10 DEF UsersMirror

(* What else the page sends or shows *)
LEMMA SentAside ==
  ASSUME Tables, usersPage \in UsersPages, UsersMirror, NEW page \in Pages, NEW requests, Sends(page, requests),
         \A r \in requests : r.op # "modifyUser", UNCHANGED user, SameUserCells, SameUserTable
  PROVE  UsersMirror'
<1>1. /\ calls \subseteq calls' /\ \A e \in calls' : e \in calls \/ \E r \in requests : e = Made(page, r)
  BY SentCalls
<1>2. \A r \in requests : Made(page, r).op # "modifyUser" /\ Made(page, r).pc # "ok"
  BY SentIs
<1>3. SameUserCalls
  BY <1>1, <1>2 DEF SameUserCalls, Hears
<1> QED BY <1>3, UsersAlone

LEMMA PermissionHeard ==
  ASSUME Tables, usersPage \in UsersPages, UsersMirror, NEW c \in calls, c.page = "users", c.pc \in {"ok", "error"},
         ModifyUserAnswered(c), calls' = calls \ {c}, UNCHANGED <<scenario, user, excused>>
  PROVE  UsersMirror'
<1> DEFINE cell == <<c.target, c.arg>>
           granted == c.grant = (c.pc = "ok")
<1>1. /\ Hears(c, "modifyUser") /\ c.grant \in BOOLEAN /\ c.target \in Users /\ c.arg \in UserPermissions
  <2>1. c.grant \in BOOLEAN
    BY CallFields DEF Tables, Typed
  <2>2. Hears(c, "modifyUser")
    BY DEF ModifyUserAnswered, Hears
  <2> QED BY <2>1, <2>2, UserTypes
<1>2. /\ usersPage'.rows = usersPage.rows /\ usersPage'.processing = usersPage.processing \ {cell}
      /\ usersPage'.granted = IF granted THEN usersPage.granted \cup {cell} ELSE usersPage.granted
  BY UsersFields DEF ModifyUserAnswered, UsersPages
<1>3. /\ c.target \in usersPage.rows /\ cell \in usersPage.processing /\ cell \notin usersPage.granted
      /\ UserCallTrue(c)
      /\ \A b \in calls : Hears(b, "modifyUser") /\ b.target = c.target /\ b.arg = c.arg => b = c
  BY <1>1 DEF UsersMirror, UserCalls, LiveRows
<1>4. Expected(c) <=> granted
  BY <1>1 DEF Expected, Saved
<1> HIDE DEF granted
<1>5. LiveRows'
  BY <1>2 DEF UsersMirror, LiveRows
<1>6. UserCalls'
  <2> SUFFICES ASSUME NEW e \in calls', Hears(e, "modifyUser")
               PROVE  /\ e.target \in usersPage'.rows /\ <<e.target, e.arg>> \in usersPage'.processing
                      /\ UserCallTrue(e)'
                      /\ \A b \in calls' : Hears(b, "modifyUser") /\ b.target = e.target /\ b.arg = e.arg => b = e
    BY DEF UserCalls, Hears
  <2>1. /\ e.target \in usersPage.rows /\ <<e.target, e.arg>> \in usersPage.processing /\ UserCallTrue(e)
        /\ \A b \in calls : Hears(b, "modifyUser") /\ b.target = e.target /\ b.arg = e.arg => b = e
    BY DEF UsersMirror, UserCalls
  <2>2. <<e.target, e.arg>> # cell
    BY <1>3
  <2>3. UserCallTrue(e)'
    BY <2>1 DEF UserCallTrue, Expected, Saved
  <2> QED BY <1>2, <2>1, <2>2, <2>3
<1>7. NewUsers'
  <2> SUFFICES ASSUME NEW e \in calls', Hears(e, "createUser"), e.pc = "ok"
               PROVE  /\ NewRow(e)'
                      /\ \A b \in calls' : Hears(b, "createUser") /\ b.pc = "ok" /\ b.target = e.target => b = e
    BY DEF NewUsers, Hears
  <2>1. /\ NewRow(e)
        /\ \A b \in calls : Hears(b, "createUser") /\ b.pc = "ok" /\ b.target = e.target => b = e
    BY DEF UsersMirror, NewUsers
  <2> QED BY <1>2, <2>1 DEF NewRow
<1>8. UserCellsTrue'
  <2> SUFFICES ASSUME NEW u \in usersPage'.rows, NEW p \in UserPermissions
               PROVE  UserCellTrue(u, p)'
    BY DEF UserCellsTrue
  <2>1. UserCellTrue(u, p)
    BY <1>2 DEF UsersMirror, UserCellsTrue
  <2>2. CASE u = c.target /\ p = c.arg
    <3>1. <<u, p>> \in usersPage'.granted <=> granted
      BY <1>2, <1>3, <2>2
    <3>2. UserCell(u, p) \in excused \/ (p \in user[u].perms <=> granted)
      BY <1>3, <1>4, <2>2 DEF UserCallTrue
    <3> QED BY <3>1, <3>2 DEF UserCellTrue
  <2>3. CASE ~(u = c.target /\ p = c.arg)
    <3>1. <<u, p>> \in usersPage'.granted <=> <<u, p>> \in usersPage.granted
      BY <1>2, <2>3
    <3>2. \A e \in calls : Hears(e, "modifyUser") /\ e.target = u /\ e.arg = p => e \in calls'
      BY <2>3
    <3> QED BY <2>1, <3>1, <3>2 DEF UserCellTrue, Hears
  <2> QED BY <2>2, <2>3
<1> QED BY <1>5, <1>6, <1>7, <1>8 DEF UsersMirror

LEMMA CreationHeard ==
  ASSUME Tables, usersPage \in UsersPages, UsersMirror, NEW c \in calls, c.page = "users", c.pc \in {"ok", "error"},
         CreateUserAnswered(c), calls' = calls \ {c}, UNCHANGED <<scenario, user, excused>>
  PROVE  UsersMirror'
<1>1. Hears(c, "createUser") /\ c.target \in Users
  <2>1. Hears(c, "createUser")
    BY DEF CreateUserAnswered, Hears
  <2> QED BY <2>1, UserTypes
<1>2. CASE c.pc = "error"
  <2>1. usersPage' = [usersPage EXCEPT !.form = "idle"]
    BY <1>2 DEF CreateUserAnswered
  <2>2. SameUserTable
    BY <2>1, UsersFields DEF UsersPages, SameUserTable
  <2>3. SameUserCalls /\ SameUserCells
    BY <1>1, <1>2 DEF SameUserCalls, SameUserCells, Hears
  <2> QED BY <2>2, <2>3, UsersAlone
<1>3. CASE c.pc = "ok"
  <2> DEFINE u == c.target
             perms == c.row[1].perms
  <2>1. perms \subseteq UserPermissions
    <3>1. \E r \in UserRows : c.row = <<r>>
      BY <1>1, <1>3 DEF Tables, Typed, Rests, Hears
    <3> QED BY <3>1 DEF UserRows
  <2>2. usersPage' = addRowUser(u, perms)
    BY <1>3 DEF CreateUserAnswered
  <2>3. /\ usersPage'.rows = usersPage.rows \cup {u} /\ usersPage'.processing = usersPage.processing
        /\ usersPage'.granted = {x \in usersPage.granted : x[1] # u} \cup ({u} \X perms)
    BY <2>2, UsersFields DEF UsersPages, addRowUser
  <2>4. /\ NewRow(c)
        /\ \A d \in calls : Hears(d, "createUser") /\ d.pc = "ok" /\ d.target = u => d = c
    BY <1>1, <1>3 DEF UsersMirror, NewUsers
  <2>5. \A e \in calls' : e \in calls /\ e # c
    OBVIOUS
  <2> HIDE DEF u, perms
  <2>6. LiveRows'
    <3>1. user[u].live /\ u \notin usersPage.rows
      BY <2>4 DEF NewRow, u
    <3>2. \A v \in usersPage'.rows : user[v].live
      BY <2>3, <3>1 DEF UsersMirror, LiveRows
    <3>3. ASSUME NEW x \in usersPage'.processing
          PROVE  x[1] \in usersPage'.rows /\ x \notin usersPage'.granted
      <4>1. x[1] \in usersPage.rows /\ x \notin usersPage.granted
        BY <2>3, <3>3 DEF UsersMirror, LiveRows
      <4> QED BY <2>3, <3>1, <4>1
    <3> QED BY <3>2, <3>3 DEF LiveRows
  <2>7. UserCalls'
    <3> SUFFICES ASSUME NEW e \in calls', Hears(e, "modifyUser")
                 PROVE  /\ e.target \in usersPage'.rows /\ <<e.target, e.arg>> \in usersPage'.processing
                        /\ UserCallTrue(e)'
                        /\ \A b \in calls' : Hears(b, "modifyUser") /\ b.target = e.target /\ b.arg = e.arg => b = e
      BY DEF UserCalls, Hears
    <3>1. /\ e.target \in usersPage.rows /\ <<e.target, e.arg>> \in usersPage.processing /\ UserCallTrue(e)
          /\ \A b \in calls : Hears(b, "modifyUser") /\ b.target = e.target /\ b.arg = e.arg => b = e
      BY DEF UsersMirror, UserCalls
    <3>2. UserCallTrue(e)'
      BY <3>1 DEF UserCallTrue, Expected, Saved
    <3> QED BY <2>3, <3>1, <3>2
  <2>8. NewUsers'
    <3> SUFFICES ASSUME NEW e \in calls', Hears(e, "createUser"), e.pc = "ok"
                 PROVE  /\ NewRow(e)'
                        /\ \A b \in calls' : Hears(b, "createUser") /\ b.pc = "ok" /\ b.target = e.target => b = e
      BY DEF NewUsers, Hears
    <3>1. /\ NewRow(e)
          /\ \A b \in calls : Hears(b, "createUser") /\ b.pc = "ok" /\ b.target = e.target => b = e
      BY DEF UsersMirror, NewUsers
    <3>2. e.target # u
      BY <2>4, <2>5
    <3> QED BY <2>3, <3>1, <3>2 DEF NewRow
  <2>9. UserCellsTrue'
    <3> SUFFICES ASSUME NEW v \in usersPage'.rows, NEW p \in UserPermissions
                 PROVE  UserCellTrue(v, p)'
      BY DEF UserCellsTrue
    <3>1. CASE v = u
      <4>1. <<u, p>> \in usersPage'.granted <=> p \in perms
        BY <2>3
      <4>2. UserCell(u, p) \in excused \/ (p \in perms <=> p \in user[u].perms)
        BY <2>4 DEF NewRow, u, perms
      <4> QED BY <3>1, <4>1, <4>2 DEF UserCellTrue
    <3>2. CASE v # u
      <4>1. UserCellTrue(v, p)
        BY <2>3, <3>2 DEF UsersMirror, UserCellsTrue
      <4>2. <<v, p>> \in usersPage'.granted <=> <<v, p>> \in usersPage.granted
        BY <2>3, <3>2
      <4>3. \A e \in calls : Hears(e, "modifyUser") => e \in calls'
        BY <1>1 DEF Hears
      <4> QED BY <4>1, <4>2, <4>3 DEF UserCellTrue, Hears
    <3> QED BY <3>1, <3>2
  <2> QED BY <2>6, <2>7, <2>8, <2>9 DEF UsersMirror
<1> QED BY <1>2, <1>3

(* The page as it is loaded *)
UsersLoaded == usersPage = RenderedUsers(Now.operator.users) /\ \A c \in calls : c.page # "users"

LEMMA LoadedMirror == Tables /\ UsersLoaded => UsersMirror
<1> SUFFICES ASSUME Tables, UsersLoaded PROVE UsersMirror
  OBVIOUS
<1>1. \A c \in calls : ~Hears(c, "modifyUser") /\ ~Hears(c, "createUser")
  BY DEF UsersLoaded, Tables, Typed, Asks, Calls, Pages, Hears
<1>2. /\ usersPage.rows = {u \in Users : user[u].live} /\ usersPage.processing = {}
      /\ usersPage.granted = {x \in Cells : x[2] \in user[x[1]].perms}
  BY DEF UsersLoaded, RenderedUsers
<1>3. LiveRows
  BY <1>2 DEF LiveRows
<1>4. UserCellsTrue
  <2> SUFFICES ASSUME NEW u \in usersPage.rows, NEW p \in UserPermissions PROVE UserCellTrue(u, p)
    BY DEF UserCellsTrue
  <2>1. <<u, p>> \in usersPage.granted <=> p \in user[u].perms
    BY <1>2 DEF Cells
  <2> QED BY <2>1 DEF UserCellTrue
<1> QED BY <1>1, <1>3, <1>4 DEF UsersMirror, UserCalls, NewUsers

LEMMA UsersShown ==
  ASSUME Tables, usersPage \in UsersPages, UsersMirror, UsersStep, Tables'
  PROVE  UsersMirror'
<1>1. ASSUME NEW u \in Now.edited, NEW p \in Now.clicked, changeUserPermission(u, p),
             UNCHANGED <<scenario, user, key, stored, faults, overtaken, excused>>
      PROVE  UsersMirror'
  BY <1>1, PermissionMirror
<1>2. ASSUME NEW requests, \A r \in requests : r.op # "modifyUser", Sends("users", requests), SameUserTable,
             UNCHANGED <<scenario, user, key, stored, faults, overtaken, excused>>
      PROVE  UsersMirror'
  BY <1>2, SentAside DEF SameUserCells, Pages
<1>3. ASSUME NEW u \in Now.edited, changeRank(u) \/ addNewUser(u),
             UNCHANGED <<scenario, user, key, stored, faults, overtaken, excused>>
      PROVE  UsersMirror'
  <2>1. SameUserTable
    BY <1>3, UsersFields DEF changeRank, addNewUser, UsersPages, SameUserTable
  <2>2. CASE changeRank(u)
    <3> DEFINE requests == {apiUserChangeRank(u, usersPage.next[u])}
    <3>1. Sends("users", requests) /\ \A r \in requests : r.op # "modifyUser"
      BY <2>2 DEF changeRank, apiUserChangeRank, Request
    <3> HIDE DEF requests
    <3> QED BY <1>2, <1>3, <2>1, <3>1
  <2>3. CASE addNewUser(u)
    <3> DEFINE requests == {apiUserCreate(u)}
    <3>2. apiUserCreate(u).op = "createUser"
      BY DEF apiUserCreate, Request
    <3>1. Sends("users", requests) /\ \A r \in requests : r.op # "modifyUser"
      BY <2>3, <3>2 DEF addNewUser
    <3> HIDE DEF requests
    <3> QED BY <1>2, <1>3, <2>1, <3>1
  <2> QED BY <1>3, <2>2, <2>3
<1>4. ASSUME resetPw, UNCHANGED <<scenario, user, key, stored, faults, overtaken, excused>>
      PROVE  UsersMirror'
  <2>1. PICK u, new : Sends("users", {apiUserResetPassword(u, new)})
    BY <1>4 DEF resetPw
  <2>2. SameUserTable
    BY <1>4, UsersFields DEF resetPw, UsersPages, SameUserTable
  <2> DEFINE requests == {apiUserResetPassword(u, new)}
  <2>4. apiUserResetPassword(u, new).op = "reset"
    BY DEF apiUserResetPassword, Request
  <2>3. Sends("users", requests) /\ \A r \in requests : r.op # "modifyUser"
    BY <2>1, <2>4
  <2> HIDE DEF requests
  <2> QED BY <1>2, <1>4, <2>2, <2>3
<1>5. ASSUME NEW u, showResetPwModal(u) \/ DismissReset
      PROVE  UsersMirror'
  <2>1. SameUserTable /\ UNCHANGED adminVars
    BY <1>5, UsersFields DEF showResetPwModal, DismissReset, UsersPages, SameUserTable
  <2>2. UNCHANGED user /\ SameUserCells /\ SameUserCalls
    BY <2>1 DEF adminVars, SameUserCells, SameUserCalls
  <2> QED BY <2>1, <2>2, UsersAlone
<1>6. ASSUME NEW c \in calls, c.page = "users", c.pc \in {"ok", "error"}, UsersAnswered(c),
             calls' = calls \ {c}, UNCHANGED <<stored, excused>>,
             UNCHANGED <<scenario, user, key, actions, faults, overtaken>>
      PROVE  UsersMirror'
  <2>1. CASE ModifyUserAnswered(c)
    BY <1>6, <2>1, PermissionHeard
  <2>2. CASE CreateUserAnswered(c)
    BY <1>6, <2>2, CreationHeard
  <2>3. CASE RankRefused(c) \/ ResetAnswered(c)
    <3>1. c.op \in {"rank", "reset"}
      BY <2>3 DEF RankRefused, ResetAnswered
    <3>2. SameUserTable
      BY <2>3, UsersFields DEF RankRefused, ResetAnswered, UsersPages, SameUserTable
    <3>3. SameUserCalls /\ SameUserCells
      BY <1>6, <3>1 DEF SameUserCalls, SameUserCells, Hears
    <3> QED BY <1>6, <3>2, <3>3, UsersAlone
  <2> QED BY <1>6, <2>1, <2>2, <2>3 DEF UsersAnswered
<1>7. ASSUME NEW c \in calls, RankChanged(c), calls' = Abandoned("users"),
             UNCHANGED <<scenario, user>>
      PROVE  UsersMirror'
  <2>2. \A e \in calls' : e.page # "users"
    <3>1. \A e \in calls : [e EXCEPT !.page = "gone"].page = "gone"
      BY DEF Tables, Typed, Calls
    <3> QED BY <1>7, <3>1 DEF Abandoned
  <2>3. usersPage' = RenderedUsers(Now.operator.users)
    BY <1>7 DEF RankChanged
  <2>4. RenderedUsers(Now.operator.users)' = RenderedUsers(Now.operator.users)
    BY <1>7 DEF RenderedUsers, Now
  <2>5. UsersLoaded'
    BY <1>7, <2>2, <2>3, <2>4 DEF UsersLoaded, Now
  <2> QED BY <2>5, LoadedMirror, PTL
<1> QED BY <1>1, <1>3, <1>4, <1>5, <1>6, <1>7 DEF UsersStep, UsersAnswered

-----------------------------------------------------------------------------
(* What a step of the server may do to keys                                  *)
KeyCellKept(k, p) ==
    \/ KeyCell(k, p) \in excused'
    \/ KeyCell(k, p) \notin excused /\ (p \in key'[k].perms <=> p \in key[k].perms)
NameKept(k) == NameCell(k) \in excused' \/ (NameCell(k) \notin excused /\ key'[k].name = key[k].name)
RowKept(k) ==
    \/ RowCell(k) \in excused'
    \/ RowCell(k) \notin excused /\ (key'[k].state = "live" <=> key[k].state = "live")
Fresh(c, d, k) == Hears(c, "createKey") /\ d.pc = "ok" /\ d.target = k /\ key[k].state = "none"
OthersKept(c, k) ==
    /\ \A p \in ApiPermissions : KeyCellKept(k, p) \/ (Hears(c, "modifyKey") /\ k = c.target /\ p = c.arg)
    /\ NameKept(k) \/ (Hears(c, "rename") /\ k = c.target)
    /\ RowKept(k) \/ (Hears(c, "deleteKey") /\ k = c.target)
KeysEffects(c, d) ==
    /\ \A k \in Keys : key[k].state # "none" => key'[k].state # "none" /\ key'[k].owner = key[k].owner
    /\ \A k \in Keys : Fresh(c, d, k) \/ OthersKept(c, k)
    /\ c.page # "gone" => d.target = c.target \/ (d.target \in Keys /\ Fresh(c, d, d.target))
    /\ Hears(c, "modifyKey") /\ KeyCallTrue(c) =>
          KeyCell(c.target, c.arg) \in excused' \/ (c.arg \in key'[c.target].perms <=> Expected(d))
    /\ Hears(c, "rename") =>
          /\ d.pc = "ok" => NameCell(c.target) \in excused' \/ key'[c.target].name = c.arg
          /\ NameCell(c.target) \in excused => NameCell(c.target) \in excused'
    /\ Hears(c, "deleteKey") =>
          /\ d.pc = "ok" => key'[c.target].state # "live" \/ RowCell(c.target) \in excused'
          /\ d.pc # "ok" => RowKept(c.target)
          /\ c.pc = "ok" => RowCell(c.target) \in excused'
    /\ Hears(c, "createKey") =>
          /\ c.pc = "ok" => RowCell(c.target) \in excused'
          /\ d.pc = "ok" =>
                /\ d.target \in Keys /\ Fresh(c, d, d.target)
                /\ key'[d.target].state = "live" /\ key'[d.target].name = "Unnamed key"
                /\ key'[d.target].perms = ApiPermDefault

LEMMA KeyTypes ==
  ASSUME Tables, keysPage \in KeysPages
  PROVE  /\ \A e \in calls : /\ Hears(e, "modifyKey") => e.target \in Keys /\ e.arg \in ApiPermissions
                             /\ Hears(e, "rename") => e.target \in Keys /\ e.arg \in Names
                             /\ Hears(e, "deleteKey") => e.target \in Keys
                             /\ Hears(e, "createKey") => e.target = NoToken \/ e.target \in Keys
                             /\ Hears(e, "createKey") /\ e.pc = "ok" => e.target \in Keys
         /\ NoToken \notin Keys
         /\ keysPage.rows \subseteq Keys /\ keysPage.busy \subseteq Keys
         /\ keysPage.granted \subseteq KeyCells /\ keysPage.processing \subseteq KeyCells
<1>1. \A e \in calls : Asks(e) /\ Rests(e)
  BY DEF Tables, Typed
<1> QED BY <1>1, KeysFields, AdminAssumption DEF Asks, Rests, Hears, AllKeys

LEMMA KeysServed ==
  ASSUME Tables, keysPage \in KeysPages, KeysMirror, NEW c \in calls, NEW d,
         Follows(c, d), KeysEffects(c, d), UNCHANGED <<keysPage, scenario>>
  PROVE  KeysMirror'
<1>1. /\ \A e \in calls' : e.page # "gone" => e = d \/ e \in calls \ {c}
      /\ \A e \in calls \ {c} : e.page # "gone" => e \in calls'
      /\ d.page = c.page /\ d.op = c.op /\ d.arg = c.arg /\ (c.page # "gone" => d \in calls')
  BY DEF Follows
<1>2. c.page # "gone" => d.target = c.target \/ (d.target \in Keys /\ Fresh(c, d, d.target))
  BY DEF KeysEffects
<1>3. \A k \in Keys : key[k].state # "none" => OthersKept(c, k) /\ key'[k].state # "none" /\ key'[k].owner = key[k].owner
  BY DEF KeysEffects, Fresh
<1>4. \A e \in calls : e.target \in Keys /\ e.page # "gone" => key[e.target].state # "none"
  BY DEF KeysMirror, SeenKeys
<1>5. c.op # "createKey" /\ c.page # "gone" => d.target = c.target
  BY <1>2 DEF Fresh, Hears
<1>6. SeenKeys'
  <2>1. /\ \A k \in keysPage.rows \cup keysPage.busy : k \in Keys /\ key[k].state # "none"
        /\ \A x \in keysPage.processing : x[1] \in Keys /\ key[x[1]].state # "none" /\ x \notin keysPage.granted
        /\ \A x \in keysPage.granted : x[1] \in Keys /\ key[x[1]].state # "none"
    BY KeyTypes DEF KeysMirror, SeenKeys, KeyCells
  <2>2. ASSUME NEW e \in calls', e.target \in Keys, e.page # "gone" PROVE key'[e.target].state # "none"
    <3>1. CASE e \in calls
      BY <1>3, <1>4, <2>2, <3>1
    <3>2. CASE e = d /\ d.target = c.target
      BY <1>1, <1>3, <1>4, <2>2, <3>2
    <3>3. CASE e = d /\ Fresh(c, d, d.target)
      BY <3>3 DEF Fresh, KeysEffects
    <3> QED BY <1>1, <1>2, <2>2, <3>1, <3>2, <3>3
  <2> QED BY <1>3, <2>1, <2>2 DEF SeenKeys
<1>7. KeyCalls'
  <2> SUFFICES ASSUME NEW e \in calls', Hears(e, "modifyKey")
               PROVE  /\ <<e.target, e.arg>> \in keysPage.processing
                      /\ KeyCallTrue(e)'
                      /\ \A b \in calls' : Hears(b, "modifyKey") /\ b.target = e.target /\ b.arg = e.arg => b = e
    BY DEF KeyCalls, Hears
  <2>1. \A b \in calls' : Hears(b, "modifyKey") =>
           \/ b \in calls \ {c}
           \/ b = d /\ Hears(c, "modifyKey") /\ d.target = c.target /\ d.arg = c.arg
    BY <1>1, <1>5 DEF Hears
  <2>2. CASE e \in calls \ {c}
    <3>1. /\ <<e.target, e.arg>> \in keysPage.processing /\ KeyCallTrue(e)
          /\ \A b \in calls : Hears(b, "modifyKey") /\ b.target = e.target /\ b.arg = e.arg => b = e
          /\ e.target \in Keys /\ e.arg \in ApiPermissions
      BY <2>2, KeyTypes DEF KeysMirror, KeyCalls
    <3>2. KeyCellKept(e.target, e.arg)
      BY <1>3, <1>4, <2>2, <3>1 DEF OthersKept, Hears
    <3>3. KeyCallTrue(e)'
      BY <3>1, <3>2 DEF KeyCellKept, KeyCallTrue, Expected, Saved
    <3> QED BY <2>1, <2>2, <3>1, <3>3
  <2>3. CASE e = d /\ e \notin calls \ {c} /\ Hears(c, "modifyKey") /\ d.target = c.target /\ d.arg = c.arg
    <3>1. /\ <<c.target, c.arg>> \in keysPage.processing /\ KeyCallTrue(c)
          /\ \A b \in calls : Hears(b, "modifyKey") /\ b.target = c.target /\ b.arg = c.arg => b = c
      BY <2>3 DEF KeysMirror, KeyCalls
    <3>2. KeyCallTrue(d)'
      BY <2>3, <3>1 DEF KeysEffects, KeyCallTrue, Expected, Saved
    <3> QED BY <2>1, <2>3, <3>1, <3>2
  <2> QED BY <2>1, <2>2, <2>3
<1>8. \A k \in Keys : key[k].state # "none" /\ RowKept(k) /\ RowTrue(k) => RowTrue(k)'
  BY <1>3 DEF RowKept, RowTrue, Now
<1>9. Deletions'
  <2> SUFFICES ASSUME NEW e \in calls', Hears(e, "deleteKey")
               PROVE  /\ e.target \in keysPage.busy
                      /\ e.pc # "ok" => RowTrue(e.target)'
                      /\ e.pc = "ok" => key'[e.target].state # "live" \/ RowCell(e.target) \in excused'
                      /\ \A b \in calls' : Hears(b, "deleteKey") /\ b.target = e.target => b = e
    BY DEF Deletions, Hears
  <2>1. \A b \in calls' : Hears(b, "deleteKey") =>
           b \in calls \ {c} \/ (b = d /\ Hears(c, "deleteKey") /\ d.target = c.target)
    BY <1>1, <1>5 DEF Hears
  <2>2. \A b \in calls : Hears(b, "deleteKey") =>
           /\ b.target \in Keys /\ key[b.target].state # "none" /\ b.target \in keysPage.busy
           /\ b.pc # "ok" => RowTrue(b.target)
           /\ b.pc = "ok" => key[b.target].state # "live" \/ RowCell(b.target) \in excused
           /\ \A a \in calls : Hears(a, "deleteKey") /\ a.target = b.target => a = b
    BY <1>4, KeyTypes DEF KeysMirror, Deletions, Hears
  <2>3. CASE e \in calls \ {c}
    <3>1. RowKept(e.target)
      BY <1>3, <2>2, <2>3 DEF OthersKept
    <3>2. e.pc # "ok" => RowTrue(e.target)'
      BY <1>8, <2>2, <2>3, <3>1
    <3>3. e.pc = "ok" => key'[e.target].state # "live" \/ RowCell(e.target) \in excused'
      BY <2>2, <2>3, <3>1 DEF RowKept
    <3> QED BY <2>1, <2>2, <2>3, <3>2, <3>3
  <2>4. CASE e = d /\ e \notin calls \ {c} /\ Hears(c, "deleteKey") /\ d.target = c.target
    <3>1. /\ d.pc = "ok" => key'[c.target].state # "live" \/ RowCell(c.target) \in excused'
          /\ d.pc # "ok" => RowKept(c.target)
          /\ c.pc = "ok" => RowCell(c.target) \in excused'
      BY <2>4 DEF KeysEffects
    <3>2. d.pc # "ok" => RowTrue(d.target)'
      BY <1>8, <2>2, <2>4, <3>1 DEF RowTrue
    <3> QED BY <2>1, <2>2, <2>4, <3>1, <3>2
  <2> QED BY <2>1, <2>3, <2>4
<1>10. NewKeys'
  <2> SUFFICES ASSUME NEW e \in calls', Hears(e, "createKey"), e.pc = "ok"
               PROVE  NewKeyRow(e)' /\ \A b \in calls' : b.page # "gone" /\ b.target = e.target => b = e
    BY DEF NewKeys, Hears
  <2>1. CASE e \in calls \ {c}
    <3> DEFINE k == e.target
    <3>1. /\ NewKeyRow(e) /\ k \in Keys /\ key[k].state # "none"
          /\ \A b \in calls : b.page # "gone" /\ b.target = k => b = e
      BY <1>4, <2>1, KeyTypes DEF KeysMirror, NewKeys, Hears
    <3>2. ~(c.page # "gone" /\ c.target = k) /\ OthersKept(c, k)
      BY <1>3, <2>1, <3>1
    <3>3. /\ \A p \in ApiPermissions : KeyCellKept(k, p)
          /\ NameKept(k) /\ RowKept(k)
      BY <3>2 DEF OthersKept, Hears
    <3> HIDE DEF k
    <3>4. NewKeyRow(e)'
      BY <3>1, <3>3 DEF NewKeyRow, KeyCellKept, NameKept, RowKept, k
    <3>5. ASSUME NEW b \in calls', b.page # "gone", b.target = k PROVE b = e
      <4>1. CASE b \in calls
        BY <3>1, <3>5, <4>1
      <4>2. CASE b = d /\ b \notin calls
        BY <1>1, <1>2, <3>1, <3>2, <3>5, <4>2 DEF Fresh
      <4> QED BY <1>1, <3>5, <4>1, <4>2
    <3> QED BY <3>4, <3>5 DEF k
  <2>2. CASE e = d /\ e \notin calls \ {c}
    <3>1. /\ Hears(c, "createKey") /\ d.pc = "ok" /\ d.target \in Keys /\ key[d.target].state = "none"
          /\ key'[d.target].state = "live" /\ key'[d.target].name = "Unnamed key"
          /\ key'[d.target].perms = ApiPermDefault
      BY <1>1, <2>2 DEF KeysEffects, Fresh, Hears
    <3>2. /\ d.target \notin keysPage.rows
          /\ \A p \in ApiPermissions : <<d.target, p>> \notin keysPage.granted \cup keysPage.processing
      BY <3>1 DEF KeysMirror, SeenKeys
    <3>3. NewKeyRow(d)'
      BY <3>1, <3>2 DEF NewKeyRow
    <3>4. \A b \in calls' : b.page # "gone" /\ b.target = d.target => b = d
      BY <1>1, <1>4, <3>1
    <3> QED BY <2>2, <3>3, <3>4
  <2> QED BY <1>1, <2>1, <2>2 DEF Hears
<1>11. RowsTrue'
  <2> SUFFICES ASSUME NEW k \in Keys PROVE RowTrue(k)' \/ RowAnswered(k)'
    BY DEF RowsTrue
  <2>1. CASE Fresh(c, d, k)
    BY <1>1, <2>1 DEF Fresh, Hears, RowAnswered
  <2>2. CASE ~Fresh(c, d, k)
    <3>1. OthersKept(c, k)
      BY <2>2 DEF KeysEffects
    <3>2. CASE RowKept(k)
      <4>1. CASE key[k].state = "none"
        <5>1. k \notin keysPage.rows
          BY <4>1 DEF KeysMirror, SeenKeys
        <5> QED BY <3>2, <4>1, <5>1 DEF RowKept, RowTrue
      <4>2. CASE key[k].state # "none" /\ RowTrue(k)
        BY <1>8, <3>2, <4>2
      <4>3. CASE RowAnswered(k)
        <5>1. PICK e \in calls : e.page # "gone" /\ e.op \in {"createKey", "deleteKey"} /\ e.pc = "ok" /\ e.target = k
          BY <4>3 DEF RowAnswered
        <5>2. CASE e = c
          BY <5>1, <5>2 DEF KeysEffects, Hears, RowTrue
        <5>3. CASE e # c
          BY <1>1, <5>1, <5>3 DEF RowAnswered
        <5> QED BY <5>2, <5>3
      <4> QED BY <4>1, <4>2, <4>3 DEF KeysMirror, RowsTrue
    <3>3. CASE ~RowKept(k)
      <4>1. Hears(c, "deleteKey") /\ k = c.target /\ d.pc = "ok" /\ d.target = k
        BY <1>5, <3>1, <3>3 DEF OthersKept, KeysEffects, Hears
      <4> QED BY <1>1, <4>1 DEF RowAnswered, Hears
    <3> QED BY <3>2, <3>3
  <2> QED BY <2>1, <2>2
<1>12. NamesTrue'
  <2> SUFFICES ASSUME NEW k \in Keys, NameCell(k) \notin excused' PROVE NameTrue(k)'
    BY DEF NamesTrue, NameTrue
  <2>1. CASE Fresh(c, d, k)
    <3>1. \A e \in calls : e.page # "gone" => e.target # k
      BY <1>4, <2>1 DEF Fresh
    <3>2. \A e \in calls' : ~(Hears(e, "rename") /\ e.target = k)
      BY <1>1, <2>1, <3>1 DEF Fresh, Hears
    <3>3. k \notin keysPage.rows
      BY <2>1 DEF Fresh, KeysMirror, SeenKeys
    <3> QED BY <3>2, <3>3 DEF NameTrue, NameShown, Hears
  <2>2. CASE ~Fresh(c, d, k)
    <3>1. NameKept(k) \/ (Hears(c, "rename") /\ k = c.target)
      BY <2>2 DEF KeysEffects, OthersKept
    <3>2. NameCell(k) \notin excused
      BY <3>1 DEF NameKept, KeysEffects
    <3>3. /\ \A e \in calls : Hears(e, "rename") /\ e.target = k =>
                /\ keysPage.name[k] = e.arg /\ (e.pc = "ok" => key[k].name = e.arg)
                /\ \A b \in calls : Hears(b, "rename") /\ b.target = k => b = e
          /\ NameShown(k) \/ \E e \in calls : Hears(e, "rename") /\ e.target = k
      BY <3>2 DEF KeysMirror, NamesTrue, NameTrue
    <3>4. \A b \in calls' : Hears(b, "rename") =>
             \/ b \in calls \ {c}
             \/ b = d /\ Hears(c, "rename") /\ d.target = c.target /\ d.arg = c.arg
      BY <1>1, <1>5 DEF Hears
    <3>5. CASE Hears(c, "rename") /\ k = c.target
      <4>1. d \in calls' /\ Hears(d, "rename") /\ d.target = k /\ d.arg = c.arg
        BY <1>1, <1>5, <3>5 DEF Hears
      <4>2. keysPage.name[k] = d.arg /\ (d.pc = "ok" => key'[k].name = d.arg)
        BY <3>3, <3>5, <4>1 DEF KeysEffects
      <4>3. \A b \in calls' : Hears(b, "rename") /\ b.target = k => b = d
        BY <3>3, <3>4, <3>5
      <4> QED BY <4>1, <4>2, <4>3 DEF NameTrue, Hears
    <3>6. CASE ~(Hears(c, "rename") /\ k = c.target)
      <4>1. key'[k].name = key[k].name
        BY <3>1, <3>6 DEF NameKept
      <4>2. \A b : Hears(b, "rename") /\ b.target = k => (b \in calls <=> b \in calls')
        BY <1>1, <3>4, <3>6 DEF Hears
      <4>3. ASSUME NEW e \in calls', Hears(e, "rename"), e.target = k
            PROVE  /\ keysPage.name[k] = e.arg /\ (e.pc = "ok" => key'[k].name = e.arg)
                   /\ \A b \in calls' : Hears(b, "rename") /\ b.target = k => b = e
        BY <3>3, <4>1, <4>2, <4>3
      <4>4. NameShown(k)' \/ \E e \in calls' : Hears(e, "rename") /\ e.target = k
        BY <3>3, <4>1, <4>2 DEF NameShown
      <4> QED BY <4>3, <4>4 DEF NameTrue, Hears
    <3> QED BY <3>5, <3>6
  <2> QED BY <2>1, <2>2
<1>13. KeyCellsTrue'
  <2> SUFFICES ASSUME NEW k \in keysPage.rows, NEW p \in ApiPermissions PROVE KeyCellTrue(k, p)'
    BY DEF KeyCellsTrue
  <2>1. KeyCellTrue(k, p) /\ k \in Keys /\ OthersKept(c, k)
    BY <1>3, KeyTypes DEF KeysMirror, KeyCellsTrue, SeenKeys
  <2>2. CASE Hears(c, "modifyKey") /\ k = c.target /\ p = c.arg
    BY <1>1, <1>5, <2>2 DEF KeyCellTrue, Hears
  <2>3. CASE ~(Hears(c, "modifyKey") /\ k = c.target /\ p = c.arg)
    <3>1. KeyCellKept(k, p)
      BY <2>1, <2>3 DEF OthersKept
    <3>2. \A e \in calls : Hears(e, "modifyKey") /\ e.target = k /\ e.arg = p => e \in calls'
      BY <1>1, <2>3 DEF Hears
    <3> QED BY <2>1, <3>1, <3>2 DEF KeyCellKept, KeyCellTrue, Hears
  <2> QED BY <2>2, <2>3
<1> QED BY <1>6, <1>7, <1>9, <1>10, <1>11, <1>12, <1>13 DEF KeysMirror

-----------------------------------------------------------------------------
(* Steps that a part of the page of keys takes no part in                    *)
SameCalls(op) == \A e : Hears(e, op) => (e \in calls' <=> e \in calls)
SameAnswers == \A e : Hears(e, "createKey") /\ e.pc = "ok" => (e \in calls' <=> e \in calls)
NoNewKeys ==
    /\ keysPage'.rows \subseteq keysPage.rows /\ keysPage'.busy \subseteq keysPage.busy \cup keysPage.rows
    /\ \A x \in keysPage'.granted \cup keysPage'.processing :
          x \in keysPage.granted \cup keysPage.processing \/ (x \in KeyCells /\ x[1] \in keysPage.rows)
    /\ \A x \in keysPage'.processing : x \notin keysPage'.granted
    /\ \A e \in calls' : e.page # "gone" => e \in calls \/ e.target \in keysPage.rows \/ e.target \notin Keys
    /\ \A e \in calls' : Hears(e, "createKey") /\ e.pc = "ok" => e \in calls
    /\ \A k \in Keys : /\ RowCell(k) \in excused => RowCell(k) \in excused'
                       /\ NameCell(k) \in excused => NameCell(k) \in excused'
                       /\ \A p \in ApiPermissions : KeyCell(k, p) \in excused => KeyCell(k, p) \in excused'

LEMMA KnownKeys ==
  ASSUME Tables, keysPage \in KeysPages, KeysMirror, UNCHANGED key, NoNewKeys
  PROVE  SeenKeys' /\ NewKeys'
<1>1. SeenKeys'
  <2>1. /\ \A k \in keysPage.rows \cup keysPage.busy : key[k].state # "none"
        /\ \A x \in keysPage.granted \cup keysPage.processing : key[x[1]].state # "none"
        /\ \A e \in calls : e.target \in Keys /\ e.page # "gone" => key[e.target].state # "none"
    BY DEF KeysMirror, SeenKeys
  <2> QED BY <2>1 DEF NoNewKeys, SeenKeys
<1>2. NewKeys'
  <2> SUFFICES ASSUME NEW e \in calls', Hears(e, "createKey"), e.pc = "ok"
               PROVE  NewKeyRow(e)' /\ \A b \in calls' : b.page # "gone" /\ b.target = e.target => b = e
    BY DEF NewKeys, Hears
  <2>1. /\ e \in calls /\ e.target \in Keys /\ NewKeyRow(e)
        /\ \A b \in calls : b.page # "gone" /\ b.target = e.target => b = e
    BY KeyTypes DEF NoNewKeys, KeysMirror, NewKeys
  <2>2. NewKeyRow(e)'
    BY <2>1 DEF NoNewKeys, NewKeyRow
  <2>3. e.target \notin keysPage.rows
    BY <2>1 DEF NewKeyRow
  <2> QED BY <2>1, <2>2, <2>3 DEF NoNewKeys
<1> QED BY <1>1, <1>2

LEMMA RowsAlone ==
  ASSUME Tables, keysPage \in KeysPages, KeysMirror, UNCHANGED <<key, scenario>>,
         keysPage'.rows = keysPage.rows, keysPage'.busy = keysPage.busy,
         \A k \in Keys : RowCell(k) \in excused' <=> RowCell(k) \in excused,
         SameCalls("deleteKey"), SameAnswers
  PROVE  Deletions' /\ RowsTrue'
<1>1. \A k \in Keys : RowTrue(k)' <=> RowTrue(k)
  BY DEF RowTrue, Now
<1>2. Deletions'
  <2> SUFFICES ASSUME NEW e \in calls', Hears(e, "deleteKey")
               PROVE  /\ e.target \in keysPage'.busy
                      /\ e.pc # "ok" => RowTrue(e.target)'
                      /\ e.pc = "ok" => key'[e.target].state # "live" \/ RowCell(e.target) \in excused'
                      /\ \A b \in calls' : Hears(b, "deleteKey") /\ b.target = e.target => b = e
    BY DEF Deletions, Hears
  <2>1. e \in calls /\ e.target \in Keys
    BY KeyTypes DEF SameCalls
  <2>2. /\ e.target \in keysPage.busy
        /\ e.pc # "ok" => RowTrue(e.target)
        /\ e.pc = "ok" => key[e.target].state # "live" \/ RowCell(e.target) \in excused
        /\ \A b \in calls : Hears(b, "deleteKey") /\ b.target = e.target => b = e
    BY <2>1 DEF KeysMirror, Deletions
  <2>3. \A b \in calls' : Hears(b, "deleteKey") => b \in calls
    BY DEF SameCalls
  <2> QED BY <1>1, <2>1, <2>2, <2>3
<1>3. RowsTrue'
  <2> SUFFICES ASSUME NEW k \in Keys PROVE RowTrue(k)' \/ RowAnswered(k)'
    BY DEF RowsTrue
  <2>1. CASE RowTrue(k)
    BY <1>1, <2>1
  <2>2. CASE RowAnswered(k)
    <3>1. PICK e \in calls : e.page # "gone" /\ e.op \in {"createKey", "deleteKey"} /\ e.pc = "ok" /\ e.target = k
      BY <2>2 DEF RowAnswered
    <3>2. e \in calls'
      BY <3>1 DEF SameCalls, SameAnswers, Hears
    <3> QED BY <3>1, <3>2 DEF RowAnswered
  <2> QED BY <2>1, <2>2 DEF KeysMirror, RowsTrue
<1> QED BY <1>2, <1>3

LEMMA NamesAlone ==
  ASSUME KeysMirror, UNCHANGED key,
         keysPage'.rows \subseteq keysPage.rows, keysPage'.name = keysPage.name,
         \A k \in Keys : NameCell(k) \in excused' <=> NameCell(k) \in excused,
         SameCalls("rename")
  PROVE  NamesTrue'
<1> SUFFICES ASSUME NEW k \in Keys, NameCell(k) \notin excused' PROVE NameTrue(k)'
  BY DEF NamesTrue, NameTrue
<1>1. /\ \A e \in calls : Hears(e, "rename") /\ e.target = k =>
            /\ keysPage.name[k] = e.arg /\ (e.pc = "ok" => key[k].name = e.arg)
            /\ \A b \in calls : Hears(b, "rename") /\ b.target = k => b = e
      /\ NameShown(k) \/ \E e \in calls : Hears(e, "rename") /\ e.target = k
  BY DEF KeysMirror, NamesTrue, NameTrue
<1>2. NameShown(k) => NameShown(k)'
  BY DEF NameShown
<1>3. \A b : Hears(b, "rename") /\ b.target = k => (b \in calls <=> b \in calls')
  BY DEF SameCalls
<1>4. ASSUME NEW e \in calls', Hears(e, "rename"), e.target = k
      PROVE  /\ keysPage'.name[k] = e.arg /\ (e.pc = "ok" => key'[k].name = e.arg)
             /\ \A b \in calls' : Hears(b, "rename") /\ b.target = k => b = e
  BY <1>1, <1>3, <1>4
<1>5. NameShown(k)' \/ \E e \in calls' : Hears(e, "rename") /\ e.target = k
  BY <1>1, <1>2, <1>3
<1> QED BY <1>4, <1>5 DEF NameTrue, Hears

LEMMA CellsAlone ==
  ASSUME Tables, keysPage \in KeysPages, KeysMirror, UNCHANGED key,
         keysPage'.rows \subseteq keysPage.rows, keysPage'.granted = keysPage.granted,
         keysPage'.processing = keysPage.processing,
         \A k \in Keys, p \in ApiPermissions : KeyCell(k, p) \in excused' <=> KeyCell(k, p) \in excused,
         SameCalls("modifyKey")
  PROVE  KeyCalls' /\ KeyCellsTrue'
<1>1. KeyCalls'
  <2> SUFFICES ASSUME NEW e \in calls', Hears(e, "modifyKey")
               PROVE  /\ <<e.target, e.arg>> \in keysPage'.processing
                      /\ KeyCallTrue(e)'
                      /\ \A b \in calls' : Hears(b, "modifyKey") /\ b.target = e.target /\ b.arg = e.arg => b = e
    BY DEF KeyCalls, Hears
  <2>1. e \in calls /\ e.target \in Keys /\ e.arg \in ApiPermissions
    BY KeyTypes DEF SameCalls
  <2>2. /\ <<e.target, e.arg>> \in keysPage.processing /\ KeyCallTrue(e)
        /\ \A b \in calls : Hears(b, "modifyKey") /\ b.target = e.target /\ b.arg = e.arg => b = e
    BY <2>1 DEF KeysMirror, KeyCalls
  <2>3. KeyCallTrue(e)'
    BY <2>1, <2>2 DEF KeyCallTrue, Expected, Saved
  <2> QED BY <2>2, <2>3 DEF SameCalls
<1>2. KeyCellsTrue'
  <2> SUFFICES ASSUME NEW k \in keysPage'.rows, NEW p \in ApiPermissions PROVE KeyCellTrue(k, p)'
    BY DEF KeyCellsTrue
  <2>1. k \in Keys /\ KeyCellTrue(k, p)
    BY KeyTypes DEF KeysMirror, KeyCellsTrue
  <2>2. \A e : Hears(e, "modifyKey") => (e \in calls' <=> e \in calls)
    BY DEF SameCalls
  <2> QED BY <2>1, <2>2 DEF KeyCellTrue, Hears
<1> QED BY <1>1, <1>2

(* Steps that the page of keys takes no part in *)
SameKeyCells ==
    \A k \in Keys : /\ RowCell(k) \in excused' <=> RowCell(k) \in excused
                    /\ NameCell(k) \in excused' <=> NameCell(k) \in excused
                    /\ \A p \in ApiPermissions : KeyCell(k, p) \in excused' <=> KeyCell(k, p) \in excused

LEMMA KeysAlone ==
  ASSUME Tables, keysPage \in KeysPages, KeysMirror, UNCHANGED <<key, scenario, keysPage>>, SameKeyCells,
         \A e \in calls' : e.page # "gone" /\ e.target \in Keys => e \in calls,
         SameAnswers, SameCalls("modifyKey"), SameCalls("rename"), SameCalls("deleteKey")
  PROVE  KeysMirror'
<1>1. NoNewKeys
  BY DEF NoNewKeys, KeysMirror, SeenKeys, SameKeyCells, SameAnswers
<1>2. SeenKeys' /\ NewKeys'
  BY <1>1, KnownKeys
<1>3. Deletions' /\ RowsTrue'
  BY RowsAlone DEF SameKeyCells
<1>4. NamesTrue'
  BY NamesAlone DEF SameKeyCells
<1>5. KeyCalls' /\ KeyCellsTrue'
  BY CellsAlone DEF SameKeyCells
<1> QED BY <1>2, <1>3, <1>4, <1>5 DEF KeysMirror

-----------------------------------------------------------------------------
(* The steps of the page of keys *)
LEMMA KeySentMirror ==
  ASSUME Tables, KeysInv, keysPage \in KeysPages, KeysMirror, NEW k \in Keys, NEW p \in Now.keyClicked,
         changeApiPermission(k, p), UNCHANGED <<scenario, user, key, stored, faults, overtaken, excused>>
  PROVE  KeysMirror'
<1> DEFINE cell == <<k, p>>
           req == apiAuthModify(k, p, cell \notin keysPage.granted)
           new == Made("keys", req)
<1>1. /\ k \in keysPage.rows /\ cell \notin keysPage.processing /\ Sends("keys", {req})
      /\ keysPage' = [keysPage EXCEPT !.granted = @ \ {cell}, !.processing = @ \cup {cell}]
  BY DEF changeApiPermission
<1>2. p \in ApiPermissions
  BY NowFacts DEF Tables
<1>3. /\ keysPage'.rows = keysPage.rows /\ keysPage'.busy = keysPage.busy /\ keysPage'.name = keysPage.name
      /\ keysPage'.granted = keysPage.granted \ {cell} /\ keysPage'.processing = keysPage.processing \cup {cell}
  BY <1>1, KeysFields DEF KeysPages
<1>4. calls \subseteq calls' /\ (\A e \in calls' : e \in calls \/ e = new) /\ new \in calls'
  <2> HIDE DEF req
  <2>1. \A r \in {req} : r = req
    OBVIOUS
  <2> QED BY <1>1, <2>1, SentCalls DEF Pages
<1>5. /\ Hears(new, "modifyKey") /\ new.target = k /\ new.arg = p
      /\ Expected(new) <=> cell \in keysPage.granted
  <2>1. /\ req.op = "modifyKey" /\ req.target = k /\ req.arg = p
        /\ req.grant = (cell \notin keysPage.granted)
    BY DEF apiAuthModify, Request
  <2> HIDE DEF req
  <2>2. /\ Hears(new, "modifyKey") /\ new.target = k /\ new.arg = p
        /\ new.grant = (cell \notin keysPage.granted) /\ ~Saved(new)
    BY <2>1, SentIs DEF Pages, Hears, Saved
  <2> HIDE DEF new
  <2> QED BY <2>2 DEF Expected
<1> HIDE DEF new, req
<1>6. \A e \in calls : Hears(e, "modifyKey") => ~(e.target = k /\ e.arg = p)
  BY <1>1 DEF KeysMirror, KeyCalls
<1>7. SeenKeys' /\ NewKeys'
  <2>1. \A x \in keysPage'.processing : x \notin keysPage'.granted
    BY <1>3 DEF KeysMirror, SeenKeys
  <2>2. NoNewKeys
    BY <1>1, <1>2, <1>3, <1>4, <1>5, <2>1 DEF NoNewKeys, Hears, KeyCells
  <2> QED BY <2>2, KnownKeys
<1>8. Deletions' /\ RowsTrue'
  BY <1>3, <1>4, <1>5, RowsAlone DEF SameCalls, SameAnswers, Hears
<1>9. NamesTrue'
  BY <1>3, <1>4, <1>5, NamesAlone DEF SameCalls, Hears
<1>10. KeyCalls'
  <2> SUFFICES ASSUME NEW e \in calls', Hears(e, "modifyKey")
               PROVE  /\ <<e.target, e.arg>> \in keysPage'.processing
                      /\ KeyCallTrue(e)'
                      /\ \A b \in calls' : Hears(b, "modifyKey") /\ b.target = e.target /\ b.arg = e.arg => b = e
    BY DEF KeyCalls, Hears
  <2>1. CASE e \in calls
    <3>1. /\ <<e.target, e.arg>> \in keysPage.processing /\ KeyCallTrue(e)
          /\ \A b \in calls : Hears(b, "modifyKey") /\ b.target = e.target /\ b.arg = e.arg => b = e
      BY <2>1 DEF KeysMirror, KeyCalls
    <3>2. KeyCallTrue(e)'
      BY <3>1 DEF KeyCallTrue, Expected, Saved
    <3> QED BY <1>3, <1>4, <1>5, <1>6, <2>1, <3>1, <3>2
  <2>2. CASE e = new
    <3>1. KeyCellTrue(k, p)
      BY <1>1, <1>2 DEF KeysMirror, KeyCellsTrue
    <3>2. KeyCell(k, p) \in excused \/ (p \in key[k].perms <=> Expected(e))
      BY <1>5, <1>6, <2>2, <3>1 DEF KeyCellTrue
    <3>3. KeyCallTrue(e)'
      BY <1>5, <2>2, <3>2 DEF KeyCallTrue, Expected, Saved
    <3> QED BY <1>3, <1>4, <1>5, <1>6, <2>2, <3>3
  <2> QED BY <1>4, <2>1, <2>2
<1>11. KeyCellsTrue'
  <2> SUFFICES ASSUME NEW x \in keysPage'.rows, NEW q \in ApiPermissions PROVE KeyCellTrue(x, q)'
    BY DEF KeyCellsTrue
  <2>1. KeyCellTrue(x, q)
    BY <1>3 DEF KeysMirror, KeyCellsTrue
  <2>2. CASE x = k /\ q = p
    BY <1>4, <1>5, <2>2 DEF KeyCellTrue, Hears
  <2>3. CASE ~(x = k /\ q = p)
    <3>1. <<x, q>> \in keysPage'.granted <=> <<x, q>> \in keysPage.granted
      BY <1>3, <2>3
    <3> QED BY <1>4, <2>1, <3>1 DEF KeyCellTrue, Hears
  <2> QED BY <2>2, <2>3
<1> QED BY <1>7, <1>8, <1>9, <1>10, <1>11 DEF KeysMirror

LEMMA DeletionSentMirror ==
  ASSUME Tables, keysPage \in KeysPages, KeysMirror, NEW k \in Keys, deleteApiKey(k),
         UNCHANGED <<scenario, user, key, stored, faults, overtaken, excused>>
  PROVE  KeysMirror'
<1> DEFINE req == apiAuthDelete(k)
           new == Made("keys", req)
<1>1. /\ k \in keysPage.rows /\ k \notin keysPage.busy /\ Sends("keys", {req})
      /\ keysPage' = [keysPage EXCEPT !.busy = @ \cup {k}]
  BY DEF deleteApiKey
<1>2. /\ keysPage'.rows = keysPage.rows /\ keysPage'.busy = keysPage.busy \cup {k} /\ keysPage'.name = keysPage.name
      /\ keysPage'.granted = keysPage.granted /\ keysPage'.processing = keysPage.processing
  BY <1>1, KeysFields DEF KeysPages
<1>3. calls \subseteq calls' /\ (\A e \in calls' : e \in calls \/ e = new) /\ new \in calls'
  <2> HIDE DEF req
  <2>1. \A r \in {req} : r = req
    OBVIOUS
  <2> QED BY <1>1, <2>1, SentCalls DEF Pages
<1>4. Hears(new, "deleteKey") /\ new.target = k /\ new.pc # "ok"
  <2>1. req.op = "deleteKey" /\ req.target = k
    BY DEF apiAuthDelete, Request
  <2> HIDE DEF req
  <2> QED BY <2>1, SentIs DEF Pages, Hears
<1> HIDE DEF new, req
<1>5. \A e \in calls : Hears(e, "deleteKey") => e.target # k
  BY <1>1 DEF KeysMirror, Deletions
<1>6. SeenKeys' /\ NewKeys'
  <2>1. NoNewKeys
    BY <1>1, <1>2, <1>3, <1>4 DEF NoNewKeys, Hears, KeysMirror, SeenKeys
  <2> QED BY <2>1, KnownKeys
<1>7. NamesTrue'
  BY <1>2, <1>3, <1>4, NamesAlone DEF SameCalls, Hears
<1>8. KeyCalls' /\ KeyCellsTrue'
  BY <1>2, <1>3, <1>4, CellsAlone DEF SameCalls, Hears
<1>9. \A x \in Keys : RowTrue(x)' <=> RowTrue(x)
  BY <1>2 DEF RowTrue, Now
<1>10. RowTrue(k)
  <2>1. ~RowAnswered(k)
    BY <1>1, <1>5 DEF RowAnswered, KeysMirror, NewKeys, NewKeyRow, Hears
  <2> QED BY <2>1 DEF KeysMirror, RowsTrue
<1>11. RowsTrue'
  <2> SUFFICES ASSUME NEW x \in Keys PROVE RowTrue(x)' \/ RowAnswered(x)'
    BY DEF RowsTrue
  <2>1. RowAnswered(x) => RowAnswered(x)'
    BY <1>3 DEF RowAnswered
  <2> QED BY <1>9, <2>1 DEF KeysMirror, RowsTrue
<1>12. Deletions'
  <2> SUFFICES ASSUME NEW e \in calls', Hears(e, "deleteKey")
               PROVE  /\ e.target \in keysPage'.busy
                      /\ e.pc # "ok" => RowTrue(e.target)'
                      /\ e.pc = "ok" => key'[e.target].state # "live" \/ RowCell(e.target) \in excused'
                      /\ \A b \in calls' : Hears(b, "deleteKey") /\ b.target = e.target => b = e
    BY DEF Deletions, Hears
  <2>1. CASE e \in calls
    <3>1. /\ e.target \in keysPage.busy /\ e.target \in Keys
          /\ e.pc # "ok" => RowTrue(e.target)
          /\ e.pc = "ok" => key[e.target].state # "live" \/ RowCell(e.target) \in excused
          /\ \A b \in calls : Hears(b, "deleteKey") /\ b.target = e.target => b = e
      BY <2>1, KeyTypes DEF KeysMirror, Deletions
    <3> QED BY <1>2, <1>3, <1>4, <1>5, <1>9, <2>1, <3>1
  <2>2. CASE e = new
    BY <1>2, <1>3, <1>4, <1>5, <1>9, <1>10, <2>2
  <2> QED BY <1>3, <2>1, <2>2
<1> QED BY <1>6, <1>7, <1>8, <1>11, <1>12 DEF KeysMirror

LEMMA CreationSentMirror ==
  ASSUME Tables, keysPage \in KeysPages, KeysMirror, newApiKey,
         UNCHANGED <<scenario, user, key, stored, faults, overtaken, excused>>
  PROVE  KeysMirror'
<1> DEFINE new == Made("keys", apiAuthCreate)
<1>1. Sends("keys", {apiAuthCreate}) /\ keysPage' = [keysPage EXCEPT !.new = "busy"]
  BY DEF newApiKey
<1>2. /\ keysPage'.rows = keysPage.rows /\ keysPage'.busy = keysPage.busy /\ keysPage'.name = keysPage.name
      /\ keysPage'.granted = keysPage.granted /\ keysPage'.processing = keysPage.processing
  BY <1>1, KeysFields DEF KeysPages
<1>3. calls \subseteq calls' /\ (\A e \in calls' : e \in calls \/ e = new) /\ new \in calls'
  <2>1. \A r \in {apiAuthCreate} : r = apiAuthCreate
    OBVIOUS
  <2> QED BY <1>1, <2>1, SentCalls DEF Pages
<1>4. Hears(new, "createKey") /\ new.target = NoToken /\ new.pc # "ok" /\ NoToken \notin Keys
  <2>1. apiAuthCreate.op = "createKey" /\ apiAuthCreate.target = NoToken
    BY DEF apiAuthCreate, Request
  <2> QED BY <2>1, SentIs, AdminAssumption DEF Pages, Hears, AllKeys
<1> HIDE DEF new
<1>5. SeenKeys' /\ NewKeys'
  <2>1. NoNewKeys
    BY <1>2, <1>3, <1>4 DEF NoNewKeys, KeysMirror, SeenKeys
  <2> QED BY <2>1, KnownKeys
<1>6. Deletions' /\ RowsTrue'
  BY <1>2, <1>3, <1>4, RowsAlone DEF SameCalls, SameAnswers, Hears
<1>7. NamesTrue'
  BY <1>2, <1>3, <1>4, NamesAlone DEF SameCalls, Hears
<1>8. KeyCalls' /\ KeyCellsTrue'
  BY <1>2, <1>3, <1>4, CellsAlone DEF SameCalls, Hears
<1> QED BY <1>5, <1>6, <1>7, <1>8 DEF KeysMirror

LEMMA RenamingSentMirror ==
  ASSUME Tables, keysPage \in KeysPages, KeysMirror, NEW k \in Keys, NEW name \in Now.typed,
         addFriendlyNameChange(k, name), UNCHANGED <<scenario, user, key, stored, faults, overtaken>>
  PROVE  KeysMirror'
<1> DEFINE req == apiAuthFriendlyName(k, name)
           new == Made("keys", req)
<1>1. /\ k \in keysPage.rows /\ Sends("keys", {req})
      /\ keysPage' = [keysPage EXCEPT !.name[k] = name]
      /\ excused' = excused \cup {NameCell(e.target) : e \in {e \in calls : e.op = "rename" /\ e.target = k}}
  BY DEF addFriendlyNameChange
<1>2. /\ keysPage'.rows = keysPage.rows /\ keysPage'.busy = keysPage.busy
      /\ keysPage'.name = [keysPage.name EXCEPT ![k] = name]
      /\ keysPage'.granted = keysPage.granted /\ keysPage'.processing = keysPage.processing
  BY <1>1, KeysFields DEF KeysPages
<1>3. calls \subseteq calls' /\ (\A e \in calls' : e \in calls \/ e = new) /\ new \in calls'
  <2> HIDE DEF req
  <2>1. \A r \in {req} : r = req
    OBVIOUS
  <2> QED BY <1>1, <2>1, SentCalls DEF Pages
<1>4. Hears(new, "rename") /\ new.target = k /\ new.arg = name /\ new.pc # "ok"
  <2>1. req.op = "rename" /\ req.target = k /\ req.arg = name
    BY DEF apiAuthFriendlyName, Request
  <2> HIDE DEF req
  <2> QED BY <2>1, SentIs DEF Pages, Hears
<1> HIDE DEF new, req
<1>5. /\ \A x \in Keys : /\ RowCell(x) \in excused' <=> RowCell(x) \in excused
                         /\ NameCell(x) \in excused => NameCell(x) \in excused'
                         /\ x # k /\ NameCell(x) \in excused' => NameCell(x) \in excused
                         /\ \A p \in ApiPermissions : KeyCell(x, p) \in excused' <=> KeyCell(x, p) \in excused
      /\ NameCell(k) \notin excused' => \A e \in calls : ~(e.op = "rename" /\ e.target = k)
  BY <1>1 DEF RowCell, NameCell, KeyCell
<1>6. SeenKeys' /\ NewKeys'
  <2>1. NoNewKeys
    BY <1>1, <1>2, <1>3, <1>4, <1>5 DEF NoNewKeys, Hears, KeysMirror, SeenKeys
  <2> QED BY <2>1, KnownKeys
<1>7. Deletions' /\ RowsTrue'
  BY <1>2, <1>3, <1>4, <1>5, RowsAlone DEF SameCalls, SameAnswers, Hears
<1>8. KeyCalls' /\ KeyCellsTrue'
  BY <1>2, <1>3, <1>4, <1>5, CellsAlone DEF SameCalls, Hears
<1>9. NamesTrue'
  <2> SUFFICES ASSUME NEW x \in Keys, NameCell(x) \notin excused' PROVE NameTrue(x)'
    BY DEF NamesTrue, NameTrue
  <2>1. CASE x = k
    <3>1. \A e \in calls' : Hears(e, "rename") /\ e.target = k => e = new
      BY <1>3, <1>5, <2>1 DEF Hears
    <3>2. keysPage'.name[k] = name
      BY <1>2, KeysFields
    <3> QED BY <1>3, <1>4, <2>1, <3>1, <3>2 DEF NameTrue, Hears
  <2>2. CASE x # k
    <3>1. /\ \A e \in calls : Hears(e, "rename") /\ e.target = x =>
                /\ keysPage.name[x] = e.arg /\ (e.pc = "ok" => key[x].name = e.arg)
                /\ \A b \in calls : Hears(b, "rename") /\ b.target = x => b = e
          /\ NameShown(x) \/ \E e \in calls : Hears(e, "rename") /\ e.target = x
      BY <1>5, <2>2 DEF KeysMirror, NamesTrue, NameTrue
    <3>2. keysPage'.name[x] = keysPage.name[x]
      BY <1>2, <2>2, KeysFields
    <3>3. \A b : Hears(b, "rename") /\ b.target = x => (b \in calls <=> b \in calls')
      BY <1>3, <1>4, <2>2
    <3>4. ASSUME NEW e \in calls', Hears(e, "rename"), e.target = x
          PROVE  /\ keysPage'.name[x] = e.arg /\ (e.pc = "ok" => key'[x].name = e.arg)
                 /\ \A b \in calls' : Hears(b, "rename") /\ b.target = x => b = e
      BY <3>1, <3>2, <3>3, <3>4
    <3>5. NameShown(x)' \/ \E e \in calls' : Hears(e, "rename") /\ e.target = x
      BY <1>2, <3>1, <3>2, <3>3 DEF NameShown
    <3> QED BY <3>4, <3>5 DEF NameTrue, Hears
  <2> QED BY <2>1, <2>2
<1> QED BY <1>6, <1>7, <1>8, <1>9 DEF KeysMirror

(* Their answers *)
LEMMA KeyHeard ==
  ASSUME Tables, keysPage \in KeysPages, KeysMirror, NEW c \in calls, c.page = "keys", c.pc \in {"ok", "error"},
         ModifyKeyAnswered(c), calls' = calls \ {c}, UNCHANGED <<scenario, user, key, excused>>
  PROVE  KeysMirror'
<1> DEFINE cell == <<c.target, c.arg>>
           granted == c.grant = (c.pc = "ok")
<1>1. Hears(c, "modifyKey") /\ c.grant \in BOOLEAN /\ c.target \in Keys /\ c.arg \in ApiPermissions
  <2>1. c.grant \in BOOLEAN
    BY CallFields DEF Tables, Typed
  <2>2. Hears(c, "modifyKey")
    BY DEF ModifyKeyAnswered, Hears
  <2> QED BY <2>1, <2>2, KeyTypes
<1>2. /\ keysPage'.rows = keysPage.rows /\ keysPage'.busy = keysPage.busy /\ keysPage'.name = keysPage.name
      /\ keysPage'.processing = keysPage.processing \ {cell}
      /\ keysPage'.granted = IF granted THEN keysPage.granted \cup {cell} ELSE keysPage.granted
  BY KeysFields DEF ModifyKeyAnswered, KeysPages
<1>3. /\ cell \in keysPage.processing /\ cell \notin keysPage.granted /\ KeyCallTrue(c)
      /\ \A b \in calls : Hears(b, "modifyKey") /\ b.target = c.target /\ b.arg = c.arg => b = c
  BY <1>1 DEF KeysMirror, KeyCalls, SeenKeys
<1>4. Expected(c) <=> granted
  BY <1>1 DEF Expected, Saved
<1> HIDE DEF granted
<1>5. SeenKeys' /\ NewKeys'
  <2>1. \A x \in keysPage'.processing : x \notin keysPage'.granted
    BY <1>2 DEF KeysMirror, SeenKeys
  <2>2. NoNewKeys
    BY <1>2, <1>3, <2>1 DEF NoNewKeys
  <2> QED BY <2>2, KnownKeys
<1>6. Deletions' /\ RowsTrue'
  BY <1>1, <1>2, RowsAlone DEF SameCalls, SameAnswers, Hears
<1>7. NamesTrue'
  BY <1>1, <1>2, NamesAlone DEF SameCalls, Hears
<1>8. KeyCalls'
  <2> SUFFICES ASSUME NEW e \in calls', Hears(e, "modifyKey")
               PROVE  /\ <<e.target, e.arg>> \in keysPage'.processing
                      /\ KeyCallTrue(e)'
                      /\ \A b \in calls' : Hears(b, "modifyKey") /\ b.target = e.target /\ b.arg = e.arg => b = e
    BY DEF KeyCalls, Hears
  <2>1. /\ <<e.target, e.arg>> \in keysPage.processing /\ KeyCallTrue(e)
        /\ \A b \in calls : Hears(b, "modifyKey") /\ b.target = e.target /\ b.arg = e.arg => b = e
    BY DEF KeysMirror, KeyCalls
  <2>2. <<e.target, e.arg>> # cell
    BY <1>3
  <2>3. KeyCallTrue(e)'
    BY <2>1 DEF KeyCallTrue, Expected, Saved
  <2> QED BY <1>2, <2>1, <2>2, <2>3
<1>9. KeyCellsTrue'
  <2> SUFFICES ASSUME NEW k \in keysPage'.rows, NEW p \in ApiPermissions PROVE KeyCellTrue(k, p)'
    BY DEF KeyCellsTrue
  <2>1. KeyCellTrue(k, p)
    BY <1>2 DEF KeysMirror, KeyCellsTrue
  <2>2. CASE k = c.target /\ p = c.arg
    <3>1. <<k, p>> \in keysPage'.granted <=> granted
      BY <1>2, <1>3, <2>2
    <3>2. KeyCell(k, p) \in excused \/ (p \in key[k].perms <=> granted)
      BY <1>3, <1>4, <2>2 DEF KeyCallTrue
    <3> QED BY <3>1, <3>2 DEF KeyCellTrue
  <2>3. CASE ~(k = c.target /\ p = c.arg)
    <3>1. <<k, p>> \in keysPage'.granted <=> <<k, p>> \in keysPage.granted
      BY <1>2, <2>3
    <3>2. \A e \in calls : Hears(e, "modifyKey") /\ e.target = k /\ e.arg = p => e \in calls'
      BY <2>3
    <3> QED BY <2>1, <3>1, <3>2 DEF KeyCellTrue, Hears
  <2> QED BY <2>2, <2>3
<1> QED BY <1>5, <1>6, <1>7, <1>8, <1>9 DEF KeysMirror

LEMMA DeletionHeard ==
  ASSUME Tables, keysPage \in KeysPages, KeysMirror, NEW c \in calls, c.page = "keys", c.pc \in {"ok", "error"},
         DeleteKeyAnswered(c), calls' = calls \ {c}, UNCHANGED <<scenario, user, key, excused>>
  PROVE  KeysMirror'
<1>1. Hears(c, "deleteKey") /\ c.target \in Keys
  <2>1. Hears(c, "deleteKey")
    BY DEF DeleteKeyAnswered, Hears
  <2> QED BY <2>1, KeyTypes
<1>2. /\ keysPage'.rows = IF c.pc = "ok" THEN keysPage.rows \ {c.target} ELSE keysPage.rows
      /\ keysPage'.busy = keysPage.busy /\ keysPage'.name = keysPage.name
      /\ keysPage'.granted = keysPage.granted /\ keysPage'.processing = keysPage.processing
  BY KeysFields DEF DeleteKeyAnswered, KeysPages
<1>3. /\ c.pc # "ok" => RowTrue(c.target)
      /\ c.pc = "ok" => key[c.target].state # "live" \/ RowCell(c.target) \in excused
      /\ \A b \in calls : Hears(b, "deleteKey") /\ b.target = c.target => b = c
  BY <1>1 DEF KeysMirror, Deletions
<1>4. SeenKeys' /\ NewKeys'
  <2>1. NoNewKeys
    BY <1>2 DEF NoNewKeys, KeysMirror, SeenKeys
  <2> QED BY <2>1, KnownKeys
<1>5. NamesTrue'
  <2>1. keysPage'.rows \subseteq keysPage.rows
    BY <1>2
  <2> QED BY <1>1, <1>2, <2>1, NamesAlone DEF SameCalls, Hears
<1>6. KeyCalls' /\ KeyCellsTrue'
  <2>1. keysPage'.rows \subseteq keysPage.rows
    BY <1>2
  <2> QED BY <1>1, <1>2, <2>1, CellsAlone DEF SameCalls, Hears
<1>7. \A k \in Keys : k # c.target => (RowTrue(k)' <=> RowTrue(k))
  BY <1>2 DEF RowTrue, Now
<1>8. RowTrue(c.target)'
  BY <1>2, <1>3 DEF RowTrue, Now
<1>9. Deletions'
  <2> SUFFICES ASSUME NEW e \in calls', Hears(e, "deleteKey")
               PROVE  /\ e.target \in keysPage'.busy
                      /\ e.pc # "ok" => RowTrue(e.target)'
                      /\ e.pc = "ok" => key'[e.target].state # "live" \/ RowCell(e.target) \in excused'
                      /\ \A b \in calls' : Hears(b, "deleteKey") /\ b.target = e.target => b = e
    BY DEF Deletions, Hears
  <2>1. /\ e.target \in keysPage.busy /\ e.target \in Keys /\ e.target # c.target
        /\ e.pc # "ok" => RowTrue(e.target)
        /\ e.pc = "ok" => key[e.target].state # "live" \/ RowCell(e.target) \in excused
        /\ \A b \in calls : Hears(b, "deleteKey") /\ b.target = e.target => b = e
    BY <1>3, KeyTypes DEF KeysMirror, Deletions
  <2> QED BY <1>2, <1>7, <2>1
<1>10. RowsTrue'
  <2> SUFFICES ASSUME NEW k \in Keys, k # c.target PROVE RowTrue(k)' \/ RowAnswered(k)'
    BY <1>8 DEF RowsTrue
  <2>1. RowAnswered(k) => RowAnswered(k)'
    BY DEF RowAnswered
  <2> QED BY <1>7, <2>1 DEF KeysMirror, RowsTrue
<1> QED BY <1>4, <1>5, <1>6, <1>9, <1>10 DEF KeysMirror

LEMMA RenamingHeard ==
  ASSUME Tables, keysPage \in KeysPages, KeysMirror, NEW c \in calls, c.page = "keys", c.pc \in {"ok", "error"},
         c.op = "rename", calls' = calls \ {c}, UNCHANGED <<scenario, user, key, keysPage>>,
         excused' = excused \cup (IF c.pc = "error" THEN {NameCell(c.target)} ELSE {})
  PROVE  KeysMirror'
<1>1. Hears(c, "rename") /\ c.target \in Keys
  <2>1. Hears(c, "rename")
    BY DEF Hears
  <2> QED BY <2>1, KeyTypes
<1>2. /\ \A x \in Keys : /\ RowCell(x) \in excused' <=> RowCell(x) \in excused
                         /\ NameCell(x) \in excused => NameCell(x) \in excused'
                         /\ \A p \in ApiPermissions : KeyCell(x, p) \in excused' <=> KeyCell(x, p) \in excused
      /\ c.pc = "error" => NameCell(c.target) \in excused'
  BY DEF RowCell, NameCell, KeyCell
<1>3. SeenKeys' /\ NewKeys'
  <2>1. NoNewKeys
    BY <1>2 DEF NoNewKeys, KeysMirror, SeenKeys
  <2> QED BY <2>1, KnownKeys
<1>4. Deletions' /\ RowsTrue'
  BY <1>1, <1>2, RowsAlone DEF SameCalls, SameAnswers, Hears
<1>5. KeyCalls' /\ KeyCellsTrue'
  BY <1>1, <1>2, CellsAlone DEF SameCalls, Hears
<1>6. NamesTrue'
  <2> SUFFICES ASSUME NEW k \in Keys, NameCell(k) \notin excused' PROVE NameTrue(k)'
    BY DEF NamesTrue, NameTrue
  <2>1. /\ \A e \in calls : Hears(e, "rename") /\ e.target = k =>
              /\ keysPage.name[k] = e.arg /\ (e.pc = "ok" => key[k].name = e.arg)
              /\ \A b \in calls : Hears(b, "rename") /\ b.target = k => b = e
        /\ NameShown(k) \/ \E e \in calls : Hears(e, "rename") /\ e.target = k
    BY <1>2 DEF KeysMirror, NamesTrue, NameTrue
  <2>2. \A e \in calls' : e \in calls
    OBVIOUS
  <2>3. NameShown(k) => NameShown(k)'
    BY DEF NameShown
  <2>4. NameShown(k)' \/ \E e \in calls' : Hears(e, "rename") /\ e.target = k
    <3>1. CASE k = c.target
      BY <1>1, <1>2, <2>1, <2>3, <3>1 DEF NameShown
    <3>2. CASE k # c.target
      BY <2>1, <2>3, <3>2
    <3> QED BY <3>1, <3>2
  <2>5. ASSUME NEW e \in calls', Hears(e, "rename"), e.target = k
        PROVE  /\ keysPage'.name[k] = e.arg /\ (e.pc = "ok" => key'[k].name = e.arg)
               /\ \A b \in calls' : Hears(b, "rename") /\ b.target = k => b = e
    BY <2>1, <2>2, <2>5
  <2> QED BY <2>4, <2>5 DEF NameTrue, Hears
<1> QED BY <1>3, <1>4, <1>5, <1>6 DEF KeysMirror

LEMMA NewKeyHeard ==
  ASSUME Tables, keysPage \in KeysPages, KeysMirror, NEW c \in calls, c.page = "keys", c.pc \in {"ok", "error"},
         CreateKeyAnswered(c), calls' = calls \ {c}, UNCHANGED <<scenario, user, key, excused>>
  PROVE  KeysMirror'
<1>1. Hears(c, "createKey")
  BY DEF CreateKeyAnswered, Hears
<1>2. CASE c.pc = "error"
  <2>1. UNCHANGED keysPage
    BY <1>2 DEF CreateKeyAnswered
  <2>2. /\ \A e \in calls' : e \in calls
        /\ SameAnswers /\ SameCalls("modifyKey") /\ SameCalls("rename") /\ SameCalls("deleteKey")
    BY <1>1, <1>2 DEF SameAnswers, SameCalls, Hears
  <2>3. SameKeyCells
    BY DEF SameKeyCells
  <2> QED BY <2>1, <2>2, <2>3, KeysAlone
<1>3. CASE c.pc = "ok"
  <2> DEFINE k == c.target
  <2>1. k \in Keys
    BY <1>1, <1>3, KeyTypes
  <2>2. NewKeyRow(c) /\ \A d \in calls : d.page # "gone" /\ d.target = k => d = c
    BY <1>1, <1>3 DEF KeysMirror, NewKeys
  <2>3. /\ keysPage'.rows = keysPage.rows \cup {k} /\ keysPage'.busy = keysPage.busy
        /\ keysPage'.name = [keysPage.name EXCEPT ![k] = NewName]
        /\ keysPage'.granted = keysPage.granted \cup ({k} \X ApiPermDefault)
        /\ keysPage'.processing = keysPage.processing
    <3>1. keysPage' = addRowApi(k)
      BY <1>3 DEF CreateKeyAnswered
    <3>2. {"PERM_VIEW", "PERM_UPLOAD", "PERM_EDIT", "PERM_DELETE"} = ApiPermDefault
      BY DEF ApiPermDefault
    <3> QED BY <3>1, <3>2, KeysFields DEF KeysPages, addRowApi
  <2>4. /\ k \notin keysPage.rows /\ (key[k].state = "live" \/ RowCell(k) \in excused)
        /\ key[k].name = "Unnamed key" \/ NameCell(k) \in excused
        /\ \A p \in ApiPermissions :
              /\ <<k, p>> \notin keysPage.granted \cup keysPage.processing
              /\ KeyCell(k, p) \in excused \/ (p \in ApiPermDefault <=> p \in key[k].perms)
    BY <2>2 DEF NewKeyRow
  <2>5. key[k].state # "none"
    BY <1>1, <2>1 DEF KeysMirror, SeenKeys, Hears
  <2>6. \A e \in calls' : e \in calls /\ (e.page # "gone" => e.target # k)
    BY <2>2
  <2>7. \A x \in keysPage.processing : x[1] # k
    <3>1. \A x \in KeyCells : x[2] \in ApiPermissions /\ x = <<x[1], x[2]>>
      BY DEF KeyCells
    <3> QED BY <2>4, <3>1, KeyTypes
  <2> HIDE DEF k
  <2>8. SeenKeys'
    <3>1. \A x \in keysPage'.granted : key[x[1]].state # "none"
      BY <2>3, <2>5 DEF KeysMirror, SeenKeys
    <3>2. \A x \in keysPage'.processing : key[x[1]].state # "none" /\ x \notin keysPage'.granted
      BY <2>3, <2>7 DEF KeysMirror, SeenKeys
    <3> QED BY <2>3, <2>5, <2>6, <3>1, <3>2 DEF KeysMirror, SeenKeys
  <2>9. KeyCalls'
    <3> SUFFICES ASSUME NEW e \in calls', Hears(e, "modifyKey")
                 PROVE  /\ <<e.target, e.arg>> \in keysPage'.processing
                        /\ KeyCallTrue(e)'
                        /\ \A b \in calls' : Hears(b, "modifyKey") /\ b.target = e.target /\ b.arg = e.arg => b = e
      BY DEF KeyCalls, Hears
    <3>1. /\ <<e.target, e.arg>> \in keysPage.processing /\ KeyCallTrue(e)
          /\ \A b \in calls : Hears(b, "modifyKey") /\ b.target = e.target /\ b.arg = e.arg => b = e
      BY DEF KeysMirror, KeyCalls
    <3>2. KeyCallTrue(e)'
      BY <3>1 DEF KeyCallTrue, Expected, Saved
    <3> QED BY <2>3, <3>1, <3>2
  <2>10. \A x \in Keys : x # k => (RowTrue(x)' <=> RowTrue(x))
    BY <2>3 DEF RowTrue, Now
  <2>11. Deletions'
    <3> SUFFICES ASSUME NEW e \in calls', Hears(e, "deleteKey")
                 PROVE  /\ e.target \in keysPage'.busy
                        /\ e.pc # "ok" => RowTrue(e.target)'
                        /\ e.pc = "ok" => key'[e.target].state # "live" \/ RowCell(e.target) \in excused'
                        /\ \A b \in calls' : Hears(b, "deleteKey") /\ b.target = e.target => b = e
      BY DEF Deletions, Hears
    <3>1. /\ e.target \in keysPage.busy /\ e.target \in Keys /\ e.target # k
          /\ e.pc # "ok" => RowTrue(e.target)
          /\ e.pc = "ok" => key[e.target].state # "live" \/ RowCell(e.target) \in excused
          /\ \A b \in calls : Hears(b, "deleteKey") /\ b.target = e.target => b = e
      BY <2>6, KeyTypes DEF KeysMirror, Deletions, Hears
    <3> QED BY <2>3, <2>10, <3>1
  <2>12. NewKeys'
    <3> SUFFICES ASSUME NEW e \in calls', Hears(e, "createKey"), e.pc = "ok"
                 PROVE  NewKeyRow(e)' /\ \A b \in calls' : b.page # "gone" /\ b.target = e.target => b = e
      BY DEF NewKeys, Hears
    <3>1. /\ e.target # k /\ NewKeyRow(e)
          /\ \A b \in calls : b.page # "gone" /\ b.target = e.target => b = e
      BY <2>6 DEF KeysMirror, NewKeys, Hears
    <3>2. NewKeyRow(e)'
      BY <2>3, <3>1 DEF NewKeyRow
    <3> QED BY <3>1, <3>2
  <2>13. RowsTrue'
    <3>1. RowTrue(k)'
      BY <2>3, <2>4 DEF RowTrue, Now
    <3> SUFFICES ASSUME NEW x \in Keys, x # k PROVE RowTrue(x)' \/ RowAnswered(x)'
      BY <3>1 DEF RowsTrue
    <3>2. RowAnswered(x) => RowAnswered(x)'
      BY DEF RowAnswered, k
    <3> QED BY <2>10, <3>2 DEF KeysMirror, RowsTrue
  <2>14. NamesTrue'
    <3> SUFFICES ASSUME NEW x \in Keys, NameCell(x) \notin excused' PROVE NameTrue(x)'
      BY DEF NamesTrue, NameTrue
    <3>1. CASE x = k
      <4>1. keysPage'.name[k] = NewName /\ key'[k].name = "Unnamed key"
        BY <2>1, <2>3, <2>4, <3>1, KeysFields
      <4> QED BY <2>6, <3>1, <4>1 DEF NameTrue, NameShown, Hears
    <3>2. CASE x # k
      <4>1. keysPage'.name[x] = keysPage.name[x] /\ (x \in keysPage'.rows <=> x \in keysPage.rows)
        BY <2>3, <3>2, KeysFields
      <4>2. /\ \A e \in calls : Hears(e, "rename") /\ e.target = x =>
                  /\ keysPage.name[x] = e.arg /\ (e.pc = "ok" => key[x].name = e.arg)
                  /\ \A b \in calls : Hears(b, "rename") /\ b.target = x => b = e
            /\ NameShown(x) \/ \E e \in calls : Hears(e, "rename") /\ e.target = x
        BY DEF KeysMirror, NamesTrue, NameTrue
      <4>3. \A b : Hears(b, "rename") => (b \in calls <=> b \in calls')
        BY <1>1 DEF Hears
      <4>4. ASSUME NEW e \in calls', Hears(e, "rename"), e.target = x
            PROVE  /\ keysPage'.name[x] = e.arg /\ (e.pc = "ok" => key'[x].name = e.arg)
                   /\ \A b \in calls' : Hears(b, "rename") /\ b.target = x => b = e
        BY <4>1, <4>2, <4>3, <4>4
      <4>5. NameShown(x)' \/ \E e \in calls' : Hears(e, "rename") /\ e.target = x
        BY <4>1, <4>2, <4>3 DEF NameShown
      <4> QED BY <4>4, <4>5 DEF NameTrue, Hears
    <3> QED BY <3>1, <3>2
  <2>15. KeyCellsTrue'
    <3> SUFFICES ASSUME NEW x \in keysPage'.rows, NEW p \in ApiPermissions PROVE KeyCellTrue(x, p)'
      BY DEF KeyCellsTrue
    <3>1. CASE x = k
      <4>1. <<k, p>> \in keysPage'.granted <=> p \in ApiPermDefault
        BY <2>3, <2>4
      <4> QED BY <2>4, <3>1, <4>1 DEF KeyCellTrue
    <3>2. CASE x # k
      <4>1. KeyCellTrue(x, p)
        BY <2>3, <3>2 DEF KeysMirror, KeyCellsTrue
      <4>2. <<x, p>> \in keysPage'.granted <=> <<x, p>> \in keysPage.granted
        BY <2>3, <3>2
      <4>3. \A e \in calls : Hears(e, "modifyKey") => e \in calls'
        BY <1>1 DEF Hears
      <4> QED BY <4>1, <4>2, <4>3 DEF KeyCellTrue, Hears
    <3> QED BY <3>1, <3>2
  <2> QED BY <2>8, <2>9, <2>11, <2>12, <2>13, <2>14, <2>15 DEF KeysMirror
<1> QED BY <1>2, <1>3

LEMMA KeysMirrored ==
  ASSUME Tables, KeysInv, keysPage \in KeysPages, KeysMirror, KeysStep
  PROVE  KeysMirror'
<1>1. ASSUME NEW k \in Keys, (\E p \in Now.keyClicked : changeApiPermission(k, p)) \/ deleteApiKey(k),
             UNCHANGED <<scenario, user, key, stored, faults, overtaken, excused>>
      PROVE  KeysMirror'
  BY <1>1, KeySentMirror, DeletionSentMirror
<1>2. ASSUME newApiKey, UNCHANGED <<scenario, user, key, stored, faults, overtaken, excused>>
      PROVE  KeysMirror'
  BY <1>2, CreationSentMirror
<1>3. ASSUME NEW k \in Keys, NEW name \in Now.typed, addFriendlyNameChange(k, name),
             UNCHANGED <<scenario, user, key, stored, faults, overtaken>>
      PROVE  KeysMirror'
  BY <1>3, RenamingSentMirror
<1>4. ASSUME NEW c \in calls, c.page = "keys", c.pc \in {"ok", "error"}, KeysAnswered(c), calls' = calls \ {c},
             excused' = excused \cup (IF c.op = "rename" /\ c.pc = "error" THEN {NameCell(c.target)} ELSE {}),
             UNCHANGED <<scenario, user, key, stored, actions, faults, overtaken>>
      PROVE  KeysMirror'
  <2>1. CASE c.op = "rename" /\ UNCHANGED keysPage
    BY <1>4, <2>1, RenamingHeard
  <2>2. CASE ModifyKeyAnswered(c) \/ DeleteKeyAnswered(c) \/ CreateKeyAnswered(c)
    <3>1. c.op # "rename" /\ excused' = excused
      BY <1>4, <2>2 DEF ModifyKeyAnswered, DeleteKeyAnswered, CreateKeyAnswered
    <3> QED BY <1>4, <2>2, <3>1, KeyHeard, DeletionHeard, NewKeyHeard
  <2> QED BY <1>4, <2>1, <2>2 DEF KeysAnswered
<1> QED BY <1>1, <1>2, <1>3, <1>4 DEF KeysStep, KeysAnswered

-----------------------------------------------------------------------------
(* Steps of the other page *)
Aside(page) == \A e : e.page \notin {page, "gone"} => (e \in calls' <=> e \in calls)

LEMMA CellNames ==
  /\ \A u, p, k, q : UserCell(u, p) # KeyCell(k, q)
  /\ \A u, p, k : UserCell(u, p) # NameCell(k) /\ UserCell(u, p) # RowCell(k)
  /\ \A k, q, l : KeyCell(k, q) # NameCell(l) /\ KeyCell(k, q) # RowCell(l)
  /\ \A k, l : NameCell(k) # RowCell(l)
  /\ \A u, p, v, q : UserCell(u, p) = UserCell(v, q) => u = v /\ p = q
  /\ \A k, p, l, q : KeyCell(k, p) = KeyCell(l, q) => k = l /\ p = q
  /\ \A k, l : (NameCell(k) = NameCell(l) => k = l) /\ (RowCell(k) = RowCell(l) => k = l)
BY DEF UserCell, KeyCell, NameCell, RowCell

LEMMA SentAsideOf ==
  ASSUME NEW page \in Pages, NEW requests, Sends(page, requests)
  PROVE  Aside(page)
<1>1. /\ calls \subseteq calls' /\ \A e \in calls' : e \in calls \/ \E r \in requests : e = Made(page, r)
  BY SentCalls
<1>2. \A r : Made(page, r).page = page
  BY SentIs
<1> QED BY <1>1, <1>2 DEF Aside

LEMMA UsersAside ==
  ASSUME Tables, UsersStep
  PROVE  Aside("users") /\ UNCHANGED <<key, scenario>> /\ SameKeyCells
<1>1. "users" \in Pages
  BY DEF Pages
<1>2. ASSUME NEW requests, Sends("users", requests), UNCHANGED <<scenario, key, excused>>
      PROVE  Aside("users") /\ UNCHANGED <<key, scenario>> /\ SameKeyCells
  BY <1>1, <1>2, SentAsideOf DEF SameKeyCells
<1>3. ASSUME NEW u \in Now.edited,
             (\E p \in Now.clicked : changeUserPermission(u, p)) \/ changeRank(u) \/ addNewUser(u),
             UNCHANGED <<scenario, user, key, stored, faults, overtaken, excused>>
      PROVE  Aside("users") /\ UNCHANGED <<key, scenario>> /\ SameKeyCells
  <2>1. \E requests : Sends("users", requests)
    BY <1>3 DEF changeUserPermission, changeRank, addNewUser
  <2> QED BY <1>2, <1>3, <2>1
<1>4. ASSUME resetPw, UNCHANGED <<scenario, user, key, stored, faults, overtaken, excused>>
      PROVE  Aside("users") /\ UNCHANGED <<key, scenario>> /\ SameKeyCells
  <2>1. \E requests : Sends("users", requests)
    BY <1>4 DEF resetPw
  <2> QED BY <1>2, <1>4, <2>1
<1>5. ASSUME NEW u, showResetPwModal(u) \/ DismissReset
      PROVE  Aside("users") /\ UNCHANGED <<key, scenario>> /\ SameKeyCells
  BY <1>5 DEF showResetPwModal, DismissReset, adminVars, Aside, SameKeyCells
<1>6. ASSUME NEW c \in calls, c.page = "users", calls' = calls \ {c},
             UNCHANGED <<stored, excused>>, UNCHANGED <<scenario, user, key, actions, faults, overtaken>>
      PROVE  Aside("users") /\ UNCHANGED <<key, scenario>> /\ SameKeyCells
  BY <1>6 DEF Aside, SameKeyCells
<1>7. ASSUME calls' = Abandoned("users"), excused' = excused \ CellsOf("users"),
             UNCHANGED <<scenario, user, key, actions, faults, overtaken>>
      PROVE  Aside("users") /\ UNCHANGED <<key, scenario>> /\ SameKeyCells
  <2>1. \A e \in calls : [e EXCEPT !.page = "gone"].page = "gone"
    BY DEF Tables, Typed, Calls
  <2>2. Aside("users")
    BY <1>7, <2>1 DEF Aside, Abandoned
  <2>3. \A x \in CellsOf("users") : \E u, p : x = UserCell(u, p)
    BY DEF CellsOf
  <2>4. SameKeyCells
    BY <1>7, <2>3, CellNames DEF SameKeyCells
  <2> QED BY <1>7, <2>2, <2>4
<1> QED BY <1>3, <1>4, <1>5, <1>6, <1>7 DEF UsersStep

LEMMA KeysAside ==
  ASSUME Tables, KeysStep
  PROVE  Aside("keys") /\ UNCHANGED <<user, scenario>> /\ SameUserCells
<1>1. ASSUME NEW requests, Sends("keys", requests) PROVE Aside("keys")
  BY <1>1, SentAsideOf DEF Pages
<1>2. ASSUME NEW k \in Keys, (\E p \in Now.keyClicked : changeApiPermission(k, p)) \/ deleteApiKey(k) \/ newApiKey,
             UNCHANGED <<scenario, user, key, stored, faults, overtaken, excused>>
      PROVE  Aside("keys") /\ UNCHANGED <<user, scenario>> /\ SameUserCells
  <2>1. \E requests : Sends("keys", requests)
    BY <1>2 DEF changeApiPermission, deleteApiKey, newApiKey
  <2> QED BY <1>1, <1>2, <2>1 DEF SameUserCells
<1>3. ASSUME NEW k \in Keys, NEW name, addFriendlyNameChange(k, name),
             UNCHANGED <<scenario, user, key, stored, faults, overtaken>>
      PROVE  Aside("keys") /\ UNCHANGED <<user, scenario>> /\ SameUserCells
  <2>1. \E requests : Sends("keys", requests)
    BY <1>3 DEF addFriendlyNameChange
  <2>2. \A x \in excused' : x \in excused \/ \E l : x = NameCell(l)
    BY <1>3 DEF addFriendlyNameChange
  <2>3. excused \subseteq excused'
    BY <1>3 DEF addFriendlyNameChange
  <2>4. SameUserCells
    BY <2>2, <2>3, CellNames DEF SameUserCells
  <2> QED BY <1>1, <1>3, <2>1, <2>4
<1>4. ASSUME NEW c \in calls, c.page = "keys", calls' = calls \ {c},
             excused' = excused \cup (IF c.op = "rename" /\ c.pc = "error" THEN {NameCell(c.target)} ELSE {}),
             UNCHANGED <<scenario, user, key, stored, actions, faults, overtaken>>
      PROVE  Aside("keys") /\ UNCHANGED <<user, scenario>> /\ SameUserCells
  <2>1. SameUserCells
    BY <1>4, CellNames DEF SameUserCells
  <2> QED BY <1>4, <2>1 DEF Aside
<1>5. newApiKey => \E k \in Keys : TRUE
  BY DEF newApiKey
<1> QED BY <1>2, <1>3, <1>4, <1>5 DEF KeysStep

LEMMA AsideUsers ==
  ASSUME Tables, Tables', usersPage \in UsersPages, UsersMirror, Aside("keys"), UNCHANGED <<user, usersPage>>, SameUserCells
  PROVE  UsersMirror'
<1>1. /\ \A e \in calls : e.page = "keys" => e.op \notin {"modifyUser", "createUser"}
      /\ \A e \in calls' : e.page = "keys" => e.op \notin {"modifyUser", "createUser"}
  BY DEF Tables, Typed, Asks
<1>2. SameUserCalls
  BY <1>1 DEF SameUserCalls, Aside, Hears
<1> QED BY <1>2, UsersAlone DEF SameUserTable

LEMMA AsideKeys ==
  ASSUME Tables, Tables', keysPage \in KeysPages, KeysMirror, Aside("users"), UNCHANGED <<key, scenario, keysPage>>,
         SameKeyCells
  PROVE  KeysMirror'
<1>1. Users \cap Keys = {}
  BY AdminAssumption DEF AllKeys
<1>2. \A e \in calls : e.page = "users" =>
         e.op \notin {"modifyKey", "rename", "deleteKey", "createKey"} /\ e.target \notin Keys
  BY <1>1 DEF Tables, Typed, Asks
<1>3. \A e \in calls' : e.page = "users" =>
         e.op \notin {"modifyKey", "rename", "deleteKey", "createKey"} /\ e.target \notin Keys
  BY <1>1 DEF Tables, Typed, Asks
<1>4. /\ \A e \in calls' : e.page # "gone" /\ e.target \in Keys => e \in calls
      /\ SameAnswers /\ SameCalls("modifyKey") /\ SameCalls("rename") /\ SameCalls("deleteKey")
  BY <1>2, <1>3 DEF SameAnswers, SameCalls, Aside, Hears
<1> QED BY <1>4, KeysAlone

(* Nothing happens that either page hears of. *)
LEMMA Unheard ==
  ASSUME Tables, usersPage \in UsersPages, keysPage \in KeysPages, UsersMirror, KeysMirror,
         \A e : e.page # "gone" => (e \in calls' <=> e \in calls),
         UNCHANGED <<user, key, excused, usersPage, keysPage, scenario>>
  PROVE  UsersMirror' /\ KeysMirror'
<1>1. SameUserCalls /\ SameUserCells /\ SameUserTable
  BY DEF SameUserCalls, SameUserCells, SameUserTable, Hears
<1>2. /\ \A e \in calls' : e.page # "gone" /\ e.target \in Keys => e \in calls
      /\ SameAnswers /\ SameCalls("modifyKey") /\ SameCalls("rename") /\ SameCalls("deleteKey") /\ SameKeyCells
  BY DEF SameAnswers, SameCalls, SameKeyCells, Hears
<1>3. UsersMirror'
  BY <1>1, UsersAlone
<1>4. KeysMirror'
  BY <1>2, KeysAlone
<1> QED BY <1>3, <1>4

-----------------------------------------------------------------------------
(* The cells that a call owns, and those that it may excuse *)
UserOps == {"modifyUser", "rank", "createUser", "reset"}
KeyOps == {"modifyKey", "rename", "deleteKey", "createKey"}

LEMMA OwnIs ==
  ASSUME NEW c
  PROVE  /\ c.page = "gone" \/ c.op \in {"rank", "reset"} => Own(c) = {}
         /\ c.op = "modifyUser" => Own(c) \subseteq {UserCell(c.target, c.arg)}
         /\ c.op = "createUser" => Own(c) \subseteq {UserCell(c.target, p) : p \in UserPermissions}
         /\ c.op = "modifyKey" => Own(c) \subseteq {KeyCell(c.target, c.arg)}
         /\ c.op = "rename" => Own(c) \subseteq {NameCell(c.target)}
         /\ c.op = "deleteKey" => Own(c) \subseteq {RowCell(c.target)}
         /\ c.op = "createKey" => Own(c) \subseteq {RowCell(c.target), NameCell(c.target)}
                                                    \cup {KeyCell(c.target, p) : p \in ApiPermissions}
         /\ Hears(c, "modifyUser") => UserCell(c.target, c.arg) \in Own(c)
         /\ Hears(c, "modifyKey") => KeyCell(c.target, c.arg) \in Own(c)
         /\ Hears(c, "rename") => NameCell(c.target) \in Own(c)
         /\ Hears(c, "deleteKey") => RowCell(c.target) \in Own(c)
         /\ Hears(c, "createKey") /\ c.target \in Keys => RowCell(c.target) \in Own(c)
BY DEF Own, Hears

LEMMA OwnSides ==
  ASSUME NEW c
  PROVE  /\ c.op \in UserOps => \A k : /\ NameCell(k) \notin Own(c) /\ RowCell(k) \notin Own(c)
                                       /\ \A p : KeyCell(k, p) \notin Own(c)
         /\ c.op \in KeyOps => \A u, p : UserCell(u, p) \notin Own(c)
<1>1. ASSUME c.op \in UserOps
      PROVE  \A k : /\ NameCell(k) \notin Own(c) /\ RowCell(k) \notin Own(c)
                    /\ \A p : KeyCell(k, p) \notin Own(c)
  BY <1>1, OwnIs, CellNames DEF UserOps
<1>2. ASSUME c.op \in KeyOps PROVE \A u, p : UserCell(u, p) \notin Own(c)
  BY <1>2, OwnIs, CellNames DEF KeyOps
<1> QED BY <1>1, <1>2

LEMMA SettledCells ==
  ASSUME NEW o, NEW changed, Settled(o, changed)
  PROVE  /\ \A x : x \notin Own(o) => (x \in excused' <=> x \in excused \/ x \in changed)
         /\ o.op = "rename" => excused \subseteq excused'
BY DEF Settled

(* No row that a page shows is saved. *)
Quiet(c, d) ==
    /\ d.target = c.target /\ excused \subseteq excused' /\ user' = user /\ \A k \in Keys : key'[k] = key[k]
    /\ d.pc = "ok" => c.op \in {"modifyUser", "rank", "reset"}
    /\ Hears(c, "modifyUser") \/ Hears(c, "modifyKey") => (Saved(d) <=> Saved(c)) \/ Own(c) \subseteq excused'
    /\ c.pc = "ok" => Own(c) \subseteq excused'

LEMMA QuietEffects ==
  ASSUME Tables, NEW c \in calls, NEW d, Follows(c, d), Quiet(c, d)
  PROVE  UsersEffects(c, d) /\ KeysEffects(c, d)
<1>1. d.op = c.op /\ d.arg = c.arg /\ d.grant = c.grant /\ d.target = c.target
  BY DEF Follows, Quiet
<1>2. Asks(c) /\ Rests(c)
  BY DEF Tables, Typed
<1>3. \A u \in Users, p \in UserPermissions : UserCellKept(u, p)
  BY DEF UserCellKept, Quiet
<1>4. ASSUME Hears(c, "modifyUser"), UserCallTrue(c)
      PROVE  UserCell(c.target, c.arg) \in excused' \/ (c.arg \in user'[c.target].perms <=> Expected(d))
  <2>1. UserCell(c.target, c.arg) \in Own(c)
    BY <1>4, OwnIs
  <2> QED BY <1>1, <1>4, <2>1 DEF Quiet, UserCallTrue, Expected
<1>5. UsersEffects(c, d)
  BY <1>1, <1>3, <1>4 DEF UsersEffects, Hears, Quiet
<1>6. \A k \in Keys : (\A p \in ApiPermissions : KeyCellKept(k, p)) /\ NameKept(k) /\ RowKept(k)
  BY DEF KeyCellKept, NameKept, RowKept, Quiet
<1>7. ASSUME Hears(c, "modifyKey"), KeyCallTrue(c)
      PROVE  KeyCell(c.target, c.arg) \in excused' \/ (c.arg \in key'[c.target].perms <=> Expected(d))
  <2>1. KeyCell(c.target, c.arg) \in Own(c) /\ c.target \in Keys
    BY <1>2, <1>7, OwnIs DEF Asks, Hears
  <2> QED BY <1>1, <1>7, <2>1 DEF Quiet, KeyCallTrue, Expected
<1>8. Hears(c, "rename") => d.pc # "ok" /\ (NameCell(c.target) \in excused => NameCell(c.target) \in excused')
  BY DEF Quiet, Hears
<1>9. Hears(c, "deleteKey") => d.pc # "ok" /\ RowKept(c.target) /\ (c.pc = "ok" => RowCell(c.target) \in excused')
  BY <1>2, <1>6, OwnIs DEF Quiet, Hears, Asks
<1>10. Hears(c, "createKey") => d.pc # "ok" /\ (c.pc = "ok" => RowCell(c.target) \in excused')
  BY <1>2, OwnIs DEF Quiet, Hears, Rests
<1>11. \A k \in Keys : OthersKept(c, k)
  BY <1>6 DEF OthersKept
<1>12. \A k \in Keys : key'[k] = key[k]
  BY DEF Quiet
<1>13. KeysEffects(c, d)
  BY <1>1, <1>7, <1>8, <1>9, <1>10, <1>11, <1>12 DEF KeysEffects
<1> QED BY <1>5, <1>13

(* How calls follow each other *)
LEMMA AnswerFollows ==
  ASSUME Tables, NEW c \in calls, NEW pc \in {"ok", "error"}, Answered(c, pc)
  PROVE  Follows(c, AnswerTo(c, pc)) /\ AnswerTo(c, pc).target = c.target /\ AnswerTo(c, pc).pc = pc
<1>1. c \in Calls
  BY DEF Tables, Typed
<1>2. SameRequest(c, AnswerTo(c, pc)) /\ AnswerTo(c, pc).page = c.page /\ AnswerTo(c, pc).pc = pc
  BY <1>1, AnswerFields
<1> DEFINE a == AnswerTo(c, pc)
<1>3. IF c.page = "gone" THEN calls' = calls \ {c} ELSE calls' = (calls \ {c}) \cup {a}
  BY DEF Answered, Reply, Becomes
<1> HIDE DEF a
<1>4. Follows(c, a)
  BY <1>2, <1>3 DEF Follows, SameRequest, a
<1> QED BY <1>2, <1>4 DEF SameRequest, a

LEMMA BecomesFollows ==
  ASSUME NEW c, NEW d, Becomes(c, d), SameRequest(c, d), d.page = c.page
  PROVE  Follows(c, d) /\ d.target = c.target
BY DEF Becomes, Follows, SameRequest

(* What the server does with a call *)
Served(c) == \E d : Follows(c, d) /\ UsersEffects(c, d) /\ KeysEffects(c, d)

LEMMA RefusalServed ==
  ASSUME Tables, NEW c \in calls, c.pc \notin {"work", "ok"}, Answered(c, "error"), UNCHANGED <<user, key, excused>>
  PROVE  Served(c)
<1> DEFINE d == AnswerTo(c, "error")
<1>1. Follows(c, d) /\ d.target = c.target /\ d.pc = "error"
  BY AnswerFollows
<1> HIDE DEF d
<1>2. Quiet(c, d)
  BY <1>1 DEF Quiet, Saved
<1> QED BY <1>1, <1>2, QuietEffects DEF Served

LEMMA TalkServed ==
  ASSUME Tables, NEW c \in calls, c.pc \notin {"work", "ok"}, NEW d, Becomes(c, d), SameRequest(c, d), d.page = c.page,
         ~Saved(d), UNCHANGED <<user, excused>>, \A k \in Keys : key'[k] = key[k]
  PROVE  Served(c)
<1>1. Follows(c, d) /\ d.target = c.target
  BY BecomesFollows
<1>2. Quiet(c, d)
  BY <1>1 DEF Quiet, Saved
<1> QED BY <1>1, <1>2, QuietEffects DEF Served

LEMMA TokenServed ==
  ASSUME Tables, NEW c \in calls, handleGenerateAuthToken(c)
  PROVE  Served(c)
<1>1. c.pc = "token" /\ UNCHANGED <<user, key, excused>>
  BY DEF handleGenerateAuthToken
<1>2. CASE Answered(c, "error")
  BY <1>1, <1>2, RefusalServed
<1>3. CASE Becomes(c, [c EXCEPT !.pc = "generate"])
  <2> DEFINE d == [c EXCEPT !.pc = "generate"]
  <2>1. SameRequest(c, d) /\ d.page = c.page /\ d.pc = "generate"
    BY GenerateFields DEF Tables, Typed
  <2>2. Becomes(c, d)
    BY <1>3
  <2> HIDE DEF d
  <2>3. ~Saved(d)
    BY <2>1 DEF Saved
  <2> QED BY <1>1, <2>1, <2>2, <2>3, TalkServed
<1> QED BY <1>2, <1>3 DEF handleGenerateAuthToken

LEMMA GenerateServed ==
  ASSUME Tables, NEW c \in calls, Generate(c)
  PROVE  Served(c)
<1> DEFINE token == CHOOSE t \in Tokens : key[t].state = "none"
           row == [state |-> "live", owner |-> c.by, perms |-> {c.needs}, name |-> ""]
           d == [c EXCEPT !.pc = "sent", !.token = token]
           o == [c EXCEPT !.page = "gone"]
<1>1. c.pc = "generate" /\ (\E t \in Tokens : key[t].state = "none") /\ SaveApiKey(o, token, row) /\ Becomes(c, d)
  BY DEF Generate
<1>2. token \in Tokens /\ c \in Calls
  BY <1>1 DEF Tables, Typed
<1>3. SameRequest(c, d) /\ d.page = c.page /\ d.pc = "sent"
  BY <1>2, SentFields
<1>4. o.page = "gone"
  BY <1>2, GoneFields
<1> HIDE DEF d, o, token, row
<1>5. key' = [key EXCEPT ![token] = row] /\ user' = user /\ Settled(o, {})
  BY <1>1, <1>2 DEF SaveApiKey
<1>6. excused' = excused
  BY <1>4, <1>5, OwnIs DEF Settled
<1>7. \A k \in Keys : key'[k] = key[k]
  <2>1. token \notin Keys
    BY <1>2, AdminAssumption
  <2> QED BY <1>5, <2>1 DEF Tables, AllKeys
<1>8. ~Saved(d)
  BY <1>3 DEF Saved
<1> QED BY <1>1, <1>3, <1>5, <1>6, <1>7, <1>8, TalkServed

LEMMA AuthorisedServed ==
  ASSUME Tables, NEW c \in calls, isAuthorisedForApi(c)
  PROVE  Served(c)
<1>1. c.pc = "sent" /\ UNCHANGED <<user, key, excused>>
  BY DEF isAuthorisedForApi
<1>2. CASE Answered(c, "error")
  BY <1>1, <1>2, RefusalServed
<1>3. CASE Becomes(c, [c EXCEPT !.pc = "arrived", !.as = <<user[key[c.token].owner]>>])
  <2> DEFINE d == [c EXCEPT !.pc = "arrived", !.as = <<user[key[c.token].owner]>>]
  <2>1. c.token \in AllKeys /\ c \in Calls
    BY <1>1 DEF Tables, Typed, Rests, AllKeys
  <2>2. user[key[c.token].owner] \in UserRows
    BY <2>1 DEF Tables, KeyRows
  <2>3. SameRequest(c, d) /\ d.page = c.page /\ d.pc = "arrived"
    BY <2>1, <2>2, ArrivedFields
  <2>4. Becomes(c, d)
    BY <1>3
  <2> HIDE DEF d
  <2>5. ~Saved(d)
    BY <2>3 DEF Saved
  <2> QED BY <1>1, <2>3, <2>4, <2>5, TalkServed
<1> QED BY <1>2, <1>3 DEF isAuthorisedForApi

LEMMA WorksServed ==
  ASSUME Tables, NEW c \in calls, c.pc = "arrived", NEW lock, NEW row, NEW plan, Works(c, lock, row, plan),
         plan # <<>>, Head(plan) = "save" \/ c.op = "rank"
  PROVE  Served(c)
<1> DEFINE d == [c EXCEPT !.pc = "work", !.lock = lock, !.row = <<row>>, !.plan = plan]
<1>1. SameRequest(c, d) /\ d.page = c.page /\ d.pc = "work" /\ d.plan = plan
  BY DEF Tables, Typed, Calls, SameRequest
<1>2. Becomes(c, d) /\ UNCHANGED <<user, key, excused>>
  BY DEF Works
<1> HIDE DEF d
<1>3. Follows(c, d) /\ d.target = c.target
  BY <1>1, <1>2, BecomesFollows
<1>4. Quiet(c, d)
  BY <1>1, <1>2, <1>3 DEF Quiet, Saved, Hears
<1> QED BY <1>3, <1>4, QuietEffects DEF Served

(* What is wanted is so already. *)
LEMMA NothingServed ==
  ASSUME Tables, NEW c \in calls, c.pc = "arrived", NothingToDo(c), c.op \in {"modifyUser", "modifyKey", "rename"},
         c.op = "modifyUser" => (c.arg \in user[c.target].perms <=> c.grant),
         c.op = "modifyKey" => (c.arg \in key[c.target].perms <=> c.grant),
         c.op = "rename" => key[c.target].name = c.arg
  PROVE  Served(c)
<1> DEFINE d == AnswerTo(c, "ok")
<1>1. /\ Follows(c, d) /\ d.target = c.target /\ d.pc = "ok" /\ d.op = c.op /\ d.arg = c.arg /\ d.grant = c.grant
      /\ Settled(c, {}) /\ UNCHANGED <<user, key>>
  BY AnswerFollows DEF NothingToDo, Follows
<1> HIDE DEF d
<1>2. /\ \A x : x \notin Own(c) => (x \in excused' <=> x \in excused)
      /\ c.op = "rename" => excused \subseteq excused'
  BY <1>1, SettledCells
<1>3. Saved(d)
  BY <1>1 DEF Saved
<1>4. UsersEffects(c, d)
  <2>1. \A u \in Users, p \in UserPermissions :
           UserCellKept(u, p) \/ (Hears(c, "modifyUser") /\ u = c.target /\ p = c.arg)
    <3> SUFFICES ASSUME NEW u \in Users, NEW p \in UserPermissions, UserCell(u, p) \in Own(c)
                 PROVE  Hears(c, "modifyUser") /\ u = c.target /\ p = c.arg
      BY <1>1, <1>2 DEF UserCellKept
    <3>1. c.page # "gone" /\ c.op = "modifyUser"
      BY OwnIs, OwnSides DEF KeyOps
    <3> QED BY <3>1, OwnIs, CellNames DEF Hears
  <2>2. Hears(c, "modifyUser") => (c.arg \in user'[c.target].perms <=> Expected(d))
    BY <1>1, <1>3 DEF Hears, Expected
  <2> QED BY <1>1, <2>1, <2>2 DEF UsersEffects, Hears
<1>5. KeysEffects(c, d)
  <2>1. ASSUME NEW k \in Keys PROVE OthersKept(c, k)
    <3>1. ASSUME NEW p \in ApiPermissions PROVE KeyCellKept(k, p) \/ (Hears(c, "modifyKey") /\ k = c.target /\ p = c.arg)
      <4> SUFFICES ASSUME KeyCell(k, p) \in Own(c) PROVE Hears(c, "modifyKey") /\ k = c.target /\ p = c.arg
        BY <1>1, <1>2 DEF KeyCellKept
      <4>1. c.page # "gone" /\ c.op = "modifyKey"
        BY OwnIs, OwnSides, CellNames DEF UserOps
      <4> QED BY <4>1, OwnIs, CellNames DEF Hears
    <3>2. NameKept(k) \/ (Hears(c, "rename") /\ k = c.target)
      <4> SUFFICES ASSUME NameCell(k) \in Own(c) PROVE Hears(c, "rename") /\ k = c.target
        BY <1>1, <1>2 DEF NameKept
      <4>1. c.page # "gone" /\ c.op = "rename"
        BY OwnIs, OwnSides, CellNames DEF UserOps
      <4> QED BY <4>1, OwnIs, CellNames DEF Hears
    <3>3. RowKept(k)
      <4>1. RowCell(k) \notin Own(c)
        BY OwnIs, OwnSides, CellNames DEF UserOps
      <4> QED BY <1>1, <1>2, <4>1 DEF RowKept
    <3> QED BY <3>1, <3>2, <3>3 DEF OthersKept
  <2>2. Hears(c, "modifyKey") => (c.arg \in key'[c.target].perms <=> Expected(d))
    BY <1>1, <1>3 DEF Hears, Expected
  <2>3. Hears(c, "rename") => /\ key'[c.target].name = c.arg
                              /\ NameCell(c.target) \in excused => NameCell(c.target) \in excused'
    BY <1>1, <1>2 DEF Hears
  <2> QED BY <1>1, <2>1, <2>2, <2>3 DEF KeysEffects, Hears
<1> QED BY <1>1, <1>4, <1>5 DEF Served

(* The row of a user is saved. *)
LEMMA SavedUserServed ==
  ASSUME Tables, NEW c \in calls, NEW d, Follows(c, d), d.target = c.target, c.target \in Users, c.op \in UserOps,
         NEW row \in UserRows, row.live, SaveUser(c, c.target, row),
         Hears(c, "modifyUser") => (c.arg \in row.perms <=> Expected(d)),
         c.op = "createUser" => ~user[c.target].live,
         Hears(c, "createUser") /\ d.pc = "ok" => d.row[1] = row
  PROVE  Served(c)
<1> DEFINE changed == {UserCell(c.target, p) : p \in Differing(user[c.target].perms, row.perms)}
<1>1. user' = [user EXCEPT ![c.target] = row] /\ key' = key /\ Settled(c, changed)
  BY DEF SaveUser
<1>2. /\ \A x : x \notin Own(c) => (x \in excused' <=> x \in excused \/ x \in changed)
      /\ d.op = c.op
  BY <1>1, SettledCells DEF Follows, UserOps
<1>3. /\ user'[c.target] = row /\ \A u \in Users : u # c.target => user'[u] = user[u]
  BY <1>1 DEF Tables
<1>4. /\ \A k : NameCell(k) \notin changed /\ RowCell(k) \notin changed /\ \A p : KeyCell(k, p) \notin changed
      /\ \A u, p : UserCell(u, p) \in changed => u = c.target
      /\ \A p : UserCell(c.target, p) \notin changed => (p \in row.perms <=> p \in user[c.target].perms)
  BY CellNames DEF Differing
<1> HIDE DEF changed
<1>5. UsersEffects(c, d)
  <2>1. \A u \in Users, p \in UserPermissions :
           \/ UserCellKept(u, p)
           \/ Hears(c, "modifyUser") /\ u = c.target /\ p = c.arg
           \/ Hears(c, "createUser") /\ u = c.target /\ ~user[u].live
    <3> SUFFICES ASSUME NEW u \in Users, NEW p \in UserPermissions, ~UserCellKept(u, p)
                 PROVE  \/ Hears(c, "modifyUser") /\ u = c.target /\ p = c.arg
                        \/ Hears(c, "createUser") /\ u = c.target /\ ~user[u].live
      OBVIOUS
    <3>1. UserCell(u, p) \in Own(c)
      BY <1>2, <1>3, <1>4 DEF UserCellKept
    <3>2. c.page # "gone" /\ c.op \in {"modifyUser", "createUser"}
      BY <3>1, OwnIs DEF UserOps
    <3> QED BY <3>1, <3>2, OwnIs, CellNames DEF Hears
  <2>2. \A u \in Users : user[u].live => user'[u].live
    BY <1>3
  <2>3. Hears(c, "createUser") /\ d.pc = "ok" => d.row[1] = row /\ ~user[c.target].live /\ user'[c.target].live
    BY <1>3 DEF Hears
  <2> QED BY <1>3, <2>1, <2>2, <2>3 DEF UsersEffects
<1>6. KeysEffects(c, d)
  <2>1. \A k \in Keys : OthersKept(c, k)
    BY <1>1, <1>2, <1>4, OwnSides DEF OthersKept, KeyCellKept, NameKept, RowKept
  <2> QED BY <1>1, <2>1 DEF KeysEffects, Hears, UserOps
<1> QED BY <1>5, <1>6 DEF Served

(* The row of a key is saved. *)
LEMMA SavedRow ==
  ASSUME Tables, NEW o, NEW k \in AllKeys, NEW row \in KeyRows, SaveApiKey(o, k, row)
  PROVE  /\ user' = user
         /\ \A x \in Keys : x # k => key'[x] = key[x]
         /\ key'[k] = row
         /\ \A u, p : UserCell(u, p) \notin Own(o) => (UserCell(u, p) \in excused' <=> UserCell(u, p) \in excused)
         /\ \A x \in Keys, p \in ApiPermissions : KeyCell(x, p) \notin Own(o) => KeyCellKept(x, p)
         /\ \A x \in Keys : NameCell(x) \notin Own(o) => NameKept(x)
         /\ \A x \in Keys : RowCell(x) \notin Own(o) => RowKept(x)
<1> DEFINE changed == IF k \in Tokens THEN {} ELSE Changed(k, row)
<1>1. user' = user /\ key' = [key EXCEPT ![k] = row] /\ Settled(o, changed)
  BY DEF SaveApiKey
<1>2. \A x : x \notin Own(o) => (x \in excused' <=> x \in excused \/ x \in changed)
  BY <1>1, SettledCells
<1>3. key'[k] = row /\ \A x \in Keys : x # k => key'[x] = key[x]
  BY <1>1 DEF Tables, AllKeys
<1>4. \A u, p : UserCell(u, p) \notin changed
  BY CellNames DEF Changed
<1>5. \A x \in Keys : x = k =>
         /\ \A p : KeyCell(x, p) \notin changed => (p \in row.perms <=> p \in key[k].perms)
         /\ NameCell(x) \notin changed => row.name = key[k].name
         /\ RowCell(x) \notin changed => row.state = key[k].state
  <2>1. Keys \cap Tokens = {}
    BY AdminAssumption
  <2> QED BY <2>1 DEF Changed, Differing
<1> HIDE DEF changed
<1>6. \A x \in Keys, p \in ApiPermissions : KeyCell(x, p) \notin Own(o) => KeyCellKept(x, p)
  BY <1>2, <1>3, <1>5 DEF KeyCellKept
<1>7. \A x \in Keys : NameCell(x) \notin Own(o) => NameKept(x)
  BY <1>2, <1>3, <1>5 DEF NameKept
<1>8. \A x \in Keys : RowCell(x) \notin Own(o) => RowKept(x)
  BY <1>2, <1>3, <1>5 DEF RowKept
<1> QED BY <1>1, <1>2, <1>3, <1>4, <1>6, <1>7, <1>8

LEMMA SavedKeyServed ==
  ASSUME Tables, NEW c \in calls, NEW d, Follows(c, d), d.target = c.target, c.target \in Keys,
         c.op \in {"modifyKey", "rename", "deleteKey"}, d.pc = "ok", c.pc # "ok",
         NEW row \in KeyRows, row.state # "none", row.owner = key[c.target].owner, SaveApiKey(c, c.target, row),
         c.op = "modifyKey" => (c.arg \in row.perms <=> c.grant),
         c.op = "rename" => row.name = c.arg,
         c.op = "deleteKey" => row.state # "live"
  PROVE  Served(c)
<1>1. c.target \in AllKeys /\ d.op = c.op /\ d.grant = c.grant
  BY DEF AllKeys, Follows
<1>2. /\ user' = user
      /\ \A x \in Keys : x # c.target => key'[x] = key[x]
      /\ key'[c.target] = row
      /\ \A u, p : UserCell(u, p) \notin Own(c) => (UserCell(u, p) \in excused' <=> UserCell(u, p) \in excused)
      /\ \A x \in Keys, p \in ApiPermissions : KeyCell(x, p) \notin Own(c) => KeyCellKept(x, p)
      /\ \A x \in Keys : NameCell(x) \notin Own(c) => NameKept(x)
      /\ \A x \in Keys : RowCell(x) \notin Own(c) => RowKept(x)
  BY <1>1, SavedRow
<1>3. \A u, p : UserCell(u, p) \in excused' <=> UserCell(u, p) \in excused
  BY <1>2, OwnSides DEF KeyOps
<1>4. UsersEffects(c, d)
  BY <1>2, <1>3 DEF UsersEffects, UserCellKept, Hears
<1>5. ASSUME NEW k \in Keys PROVE OthersKept(c, k)
  <2>1. ASSUME NEW p \in ApiPermissions PROVE KeyCellKept(k, p) \/ (Hears(c, "modifyKey") /\ k = c.target /\ p = c.arg)
    <3> SUFFICES ASSUME KeyCell(k, p) \in Own(c) PROVE Hears(c, "modifyKey") /\ k = c.target /\ p = c.arg
      BY <1>2
    <3>1. c.page # "gone" /\ c.op = "modifyKey"
      BY OwnIs, CellNames
    <3> QED BY <3>1, OwnIs, CellNames DEF Hears
  <2>2. NameKept(k) \/ (Hears(c, "rename") /\ k = c.target)
    <3> SUFFICES ASSUME NameCell(k) \in Own(c) PROVE Hears(c, "rename") /\ k = c.target
      BY <1>2
    <3>1. c.page # "gone" /\ c.op = "rename"
      BY OwnIs, CellNames
    <3> QED BY <3>1, OwnIs, CellNames DEF Hears
  <2>3. RowKept(k) \/ (Hears(c, "deleteKey") /\ k = c.target)
    <3> SUFFICES ASSUME RowCell(k) \in Own(c) PROVE Hears(c, "deleteKey") /\ k = c.target
      BY <1>2
    <3>1. c.page # "gone" /\ c.op = "deleteKey"
      BY OwnIs, CellNames
    <3> QED BY <3>1, OwnIs, CellNames DEF Hears
  <2> QED BY <2>1, <2>2, <2>3 DEF OthersKept
<1>6. Hears(c, "modifyKey") => (c.arg \in key'[c.target].perms <=> Expected(d))
  BY <1>1, <1>2 DEF Hears, Expected, Saved
<1>7. Hears(c, "rename") => /\ key'[c.target].name = c.arg
                            /\ NameCell(c.target) \in excused => NameCell(c.target) \in excused'
  BY <1>2, SettledCells DEF Hears, SaveApiKey
<1>8. KeysEffects(c, d)
  BY <1>2, <1>5, <1>6, <1>7 DEF KeysEffects, Hears
<1> QED BY <1>4, <1>8 DEF Served

LEMMA CreatedKeyServed ==
  ASSUME Tables, NEW c \in calls, c.pc = "arrived", apiCreateApiKey(c)
  PROVE  Served(c)
<1> DEFINE k == CHOOSE x \in Keys : key[x].state = "none"
           o == [c EXCEPT !.target = k]
           row == [state |-> "live", owner |-> c.by, perms |-> ApiPermDefault, name |-> "Unnamed key"]
           d == AnswerTo(o, "ok")
<1>1. c.op = "createKey" /\ (\E x \in Keys : key[x].state = "none") /\ SaveApiKey(o, k, row) /\ Reply(c, d)
  BY DEF apiCreateApiKey
<1>2. k \in Keys /\ key[k].state = "none" /\ k \in AllKeys /\ c \in Calls
  BY <1>1 DEF AllKeys, Tables, Typed
<1>3. row \in KeyRows /\ row.state = "live" /\ row.name = "Unnamed key" /\ row.perms = ApiPermDefault
  BY <1>2, CallFields, AdminAssumption DEF KeyRows, KeyStates, ApiPermissions
<1>4. /\ d.page = c.page /\ d.pc = "ok" /\ d.op = c.op /\ d.target = k /\ d.arg = c.arg /\ d.grant = c.grant
  BY <1>2, NamedFields
<1>5. o.page = c.page /\ o.op = "createKey" /\ o.target = k
  BY <1>1, <1>2 DEF Calls
<1> HIDE DEF k, o, row, d
<1>6. /\ user' = user
      /\ \A x \in Keys : x # k => key'[x] = key[x]
      /\ key'[k] = row
      /\ \A u, p : UserCell(u, p) \notin Own(o) => (UserCell(u, p) \in excused' <=> UserCell(u, p) \in excused)
      /\ \A x \in Keys, p \in ApiPermissions : KeyCell(x, p) \notin Own(o) => KeyCellKept(x, p)
      /\ \A x \in Keys : NameCell(x) \notin Own(o) => NameKept(x)
      /\ \A x \in Keys : RowCell(x) \notin Own(o) => RowKept(x)
  BY <1>1, <1>2, <1>3, SavedRow
<1>7. Follows(c, d)
  BY <1>1, <1>4 DEF Follows, Reply, Becomes
<1>8. \A u, p : UserCell(u, p) \in excused' <=> UserCell(u, p) \in excused
  BY <1>5, <1>6, OwnSides DEF KeyOps
<1>9. UsersEffects(c, d)
  BY <1>1, <1>6, <1>8 DEF UsersEffects, UserCellKept, Hears
<1>10. ASSUME NEW x \in Keys PROVE Fresh(c, d, x) \/ OthersKept(c, x)
  <2>1. CASE x = k /\ c.page # "gone"
    BY <1>1, <1>2, <1>4, <2>1 DEF Fresh, Hears
  <2>2. CASE x # k \/ c.page = "gone"
    <3>1. NameCell(x) \notin Own(o) /\ RowCell(x) \notin Own(o) /\ \A p : KeyCell(x, p) \notin Own(o)
      BY <1>5, <2>2, OwnIs, CellNames
    <3> QED BY <1>6, <3>1 DEF OthersKept
  <2> QED BY <2>1, <2>2
<1>11. \A x \in Keys : key[x].state # "none" => key'[x].state # "none" /\ key'[x].owner = key[x].owner
  BY <1>2, <1>6
<1>12. c.page # "gone" => d.target \in Keys /\ Fresh(c, d, d.target)
  BY <1>1, <1>2, <1>4 DEF Fresh, Hears
<1>13. KeysEffects(c, d)
  BY <1>1, <1>3, <1>4, <1>6, <1>10, <1>11, <1>12 DEF KeysEffects, Hears
<1> QED BY <1>7, <1>9, <1>13 DEF Served

(* The handlers *)
LEMMA UserHandled ==
  ASSUME Tables, NEW c \in calls, c.pc = "arrived", apiModifyUser(c) \/ apiChangeUserRank(c) \/ apiResetPassword(c)
  PROVE  Served(c)
<1>1. c \in Calls /\ c.grant \in BOOLEAN
  BY CallFields DEF Tables, Typed
<1>2. CASE Refuse(c)
  BY <1>2, RefusalServed DEF Refuse
<1>3. ASSUME c.op = "modifyUser", (c.arg \in user[c.target].perms) = c.grant, NothingToDo(c)
      PROVE  Served(c)
  <2>1. c.arg \in user[c.target].perms <=> c.grant
    BY <1>1, <1>3
  <2> QED BY <1>3, <2>1, NothingServed
<1>4. ASSUME NEW lock, NEW row, Works(c, lock, row, <<"save">>) PROVE Served(c)
  <2>1. <<"save">> # <<>> /\ Head(<<"save">>) = "save"
    OBVIOUS
  <2> QED BY <1>4, <2>1, WorksServed
<1>5. ASSUME NEW lock, NEW row, Works(c, lock, row, <<"save", c.arg>>) PROVE Served(c)
  <2> DEFINE plan == <<"save", c.arg>>
  <2>1. plan # <<>> /\ Head(plan) = "save" /\ Works(c, lock, row, plan)
    BY <1>5
  <2> HIDE DEF plan
  <2> QED BY <2>1, WorksServed
<1>6. ASSUME NEW lock, NEW row, c.op = "rank", Works(c, lock, row, Append(Swept, "save")) PROVE Served(c)
  <2> DEFINE plan == Append(Swept, "save")
  <2>1. plan # <<>>
    BY SweptPlan DEF DemotionPlans
  <2>2. Works(c, lock, row, plan)
    BY <1>6
  <2> HIDE DEF plan
  <2> QED BY <1>6, <2>1, <2>2, WorksServed
<1>7. CASE apiModifyUser(c)
  <2>1. \/ Refuse(c)
        \/ c.op = "modifyUser" /\ (c.arg \in user[c.target].perms) = c.grant /\ NothingToDo(c)
        \/ \E lock, row : Works(c, lock, row, <<"save">>) \/ Works(c, lock, row, <<"save", c.arg>>)
    BY <1>7 DEF apiModifyUser
  <2> QED BY <1>2, <1>3, <1>4, <1>5, <2>1
<1>8. CASE apiChangeUserRank(c)
  <2>1. \/ Refuse(c)
        \/ \E lock, row : Works(c, lock, row, <<"save">>)
                          \/ (c.op = "rank" /\ Works(c, lock, row, Append(Swept, "save")))
    BY <1>8 DEF apiChangeUserRank
  <2> QED BY <1>2, <1>4, <1>6, <2>1
<1>9. CASE apiResetPassword(c)
  <2>1. Refuse(c) \/ \E lock, row : Works(c, lock, row, <<"save">>)
    BY <1>9 DEF apiResetPassword
  <2> QED BY <1>2, <1>4, <2>1
<1> QED BY <1>7, <1>8, <1>9

LEMMA KeyHandled ==
  ASSUME Tables, NEW c \in calls, c.pc = "arrived", apiModifyApiKey(c) \/ apiChangeFriendlyName(c)
  PROVE  Served(c)
<1>1. c \in Calls /\ c.grant \in BOOLEAN
  BY CallFields DEF Tables, Typed
<1>2. CASE Refuse(c)
  BY <1>2, RefusalServed DEF Refuse
<1>3. ASSUME c.op = "modifyKey", (c.arg \in key[c.target].perms) = c.grant, NothingToDo(c)
      PROVE  Served(c)
  <2>1. c.arg \in key[c.target].perms <=> c.grant
    BY <1>1, <1>3
  <2> QED BY <1>3, <2>1, NothingServed
<1>4. ASSUME c.op = "rename", key[c.target].name = c.arg, NothingToDo(c)
      PROVE  Served(c)
  BY <1>4, NothingServed
<1>5. ASSUME NEW lock, NEW row, Works(c, lock, row, <<"save">>) PROVE Served(c)
  <2>1. <<"save">> # <<>> /\ Head(<<"save">>) = "save"
    OBVIOUS
  <2> QED BY <1>5, <2>1, WorksServed
<1>6. CASE apiModifyApiKey(c)
  <2>1. \/ Refuse(c)
        \/ c.op = "modifyKey" /\ (c.arg \in key[c.target].perms) = c.grant /\ NothingToDo(c)
        \/ \E lock, row : Works(c, lock, row, <<"save">>)
    BY <1>6 DEF apiModifyApiKey
  <2> QED BY <1>2, <1>3, <1>5, <2>1
<1>7. CASE apiChangeFriendlyName(c)
  <2>1. \/ Refuse(c)
        \/ c.op = "rename" /\ key[c.target].name = c.arg /\ NothingToDo(c)
        \/ \E lock, row : Works(c, lock, row, <<"save">>)
    BY <1>7 DEF apiChangeFriendlyName
  <2> QED BY <1>2, <1>4, <1>5, <2>1
<1> QED BY <1>6, <1>7

LEMMA CreatedUserServed ==
  ASSUME Tables, NEW c \in calls, c.pc = "arrived", apiCreateUser(c)
  PROVE  Served(c)
<1>1. c \in Calls /\ c.op = "createUser" /\ c.target \in Users
  BY DEF Tables, Typed, Asks, apiCreateUser
<1>2. CASE Refuse(c)
  BY <1>2, RefusalServed DEF Refuse
<1> DEFINE row == [NoUser EXCEPT !.live = TRUE, !.perms = Now.grantedByDefault]
           d == [AnswerTo(c, "ok") EXCEPT !.row = <<row>>]
<1>3. CASE ~user[c.target].live /\ SaveUser(c, c.target, row) /\ Reply(c, d)
  <2>1. row \in UserRows /\ row.live
    BY NowFacts DEF Tables, UserRows, NoUser
  <2>2. SaveUser(c, c.target, row) /\ Reply(c, d) /\ ~user[c.target].live
    BY <1>3
  <2>3. SameRequest(c, d) /\ d.page = c.page /\ d.row[1] = row
    BY <1>1, <2>1, CreatedFields
  <2> HIDE DEF row, d
  <2>4. Follows(c, d) /\ d.target = c.target
    BY <2>2, <2>3 DEF Follows, Reply, Becomes, SameRequest
  <2>5. c.op \in UserOps /\ ~Hears(c, "modifyUser")
    BY <1>1 DEF UserOps, Hears
  <2> QED BY <1>1, <2>1, <2>2, <2>3, <2>4, <2>5, SavedUserServed
<1> QED BY <1>2, <1>3 DEF apiCreateUser

LEMMA DeletedKeyServed ==
  ASSUME Tables, NEW c \in calls, c.pc = "arrived", apiDeleteKey(c)
  PROVE  Served(c)
<1>1. c \in Calls /\ c.op = "deleteKey" /\ c.target \in Keys /\ c.target \in AllKeys
  BY DEF Tables, Typed, Asks, apiDeleteKey, AllKeys
<1>2. CASE Refuse(c)
  BY <1>2, RefusalServed DEF Refuse
<1> DEFINE row == [key[c.target] EXCEPT !.state = "deleted", !.perms = {}]
<1>3. CASE SaveApiKey(c, c.target, row) /\ Answered(c, "ok")
  <2>1. row \in KeyRows /\ row.state = "deleted" /\ row.owner = key[c.target].owner
    BY <1>1 DEF Tables, KeyRows, KeyStates
  <2>2. SaveApiKey(c, c.target, row) /\ Answered(c, "ok")
    BY <1>3
  <2> DEFINE d == AnswerTo(c, "ok")
  <2>3. Follows(c, d) /\ d.target = c.target /\ d.pc = "ok"
    BY <2>2, AnswerFollows
  <2> HIDE DEF row, d
  <2> QED BY <1>1, <2>1, <2>2, <2>3, SavedKeyServed
<1> QED BY <1>2, <1>3 DEF apiDeleteKey

LEMMA HandlesServed ==
  ASSUME Tables, NEW c \in calls, Handles(c)
  PROVE  Served(c)
<1> HIDE DEF Tables
<1> QED BY UserHandled, KeyHandled, CreatedUserServed, DeletedKeyServed, CreatedKeyServed DEF Handles

(* Handlers that go on, or answer *)
LEMMA Continued ==
  ASSUME Tables, NEW c \in calls, c.pc = "work", NEW plan \in PlanSeq, NEW todo \in TodoSets, Continues(c, plan, todo)
  PROVE  \E d : /\ Follows(c, d) /\ d.target = c.target
                /\ (d.pc = "ok" /\ plan = <<>>) \/ (d.pc = "work" /\ d.plan = plan)
<1>1. c \in Calls
  BY DEF Tables, Typed
<1>2. CASE plan = <<>> /\ todo = {}
  <2>1. Answered(c, "ok")
    BY <1>2 DEF Continues
  <2> QED BY <1>2, <2>1, AnswerFollows
<1>3. CASE ~(plan = <<>> /\ todo = {})
  <2> DEFINE d == Resumed(c, plan, todo)
  <2>1. SameRequest(c, d) /\ d.page = c.page /\ d.pc = "work" /\ d.plan = plan
    BY <1>1 DEF Calls, SameRequest, Resumed
  <2>2. Becomes(c, d)
    BY <1>3 DEF Continues, Resumed
  <2> HIDE DEF d
  <2>3. Follows(c, d) /\ d.target = c.target
    BY <2>1, <2>2, BecomesFollows
  <2> QED BY <2>1, <2>3
<1> QED BY <1>2, <1>3

LEMMA UserSaveServed ==
  ASSUME Tables, NEW c \in calls, Saves(c), c.target \in Users
  PROVE  Served(c)
<1> DEFINE row == c.row[1]
<1>1. Typed(c) /\ c \in Calls /\ c.pc = "work" /\ c.todo = {}
  BY DEF Tables, Typed, Saves
<1>2. Users \cap Keys = {}
  BY AdminAssumption DEF AllKeys
<1>3. UserWork(c) /\ row \in UserRows /\ row.live
  <2>1. UserWork(c)
    BY <1>1, <1>2 DEF Typed, KeyWork
  <2>2. PICK r \in UserRows : c.row = <<r>> /\ r.live
    BY <2>1 DEF UserWork
  <2> QED BY <2>1, <2>2
<1>4. SaveUser(c, c.target, row) /\ Continues(c, Tail(c.plan), {}) /\ c.plan # <<>> /\ Head(c.plan) = "save"
  BY <1>2 DEF Saves
<1> HIDE DEF row
<1>5. "PERM_API" \in UserPermissions /\ "save" \notin UserPermissions
  BY DEF UserPermissions
<1>6. \/ Tail(c.plan) = <<>> /\ (Grants(c) \/ Demotes(c))
      \/ Tail(c.plan) = <<c.arg>> /\ Revokes(c) /\ c.arg \in UserPermissions
  <2>1. CASE Grants(c)
    BY <1>5, <2>1, ShortPlans DEF Grants
  <2>2. CASE Demotes(c)
    BY <1>4, <1>5, <2>2, Plans, ShortPlans DEF Demotes
  <2>3. CASE Revokes(c)
    <3>1. c.arg \in UserPermissions
      BY <1>1, <1>2, <2>3 DEF Typed, Asks, Revokes
    <3> QED BY <1>4, <2>3, <3>1, ShortPlans DEF Revokes
  <2> QED BY <1>3, <2>1, <2>2, <2>3 DEF UserWork
<1>7. Tail(c.plan) \in PlanSeq /\ {} \in TodoSets
  BY <1>5, <1>6, ShortPlans DEF TodoSets
<1>8. PICK d : /\ Follows(c, d) /\ d.target = c.target
               /\ (d.pc = "ok" /\ Tail(c.plan) = <<>>) \/ (d.pc = "work" /\ d.plan = Tail(c.plan))
  BY <1>1, <1>4, <1>7, Continued
<1>9. Saved(d)
  <2>1. CASE Tail(c.plan) = <<>>
    BY <1>8, <2>1 DEF Saved
  <2>2. CASE Tail(c.plan) = <<c.arg>> /\ c.arg \in UserPermissions
    <3>1. Head(<<c.arg>>) # "save"
      BY <1>5, <2>2
    <3> QED BY <1>8, <2>2, <3>1 DEF Saved
  <2> QED BY <1>6, <2>1, <2>2
<1>10. Hears(c, "modifyUser") => (c.arg \in row.perms <=> Expected(d))
  BY <1>6, <1>8, <1>9 DEF Hears, Expected, Follows, Grants, Revokes, Demotes, row
<1>11. c.op \in {"reset", "modifyUser", "rank"} /\ c.op \in UserOps
  BY <1>6 DEF UserOps, Grants, Revokes, Demotes
<1> QED BY <1>3, <1>4, <1>8, <1>10, <1>11, SavedUserServed DEF Hears

LEMMA KeySaveServed ==
  ASSUME Tables, KeysInv, NEW c \in calls, Saves(c), c.target \in Keys
  PROVE  Served(c)
<1> DEFINE row == c.row[1]
<1>1. Typed(c) /\ c \in Calls /\ c.pc = "work" /\ OwnsRows(c) /\ c.grant \in BOOLEAN
  BY CallFields DEF Tables, Typed, Saves, KeysInv, RowsOwned
<1>2. Users \cap Keys = {} /\ c.target \in AllKeys
  BY AdminAssumption DEF AllKeys
<1>3. KeyWork(c) /\ row \in KeyRows /\ row.state = "live"
  <2>1. KeyWork(c)
    BY <1>1, <1>2 DEF Typed, UserWork
  <2>2. PICK r \in KeyRows : c.row = <<r>> /\ r.state = "live"
    BY <2>1 DEF KeyWork
  <2> QED BY <2>1, <2>2
<1>4. SaveApiKey(c, c.target, row) /\ Continues(c, Tail(c.plan), {})
  BY <1>2 DEF Saves
<1>5. row.owner = key[c.target].owner
  BY <1>1 DEF OwnsRows
<1>6. /\ c.op \in {"modifyKey", "rename"}
      /\ c.op = "modifyKey" => (c.arg \in row.perms) = c.grant
      /\ c.op = "rename" => row.name = c.arg
  BY <1>3 DEF KeyWork
<1> HIDE DEF row
<1>7. c.op = "modifyKey" => (c.arg \in row.perms <=> c.grant)
  BY <1>1, <1>6
<1>8. Tail(c.plan) = <<>>
  <2>1. "PERM_API" \in UserPermissions
    BY DEF UserPermissions
  <2> QED BY <1>3, <2>1, ShortPlans DEF KeyWork
<1>9. Answered(c, "ok")
  BY <1>4, <1>8 DEF Continues
<1> DEFINE d == AnswerTo(c, "ok")
<1>10. Follows(c, d) /\ d.target = c.target /\ d.pc = "ok"
  BY <1>9, AnswerFollows
<1> HIDE DEF d
<1> QED BY <1>1, <1>3, <1>4, <1>5, <1>6, <1>7, <1>10, SavedKeyServed

LEMMA SweepServed ==
  ASSUME Tables, KeysInv, NEW c \in calls, updateApiKeyPermsOnUserPermChange(c)
  PROVE  Served(c)
<1> DEFINE lost == Affected(Head(c.plan))
           todo == {<<k, [key[k] EXCEPT !.perms = @ \ lost]>> :
                       k \in {k \in AllKeys : key[k].owner = c.target /\ key[k].perms \cap lost # {}}}
<1>1. Typed(c) /\ c.pc = "work" /\ c.todo = {} /\ c.plan # <<>> /\ Head(c.plan) # "save" /\ c.plan \in PlanSeq
  BY CallFields DEF Tables, Typed, updateApiKeyPermsOnUserPermChange
<1>2. Continues(c, Tail(c.plan), todo) /\ UNCHANGED <<user, key, excused>>
  BY DEF updateApiKeyPermsOnUserPermChange
<1>3. Tail(c.plan) \in PlanSeq /\ todo \in TodoSets
  <2>1. ASSUME NEW k \in AllKeys PROVE [key[k] EXCEPT !.perms = @ \ lost] \in KeyRows
    BY DEF Tables, KeyRows
  <2>2. \A x \in todo : x \in AllKeys \X KeyRows
    BY <2>1
  <2> HIDE DEF todo
  <2> QED BY <1>1, <2>2 DEF PlanSeq, TodoSets
<1> HIDE DEF todo
<1>4. PICK d : /\ Follows(c, d) /\ d.target = c.target
               /\ (d.pc = "ok" /\ Tail(c.plan) = <<>>) \/ (d.pc = "work" /\ d.plan = Tail(c.plan))
  BY <1>1, <1>2, <1>3, Continued
<1>5. "PERM_API" \in UserPermissions
  BY DEF UserPermissions
<1>6. (Revokes(c) /\ Tail(c.plan) = <<>>) \/ Demotes(c)
  <2>1. ~Grants(c) /\ ~KeyWork(c)
    BY <1>1, <1>5, ShortPlans DEF Grants, KeyWork
  <2>2. ASSUME Revokes(c) PROVE Tail(c.plan) = <<>>
    <3>1. c.arg \in UserPermissions
      BY <1>1, <2>2, AdminAssumption DEF Typed, Asks, Revokes
    <3> QED BY <1>1, <2>2, <3>1, ShortPlans DEF Revokes
  <2> QED BY <1>1, <2>1, <2>2 DEF Typed, UserWork
<1>7. c.op \in {"modifyUser", "rank"} /\ (c.op = "modifyUser" => Saved(c) /\ Saved(d))
  BY <1>1, <1>4, <1>6 DEF Revokes, Demotes, Saved
<1>8. Quiet(c, d)
  BY <1>1, <1>2, <1>4, <1>7 DEF Quiet, Hears
<1> QED BY <1>4, <1>8, QuietEffects DEF Served

LEMMA SweptServed ==
  ASSUME Tables, KeysInv, NEW c \in calls, SavesSwept(c)
  PROVE  Served(c)
<1>1. Typed(c) /\ c \in Calls /\ c.pc = "work" /\ OwnsRows(c) /\ c.plan \in PlanSeq /\ c.todo \in TodoSets
  BY CallFields DEF Tables, Typed, SavesSwept, KeysInv, RowsOwned
<1> DEFINE o == [c EXCEPT !.page = "gone"]
<1>2. PICK x \in c.todo : SaveApiKey(o, x[1], x[2]) /\ Continues(c, c.plan, c.todo \ {x})
  BY DEF SavesSwept
<1> DEFINE k == x[1]
           row == x[2]
           rest == c.todo \ {x}
<1>3. rest \in TodoSets /\ k \in AllKeys /\ row \in KeyRows /\ o.page = "gone"
  BY <1>1, GoneFields DEF TodoSets
<1>4. Demotes(c) \/ (Revokes(c) /\ c.plan = <<>>)
  <2>1. UserWork(c) /\ ~Grants(c)
    BY <1>1 DEF Typed, KeyWork, Grants
  <2> QED BY <2>1 DEF UserWork, Revokes
<1>5. row.state = "live" /\ row.owner = key[k].owner /\ key[k].state # "none"
  <2>1. UserWork(c)
    BY <1>1 DEF Typed, KeyWork
  <2> QED BY <1>1, <2>1 DEF UserWork, OwnsRows
<1>6. SaveApiKey(o, k, row) /\ Continues(c, c.plan, rest)
  BY <1>2
<1> HIDE DEF k, row, rest, o
<1>7. PICK d : /\ Follows(c, d) /\ d.target = c.target
               /\ (d.pc = "ok" /\ c.plan = <<>>) \/ (d.pc = "work" /\ d.plan = c.plan)
  BY <1>1, <1>3, <1>6, Continued
<1>8. Own(o) = {}
  BY <1>3, OwnIs
<1>9. /\ user' = user
      /\ \A y \in Keys : y # k => key'[y] = key[y]
      /\ key'[k] = row
      /\ \A u, p : UserCell(u, p) \in excused' <=> UserCell(u, p) \in excused
      /\ \A y \in Keys, p \in ApiPermissions : KeyCellKept(y, p)
      /\ \A y \in Keys : NameKept(y) /\ RowKept(y)
  BY <1>3, <1>6, <1>8, SavedRow
<1>10. c.op \in {"modifyUser", "rank"} /\ d.op = c.op /\ d.grant = c.grant /\ (c.op = "modifyUser" => Saved(c) /\ Saved(d))
  BY <1>1, <1>4, <1>7 DEF Revokes, Demotes, Saved, Follows
<1>11. UsersEffects(c, d)
  BY <1>7, <1>9, <1>10 DEF UsersEffects, UserCellKept, UserCallTrue, Expected, Hears
<1>12. \A y \in Keys : OthersKept(c, y)
  BY <1>9 DEF OthersKept
<1>13. KeysEffects(c, d)
  BY <1>5, <1>7, <1>9, <1>10, <1>12 DEF KeysEffects, Hears
<1> QED BY <1>7, <1>11, <1>13 DEF Served

LEMMA FailureServed ==
  ASSUME Tables, NEW c \in calls, ConnectionFails(c)
  PROVE  Served(c)
<1> DEFINE d == AnswerTo(c, "error")
<1>1. /\ c.page # "gone" /\ UNCHANGED <<user, key>>
      /\ c.pc \in {"arrived", "work"} => calls' = (calls \ {c}) \cup {d, Gone(c)}
      /\ c.pc \notin {"arrived", "work"} => calls' = (calls \ {c}) \cup {d}
      /\ excused' = excused \cup (IF c.pc \in {"arrived", "work", "ok"} THEN Own(c) ELSE {})
  BY DEF ConnectionFails, Becomes, Gone
<1>2. SameRequest(c, d) /\ d.page = c.page /\ d.pc = "error" /\ Gone(c).page = "gone"
  BY AnswerFields, GoneFields DEF Tables, Typed, Gone
<1> HIDE DEF d
<1>3. Follows(c, d) /\ d.target = c.target
  BY <1>1, <1>2 DEF Follows, SameRequest
<1>4. c.pc \notin {"arrived", "work", "ok"} => ~Saved(c) /\ ~Saved(d)
  BY <1>2 DEF Saved
<1>5. Quiet(c, d)
  BY <1>1, <1>2, <1>3, <1>4 DEF Quiet
<1> QED BY <1>3, <1>5, QuietEffects DEF Served

(* The server, and other browsers *)
LEMMA ServerMirrored ==
  ASSUME Tables, KeysInv, usersPage \in UsersPages, keysPage \in KeysPages, UsersMirror, KeysMirror,
         ServerStep, UNCHANGED <<usersPage, keysPage>>
  PROVE  UsersMirror' /\ KeysMirror'
<1>1. ASSUME NEW c \in calls, Served(c), UNCHANGED scenario
      PROVE  UsersMirror' /\ KeysMirror'
  <2>1. PICK d : Follows(c, d) /\ UsersEffects(c, d) /\ KeysEffects(c, d)
    BY <1>1 DEF Served
  <2>2. UsersMirror'
    BY <1>1, <2>1, UsersServed
  <2>3. KeysMirror'
    BY <1>1, <2>1, KeysServed
  <2> QED BY <2>2, <2>3
<1>2. ASSUME NEW c \in calls, UNCHANGED scenario,
             \/ isAuthorisedForApi(c) \/ Handles(c) \/ Saves(c)
             \/ updateApiKeyPermsOnUserPermChange(c) \/ SavesSwept(c)
             \/ handleGenerateAuthToken(c) \/ Generate(c) \/ ConnectionFails(c)
      PROVE  UsersMirror' /\ KeysMirror'
  <2>1. Saves(c) => c.target \in Users \/ c.target \in Keys
    BY DEF Saves
  <2>2. Served(c)
    <3> HIDE DEF Tables, KeysInv
    <3> QED BY <1>2, <2>1, AuthorisedServed, HandlesServed, UserSaveServed, KeySaveServed, SweepServed,
               SweptServed, TokenServed, GenerateServed, FailureServed
  <2> QED BY <1>1, <1>2, <2>2
<1>3. ASSUME Elsewhere PROVE UsersMirror' /\ KeysMirror'
  <2>1. PICK r : calls' = calls \cup {Call("gone", Now.super, "arrived", NoToken, <<user[Now.super]>>, r)}
    BY <1>3 DEF Elsewhere
  <2>2. Call("gone", Now.super, "arrived", NoToken, <<user[Now.super]>>, r).page = "gone"
    BY DEF Call
  <2>3. \A e : e.page # "gone" => (e \in calls' <=> e \in calls)
    BY <2>1, <2>2
  <2>4. UNCHANGED <<user, key, excused, scenario>>
    BY <1>3 DEF Elsewhere
  <2> QED BY <2>3, <2>4, Unheard
<1>4. \A c : ConnectionFails(c) => UNCHANGED scenario
  BY DEF ConnectionFails
<1> QED BY <1>2, <1>3, <1>4 DEF ServerStep

-----------------------------------------------------------------------------
(* All of it *)
LEMMA MirrorBegins == Init => MirrorInv
<1> SUFFICES ASSUME Init PROVE MirrorInv
  OBVIOUS
<1>1. PagesInv /\ Tables /\ DeadKeys
  BY PagesBegin DEF PagesInv, KeysInv
<1>2. /\ calls = {} /\ usersPage = RenderedUsers(Now.operator.users)
      /\ keysPage = RenderedKeys(Now.operator.keys)
  BY DEF Init, AdminInit, UsersInit, KeysInit
<1>3. UsersMirror
  <2>1. UsersLoaded
    BY <1>2 DEF UsersLoaded
  <2> QED BY <1>1, <2>1, LoadedMirror
<1>4. /\ keysPage.rows \subseteq Keys /\ \A k \in keysPage.rows : key[k].state = "live"
      /\ \A k \in Keys : key[k].state = "live" /\ key[k].owner = Now.operator.keys => k \in keysPage.rows
      /\ keysPage.granted = {x \in KeyCells : x[2] \in key[x[1]].perms}
      /\ keysPage.processing = {} /\ keysPage.busy = {}
      /\ \A k \in Keys : keysPage.name[k] = key[k].name
  BY <1>2 DEF RenderedKeys
<1>5. SeenKeys
  <2>1. \A x \in keysPage.granted : key[x[1]].state # "none"
    BY <1>1, <1>4 DEF DeadKeys, KeyCells, AllKeys
  <2> QED BY <1>2, <1>4, <2>1 DEF SeenKeys
<1>6. RowsTrue
  BY <1>4 DEF RowsTrue, RowTrue
<1>7. NamesTrue
  BY <1>2, <1>4 DEF NamesTrue, NameTrue, NameShown
<1>8. KeyCellsTrue
  <2>1. ASSUME NEW k \in keysPage.rows, NEW p \in ApiPermissions
        PROVE  <<k, p>> \in keysPage.granted <=> p \in key[k].perms
    BY <1>4 DEF KeyCells
  <2> QED BY <2>1 DEF KeyCellsTrue, KeyCellTrue
<1>9. KeysMirror
  BY <1>2, <1>5, <1>6, <1>7, <1>8 DEF KeysMirror, KeyCalls, Deletions, NewKeys
<1> QED BY <1>1, <1>3, <1>9 DEF MirrorInv

LEMMA MirrorSteps == MirrorInv /\ [Next]_vars => MirrorInv'
<1> SUFFICES ASSUME MirrorInv, [Next]_vars PROVE MirrorInv'
  OBVIOUS
<1>1. /\ Tables /\ KeysInv /\ usersPage \in UsersPages /\ keysPage \in KeysPages
      /\ UsersMirror /\ KeysMirror
  BY DEF MirrorInv, PagesInv, KeysShown
<1>2. PagesInv' /\ Tables'
  <2>1. PagesInv'
    BY PagesStep DEF MirrorInv
  <2> QED BY <2>1 DEF PagesInv
<1>3. CASE UsersStep /\ UNCHANGED keysPage
  <2>1. UsersMirror'
    BY <1>1, <1>2, <1>3, UsersShown
  <2>2. Aside("users") /\ UNCHANGED <<key, scenario>> /\ SameKeyCells
    BY <1>1, <1>3, UsersAside
  <2>3. KeysMirror'
    BY <1>1, <1>2, <1>3, <2>2, AsideKeys
  <2> QED BY <1>2, <2>1, <2>3 DEF MirrorInv
<1>4. CASE KeysStep /\ UNCHANGED usersPage
  <2>1. KeysMirror'
    BY <1>1, <1>4, KeysMirrored
  <2>2. Aside("keys") /\ UNCHANGED <<user, scenario>> /\ SameUserCells
    BY <1>1, <1>4, KeysAside
  <2>3. UsersMirror'
    BY <1>1, <1>2, <1>4, <2>2, AsideUsers
  <2> QED BY <1>2, <2>1, <2>3 DEF MirrorInv
<1>5. CASE ServerStep /\ UNCHANGED <<usersPage, keysPage>>
  <2>1. UsersMirror' /\ KeysMirror'
    BY <1>1, <1>5, ServerMirrored
  <2> QED BY <1>2, <2>1 DEF MirrorInv
<1>6. CASE /\ TokenAges("users") \/ TokenAges("keys") \/ UNCHANGED adminVars
           /\ UNCHANGED <<usersPage, keysPage>>
  <2>1. UNCHANGED <<scenario, user, key, calls, excused>>
    BY <1>6 DEF TokenAges, adminVars
  <2>2. UsersMirror' /\ KeysMirror'
    BY <1>1, <1>6, <2>1, Unheard
  <2> QED BY <1>2, <2>2 DEF MirrorInv
<1> QED BY <1>3, <1>4, <1>5, <1>6 DEF Next, AdminNext, vars, pagesVars

LEMMA MirrorShows == MirrorInv => PagesTrue
<1> SUFFICES ASSUME MirrorInv PROVE PagesTrue
  OBVIOUS
<1>1. /\ Tables /\ keysPage \in KeysPages /\ usersPage.rows \subseteq Users
      /\ \A u \in usersPage.rows, p \in UserPermissions : UserCellTrue(u, p)
      /\ \A k \in Keys : (RowTrue(k) \/ RowAnswered(k)) /\ NameTrue(k)
      /\ \A k \in keysPage.rows, p \in ApiPermissions : KeyCellTrue(k, p)
  BY DEF MirrorInv, PagesInv, KeysShown, UsersPages, UsersMirror, UserCellsTrue, KeysMirror, RowsTrue, NamesTrue,
         KeyCellsTrue
<1>2. \A c \in calls : /\ c.page # "gone" => c.page \in {"users", "keys"}
                       /\ Hears(c, "modifyUser") => c.page = "users"
                       /\ c.page # "gone" /\ c.op \in KeyOps => c.page = "keys"
  <2> SUFFICES ASSUME NEW c \in calls
               PROVE  /\ c.page # "gone" => c.page \in {"users", "keys"}
                      /\ Hears(c, "modifyUser") => c.page = "users"
                      /\ c.page # "gone" /\ c.op \in KeyOps => c.page = "keys"
    OBVIOUS
  <2>1. Asks(c) /\ c.page \in Pages \cup {"gone"}
    BY <1>1, CallFields DEF Tables, Typed
  <2> QED BY <2>1 DEF Asks, Pages, KeyOps, Hears
<1>3. UsersTrue
  <2> SUFFICES ASSUME NEW u \in usersPage.rows, NEW p \in UserPermissions
               PROVE  \/ (<<u, p>> \in usersPage.granted) = (p \in user[u].perms)
                      \/ UserCell(u, p) \in excused
                      \/ \E c \in calls : c.page = "users" /\ UserCell(u, p) \in Own(c)
    BY DEF UsersTrue
  <2>1. CASE \E c \in calls : Hears(c, "modifyUser") /\ c.target = u /\ c.arg = p
    BY <1>2, <2>1, OwnIs
  <2> QED BY <1>1, <2>1 DEF UserCellTrue
<1> DEFINE Pending(cell) == \E c \in calls : c.page = "keys" /\ cell \in Own(c)
<1>4. ASSUME NEW k \in Keys
      PROVE  \/ (k \in keysPage.rows) = (key[k].state = "live")
             \/ key[k].owner # Now.operator.keys \/ RowCell(k) \in excused \/ Pending(RowCell(k))
  <2>1. CASE RowAnswered(k)
    <3>1. PICK c \in calls : c.page # "gone" /\ c.op \in {"createKey", "deleteKey"} /\ c.target = k
      BY <2>1 DEF RowAnswered
    <3>2. c.page = "keys" /\ RowCell(k) \in Own(c)
      BY <1>2, <1>4, <3>1, OwnIs DEF KeyOps, Hears
    <3> QED BY <3>2
  <2>2. CASE RowTrue(k)
    BY <2>2 DEF RowTrue
  <2> QED BY <1>1, <2>1, <2>2
<1>5. ASSUME NEW k \in Keys, k \in keysPage.rows
      PROVE  \/ keysPage.name[k] = key[k].name
             \/ keysPage.name[k] = NewName /\ key[k].name = "Unnamed key"
             \/ NameCell(k) \in excused \/ Pending(NameCell(k))
  <2>1. CASE \E c \in calls : Hears(c, "rename") /\ c.target = k
    <3>1. PICK c \in calls : Hears(c, "rename") /\ c.target = k
      BY <2>1
    <3>2. c.page = "keys" /\ NameCell(k) \in Own(c)
      BY <1>2, <3>1, OwnIs DEF KeyOps, Hears
    <3> QED BY <3>2
  <2> QED BY <1>1, <1>5, <2>1 DEF NameTrue, NameShown
<1>6. ASSUME NEW k \in Keys, k \in keysPage.rows, NEW p \in ApiPermissions
      PROVE  \/ (<<k, p>> \in keysPage.granted) = (p \in key[k].perms)
             \/ KeyCell(k, p) \in excused \/ Pending(KeyCell(k, p))
  <2>1. CASE \E c \in calls : Hears(c, "modifyKey") /\ c.target = k /\ c.arg = p
    <3>1. PICK c \in calls : Hears(c, "modifyKey") /\ c.target = k /\ c.arg = p
      BY <2>1
    <3>2. c.page = "keys" /\ KeyCell(k, p) \in Own(c)
      BY <1>2, <3>1, OwnIs DEF KeyOps, Hears
    <3> QED BY <3>2
  <2> QED BY <1>1, <1>6, <2>1 DEF KeyCellTrue
<1>7. KeysTrue
  BY <1>4, <1>5, <1>6 DEF KeysTrue
<1> QED BY <1>3, <1>7 DEF PagesTrue

(* Whatever users, servers and lost connections do, in any order, what the   *)
(* pages show of users and of keys is what the tables have, once a page has  *)
(* its answers, but for the cells that something else has changed.           *)
THEOREM PagesShown == Spec => []PagesTrue
<1> QED BY MirrorBegins, MirrorSteps, MirrorShows, PTL DEF Spec

-----------------------------------------------------------------------------
(* The types that the invariants above do not have: of what the page of the  *)
(* log shows, and of how often something has happened on it.                 *)
LogViews ==
    /\ polls \in 0..maxPolls /\ events \in 0..maxEvents
    /\ logFilter \in Tags /\ textarea \in Seq(Entries) \cup {Failed}

LEMMA FilteredType ==
  ASSUME NEW s \in Seq(Entries), NEW tag
  PROVE  filterLogs(s, tag) \in Seq(Entries)
BY OnlyKeeps DEF filterLogs

LEMMA ViewsKept ==
  ASSUME LogInv, LogViews, LogInv', [LogStep]_logVars
  PROVE  LogViews'
<1>1. /\ logContent \in Seq(Entries) /\ logContent' \in Seq(Entries)
      /\ maxPolls \in Nat /\ maxEvents \in Nat /\ "all" \in Tags
  BY LogAssumption DEF LogInv, LogTypes
<1>2. CASE UNCHANGED logVars
  BY <1>2 DEF LogViews, logVars
<1>3. CASE apiLogGet
  BY <1>1, <1>3 DEF LogViews, apiLogGet
<1>4. CASE loadLogs
  <2>1. textarea' \in Seq(Entries) \cup {Failed}
    <3>1. UNCHANGED textarea \/ textarea' = filterLogs(logContent', logFilter)
      BY <1>4 DEF loadLogs
    <3> QED BY <1>1, <3>1, FilteredType DEF LogViews
  <2>2. UNCHANGED <<polls, events, logFilter>>
    BY <1>4 DEF loadLogs
  <2> QED BY <2>1, <2>2 DEF LogViews
<1>5. CASE LoadFails
  BY <1>1, <1>5 DEF LogViews, LoadFails, Event
<1>6. ASSUME NEW tag \in Tags, SelectFilter(tag) PROVE LogViews'
  <2>1. filterLogs(logContent, tag) \in Seq(Entries)
    BY <1>1, FilteredType
  <2> QED BY <1>1, <1>6, <2>1 DEF LogViews, SelectFilter, Event
<1>7. CASE deleteLogs \/ DeletionFails
  BY <1>1, <1>7 DEF LogViews, deleteLogs, DeletionFails, Event
<1>8. CASE Deleted \/ resetTrafficStat
  <2>1. <<>> \in Seq(Entries)
    OBVIOUS
  <2> QED BY <1>1, <1>8, <2>1 DEF LogViews, Deleted, resetTrafficStat, Reload, Event
<1>9. ASSUME UNCHANGED <<polls, events, logFilter, textarea>> PROVE LogViews'
  BY <1>9 DEF LogViews
<1>10. CASE \/ \E l \in Lines : createLogEntry(l)
            \/ \E e \in writers : writeToFile(e)
            \/ Tick \/ apiLogsGet \/ StampAnswer \/ loadStatus \/ DeleteLogs
  BY <1>9, <1>10 DEF createLogEntry, writeToFile, Tick, apiLogsGet, StampAnswer, loadStatus, DeleteLogs
<1> QED BY <1>2, <1>3, <1>4, <1>5, <1>6, <1>7, <1>8, <1>10 DEF LogStep

LEMMA LogTyped == LogInv /\ LogViews => LogTypeOK
<1> SUFFICES ASSUME LogInv, LogViews PROVE LogTypeOK
  OBVIOUS
<1>1. LogTypes /\ lastSecond \in Nat
  BY LogAssumption DEF LogInv
<1>2. /\ clock \in 1..lastSecond /\ modified \in 1..lastSecond /\ lastLogUpdate \in 0..lastSecond
      /\ log \in Seq(Entries) /\ logContent \in Seq(Entries)
      /\ late \in BOOLEAN /\ overlooked \subseteq Entries
  BY <1>1 DEF LogTypes
<1>3. writers \subseteq Entries
  <2>1. [line : Lines, ts : 0..clock] \subseteq Entries
    <3> SUFFICES ASSUME NEW e \in [line : Lines, ts : 0..clock] PROVE e \in Entries
      OBVIOUS
    <3> QED BY <1>1, <1>2 DEF Entries, AllLines
  <2> QED BY <1>1, <2>1 DEF LogTypes
<1>4. /\ poll.pc \in {"waiting", "sent", "read", "answered", "status"}
      /\ deletion.state \in {"none", "sent", "done", "lost"} /\ deletion.cutoff \in 0..lastSecond
  BY <1>1 DEF LogTypes, Polls
<1> QED BY <1>2, <1>3, <1>4 DEF LogTypeOK, LogViews

LEMMA PagesTyped == MirrorInv => AdminTypeOK /\ UsersTypeOK /\ KeysTypeOK
<1> SUFFICES ASSUME MirrorInv PROVE AdminTypeOK /\ UsersTypeOK /\ KeysTypeOK
  OBVIOUS
<1>1. /\ Tables /\ usersPage \in UsersPages /\ keysPage \in KeysPages
      /\ keysPage.hidden \subseteq keysPage.fixed /\ LiveRows /\ SeenKeys
  BY DEF MirrorInv, PagesInv, KeysShown, UsersMirror, KeysMirror
<1>2. AdminTypeOK
  <2>1. ASSUME NEW c \in calls
        PROVE  /\ c.page \in Pages \cup {"gone"}
               /\ c.pc \in {"token", "generate", "sent", "arrived", "work", "ok", "error"}
               /\ c.page = "gone" => c.pc \in {"sent", "arrived", "work"}
               /\ c.token \in Tokens \cup {NoToken}
    <3>1. c \in Calls /\ Rests(c)
      BY <1>1 DEF Tables, Typed
    <3> QED BY <3>1, CallFields DEF Rests
  <2> QED BY <1>1, <2>1 DEF AdminTypeOK, Tables
<1>3. UsersTypeOK
  <2>1. usersPage.granted \cap usersPage.processing = {}
    BY <1>1 DEF LiveRows
  <2> QED BY <1>1, <2>1 DEF UsersTypeOK, UsersPages
<1>4. KeysTypeOK
  <2>1. keysPage.granted \cap keysPage.processing = {}
    BY <1>1 DEF SeenKeys
  <2> QED BY <1>1, <2>1 DEF KeysTypeOK, KeysPages
<1> QED BY <1>2, <1>3, <1>4

(* For any users, keys, lines, browsers and scenarios, the tables, the pages *)
(* of administrators, the log and the sessions have their types: an          *)
(* indicator is never both granted and being changed, a call that no page    *)
(* waits for is at the server, and a cookie names a session that was saved.  *)
THEOREM SystemTypes == Spec => []TypeOK
<1> DEFINE Inv == MirrorInv /\ LogInv /\ LogViews /\ TypeInv
<1>1. Init => Inv
  <2> SUFFICES ASSUME Init PROVE Inv
    OBVIOUS
  <2>1. LogInit /\ SessionsInit
    BY DEF Init
  <2>2. LogViews
    BY <2>1, LogAssumption DEF LogInit, LogViews
  <2> QED BY <2>1, <2>2, MirrorBegins, LogBegins, InitTypes
<1>2. Inv /\ [Next]_vars => Inv'
  <2> SUFFICES ASSUME Inv, [Next]_vars PROVE Inv'
    OBVIOUS
  <2>1. [LogStep]_logVars /\ [SessionsNext]_sessionsVars
    BY DEF Next, vars
  <2>2. LogInv'
    BY <2>1, LogNext
  <2> QED BY <2>1, <2>2, ViewsKept, MirrorSteps, NextTypes
<1>3. Inv => TypeOK
  BY PagesTyped, LogTyped DEF TypeOK, TypeInv
<1> QED BY <1>1, <1>2, <1>3, PTL DEF Spec
=============================================================================
