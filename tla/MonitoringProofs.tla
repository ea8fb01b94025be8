-------------------------- MODULE MonitoringProofs --------------------------
(***************************************************************************)
(* The list of monitored connections in http_parse_mon.cpp, for any number *)
(* of them and any interval: it is a list of exactly these connections, in *)
(* the order of their next counts, and a client that reads is not dropped. *)
(***************************************************************************)
EXTENDS Monitoring, FiniteSetTheorems, TLAPS

\* Where the loop is, and what it has in its hand.
Control ==
    /\ (lpc = "unhooked") <=> (temp # Nil)
    /\ temp # Nil => temp \in Monitors /\ temp \notin ripe
    /\ lpc \notin {"check", "unhooked"} => lag = 0 /\ ripe = {}
    /\ lag <= late
    /\ ripe \subseteq Monitors
    /\ \A m \in Monitors : conn[m].handler \in {"cleanupafterwrite", "discard_input"}

\* A connection has at most one event in a batch, and one that waits for a
\* request is not written to.
Batch ==
    /\ inq \cap outq = {}
    /\ lpc = "wait" => inq = {} /\ outq = {}
    /\ \A m \in Conns : /\ conn[m].handler \in {"none", "request"} => conn[m].epollin
                        /\ conn[m].handler = "request" => m \notin outq

\* ListExact, with the length of the list for the number of its members.
IsList == \E n \in Nat : \E s \in [1..n -> InList] : Linked(s, n)

\* A count is due one interval after the last one at the latest.  A client
\* that reads has Interval - Slack ticks left while a count for it is unsent,
\* so that it is never found with one when the next is due.
Timely ==
    /\ \A m \in Monitors : due[m] + lag <= Interval
    /\ \A m \in Monitors : sock[m].reads /\ conn[m].out # Nil =>
            due[m] + late >= Interval /\ ~conn[m].epollin
    /\ \A m \in Monitors : (m \in ripe \/ m = temp) /\ sock[m].reads => conn[m].out = Nil

Inv == TypeOK /\ Control /\ Batch /\ IsList /\ Sorted /\ Timely

\* What the lemmas about the list need of the types.
ListType ==
    /\ {head, tail, temp} \subseteq Conns \cup {Nil}
    /\ next \in [Conns -> Conns \cup {Nil}] /\ prev \in [Conns -> Conns \cup {Nil}]
    /\ due \in [Conns -> Nat]

-----------------------------------------------------------------------------
(* The operations on the list.                                              *)

LEMMA MonitorsType == Monitors \subseteq Conns /\ Nil \notin Monitors
BY MonitoringAssumption DEF Monitors

\* The neighbours of a connection of the list are in it, and know it.
LEMMA NextInList ==
    ASSUME IsList, NEW c \in InList, next[c] # Nil
    PROVE  next[c] \in InList /\ prev[next[c]] = c
<1>1. PICK n \in Nat : \E s \in [1..n -> InList] : Linked(s, n)
  BY DEF IsList
<1>2. PICK s \in [1..n -> InList] : Linked(s, n)
  BY <1>1
<1>3. PICK i \in 1..n : s[i] = c
  BY <1>2 DEF Linked
<1>4. i # n /\ next[c] = s[i + 1]
  BY <1>2, <1>3 DEF Linked
<1> QED BY <1>2, <1>3, <1>4, i + 1 \in 1..n DEF Linked

LEMMA PrevInList ==
    ASSUME IsList, NEW c \in InList, prev[c] # Nil
    PROVE  prev[c] \in InList /\ next[prev[c]] = c
<1>1. PICK n \in Nat : \E s \in [1..n -> InList] : Linked(s, n)
  BY DEF IsList
<1>2. PICK s \in [1..n -> InList] : Linked(s, n)
  BY <1>1
<1>3. PICK i \in 1..n : s[i] = c
  BY <1>2 DEF Linked
<1>4. i # 1 /\ prev[c] = s[i - 1]
  BY <1>2, <1>3 DEF Linked
<1> QED BY <1>2, <1>3, <1>4, i - 1 \in 1..n DEF Linked

\* monitoring_add puts m in front of the list.
LEMMA AddKeeps ==
    ASSUME NEW m \in Conns, ListType, IsList, Sorted, temp = Nil, temp' = Nil,
           m \notin Monitors, Monitors' = Monitors \cup {m}, monitoring_add(m)
    PROVE  IsList' /\ Sorted'
<1>1. PICK n \in Nat : \E s \in [1..n -> InList] : Linked(s, n)
  BY DEF IsList
<1>2. PICK s \in [1..n -> InList] : Linked(s, n)
  BY <1>1
<1>3. InList = Monitors /\ InList' = InList \cup {m} /\ m # Nil /\ m \notin InList
  BY MonitorsType, MonitoringAssumption DEF InList
<1>t. InList \subseteq Conns /\ Nil \notin InList
  BY MonitorsType DEF InList
<1>r. PICK r : r = [i \in 1..n+1 |-> IF i = 1 THEN m ELSE s[i - 1]]
  OBVIOUS
<1>4. r \in [1..n+1 -> InList']
  BY <1>3, <1>r
<1>5. Linked(r, n + 1)'
  <2>1. \A i, j \in 1..n+1 : r[i] = r[j] => i = j
    BY <1>r, <1>2, <1>3 DEF Linked
  <2>2. \A c \in InList' : \E i \in 1..n+1 : r[i] = c
    <3> SUFFICES ASSUME NEW c \in InList' PROVE \E i \in 1..n+1 : r[i] = c
      OBVIOUS
    <3>1. CASE c = m
      BY <1>r, <3>1
    <3>2. CASE c # m
      <4>1. PICK i \in 1..n : s[i] = c
        BY <3>2, <1>2, <1>3 DEF Linked
      <4>2. i + 1 \in 1..n+1 /\ r[i + 1] = s[i]
        BY <1>r
      <4> QED BY <4>1, <4>2
    <3> QED BY <3>1, <3>2
  <2>3. head' = r[1] /\ tail' = r[n + 1]
    <3>1. CASE n = 0
      BY <1>r, <3>1, <1>2 DEF Linked, monitoring_add
    <3>2. CASE n # 0
      BY <1>r, <3>2, <1>2, <1>t, s[n] \in InList DEF Linked, monitoring_add
    <3> QED BY <3>1, <3>2
  <2>4. \A i \in 1..n+1 : /\ next'[r[i]] = IF i = n + 1 THEN Nil ELSE r[i + 1]
                          /\ prev'[r[i]] = IF i = 1 THEN Nil ELSE r[i - 1]
    <3> SUFFICES ASSUME NEW i \in 1..n+1
                 PROVE  /\ next'[r[i]] = IF i = n + 1 THEN Nil ELSE r[i + 1]
                        /\ prev'[r[i]] = IF i = 1 THEN Nil ELSE r[i - 1]
      OBVIOUS
    <3>1. CASE i = 1
      BY <1>r, <3>1, <1>2, <1>3 DEF Linked, monitoring_add, ListType
    <3>2. CASE i # 1
      <4>1. i - 1 \in 1..n /\ r[i] = s[i - 1] /\ s[i - 1] \in InList
        BY <3>2, <1>r
      <4>2. next'[r[i]] = next[s[i - 1]]
        BY <4>1, <1>3, <1>t DEF monitoring_add, ListType
      <4>3. next[s[i - 1]] = IF i - 1 = n THEN Nil ELSE s[i]
        BY <4>1, <1>2 DEF Linked
      <4>4. prev'[r[i]] = IF s[i - 1] = head THEN m ELSE prev[s[i - 1]]
        BY <4>1, <1>3, <1>t DEF monitoring_add, ListType
      <4>5. CASE i = 2
        BY <1>r, <4>1, <4>2, <4>3, <4>4, <4>5, <1>2 DEF Linked
      <4>6. CASE i # 2
        <5>1. s[i - 1] # head /\ prev[s[i - 1]] = s[i - 2]
          BY <4>1, <4>6, <1>2 DEF Linked
        <5> QED BY <1>r, <5>1, <4>1, <4>2, <4>3, <4>4, <4>6, <3>2
      <4> QED BY <4>5, <4>6
    <3> QED BY <3>1, <3>2
  <2> QED BY ONLY <2>1, <2>2, <2>3, <2>4, n \in Nat, n + 1 # 0, temp' = Nil DEF Linked
<1>6. Sorted'
  BY <1>3, <1>t, NextInList DEF Sorted, monitoring_add, ListType
<1> QED BY <1>4, <1>5, <1>6, n + 1 \in Nat DEF IsList

\* ToTail puts temp behind the list.
LEMMA ToTailKeeps ==
    ASSUME NEW m \in Conns, m = temp, ListType, IsList, Sorted, temp \in Monitors, temp' = Nil,
           Monitors' = Monitors, ToTail(m), Interval - lag \in Nat,
           \A c \in Monitors : due[c] <= Interval - lag
    PROVE  IsList' /\ Sorted'
<1>1. PICK n \in Nat : \E s \in [1..n -> InList] : Linked(s, n)
  BY DEF IsList
<1>2. PICK s \in [1..n -> InList] : Linked(s, n)
  BY <1>1
<1>3. InList' = InList \cup {m} /\ m \notin InList /\ m # Nil
  BY MonitorsType, MonitoringAssumption DEF InList
<1>t. InList \subseteq Monitors /\ Nil \notin InList /\ InList \subseteq Conns
  BY MonitorsType DEF InList
<1>r. PICK r : r = [i \in 1..n+1 |-> IF i = n + 1 THEN m ELSE s[i]]
  OBVIOUS
<1>4. r \in [1..n+1 -> InList']
  BY <1>3, <1>r
<1>5. Linked(r, n + 1)'
  <2>1. \A i, j \in 1..n+1 : r[i] = r[j] => i = j
    BY <1>r, <1>2, <1>3 DEF Linked
  <2>2. \A c \in InList' : \E i \in 1..n+1 : r[i] = c
    <3> SUFFICES ASSUME NEW c \in InList' PROVE \E i \in 1..n+1 : r[i] = c
      OBVIOUS
    <3>1. CASE c = m
      BY <1>r, <3>1
    <3>2. CASE c # m
      <4>1. PICK i \in 1..n : s[i] = c
        BY <3>2, <1>2, <1>3 DEF Linked
      <4> QED BY <1>r, <4>1, i \in 1..n+1
    <3> QED BY <3>1, <3>2
  <2>3. head' = r[1] /\ tail' = r[n + 1]
    BY <1>r, <1>2, <1>3, <1>t DEF Linked, ToTail, ListType
  <2>4. \A i \in 1..n+1 : /\ next'[r[i]] = IF i = n + 1 THEN Nil ELSE r[i + 1]
                          /\ prev'[r[i]] = IF i = 1 THEN Nil ELSE r[i - 1]
    <3> SUFFICES ASSUME NEW i \in 1..n+1
                 PROVE  /\ next'[r[i]] = IF i = n + 1 THEN Nil ELSE r[i + 1]
                        /\ prev'[r[i]] = IF i = 1 THEN Nil ELSE r[i - 1]
      OBVIOUS
    <3>1. CASE i = n + 1
      <4>1. CASE n = 0
        BY <1>r, <3>1, <4>1, <1>2 DEF Linked, ToTail, ListType
      <4>2. CASE n # 0
        <5>1. tail = s[n] /\ tail # m
          BY <4>2, <1>2, <1>3 DEF Linked
        <5> QED BY <5>1, <1>r, <3>1, <4>2 DEF ToTail, ListType
      <4> QED BY <4>1, <4>2
    <3>2. CASE i # n + 1
      <4>1. i \in 1..n /\ r[i] = s[i] /\ s[i] \in InList /\ tail = s[n]
        BY <3>2, <1>r, <1>2 DEF Linked
      <4>2. prev'[r[i]] = prev[s[i]] /\ prev[s[i]] = IF i = 1 THEN Nil ELSE s[i - 1]
        BY <4>1, <1>2, <1>3, <1>t DEF Linked, ToTail, ListType
      <4>3. next'[r[i]] = IF i = n THEN m ELSE next[s[i]]
        BY <4>1, <1>2, <1>3, <1>t DEF Linked, ToTail, ListType
      <4>4. i # n => next[s[i]] = s[i + 1]
        BY <4>1, <1>2 DEF Linked
      <4> QED BY <4>1, <4>2, <4>3, <4>4, <1>r
    <3> QED BY <3>1, <3>2
  <2> QED BY ONLY <2>1, <2>2, <2>3, <2>4, n \in Nat, n + 1 # 0, temp' = Nil DEF Linked
<1>6. Sorted'
  <2> SUFFICES ASSUME NEW c \in InList', next'[c] # Nil PROVE due'[c] <= due'[next'[c]]
    BY DEF Sorted
  <2>1. c \in InList /\ c # m
    BY <1>3, <1>t DEF ToTail, ListType
  <2>2. CASE c = tail
    BY <2>1, <2>2, <1>t, <1>3 DEF ToTail, ListType
  <2>3. CASE c # tail
    <3>1. next'[c] = next[c] /\ due'[c] = due[c]
      BY <2>1, <2>3, <1>t, <1>3 DEF ToTail, ListType
    <3>2. next[c] \in InList
      BY <3>1, <2>1, NextInList
    <3>3. due'[next[c]] = due[next[c]] /\ due[c] <= due[next[c]]
      BY <3>1, <3>2, <2>1, <1>t, <1>3 DEF ToTail, ListType, Sorted
    <3> QED BY <3>1, <3>3
  <2> QED BY <2>2, <2>3
<1> QED BY <1>4, <1>5, <1>6, n + 1 \in Nat DEF IsList

\* monitoring_destroy takes m out of the list, wherever it is.
LEMMA DestroyKeeps ==
    ASSUME NEW m \in Monitors, ListType, IsList, Sorted, temp = Nil, temp' = Nil,
           Monitored(m), Monitors' = Monitors \ {m}, monitoring_destroy(m)
    PROVE  IsList' /\ Sorted'
<1>1. PICK n \in Nat : \E s \in [1..n -> InList] : Linked(s, n)
  BY DEF IsList
<1>2. PICK s \in [1..n -> InList] : Linked(s, n)
  BY <1>1
<1>3. InList = Monitors /\ InList' = InList \ {m}
  BY MonitorsType DEF InList
<1>t. InList \subseteq Conns /\ Nil \notin InList
  BY MonitorsType DEF InList
<1>k. PICK k \in 1..n : s[k] = m
  BY <1>2, <1>3 DEF Linked
<1>n. /\ (head = m) <=> (k = 1)
      /\ (tail = m) <=> (k = n)
      /\ next[m] = IF k = n THEN Nil ELSE s[k + 1]
      /\ prev[m] = IF k = 1 THEN Nil ELSE s[k - 1]
      /\ head = s[1] /\ tail = s[n] /\ n > 0
  <2>1. head = s[1] /\ tail = s[n] /\ n > 0
    BY <1>2 DEF Linked
  <2>2. next[m] = (IF k = n THEN Nil ELSE s[k + 1]) /\ prev[m] = (IF k = 1 THEN Nil ELSE s[k - 1])
    BY <1>2, <1>k DEF Linked
  <2>3. \A i \in 1..n : (s[i] = m) <=> (k = i)
    BY <1>2, <1>k DEF Linked
  <2> QED BY <2>1, <2>2, <2>3
<1>5. CASE n = 1
  <2>1. head' = Nil /\ tail' = Nil /\ InList' = {}
    BY <1>5, <1>2, <1>3, <1>k, <1>n DEF Linked, monitoring_destroy
  <2>2. [i \in 1..0 |-> m] \in [1..0 -> InList']
    OBVIOUS
  <2>3. PICK r : r = [i \in 1..0 |-> m]
    OBVIOUS
  <2>4. Linked(r, 0)'
    BY <2>1 DEF Linked
  <2> QED BY <2>1, <2>2, <2>3, <2>4 DEF IsList, Sorted
<1>6. CASE n # 1
  <2>1. /\ head' = IF k = 1 THEN s[2] ELSE s[1]
        /\ tail' = IF k = n THEN s[n - 1] ELSE s[n]
        /\ next' = [c \in Conns |-> IF c = m THEN Nil
                                    ELSE IF c = prev[m] THEN next[m] ELSE next[c]]
        /\ prev' = [c \in Conns |-> IF c = m THEN Nil
                                    ELSE IF c = next[m] THEN prev[m] ELSE prev[c]]
        /\ due' = [due EXCEPT ![m] = 0]
    <3>1. s[1] # Nil /\ (k # n => s[k + 1] # Nil)
      BY <1>t, <1>n
    <3> QED BY <3>1, <1>6, <1>n DEF monitoring_destroy
  <2>r. PICK r : r = [i \in 1..n-1 |-> IF i < k THEN s[i] ELSE s[i + 1]]
    OBVIOUS
  <2>d. \A i \in 1..n : i # k => s[i] # m
    BY <1>2, <1>k DEF Linked
  <2>2. r \in [1..n-1 -> InList']
    BY <2>r, <2>d, <1>3
  <2>3. \A i, j \in 1..n-1 : r[i] = r[j] => i = j
    BY <2>r, <1>2 DEF Linked
  <2>4. \A c \in InList' : \E i \in 1..n-1 : r[i] = c
    <3> SUFFICES ASSUME NEW c \in InList' PROVE \E i \in 1..n-1 : r[i] = c
      OBVIOUS
    <3>1. PICK j \in 1..n : s[j] = c
      BY <1>2, <1>3 DEF Linked
    <3>2. CASE j < k
      BY <3>1, <3>2, <2>r, j \in 1..n-1
    <3>3. CASE j > k
      <4>1. j - 1 \in 1..n-1 /\ r[j - 1] = s[j]
        BY <3>3, <2>r
      <4> QED BY <4>1, <3>1
    <3>4. j # k
      BY <3>1, <1>k, <1>3
    <3> QED BY <3>2, <3>3, <3>4
  <2>5. head' = r[1] /\ tail' = r[n - 1]
    BY <2>1, <2>r, <1>6
  <2>6. \A i \in 1..n-1 : next'[r[i]] = IF i = n - 1 THEN Nil ELSE r[i + 1]
    <3> SUFFICES ASSUME NEW i \in 1..n-1
                 PROVE  next'[r[i]] = IF i = n - 1 THEN Nil ELSE r[i + 1]
      OBVIOUS
    <3>1. PICK j \in 1..n : j = IF i < k THEN i ELSE i + 1
      OBVIOUS
    <3>2. r[i] = s[j] /\ s[j] # m /\ s[j] \in Conns
      BY <3>1, <2>r, <2>d, <1>t
    <3>3. next'[s[j]] = IF s[j] = prev[m] THEN next[m] ELSE next[s[j]]
      BY <3>2, <2>1
    <3>4. next[s[j]] = IF j = n THEN Nil ELSE s[j + 1]
      BY <1>2 DEF Linked
    <3>5. (s[j] = prev[m]) <=> (j = k - 1)
      BY <1>n, <1>2, <1>t DEF Linked
    <3>6. CASE j = k - 1
      BY <3>1, <3>2, <3>3, <3>5, <3>6, <1>n, <2>r
    <3>7. CASE j # k - 1
      BY <3>1, <3>2, <3>3, <3>4, <3>5, <3>7, <2>r
    <3> QED BY <3>6, <3>7
  <2>7. \A i \in 1..n-1 : prev'[r[i]] = IF i = 1 THEN Nil ELSE r[i - 1]
    <3> SUFFICES ASSUME NEW i \in 1..n-1
                 PROVE  prev'[r[i]] = IF i = 1 THEN Nil ELSE r[i - 1]
      OBVIOUS
    <3>1. PICK j \in 1..n : j = IF i < k THEN i ELSE i + 1
      OBVIOUS
    <3>2. r[i] = s[j] /\ s[j] # m /\ s[j] \in Conns
      BY <3>1, <2>r, <2>d, <1>t
    <3>3. prev'[s[j]] = IF s[j] = next[m] THEN prev[m] ELSE prev[s[j]]
      BY <3>2, <2>1
    <3>4. prev[s[j]] = IF j = 1 THEN Nil ELSE s[j - 1]
      BY <1>2 DEF Linked
    <3>5. (s[j] = next[m]) <=> (j = k + 1)
      BY <1>n, <1>2, <1>t DEF Linked
    <3>6. CASE j = k + 1
      BY <3>1, <3>2, <3>3, <3>5, <3>6, <1>n, <2>r
    <3>7. CASE j # k + 1
      BY <3>1, <3>2, <3>3, <3>4, <3>5, <3>7, <2>r
    <3> QED BY <3>6, <3>7
  <2>8. n - 1 \in Nat /\ n - 1 # 0
    BY <1>6, <1>n
  <2>9. Linked(r, n - 1)'
    BY ONLY <2>3, <2>4, <2>5, <2>6, <2>7, <2>8, temp' = Nil DEF Linked
  <2>10. Sorted'
    <3> SUFFICES ASSUME NEW c \in InList', next'[c] # Nil PROVE due'[c] <= due'[next'[c]]
      BY DEF Sorted
    <3>1. c \in InList /\ c # m /\ c \in Conns /\ m \in InList
      BY <1>3, <1>t
    <3>2. CASE c = prev[m]
      <4>1. next'[c] = next[m] /\ next[m] # Nil
        BY <3>1, <3>2, <2>1
      <4>2. next[m] \in InList /\ prev[next[m]] = m /\ next[c] = m
        BY <3>1, <3>2, <4>1, <1>t, NextInList, PrevInList
      <4>3. next[m] # m
        BY <4>2, <3>1, <3>2
      <4>4. due[c] <= due[m] /\ due[m] <= due[next[m]]
        BY <3>1, <4>1, <4>2, <1>t DEF Sorted
      <4> QED BY <4>1, <4>2, <4>3, <4>4, <3>1, <2>1, <1>t DEF ListType
    <3>3. CASE c # prev[m]
      <4>1. next'[c] = next[c]
        BY <3>1, <3>3, <2>1
      <4>2. next[c] \in InList /\ next[c] # m
        BY <3>1, <3>3, <4>1, NextInList
      <4> QED BY <4>1, <4>2, <3>1, <2>1, <1>t DEF ListType, Sorted
    <3> QED BY <3>2, <3>3
  <2> QED BY <2>2, <2>8, <2>9, <2>10 DEF IsList
<1> QED BY <1>5, <1>6

\* Unhook takes the first connection of the list into the hand.
LEMMA UnhookKeeps ==
    ASSUME ListType, IsList, Sorted, temp = Nil, Monitors' = Monitors, Unhook
    PROVE  IsList' /\ Sorted'
<1>1. PICK n \in Nat : \E s \in [1..n -> InList] : Linked(s, n)
  BY DEF IsList
<1>2. PICK s \in [1..n -> InList] : Linked(s, n)
  BY <1>1
<1>3. InList = Monitors /\ head \in InList /\ InList' = InList \ {head}
  <2>1. head = s[1] /\ n # 0
    BY <1>2 DEF Linked, Unhook
  <2> QED BY <2>1, MonitorsType DEF InList, Unhook
<1>t. InList \subseteq Conns /\ Nil \notin InList
  BY MonitorsType DEF InList
<1>n. /\ n > 0 /\ head = s[1] /\ tail = s[n]
      /\ next[head] = IF n = 1 THEN Nil ELSE s[2]
      /\ prev[head] = Nil
  BY <1>2, <1>3, <1>t DEF Linked
<1>h. /\ head' = next[head] /\ tail' = tail /\ next' = next /\ due' = due /\ temp' = head
      /\ prev' = [c \in Conns |-> IF c = next[head] THEN Nil ELSE prev[c]]
  BY DEF Unhook
<1>r. PICK r : r = [i \in 1..n-1 |-> s[i + 1]]
  OBVIOUS
<1>d. \A i \in 1..n : i # 1 => s[i] # head
  BY <1>2, <1>n DEF Linked
<1>4. r \in [1..n-1 -> InList']
  BY <1>r, <1>d, <1>3
<1>5. \A i, j \in 1..n-1 : r[i] = r[j] => i = j
  BY <1>r, <1>2 DEF Linked
<1>6. \A c \in InList' : \E i \in 1..n-1 : r[i] = c
  <2> SUFFICES ASSUME NEW c \in InList' PROVE \E i \in 1..n-1 : r[i] = c
    OBVIOUS
  <2>1. PICK j \in 1..n : s[j] = c
    BY <1>2, <1>3 DEF Linked
  <2>2. j - 1 \in 1..n-1 /\ r[j - 1] = s[j]
    BY <2>1, <1>r, <1>n, <1>3
  <2> QED BY <2>1, <2>2
<1>7. /\ head' = IF n - 1 = 0 THEN Nil ELSE r[1]
      /\ tail' = IF n - 1 = 0 THEN temp' ELSE r[n - 1]
  BY <1>n, <1>h, <1>r
<1>8. \A i \in 1..n-1 : /\ next'[r[i]] = IF i = n - 1 THEN Nil ELSE r[i + 1]
                        /\ prev'[r[i]] = IF i = 1 THEN Nil ELSE r[i - 1]
  <2> SUFFICES ASSUME NEW i \in 1..n-1
               PROVE  /\ next'[r[i]] = IF i = n - 1 THEN Nil ELSE r[i + 1]
                      /\ prev'[r[i]] = IF i = 1 THEN Nil ELSE r[i - 1]
    OBVIOUS
  <2>1. i + 1 \in 1..n /\ r[i] = s[i + 1] /\ s[i + 1] \in Conns
    BY <1>r, <1>t
  <2>2. /\ next[s[i + 1]] = IF i + 1 = n THEN Nil ELSE s[i + 2]
        /\ prev[s[i + 1]] = s[i]
    BY <2>1, <1>2 DEF Linked
  <2>3. n # 1 /\ (s[i + 1] = s[2] <=> i = 1)
    BY <2>1, <1>2 DEF Linked
  <2>4. prev'[r[i]] = IF i = 1 THEN Nil ELSE s[i]
    BY <2>1, <2>2, <2>3, <1>h, <1>n
  <2> QED BY <2>1, <2>2, <2>4, <1>h, <1>r
<1>9. prev'[temp'] = Nil /\ next'[temp'] = head'
  BY <1>h, <1>n, <1>3, <1>t
<1>10. Linked(r, n - 1)'
  BY ONLY <1>5, <1>6, <1>7, <1>8, <1>9 DEF Linked
<1>11. Sorted'
  BY <1>h, <1>3 DEF Sorted
<1>12. n - 1 \in Nat
  BY <1>n
<1> QED BY <1>4, <1>10, <1>11, <1>12 DEF IsList

\* monitoring_destroy of the connection in the hand leaves the list alone.
LEMMA DropKeeps ==
    ASSUME ListType, IsList, Sorted, temp \in Monitors, Monitored(temp), temp' = Nil,
           Monitors' = Monitors \ {temp}, monitoring_destroy(temp)
    PROVE  IsList' /\ Sorted'
<1>1. PICK n \in Nat : \E s \in [1..n -> InList] : Linked(s, n)
  BY DEF IsList
<1>2. PICK s \in [1..n -> InList] : Linked(s, n)
  BY <1>1
<1>3. InList' = InList /\ temp \notin InList /\ temp # Nil
  BY MonitorsType DEF InList
<1>t. InList \subseteq Conns /\ Nil \notin InList /\ temp \in Conns
  BY MonitorsType DEF InList
<1>4. /\ prev[temp] = Nil /\ next[temp] = head
      /\ head = IF n = 0 THEN Nil  ELSE s[1]
      /\ tail = IF n = 0 THEN temp ELSE s[n]
  BY <1>2, <1>3 DEF Linked
<1>5. head # temp /\ (n # 0 => tail # temp)
  BY <1>4, <1>3
<1>6. head' = head /\ tail' = IF n = 0 THEN Nil ELSE s[n]
  BY <1>4, <1>5 DEF monitoring_destroy
<1>7. \A c \in InList : next'[c] = next[c] /\ prev'[c] = prev[c] /\ due'[c] = due[c]
  <2> SUFFICES ASSUME NEW c \in InList
               PROVE  next'[c] = next[c] /\ prev'[c] = prev[c] /\ due'[c] = due[c]
    OBVIOUS
  <2>1. c # temp /\ c # Nil /\ c \in Conns
    BY <1>3, <1>t
  <2>2. c = head => prev[c] = Nil
    BY <1>2, <1>4, <2>1 DEF Linked
  <2> QED BY <2>1, <2>2, <1>4 DEF monitoring_destroy, ListType
<1>8. s \in [1..n -> InList']
  BY <1>3
<1>9. Linked(s, n)'
  <2>1. \A i \in 1..n : next'[s[i]] = next[s[i]] /\ prev'[s[i]] = prev[s[i]]
    BY <1>7
  <2> QED BY <1>2, <1>3, <1>4, <1>6, <2>1, temp' = Nil DEF Linked
<1>10. Sorted'
  BY <1>3, <1>7, NextInList DEF Sorted
<1> QED BY <1>8, <1>9, <1>10 DEF IsList

\* A step that changes nothing the list is made of.
LEMMA ListFrame ==
    ASSUME IsList, UNCHANGED <<head, tail, next, prev, temp>>, Monitors' = Monitors
    PROVE  IsList'
<1>1. InList' = InList
  BY DEF InList
<1>2. ASSUME NEW n, NEW s PROVE Linked(s, n)' <=> Linked(s, n)
  BY <1>1 DEF Linked
<1> QED BY <1>1, <1>2 DEF IsList

LEMMA SortedFrame ==
    ASSUME Sorted, UNCHANGED <<next, due, temp>>, Monitors' = Monitors
    PROVE  Sorted'
BY DEF Sorted, InList

-----------------------------------------------------------------------------
(* Every step keeps the invariant.                                          *)

LEMMA TypeList == ASSUME TypeOK PROVE ListType
BY MonitoringAssumption DEF TypeOK, ListType

LEMMA InitInv == Init => Inv
<1> SUFFICES ASSUME Init PROVE Inv
  OBVIOUS
<1> USE DEF Connection, Socket
<1>1. Monitors = {} /\ InList = {}
  BY DEF Init, Monitors, Monitored, NoConnection, InList
<1>2. TypeOK
  <2>1. NoConnection \in Connection
    BY MonitoringAssumption DEF NoConnection, Output
  <2>2. NoSocket \in Socket
    BY DEF NoSocket
  <2>3. 0 \in 0..Interval /\ 0 \in 0..Slack
    BY MonitoringAssumption
  <2> QED BY <2>1, <2>2, <2>3 DEF Init, TypeOK
<1>3. Control /\ Batch /\ Sorted /\ Timely
  BY <1>1 DEF Init, Control, Batch, Sorted, Timely, NoConnection
<1>4. PICK s : s = [i \in 1..0 |-> Nil]
  OBVIOUS
<1>5. s \in [1..0 -> InList] /\ Linked(s, 0)
  BY <1>1, <1>4 DEF Linked, Init
<1> QED BY <1>2, <1>3, <1>5 DEF Inv, IsList

\* A connection is closed while the loop has none in its hand.
LEMMA CloseInv ==
    ASSUME Inv, NEW m \in Conns, lpc = "events", Close(m),
           inq' \subseteq inq, outq' \subseteq outq,
           UNCHANGED <<evfd, lpc, check, late, fault>>
    PROVE  Inv'
<1> USE DEF Inv, Connection, Socket
<1>0. temp = Nil /\ temp' = Nil /\ ripe = {} /\ ripe' = {} /\ lag' = 0 /\ lag = 0 /\ late' = late
  BY DEF Control, check
<1>1. Monitors' = Monitors \ {m}
  BY DEF Close, Monitors, Monitored, TypeOK, NoConnection
<1>2. \A c \in Monitors' : conn'[c] = conn[c] /\ sock'[c] = sock[c] /\ due'[c] = due[c]
  BY <1>1 DEF Close, monitoring_destroy, list, Monitors, TypeOK
<1>3. TypeOK'
  <2>1. conn' \in [Conns -> Connection]
    BY MonitoringAssumption DEF Close, NoConnection, TypeOK, Output
  <2>2. sock' \in [Conns -> Socket]
    BY DEF Close, NoSocket, TypeOK
  <2>3. /\ {head', tail'} \subseteq Conns \cup {Nil}
        /\ next' \in [Conns -> Conns \cup {Nil}] /\ prev' \in [Conns -> Conns \cup {Nil}]
        /\ due' \in [Conns -> 0..Interval]
    <3>1. CASE Monitored(m)
      <4>1. /\ head \in Conns \cup {Nil} /\ tail \in Conns \cup {Nil}
            /\ next \in [Conns -> Conns \cup {Nil}] /\ prev \in [Conns -> Conns \cup {Nil}]
            /\ due \in [Conns -> 0..Interval] /\ 0 \in 0..Interval
        BY MonitoringAssumption DEF TypeOK
      <4>2. monitoring_destroy(m)
        BY DEF Close
      <4>3. head' \in Conns \cup {Nil} /\ tail' \in Conns \cup {Nil} /\ due' = [due EXCEPT ![m] = 0]
        BY <3>1, <4>1, <4>2 DEF monitoring_destroy
      <4>4. next' \in [Conns -> Conns \cup {Nil}] /\ prev' \in [Conns -> Conns \cup {Nil}]
        BY <3>1, <4>1, <4>2 DEF monitoring_destroy
      <4> QED BY <4>1, <4>3, <4>4
    <3>2. CASE ~Monitored(m)
      BY <3>2 DEF Close, monitoring_destroy, TypeOK, list
    <3> QED BY <3>1, <3>2
  <2> QED BY <2>1, <2>2, <2>3, <1>0 DEF TypeOK, check
<1>4. Control'
  BY <1>0, <1>1, <1>2 DEF Control, TypeOK
<1>5. IsList' /\ Sorted'
  <2>1. CASE Monitored(m)
    BY <2>1, <1>0, <1>1, TypeList, DestroyKeeps DEF Close, Monitors
  <2>2. CASE ~Monitored(m)
    BY <2>2, <1>0, <1>1, ListFrame, SortedFrame DEF Close, Monitors, monitoring_destroy, list
  <2> QED BY <2>1, <2>2
<1>6. Timely'
  BY <1>0, <1>1, <1>2 DEF Timely
<1>b. Batch'
  BY DEF Batch, Close, NoConnection, TypeOK
<1> QED BY <1>b, <1>3, <1>4, <1>5, <1>6

\* The clock.
LEMMA TickInv == Inv /\ Tick => Inv'
<1> SUFFICES ASSUME Inv, Tick PROVE Inv'
  OBVIOUS
<1> USE DEF Inv, Connection, Socket
<1>1. /\ Monitors' = Monitors
      /\ UNCHANGED <<conn, head, tail, next, prev, lpc, temp, ripe, events, sock, fault>>
  BY DEF Tick, Monitors, Monitored
<1>2. /\ due' = [m \in Conns |-> IF due[m] = 0 THEN 0 ELSE due[m] - 1]
      /\ late' = (IF CaughtUp THEN 0 ELSE late + 1) /\ (CaughtUp \/ late < Slack)
      /\ lag' = (IF lpc \in {"check", "unhooked"} THEN lag + 1 ELSE lag)
      /\ evfd' \in BOOLEAN
  BY DEF Tick, TypeOK, monitoing_needs_to_run
<1>3. CaughtUp => lag = 0 /\ lpc = "wait"
  BY DEF CaughtUp, Control
<1>4. lag' <= late' /\ lag' \in 0..Slack /\ late' \in 0..Slack
  BY <1>2, <1>3, MonitoringAssumption DEF Control, TypeOK
<1>5. TypeOK'
  <2>1. due' \in [Conns -> 0..Interval]
    <3>1. ASSUME NEW m \in Conns PROVE (IF due[m] = 0 THEN 0 ELSE due[m] - 1) \in 0..Interval
      <4>1. due[m] \in 0..Interval
        BY DEF TypeOK
      <4> QED BY <4>1, MonitoringAssumption
    <3> QED BY <3>1, <1>2
  <2> QED BY <2>1, <1>1, <1>2, <1>4 DEF TypeOK, events
<1>6. Control'
  BY <1>1, <1>2, <1>4 DEF Control
<1>7. IsList'
  BY <1>1, ListFrame
<1>8. Sorted'
  <2> SUFFICES ASSUME NEW c \in InList', next'[c] # Nil PROVE due'[c] <= due'[next'[c]]
    BY DEF Sorted
  <2>1. c \in InList /\ next'[c] = next[c] /\ next[c] \in InList
    BY <1>1, NextInList DEF InList
  <2>2. c \in Conns /\ next[c] \in Conns /\ due[c] <= due[next[c]]
    BY <1>1, <2>1, MonitorsType DEF InList, Sorted
  <2> QED BY <2>1, <2>2, <1>2, MonitoringAssumption DEF TypeOK
<1>9. Timely'
  <2> SUFFICES ASSUME NEW m \in Monitors
               PROVE  /\ due'[m] + lag' <= Interval
                      /\ sock[m].reads /\ conn[m].out # Nil => due'[m] + late' >= Interval /\ ~conn[m].epollin
                      /\ (m \in ripe \/ m = temp) /\ sock[m].reads => conn[m].out = Nil
    BY <1>1 DEF Timely
  <2>0. m \in Conns /\ due[m] \in 0..Interval /\ lag \in 0..Slack /\ late \in 0..Slack
    BY MonitorsType DEF TypeOK
  <2>1. due'[m] + lag' <= Interval
    BY <2>0, <1>2, <1>4, MonitoringAssumption DEF Timely
  <2>2. ASSUME sock[m].reads, conn[m].out # Nil
        PROVE  due'[m] + late' >= Interval /\ ~conn[m].epollin
    <3>1. due[m] + late >= Interval /\ ~conn[m].epollin
      BY <2>2 DEF Timely
    <3>2. ~CaughtUp
      <4> SUFFICES ASSUME CaughtUp PROVE FALSE
        OBVIOUS
      <4>1. Exists(m)
        BY DEF Control, Exists
      <4>2. m \notin Writable /\ sock[m].room
        BY <2>2 DEF CaughtUp
      <4> QED BY <4>1, <4>2, <3>1, <2>0 DEF Writable
    <3>3. due[m] > 0
      BY <3>1, <2>0, MonitoringAssumption
    <3> QED BY <3>1, <3>2, <3>3, <2>0, <1>2
  <2> QED BY <2>1, <2>2 DEF Timely
<1>b. Batch'
  BY <1>1 DEF Batch, events
<1> QED BY <1>b, <1>5, <1>6, <1>7, <1>8, <1>9

\* Steps of the loop that do not touch the list.
LEMMA LoopInv ==
    ASSUME Inv, (\E r \in SUBSET (Readers \ Gone) : Wait(r)) \/ CheckEnd \/ EventsEnd
                    \/ \E m \in Conns : Stale(m)
    PROVE  Inv'
<1> USE DEF Inv, Connection, Socket
<1>1. /\ UNCHANGED <<conn, list, sock, late, temp>> /\ Monitors' = Monitors
      /\ fault' \in BOOLEAN /\ evfd' \in BOOLEAN /\ inq' \subseteq Conns /\ outq' \subseteq Conns
  <2>1. CASE \E r \in SUBSET (Readers \ Gone) : Wait(r)
    BY <2>1 DEF Wait, Monitors, Monitored, TypeOK, Readers, Writable, Gone
  <2>2. CASE CheckEnd \/ EventsEnd \/ \E m \in Conns : Stale(m)
    BY <2>2 DEF CheckEnd, EventsEnd, Stale, Monitors, Monitored, TypeOK, check, events
  <2> QED BY <2>1, <2>2
<1>2. \/ lpc' = lpc /\ ripe' = ripe /\ lag' = lag
      \/ /\ lpc' \in {"wait", "events"} /\ ripe' = {} /\ lag' = 0 /\ temp = Nil
      \/ /\ lpc' = "check" /\ ripe' = {m \in Monitors : due[m] = 0} /\ lag' = 0 /\ temp = Nil
  <2>1. CASE \E r \in SUBSET (Readers \ Gone) : Wait(r)
    BY <2>1 DEF Wait, Control
  <2>2. CASE CheckEnd
    BY <2>2 DEF CheckEnd, Control
  <2>3. CASE EventsEnd
    BY <2>3 DEF EventsEnd, Control, check
  <2>4. CASE \E m \in Conns : Stale(m)
    BY <2>4 DEF Stale, check
  <2> QED BY <2>1, <2>2, <2>3, <2>4
<1>3. TypeOK'
  <2>1. 0 \in 0..Slack
    BY MonitoringAssumption
  <2>2. lpc' \in {"wait", "check", "unhooked", "events"} /\ ripe' \subseteq Conns /\ lag' \in 0..Slack
    BY <1>2, <2>1, MonitorsType DEF TypeOK
  <2> QED BY <1>1, <2>2 DEF TypeOK, list
<1>4. Control'
  <2>1. late \in 0..Slack /\ lag <= late
    BY DEF TypeOK, Control
  <2> QED BY <1>1, <1>2, <2>1, MonitoringAssumption DEF Control
<1>5. IsList' /\ Sorted'
  BY <1>1, ListFrame, SortedFrame DEF list
<1>6. Timely'
  <2> SUFFICES ASSUME NEW m \in Monitors
               PROVE  /\ due[m] + lag' <= Interval
                      /\ sock[m].reads /\ conn[m].out # Nil => due[m] + late >= Interval /\ ~conn[m].epollin
                      /\ (m \in ripe' \/ m = temp) /\ sock[m].reads => conn[m].out = Nil
    BY <1>1 DEF Timely, list
  <2>1. due[m] \in 0..Interval /\ late \in 0..Slack
    BY MonitorsType DEF TypeOK
  <2>2. due[m] + lag' <= Interval
    BY <1>2, <2>1, MonitoringAssumption DEF Timely
  <2>3. (m \in ripe' \/ m = temp) /\ sock[m].reads => conn[m].out = Nil
    <3>1. due[m] = 0 /\ sock[m].reads => conn[m].out = Nil
      BY <2>1, MonitoringAssumption DEF Timely
    <3> QED BY <1>2, <3>1, MonitorsType DEF Timely
  <2> QED BY <2>2, <2>3 DEF Timely
<1>b. Batch'
  <2>1. ASSUME NEW r \in SUBSET (Readers \ Gone), Wait(r)
        PROVE  Batch'
    <3>1. inq' \subseteq Readers /\ outq' = Writable /\ lpc' # "wait"
      BY <2>1 DEF Wait
    <3> QED BY <1>1, <3>1 DEF Batch, Readers, Writable
  <2>2. CASE CheckEnd \/ EventsEnd \/ \E m \in Conns : Stale(m)
    BY <2>2, <1>1 DEF CheckEnd, EventsEnd, Stale, Batch, events
  <2> QED BY <2>1, <2>2
<1> QED BY <1>b, <1>3, <1>4, <1>5, <1>6

LEMMA UnhookInv == Inv /\ Unhook => Inv'
<1> SUFFICES ASSUME Inv, Unhook PROVE Inv'
  OBVIOUS
<1> USE DEF Inv, Connection, Socket
<1>1. /\ UNCHANGED <<conn, tail, next, due, evfd, lag, late, events, sock, fault>>
      /\ Monitors' = Monitors /\ temp = Nil /\ lpc = "check" /\ lpc' = "unhooked"
      /\ temp' = head /\ ripe' = ripe \ {head} /\ head \in ripe /\ head' = next[head]
      /\ prev' = [c \in Conns |-> IF c = next[head] THEN Nil ELSE prev[c]]
  BY DEF Unhook, Monitors, Monitored, Control
<1>2. head \in Monitors /\ head \in Conns /\ head # Nil
  BY <1>1, MonitorsType DEF Control
<1>3. TypeOK'
  <2>1. head' \in Conns \cup {Nil} /\ prev' \in [Conns -> Conns \cup {Nil}]
    BY <1>1, <1>2 DEF TypeOK
  <2> QED BY <2>1, <1>1, <1>2 DEF TypeOK, events
<1>4. Control'
  BY <1>1, <1>2 DEF Control
<1>5. IsList' /\ Sorted'
  BY <1>1, TypeList, UnhookKeeps
<1>6. Timely'
  BY <1>1, <1>2 DEF Timely
<1>b. Batch'
  BY <1>1 DEF Batch, events
<1> QED BY <1>b, <1>3, <1>4, <1>5, <1>6

LEMMA RequeueInv == Inv /\ Requeue => Inv'
<1> SUFFICES ASSUME Inv, Requeue PROVE Inv'
  OBVIOUS
<1> USE DEF Inv, Connection, Socket
<1>1. /\ temp \in Monitors /\ temp \in Conns /\ temp # Nil /\ temp' = Nil
      /\ lpc = "unhooked" /\ lpc' = "check"
      /\ UNCHANGED <<evfd, ripe, lag, late, events, sock, fault>>
      /\ conn' = [conn EXCEPT ![temp].out = "count", ![temp].epollin = FALSE]
      /\ ToTail(temp) /\ temp \notin ripe
  BY MonitorsType DEF Requeue, Control
<1>2. Monitors' = Monitors
  BY <1>1 DEF Monitors, Monitored, TypeOK
<1>3. lag \in 0..Slack /\ late \in 0..Slack /\ Interval - lag \in 0..Interval /\ lag <= late
  BY MonitoringAssumption DEF TypeOK, Control
<1>4. \A c \in Monitors : due[c] <= Interval - lag
  <2> SUFFICES ASSUME NEW c \in Monitors PROVE due[c] <= Interval - lag
    OBVIOUS
  <2>1. due[c] \in 0..Interval /\ due[c] + lag <= Interval
    BY MonitorsType DEF TypeOK, Timely
  <2> QED BY <2>1, <1>3, MonitoringAssumption
<1>5. due' = [due EXCEPT ![temp] = Interval - lag]
  BY <1>1 DEF ToTail
<1>6. TypeOK'
  <2>1. /\ head' \in Conns \cup {Nil} /\ tail' \in Conns \cup {Nil}
        /\ next' \in [Conns -> Conns \cup {Nil}] /\ prev' \in [Conns -> Conns \cup {Nil}]
    BY <1>1 DEF ToTail, TypeOK
  <2>2. due' \in [Conns -> 0..Interval]
    BY <1>3, <1>5 DEF TypeOK
  <2>3. conn' \in [Conns -> Connection]
    <3>1. conn' = [conn EXCEPT ![temp] = [conn[temp] EXCEPT !.out = "count", !.epollin = FALSE]]
      BY <1>1 DEF TypeOK
    <3>2. conn[temp] \in Connection
      BY <1>1 DEF TypeOK
    <3>3. [conn[temp] EXCEPT !.out = "count", !.epollin = FALSE] \in Connection
      BY <3>2 DEF Output
    <3> QED BY <3>1, <3>3 DEF TypeOK
  <2> QED BY <2>1, <2>2, <2>3, <1>1 DEF TypeOK, events
<1>7. Control'
  <2>1. \A m \in Monitors : conn'[m].handler = conn[m].handler
    BY <1>1, MonitorsType DEF TypeOK
  <2> QED BY <2>1, <1>1, <1>2 DEF Control
<1>8. IsList' /\ Sorted'
  <2>1. Interval - lag \in Nat
    BY <1>3
  <2> QED BY <1>1, <1>2, <1>4, <2>1, TypeList, ToTailKeeps
<1>9. Timely'
  <2> SUFFICES ASSUME NEW m \in Monitors
               PROVE  /\ due'[m] + lag <= Interval
                      /\ sock[m].reads /\ conn'[m].out # Nil => due'[m] + late >= Interval /\ ~conn'[m].epollin
                      /\ m \in ripe /\ sock[m].reads => conn'[m].out = Nil
    BY <1>1, <1>2, MonitorsType DEF Timely
  <2>1. CASE m = temp
    <3>1. due'[m] = Interval - lag /\ ~conn'[m].epollin
      BY <1>1, <1>5, <2>1 DEF TypeOK
    <3> QED BY <3>1, <2>1, <1>1, <1>3, MonitoringAssumption
  <2>2. CASE m # temp
    <3>1. due'[m] = due[m] /\ conn'[m] = conn[m]
      BY <1>1, <1>5, <2>2, MonitorsType DEF TypeOK
    <3> QED BY <3>1 DEF Timely
  <2> QED BY <2>1, <2>2
<1>b. Batch'
  <2>1. \A m \in Conns : conn'[m].handler = conn[m].handler /\ (m # temp => conn'[m] = conn[m])
    BY <1>1 DEF TypeOK
  <2>2. conn[temp].handler \notin {"none", "request"}
    BY <1>1 DEF Control
  <2> QED BY <2>1, <2>2, <1>1 DEF Batch, events
<1> QED BY <1>b, <1>6, <1>7, <1>8, <1>9

LEMMA DropInv == Inv /\ Drop => Inv'
<1> SUFFICES ASSUME Inv, Drop PROVE Inv'
  OBVIOUS
<1> USE DEF Inv, Connection, Socket
<1>1. /\ temp \in Monitors /\ temp \in Conns /\ temp # Nil /\ temp' = Nil
      /\ lpc = "unhooked" /\ lpc' = "check" /\ Monitored(temp)
      /\ UNCHANGED <<evfd, ripe, lag, late, events, fault>>
      /\ Close(temp) /\ temp \notin ripe
  BY MonitorsType DEF Drop, Control, Monitors
<1>2. Monitors' = Monitors \ {temp}
  BY <1>1 DEF Close, Monitors, Monitored, TypeOK, NoConnection
<1>3. \A c \in Monitors' : conn'[c] = conn[c] /\ sock'[c] = sock[c] /\ due'[c] = due[c]
  BY <1>1, <1>2 DEF Close, monitoring_destroy, list, Monitors, TypeOK
<1>4. TypeOK'
  <2>1. conn' \in [Conns -> Connection]
    BY <1>1, MonitoringAssumption DEF Close, NoConnection, TypeOK, Output
  <2>2. sock' \in [Conns -> Socket]
    BY <1>1 DEF Close, NoSocket, TypeOK
  <2>3. /\ head \in Conns \cup {Nil} /\ tail \in Conns \cup {Nil}
        /\ next \in [Conns -> Conns \cup {Nil}] /\ prev \in [Conns -> Conns \cup {Nil}]
        /\ due \in [Conns -> 0..Interval] /\ 0 \in 0..Interval
    BY MonitoringAssumption DEF TypeOK
  <2>4. monitoring_destroy(temp)
    BY <1>1 DEF Close
  <2>5. head' \in Conns \cup {Nil} /\ tail' \in Conns \cup {Nil} /\ due' = [due EXCEPT ![temp] = 0]
    BY <1>1, <2>3, <2>4 DEF monitoring_destroy
  <2>6. next' \in [Conns -> Conns \cup {Nil}] /\ prev' \in [Conns -> Conns \cup {Nil}]
    BY <1>1, <2>3, <2>4 DEF monitoring_destroy
  <2> QED BY <2>1, <2>2, <2>3, <2>5, <2>6, <1>1 DEF TypeOK, events
<1>5. Control'
  BY <1>1, <1>2, <1>3 DEF Control
<1>6. IsList' /\ Sorted'
  BY <1>1, <1>2, TypeList, DropKeeps DEF Close
<1>7. Timely'
  BY <1>1, <1>2, <1>3, MonitorsType DEF Timely
<1>b. Batch'
  BY <1>1 DEF Batch, Close, NoConnection, TypeOK, events
<1> QED BY <1>b, <1>4, <1>5, <1>6, <1>7

\* The connection m goes on to be c, and the list is not touched.
LEMMA ServeInv ==
    ASSUME Inv, NEW m \in Conns, lpc = "events", UNCHANGED <<list, lpc, check, evfd, late, fault>>,
           NEW c \in Connection,
           conn' = [conn EXCEPT ![m] = c], c.writing = conn[m].writing,
           sock' \in [Conns -> Socket],
           \A k \in Conns : sock'[k].reads = sock[k].reads,
           inq' \subseteq inq, outq' \subseteq outq,
           c.writing => /\ c.handler \in {"cleanupafterwrite", "discard_input"}
                        /\ c.out = Nil \/ (c.out = conn[m].out /\ c.epollin = conn[m].epollin),
           c.handler \in {"none", "request"} => c.epollin,
           c.handler = "request" => m \notin outq'
    PROVE  Inv'
<1> USE DEF Inv, Connection, Socket
<1>1. /\ UNCHANGED <<head, tail, next, prev, due, temp, ripe, lag>>
      /\ temp = Nil /\ ripe = {} /\ lag = 0
  BY DEF list, check, Control
<1>2. Monitors' = Monitors
  BY DEF Monitors, Monitored, TypeOK
<1>3. TypeOK'
  <2>1. conn' \in [Conns -> Connection]
    BY DEF TypeOK
  <2> QED BY <2>1, <1>1 DEF TypeOK
<1>4. \A k \in Monitors : conn'[k] = IF k = m THEN c ELSE conn[k]
  BY MonitorsType DEF TypeOK
<1>5. m \in Monitors => c.writing
  BY DEF Monitors, Monitored
<1>6. Control'
  BY <1>1, <1>2, <1>4, <1>5 DEF Control
<1>7. IsList' /\ Sorted'
  BY <1>1, <1>2, ListFrame, SortedFrame
<1>8. Timely'
  <2>1. ASSUME NEW k \in Monitors, sock'[k].reads, conn'[k].out # Nil
        PROVE  due[k] + late >= Interval /\ ~conn'[k].epollin
    <3>1. sock[k].reads /\ conn[k].out # Nil /\ conn'[k].epollin = conn[k].epollin
      BY <2>1, <1>4, <1>5, MonitorsType
    <3> QED BY <3>1 DEF Timely
  <2>2. \A k \in Monitors : due[k] + lag <= Interval
    BY DEF Timely
  <2> QED BY <2>1, <2>2, <1>1, <1>2, MonitorsType DEF Timely
<1>b. Batch'
  BY DEF Batch, TypeOK
<1> QED BY <1>b, <1>3, <1>6, <1>7, <1>8

LEMMA EventReadInv == ASSUME Inv, NEW m \in Conns, EventRead(m) PROVE Inv'
<1> USE DEF Inv, Connection, Socket
<1>1. /\ lpc = "events" /\ inq' \subseteq inq /\ outq' \subseteq outq /\ Exists(m)
      /\ UNCHANGED <<lpc, check, evfd, late, fault>>
  BY DEF EventRead, TypeOK
<1>c. conn[m] \in Connection
  BY DEF TypeOK
<1>w. conn[m].writing => conn[m].handler \in {"cleanupafterwrite", "discard_input"}
  BY DEF Control, Monitors, Monitored
<1>q. /\ conn[m].handler \in {"none", "request"} => conn[m].epollin
      /\ conn[m].handler = "request" => m \notin outq'
  BY DEF Batch, EventRead
<1>2. CASE Close(m)
  BY <1>1, <1>2, CloseInv
<1>3. CASE /\ UNCHANGED sock /\ UNCHANGED list
           /\ \/ UNCHANGED conn
              \/ /\ conn[m].handler = "request"
                 /\ \E r \in {[handler |-> "start_to_count", out |-> "stream"],
                              [handler |-> "writeonly", out |-> "reply"]} :
                       conn' = [conn EXCEPT ![m].handler = r.handler, ![m].out = r.out,
                                            ![m].epollin = FALSE]
              \/ /\ conn[m].handler = "discard_input" /\ ~Full(conn[m])
                 /\ conn' = [conn EXCEPT ![m].input = @ + 1]
  <2>s. /\ sock' \in [Conns -> Socket]
        /\ \A k \in Conns : sock'[k].reads = sock[k].reads
    BY <1>3 DEF TypeOK
  <2>1. CASE UNCHANGED conn
    <3>1. conn' = [conn EXCEPT ![m] = conn[m]]
      BY <2>1 DEF TypeOK
    <3> QED BY <3>1, <2>s, <1>1, <1>3, <1>c, <1>w, <1>q, ServeInv
  <2>2. ASSUME conn[m].handler = "request",
               NEW r \in {[handler |-> "start_to_count", out |-> "stream"],
                          [handler |-> "writeonly", out |-> "reply"]},
               conn' = [conn EXCEPT ![m].handler = r.handler, ![m].out = r.out,
                                    ![m].epollin = FALSE]
        PROVE  Inv'
    <3>1. PICK c : c = [conn[m] EXCEPT !.handler = r.handler, !.out = r.out, !.epollin = FALSE]
      OBVIOUS
    <3>2. conn' = [conn EXCEPT ![m] = c] /\ c.writing = conn[m].writing
      BY <2>2, <3>1, <1>c DEF TypeOK
    <3>3. c \in Connection
      <4>1. CASE r = [handler |-> "start_to_count", out |-> "stream"]
        BY <4>1, <3>1, <1>c DEF Output
      <4>2. CASE r = [handler |-> "writeonly", out |-> "reply"]
        BY <4>2, <3>1, <1>c DEF Output
      <4> QED BY <4>1, <4>2
    <3>4. ~conn[m].writing /\ c.handler \notin {"none", "request"}
      BY <2>2, <3>1, <1>w, <1>c
    <3> QED BY <3>2, <3>3, <3>4, <2>s, <1>1, <1>3, ServeInv
  <2>3. ASSUME conn[m].handler = "discard_input", ~Full(conn[m]),
               conn' = [conn EXCEPT ![m].input = @ + 1]
        PROVE  Inv'
    <3>1. PICK c : c = [conn[m] EXCEPT !.input = conn[m].input + 1]
      OBVIOUS
    <3>2. /\ conn' = [conn EXCEPT ![m] = c] /\ c.writing = conn[m].writing
          /\ c.handler = conn[m].handler /\ c.out = conn[m].out /\ c.epollin = conn[m].epollin
      BY <2>3, <3>1, <1>c DEF TypeOK
    <3>3. conn[m].input + 1 \in 0..InputSize
      BY <2>3, <1>c, MonitoringAssumption DEF Full
    <3>4. c \in Connection
      BY <3>1, <3>3, <1>c
    <3>5. c.handler \notin {"none", "request"} /\ conn[m].handler = c.handler
      BY <2>3, <3>2
    <3> QED BY <3>2, <3>4, <3>5, <2>s, <1>1, <1>3, <1>w, ServeInv
  <2> QED BY <1>3, <2>1, <2>2, <2>3
<1> QED BY <1>2, <1>3 DEF EventRead

LEMMA EventWriteInv == ASSUME Inv, NEW m \in Conns, EventWrite(m) PROVE Inv'
<1> USE DEF Inv, Connection, Socket
<1>1. /\ lpc = "events" /\ inq' \subseteq inq /\ outq' \subseteq outq /\ Exists(m)
      /\ UNCHANGED <<lpc, check, evfd, late, fault>>
  BY DEF EventWrite, TypeOK
<1>c. conn[m] \in Connection
  BY DEF TypeOK
<1>w. conn[m].writing => conn[m].handler \in {"cleanupafterwrite", "discard_input"}
  BY DEF Control, Monitors, Monitored
<1>2. CASE sock[m].gone
  BY <1>1, <1>2, CloseInv DEF EventWrite
<1>3. CASE ~sock[m].gone
  <2>s. /\ sock' \in [Conns -> Socket]
        /\ \A k \in Conns : sock'[k].reads = sock[k].reads
    <3>1. sock' = sock \/ sock' = [sock EXCEPT ![m] = [sock[m] EXCEPT !.room = FALSE]]
      BY <1>3 DEF EventWrite
    <3>2. PICK k : k = [sock[m] EXCEPT !.room = FALSE]
      OBVIOUS
    <3>3. k \in Socket /\ k.reads = sock[m].reads /\ sock \in [Conns -> Socket]
      BY <3>2 DEF TypeOK
    <3>4. sock' = sock \/ sock' = [sock EXCEPT ![m] = k]
      BY <3>1, <3>2
    <3> HIDE DEF Socket
    <3> QED BY <3>3, <3>4
  <2>1. PICK c : c = Written([conn[m] EXCEPT !.out = Nil])
    OBVIOUS
  <2>2. conn' = [conn EXCEPT ![m] = c] /\ m \notin outq'
    BY <1>3, <2>1 DEF EventWrite
  <2>3. conn[m].handler \in {"writeonly", "start_to_count", "cleanupafterwrite", "discard_input"}
    BY <1>1, <1>c DEF Exists, Batch, EventWrite
  <2>4. c \in Connection
    BY <1>c, <2>1, <2>3 DEF Written, Output
  <2>5. c.out = Nil /\ (c.handler \in {"none", "request"} => c.epollin)
    BY <1>c, <2>1, <2>3 DEF Written
  <2>6. CASE conn[m].handler # "start_to_count"
    <3>1. c.writing = conn[m].writing
      BY <1>c, <2>1, <2>3, <2>6 DEF Written
    <3>2. c.writing => c.handler \in {"cleanupafterwrite", "discard_input"}
      BY <3>1, <1>w, <1>c, <2>1, <2>3, <2>6 DEF Written
    <3>3. UNCHANGED list
      BY <1>3, <2>6 DEF EventWrite
    <3> QED BY <3>1, <3>2, <3>3, <2>2, <2>4, <2>5, <2>s, <1>1, ServeInv
  <2>7. CASE conn[m].handler = "start_to_count"
    <3>1. monitoring_add(m) /\ c.writing /\ c.handler = "cleanupafterwrite" /\ ~conn[m].writing
      BY <1>3, <1>c, <1>w, <2>1, <2>7 DEF EventWrite, Written
    <3>2. m \notin Monitors /\ Monitors' = Monitors \cup {m}
      BY <3>1, <2>2 DEF Monitors, Monitored, TypeOK
    <3>3. temp = Nil /\ ripe = {} /\ lag = 0 /\ UNCHANGED <<temp, ripe, lag>>
      BY <1>1 DEF Control, check
    <3>4. \A k \in Monitors : conn'[k] = conn[k] /\ due'[k] = due[k]
      BY <2>2, <3>1, <3>2, MonitorsType DEF monitoring_add, TypeOK
    <3>5. conn'[m] = c /\ due'[m] = 0
      BY <2>2, <3>1 DEF monitoring_add, TypeOK
    <3>6. TypeOK'
      <4>1. conn' \in [Conns -> Connection]
        BY <2>2, <2>4 DEF TypeOK
      <4>2. /\ head' \in Conns \cup {Nil} /\ tail' \in Conns \cup {Nil}
            /\ next' \in [Conns -> Conns \cup {Nil}] /\ prev' \in [Conns -> Conns \cup {Nil}]
        BY <3>1 DEF monitoring_add, TypeOK
      <4>3. due' \in [Conns -> 0..Interval]
        BY <3>1, MonitoringAssumption, 0 \in 0..Interval DEF monitoring_add, TypeOK
      <4> QED BY <4>1, <4>2, <4>3, <2>s, <3>3, <1>1 DEF TypeOK
    <3>7. Control'
      BY <3>1, <3>2, <3>3, <3>4, <3>5, <1>1 DEF Control
    <3>8. Batch'
      BY <2>2, <3>1, <1>1 DEF Batch, TypeOK
    <3>9. IsList' /\ Sorted'
      BY <3>1, <3>2, <3>3, TypeList, AddKeeps
    <3>10. Timely'
      <4>1. \A k \in Monitors' : due'[k] + lag' <= Interval
        BY <3>2, <3>3, <3>4, <3>5, MonitoringAssumption DEF Timely
      <4>2. \A k \in Monitors' : sock'[k].reads /\ conn'[k].out # Nil =>
                due'[k] + late' >= Interval /\ ~conn'[k].epollin
        BY <3>2, <3>4, <3>5, <2>5, <2>s, <1>1, MonitorsType DEF Timely
      <4>3. \A k \in Monitors' : ~(k \in ripe' \/ k = temp')
        BY <3>2, <3>3, MonitorsType, MonitoringAssumption
      <4> QED BY <4>1, <4>2, <4>3 DEF Timely
    <3> QED BY <3>6, <3>7, <3>8, <3>9, <3>10
  <2> QED BY <2>6, <2>7
<1> QED BY <1>2, <1>3

\* The clients.
LEMMA ClientInv ==
    ASSUME Inv, NEW m \in Conns, Connect(m) \/ Drain(m) \/ Hangup(m)
    PROVE  Inv'
<1> USE DEF Inv, Connection, Socket
<1>1. UNCHANGED <<list, evfd, lpc, check, late, events, fault>>
  BY DEF Connect, Drain, Hangup
<1>2. /\ \A k \in Conns : k # m => sock'[k] = sock[k] /\ conn'[k] = conn[k]
      /\ sock' \in [Conns -> Socket]
  <2>1. CASE Connect(m)
    BY <2>1 DEF Connect, TypeOK
  <2>2. CASE Drain(m) \/ Hangup(m)
    <3>1. \/ sock' = [sock EXCEPT ![m] = [sock[m] EXCEPT !.room = TRUE]]
          \/ sock' = [sock EXCEPT ![m] = [sock[m] EXCEPT !.gone = TRUE]]
      BY <2>2 DEF Drain, Hangup
    <3>s. [sock[m] EXCEPT !.room = TRUE] \in Socket /\ [sock[m] EXCEPT !.gone = TRUE] \in Socket
      BY DEF TypeOK
    <3>2. PICK k \in Socket : sock' = [sock EXCEPT ![m] = k]
      <4> HIDE DEF Socket
      <4> QED BY <3>1, <3>s
    <3>3. sock \in [Conns -> Socket] /\ conn' = conn
      BY <2>2 DEF TypeOK, Drain, Hangup
    <3> HIDE DEF Socket
    <3> QED BY <3>2, <3>3
  <2> QED BY <2>1, <2>2
<1>c. conn[m] \in Connection
  BY DEF TypeOK
<1>3. CASE Drain(m) \/ Hangup(m)
  <2>1. conn' = conn /\ sock'[m].reads = sock[m].reads
    BY <1>3 DEF Drain, Hangup, TypeOK
  <2>2. Monitors' = Monitors
    BY <2>1 DEF Monitors, Monitored
  <2>3. TypeOK' /\ Control' /\ Batch'
    BY <1>1, <1>2, <2>1, <2>2 DEF TypeOK, Control, Batch, list, check, events
  <2>4. IsList' /\ Sorted'
    BY <1>1, <2>2, ListFrame, SortedFrame DEF list, check
  <2>5. Timely'
    BY <1>1, <1>2, <2>1, <2>2, MonitorsType DEF Timely, list, check
  <2> QED BY <2>3, <2>4, <2>5
<1>4. CASE Connect(m)
  <2>1. /\ conn[m].handler = "none" /\ lpc = "wait"
        /\ conn' = [conn EXCEPT ![m] = [conn[m] EXCEPT !.handler = "request"]]
    BY <1>4 DEF Connect, Exists
  <2>2. ~conn[m].writing /\ conn[m].epollin /\ m \notin outq
    BY <2>1 DEF Control, Batch, Monitors, Monitored
  <2>3. m \notin Monitors /\ Monitors' = Monitors
    BY <2>1, <2>2, <1>c DEF Monitors, Monitored, TypeOK
  <2>4. \A k \in Monitors : conn'[k] = conn[k] /\ sock'[k] = sock[k]
    BY <1>2, <2>3, MonitorsType
  <2>5. TypeOK'
    <3>1. conn' \in [Conns -> Connection]
      BY <2>1, <1>c DEF TypeOK
    <3> QED BY <3>1, <1>1, <1>2 DEF TypeOK, list, check, events
  <2>6. Control'
    BY <1>1, <2>3, <2>4 DEF Control, check
  <2>7. Batch'
    BY <1>1, <1>2, <1>c, <2>1, <2>2 DEF Batch, events, TypeOK
  <2>8. IsList' /\ Sorted'
    BY <1>1, <2>3, ListFrame, SortedFrame DEF list, check
  <2>9. Timely'
    BY <1>1, <2>3, <2>4 DEF Timely, list, check
  <2> QED BY <2>5, <2>6, <2>7, <2>8, <2>9
<1> QED BY <1>3, <1>4

LEMMA StepInv == Inv /\ [Next]_vars => Inv'
<1> SUFFICES ASSUME Inv, [Next]_vars PROVE Inv'
  OBVIOUS
<1>1. CASE UNCHANGED vars
  <2>1. Monitors' = Monitors
    BY <1>1 DEF vars, Monitors, Monitored
  <2>2. TypeOK' /\ Control' /\ Batch' /\ Timely'
    BY <1>1, <2>1 DEF Inv, vars, list, check, events, TypeOK, Control, Batch, Timely
  <2>3. IsList' /\ Sorted'
    BY <1>1, <2>1, ListFrame, SortedFrame DEF Inv, vars, list, check
  <2> QED BY <2>2, <2>3 DEF Inv
<1>2. CASE Running
  BY <1>2, LoopInv, UnhookInv, DropInv, RequeueInv, EventReadInv, EventWriteInv DEF Running
<1>3. CASE \E s \in SUBSET (Readers \ Gone) : Wait(s)
  BY <1>3, LoopInv
<1>4. CASE Tick
  BY <1>4, TickInv
<1>5. CASE \E m \in Conns : Connect(m) \/ Drain(m) \/ Hangup(m)
  BY <1>5, ClientInv
<1> QED BY <1>1, <1>2, <1>3, <1>4, <1>5 DEF Next, Lost

LEMMA InvHolds == Spec => []Inv
BY InitInv, StepInv, PTL DEF Spec

-----------------------------------------------------------------------------
(* The theorems.                                                            *)

\* The length of the list is the number of its members.
LEMMA ListCounted == Inv => ListExact
<1> SUFFICES ASSUME Inv PROVE ListExact
  OBVIOUS
<1>1. PICK n \in Nat : \E s \in [1..n -> InList] : Linked(s, n)
  BY DEF IsList, Inv
<1>2. PICK s \in [1..n -> InList] : Linked(s, n)
  BY <1>1
<1>3. s \in Bijection(1..n, InList)
  BY <1>2 DEF Linked, Bijection, Injection, Surjection, IsInjective
<1>4. IsFiniteSet(1..n) /\ Cardinality(1..n) = n
  BY FS_Interval
<1>5. Cardinality(InList) = n
  BY <1>3, <1>4, FS_Bijection DEF ExistsBijection
<1> QED BY <1>2, <1>5 DEF ListExact

\* The variables keep their types, for any set of connections: no read makes
\* the input buffer overflow, and the clock and the links stay in range.
THEOREM TypeCorrect == Spec => []TypeOK
BY InvHolds, PTL DEF Inv

\* For any number of connections, the links and the two ends of the list
\* describe one list of exactly the connections that are counted to, at every
\* point at which the signal handler may look at it.
THEOREM ListCorrect == Spec => []ListExact
BY InvHolds, ListCounted, PTL

\* For any interval, the list is in the order of the next counts although a
\* connection is only ever put at one of its ends.
THEOREM SortedCorrect == Spec => []Sorted
BY InvHolds, PTL DEF Inv

\* A client that reads is never dropped by monitoring_check, as long as the
\* loop and the client are late by at most Slack ticks.
THEOREM DroppedCorrect == Spec => []OnlyStuckDropped
<1>1. Inv => OnlyStuckDropped
  <2> SUFFICES ASSUME Inv, lpc = "unhooked", conn[temp].out # Nil PROVE ~sock[temp].reads
    BY DEF OnlyStuckDropped
  <2>1. temp \in Monitors
    BY DEF Inv, Control
  <2> QED BY <2>1 DEF Inv, Timely
<1> QED BY <1>1, InvHolds, PTL
=============================================================================
