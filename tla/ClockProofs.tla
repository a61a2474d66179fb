---------------------------- MODULE ClockProofs ----------------------------
(***************************************************************************)
(* The alarms of module SysClock go off when they should, and its time of  *)
(* day goes forward, for every width of the counter and any number of      *)
(* alarms.                                                                 *)
(*                                                                         *)
(* Two things have to be known.  The list is one chain that begins and     *)
(* ends at the head: a rank of its entries says so, which an insertion     *)
(* extends downwards and a removal leaves alone.  And whatever is left to  *)
(* do at a tick is ahead of where alt_tick stands.                         *)
(*                                                                         *)
(* The time of day needs arithmetic: a tick adds its microseconds or       *)
(* completes a second, and settimeofday leaves a difference of less than a *)
(* second, so the clamps of gettimeofday keep the order.                   *)
(***************************************************************************)
EXTENDS SysClock, TLAPS

USE NodeAssumption, WordAssumption, OffAssumption

-----------------------------------------------------------------------------
(* The links.                                                              *)

Shape == /\ next \in [Node -> Node \cup {Null}] /\ previous \in [Node -> Node \cup {Null}]
         /\ Started(Head) /\ WellLinked
         /\ \A n \in Node : Started(n) => Started(next[n])

\* What is in the list, with its head.
InList(n) == n = Head \/ (n \in Alarm /\ Listed(n))

\* The entries follow each other in the order of their ranks, and none is left out.
Ordered(r) ==
  /\ \A m, n \in Node : InList(m) /\ InList(n) /\ r[m] = r[n] => m = n
  /\ \A a \in Alarm : Listed(a) => r[Head] < r[a]
  /\ \A n \in Node : InList(n) /\ next[n] # Head => r[n] < r[next[n]]
  /\ \A n \in Node, a \in Alarm :
       InList(n) /\ Listed(a) /\ r[n] < r[a] => next[n] # Head /\ r[next[n]] <= r[a]

\* Nothing points to an alarm that is not in the list but itself.
LEMMA NoStranger ==
  ASSUME Shape, NEW e \in Alarm, ~Listed(e), NEW n \in Node, Started(n), n # e
  PROVE  next[n] # e /\ previous[n] # e
<1>1. CASE next[e] = Null
  BY <1>1 DEF Shape, WellLinked, Started, Node
<1>2. CASE next[e] = e
  BY <1>2 DEF Shape, WellLinked, Started, Node
<1> QED  BY <1>1, <1>2 DEF Listed

\* The next of an entry is an entry or the head.
LEMMA NextInList ==
  ASSUME Shape, NEW n \in Node, InList(n)
  PROVE  next[n] \in Node /\ InList(next[n])
<1>1. Started(n) /\ next[n] \in Node
  BY DEF Shape, WellLinked, InList, Listed, Started
<1>2. CASE next[n] = Head
  BY <1>1, <1>2 DEF InList
<1>3. CASE next[n] # Head
  <2>1. next[n] # n
    BY <1>3 DEF InList, Listed
  <2>2. next[n] \in Alarm /\ Listed(next[n])
    BY <1>1, <1>3, <2>1, NoStranger DEF Node
  <2> QED  BY <1>1, <2>2 DEF InList
<1> QED  BY <1>2, <1>3

\* alt_llist_insert keeps the links in order.
LEMMA InsertShape ==
  ASSUME Shape, NEW e \in Alarm, ~Listed(e), Insert(e)
  PROVE  /\ Shape'
         /\ next'[e] = next[Head] /\ next'[Head] = e
         /\ \A n \in Node \ {e, Head} : next'[n] = next[n]
<1> DEFINE f == next[Head]
<1>1. f \in Node /\ f # e /\ Started(f) /\ previous[f] = Head /\ e # Head /\ e \in Node /\ Head \in Node
  BY NoStranger DEF Shape, WellLinked, Node
<1>2. /\ next' \in [Node -> Node \cup {Null}]
      /\ next'[e] = f /\ next'[Head] = e /\ \A n \in Node \ {e, Head} : next'[n] = next[n]
  BY <1>1 DEF Insert, Shape
<1>3. /\ previous' \in [Node -> Node \cup {Null}]
      /\ previous'[e] = Head /\ previous'[f] = e
      /\ \A n \in Node \ {e, f} : previous'[n] = previous[n]
  BY <1>1 DEF Insert, Shape
<1> HIDE DEF f
<1>4. ASSUME NEW n \in Node, Started(n)'
      PROVE  /\ next'[n] \in Node /\ previous'[n] \in Node
             /\ previous'[next'[n]] = n /\ next'[previous'[n]] = n
             /\ next'[next'[n]] # Null
  <2>0. e # Null
    BY <1>1 DEF Node
  <2>1. CASE n = e
    <3>1. next'[f] # Null
      BY <1>1, <1>2, <2>0 DEF Started
    <3> QED  BY <1>1, <1>2, <1>3, <2>1, <3>1
  <2>2. CASE n = Head
    <3>1. CASE f = Head
      BY <1>1, <1>2, <1>3, <2>2, <3>1
    <3>2. CASE f # Head
      <4>1. previous[Head] \in Node /\ previous[Head] # e /\ next[previous[Head]] = Head
        BY <1>1, NoStranger DEF Shape, WellLinked, Node
      <4>2. previous[Head] # Head
        BY <3>2, <4>1 DEF f
      <4>3. previous'[Head] = previous[Head] /\ next'[previous[Head]] = Head
        BY <1>1, <1>2, <1>3, <3>2, <4>1, <4>2
      <4>4. f # Null
        BY <1>1 DEF Node
      <4> QED  BY <1>1, <1>2, <1>3, <2>2, <4>1, <4>3, <4>4
    <3> QED  BY <3>1, <3>2
  <2>3. CASE n \notin {e, Head}
    <3>1. Started(n) /\ next'[n] = next[n] /\ next[n] \in Node /\ previous[n] \in Node
          /\ previous[next[n]] = n /\ next[previous[n]] = n /\ Started(next[n])
      <4>1. Started(n) /\ next'[n] = next[n]
        BY <1>2, <1>4, <2>3 DEF Started
      <4> QED  BY <4>1 DEF Shape, WellLinked
    <3>2. next[n] # e /\ previous[n] # e
      BY <2>3, <3>1, NoStranger
    <3>3. next[n] # f
      BY <1>1, <2>3, <3>1
    <3>4. previous'[next'[n]] = n /\ next'[next'[n]] # Null
      BY <1>1, <1>2, <1>3, <2>0, <3>1, <3>2, <3>3 DEF Started
    <3>5. CASE n = f
      BY <1>1, <1>2, <1>3, <3>1, <3>4, <3>5
    <3>6. CASE n # f
      <4>1. previous[n] # Head
        BY <3>1, <3>6 DEF f
      <4> QED  BY <1>2, <1>3, <2>3, <3>1, <3>2, <3>4, <3>6, <4>1
    <3> QED  BY <3>5, <3>6
  <2> QED  BY <2>1, <2>2, <2>3
<1>5. Shape'
  BY <1>1, <1>2, <1>3, <1>4 DEF Shape, WellLinked, Started, Node
<1> QED  BY <1>2, <1>5 DEF f

\* And so does alt_llist_remove, also of an alarm that is not in the list.
LEMMA RemoveShape ==
  ASSUME Shape, NEW e \in Alarm, Started(e), Remove(e)
  PROVE  /\ Shape'
         /\ next'[e] = e /\ previous[e] \in Node /\ next[previous[e]] = e
         /\ previous[e] # e => next'[previous[e]] = next[e]
         /\ \A n \in Node \ {e, previous[e]} : next'[n] = next[n]
<1> DEFINE p == previous[e]  q == next[e]
<1>1. /\ p \in Node /\ q \in Node /\ e \in Node /\ next[p] = e /\ previous[q] = e
      /\ Started(q) /\ e # Null /\ p # Null /\ q # Null
  BY DEF Shape, WellLinked, Started, Node
<1>2. /\ next' \in [Node -> Node \cup {Null}] /\ next'[e] = e /\ (p # e => next'[p] = q)
      /\ \A n \in Node \ {e, p} : next'[n] = next[n]
  BY <1>1 DEF Remove, Shape
<1>3. /\ previous' \in [Node -> Node \cup {Null}] /\ previous'[e] = e /\ (q # e => previous'[q] = p)
      /\ \A n \in Node \ {e, q} : previous'[n] = previous[n]
  BY <1>1 DEF Remove, Shape
<1>4. p = e <=> q = e
  BY <1>1
<1> HIDE DEF p, q
<1>5. ASSUME NEW n \in Node, Started(n)'
      PROVE  /\ next'[n] \in Node /\ previous'[n] \in Node
             /\ previous'[next'[n]] = n /\ next'[previous'[n]] = n
             /\ next'[next'[n]] # Null
  <2>1. CASE n = e
    BY <1>1, <1>2, <1>3, <2>1
  <2>2. CASE n # e
    <3>1. Started(n)
      BY <1>1, <1>2, <1>5, <2>2 DEF Started
    <3>2. next[n] \in Node /\ previous[n] \in Node /\ previous[next[n]] = n
          /\ next[previous[n]] = n /\ next[next[n]] # Null
      BY <3>1 DEF Shape, WellLinked, Started
    <3>3. n # p => next[n] # e /\ next[n] # q
      BY <1>1, <2>2, <3>2 DEF p
    <3>4. n # q => previous[n] # e /\ previous[n] # p
      BY <1>1, <2>2, <3>2 DEF q
    <3>5. next'[n] \in Node /\ previous'[next'[n]] = n
      BY <1>1, <1>2, <1>3, <1>4, <2>2, <3>2, <3>3
    <3>6. previous'[n] \in Node /\ next'[previous'[n]] = n
      BY <1>1, <1>2, <1>3, <1>4, <2>2, <3>2, <3>4
    <3>7. next'[n] # e
      BY <1>1, <1>2, <1>4, <2>2, <3>3
    <3>8. next[next'[n]] # Null
      BY <1>1, <1>2, <2>2, <3>2 DEF Started
    <3>9. next'[next'[n]] # Null
      BY <1>1, <1>2, <3>5, <3>7, <3>8
    <3> QED  BY <3>5, <3>6, <3>9
  <2> QED  BY <2>1, <2>2
<1>6. Started(Head)'
  <2>1. Started(Head) /\ Head \in Node /\ Head # e
    BY DEF Shape, Node
  <2> QED  BY <1>1, <1>2, <2>1 DEF Started
<1>7. Shape'
  BY <1>2, <1>3, <1>5, <1>6 DEF Shape, WellLinked, Started
<1> QED  BY <1>1, <1>2, <1>7 DEF p, q

-----------------------------------------------------------------------------
(* The order.                                                              *)

\* An insertion gives the entry the rank of the head and a lower one to the head.
LEMMA InsertOrdered ==
  ASSUME Shape, NEW r \in [Node -> Int], Ordered(r),
         NEW e \in Alarm, ~Listed(e), Insert(e),
         NEW s, s = [r EXCEPT ![e] = r[Head], ![Head] = r[Head] - 1]
  PROVE  /\ s \in [Node -> Int] /\ Ordered(s)'
         /\ s[e] = r[Head] /\ \A a \in Alarm \ {e} : s[a] = r[a]
         /\ Listed(e)' /\ \A a \in Alarm \ {e} : Listed(a)' = Listed(a)
<1> DEFINE f == next[Head]
<1>1. /\ next'[e] = f /\ next'[Head] = e /\ \A n \in Node \ {e, Head} : next'[n] = next[n]
      /\ f \in Node /\ InList(f) /\ e # Head /\ e \in Node /\ Head \in Node
      /\ f # e /\ f # Null /\ InList(Head)
  BY InsertShape, NextInList DEF Node, InList
<1>2. /\ s \in [Node -> Int] /\ s[e] = r[Head] /\ s[Head] = r[Head] - 1
      /\ \A n \in Node \ {e, Head} : s[n] = r[n]
  BY <1>1
<1>3. Listed(e)' /\ \A a \in Alarm \ {e} : Listed(a)' = Listed(a)
  BY <1>1 DEF Listed, Node
<1>4. \A n \in Node \ {e} : InList(n)' = InList(n)
  BY <1>3 DEF InList, Node
<1>5. \A n \in Node \ {e, Head} : InList(n) => r[Head] < r[n]
  BY DEF InList, Ordered, Node
<1>6. \A n \in Node : InList(n) => r[n] \in Int
  OBVIOUS
<1> HIDE DEF f
<1>7. \A m, n \in Node : InList(m)' /\ InList(n)' /\ s[m] = s[n] => m = n
  BY <1>1, <1>2, <1>4, <1>5, <1>6 DEF Ordered
<1>8. \A a \in Alarm : Listed(a)' => s[Head] < s[a]
  <2> SUFFICES ASSUME NEW a \in Alarm, Listed(a)' PROVE s[Head] < s[a]
    OBVIOUS
  <2>1. CASE a = e
    BY <1>2, <1>6, <2>1
  <2>2. CASE a # e
    BY <1>1, <1>2, <1>3, <2>2 DEF Ordered, Node
  <2> QED  BY <2>1, <2>2
<1>9. ASSUME NEW n \in Node, InList(n)', next'[n] # Head
      PROVE  s[n] < s[next'[n]]
  <2>1. CASE n = Head
    BY <1>1, <1>2, <2>1
  <2>2. CASE n = e
    BY <1>1, <1>2, <1>5, <1>9, <2>2
  <2>3. CASE n \notin {e, Head}
    <3>1. InList(n) /\ next[n] # Head /\ next'[n] = next[n]
      BY <1>1, <1>4, <1>9, <2>3
    <3>2. next[n] \in Node /\ next[n] # e
      BY <3>1, NextInList, <1>1, NoStranger, <2>3 DEF InList, Listed, Started
    <3>3. r[n] < r[next[n]]
      BY <3>1 DEF Ordered
    <3> QED  BY <1>2, <2>3, <3>1, <3>2, <3>3
  <2> QED  BY <2>1, <2>2, <2>3
<1>10. ASSUME NEW n \in Node, NEW a \in Alarm, InList(n)', Listed(a)', s[n] < s[a]
       PROVE  next'[n] # Head /\ s[next'[n]] <= s[a]
  <2>0. a \in Node /\ a # Head
    BY DEF Node
  <2>1. CASE a = e
    <3>1. n = Head
      BY <1>1, <1>2, <1>4, <1>5, <1>6, <1>10, <2>1
    <3> QED  BY <1>1, <1>2, <2>1, <3>1
  <2>2. CASE a # e
    <3>1. Listed(a) /\ s[a] = r[a] /\ r[Head] < r[a]
      BY <1>2, <1>3, <1>10, <2>0, <2>2 DEF Ordered
    <3>2. CASE n = Head
      <4>1. next'[n] = e /\ s[e] = r[Head] /\ r[Head] \in Int /\ r[a] \in Int
        BY <1>1, <1>2, <2>0, <3>2
      <4> QED  BY <1>1, <3>1, <4>1
    <3>3. CASE n = e
      <4>1. f # Head /\ r[f] <= r[a]
        BY <1>1, <3>1 DEF Ordered, f
      <4> QED  BY <1>1, <1>2, <3>1, <3>3, <4>1
    <3>4. CASE n \notin {e, Head}
      <4>1. InList(n) /\ r[n] < r[a] /\ next'[n] = next[n]
        BY <1>1, <1>2, <1>4, <1>10, <3>1, <3>4
      <4>2. next[n] # Head /\ r[next[n]] <= r[a]
        BY <3>1, <4>1 DEF Ordered
      <4>3. next[n] \in Node /\ next[n] # e
        BY <3>4, <4>1, NextInList, <1>1, NoStranger DEF InList, Listed, Started
      <4> QED  BY <1>2, <3>1, <4>1, <4>2, <4>3
    <3> QED  BY <3>2, <3>3, <3>4
  <2> QED  BY <2>1, <2>2
<1>11. Ordered(s)'
  BY <1>7, <1>8, <1>9, <1>10 DEF Ordered
<1>12. \A a \in Alarm \ {e} : s[a] = r[a]
  BY <1>1, <1>2 DEF Node
<1> QED  BY <1>2, <1>3, <1>11, <1>12

\* A removal leaves the ranks as they are.
LEMMA RemoveOrdered ==
  ASSUME Shape, NEW r \in [Node -> Int], Ordered(r), NEW e \in Alarm, Started(e), Remove(e)
  PROVE  /\ Ordered(r)'
         /\ ~Listed(e)' /\ \A a \in Alarm \ {e} : Listed(a)' = Listed(a)
<1> DEFINE p == previous[e]  q == next[e]
<1>1. /\ next'[e] = e /\ p \in Node /\ next[p] = e /\ (p # e => next'[p] = q)
      /\ \A n \in Node \ {e, p} : next'[n] = next[n]
      /\ e # Head /\ e \in Node /\ q \in Node /\ p # Null /\ q # Null
  BY RemoveShape DEF Node, Shape, WellLinked
<1>2. p # e => InList(p) /\ Listed(e) /\ InList(e)
  BY <1>1 DEF InList, Listed, Node, Shape, WellLinked
<1>3. p # e => r[p] < r[e] /\ (q # Head => r[e] < r[q])
  BY <1>1, <1>2 DEF Ordered
<1>4. p # e => p # q \/ p = Head
  BY <1>1, <1>3
<1> HIDE DEF p, q
<1>5. ~Listed(e)'
  BY <1>1 DEF Listed
<1>6. ASSUME NEW a \in Alarm \ {e} PROVE Listed(a)' = Listed(a)
  <2>1. CASE a = p
    BY <1>1, <1>4, <2>1 DEF Listed, Node
  <2>2. CASE a # p
    BY <1>1, <2>2 DEF Listed, Node
  <2> QED  BY <2>1, <2>2
<1>7. \A n \in Node : InList(n)' => InList(n) /\ n # e
  BY <1>1, <1>5, <1>6 DEF InList
<1>8. p = e => \A n \in Node \ {e} : next'[n] = next[n]
  BY <1>1
<1>9. ASSUME NEW n \in Node, InList(n)', next'[n] # Head
      PROVE  r[n] < r[next'[n]]
  <2>1. CASE n = p
    BY <1>1, <1>3, <1>7, <1>9, <2>1
  <2>2. CASE n # p
    BY <1>1, <1>7, <1>9, <2>2 DEF Ordered
  <2> QED  BY <2>1, <2>2
<1>10. ASSUME NEW n \in Node, NEW a \in Alarm, InList(n)', Listed(a)', r[n] < r[a]
       PROVE  next'[n] # Head /\ r[next'[n]] <= r[a]
  <2>0. InList(n) /\ n # e /\ a # e /\ Listed(a) /\ a \in Node /\ InList(a)
    BY <1>5, <1>6, <1>7, <1>10 DEF InList, Node
  <2>1. next[n] # Head /\ r[next[n]] <= r[a]
    BY <1>10, <2>0 DEF Ordered
  <2>2. CASE n = p
    <3>1. next[n] = e /\ p # e /\ r[e] # r[a]
      BY <1>1, <1>2, <2>0, <2>2 DEF Ordered
    <3>2. r[e] < r[a]
      BY <1>1, <2>0, <2>1, <3>1
    <3>3. q # Head /\ r[q] <= r[a]
      BY <1>1, <1>2, <2>0, <3>1, <3>2 DEF Ordered, q
    <3> QED  BY <1>1, <2>2, <3>1, <3>3
  <2>3. CASE n # p
    BY <1>1, <2>0, <2>1, <2>3
  <2> QED  BY <2>2, <2>3
<1>11. \A a \in Alarm : Listed(a)' => r[Head] < r[a]
  BY <1>5, <1>6 DEF Ordered
<1>12. \A m, n \in Node : InList(m)' /\ InList(n)' /\ r[m] = r[n] => m = n
  BY <1>7 DEF Ordered
<1> QED  BY <1>5, <1>6, <1>9, <1>10, <1>11, <1>12 DEF Ordered

-----------------------------------------------------------------------------
(* The time.                                                               *)

\* What the remainder of a sum is.
LEMMA Wrap ==
  ASSUME NEW x \in 0 .. 2 * Word - 1
  PROVE  x % Word = IF x < Word THEN x ELSE x - Word
<1>1. CASE x < Word
  BY <1>1
<1>2. CASE x >= Word
  <2>1. x = Word + (x - Word) /\ x - Word \in 0 .. Word - 1
    BY <1>2
  <2> QED  BY <2>1
<1> QED  BY <1>1, <1>2

Clocks == /\ nticks \in 0 .. Word - 1
          /\ time \in [Alarm -> 0 .. Word - 1] /\ rollover \in [Alarm -> BOOLEAN]

\* The flag of an alarm in the list says whether its time is past a roll-over.
Timed == \A a \in Alarm : Listed(a) => IF rollover[a] /\ nticks # 0 THEN time[a] < nticks
                                       ELSE time[a] >= nticks

\* What this tick has still to do: call an alarm back, or clear its flag.
Todo(a) == Listed(a) /\ IF rollover[a] THEN nticks = 0 ELSE time[a] = nticks

\* An alarm that has been set is in time, has nothing to do at this tick and will have
\* after the given number of ticks.
LEMMA SetInTime ==
  ASSUME Clocks, NEW a \in Alarm, NEW t \in nticks + 1 .. nticks + Word - 1,
         NEW flag \in BOOLEAN, flag <=> t % Word < nticks
  PROVE  /\ t % Word \in 0 .. Word - 1
         /\ IF flag /\ nticks # 0 THEN t % Word < nticks ELSE t % Word >= nticks
         /\ ~(IF flag THEN nticks = 0 ELSE t % Word = nticks)
         /\ (IF flag /\ nticks # 0 THEN (t % Word) + Word - nticks ELSE (t % Word) - nticks) = t - nticks
<1> DEFINE w == t % Word
<1>1. w = IF t < Word THEN t ELSE t - Word
  BY Wrap DEF Clocks
<1> HIDE DEF w
<1>2. w \in 0 .. Word - 1 /\ (w < nticks <=> t >= Word) /\ w # nticks /\ nticks \in Nat
  BY <1>1 DEF Clocks
<1>3. flag <=> w < nticks
  BY DEF w
<1>4. CASE flag
  BY <1>1, <1>2, <1>3, <1>4 DEF w
<1>5. CASE ~flag
  BY <1>1, <1>2, <1>3, <1>5 DEF w
<1> QED  BY <1>4, <1>5

\* An alarm in the list with nothing left to do is a tick nearer after the next one.
LEMMA TickInTime ==
  ASSUME Clocks, Timed, NEW a \in Alarm, Listed(a), ~Todo(a), nticks' = (nticks + 1) % Word,
         time' = time, rollover' = rollover, next' = next
  PROVE  /\ IF rollover'[a] /\ nticks' # 0 THEN time'[a] < nticks' ELSE time'[a] >= nticks'
         /\ Left(a) \in Nat \ {0} /\ Left(a)' = Left(a) - 1 /\ Listed(a)'
<1>1. nticks' = IF nticks = Word - 1 THEN 0 ELSE nticks + 1
  BY Wrap DEF Clocks
<1>2. /\ time[a] \in 0 .. Word - 1 /\ rollover[a] \in BOOLEAN /\ nticks \in 0 .. Word - 1
  BY DEF Clocks
<1>3. Listed(a)'
  BY DEF Listed
<1>4. CASE rollover[a]
  <2>1. nticks # 0 /\ time[a] < nticks
    BY <1>4 DEF Timed, Todo
  <2>2. Left(a) = time[a] + Word - nticks
    BY <1>4, <2>1 DEF Left
  <2>3. Left(a)' = IF nticks' = 0 THEN time[a] - nticks' ELSE time[a] + Word - nticks'
    BY <1>3, <1>4 DEF Left
  <2> QED  BY <1>1, <1>2, <1>3, <1>4, <2>1, <2>2, <2>3
<1>5. CASE ~rollover[a]
  <2>1. time[a] > nticks
    BY <1>2, <1>5 DEF Timed, Todo
  <2>2. Left(a) = time[a] - nticks
    BY <1>5 DEF Left
  <2>3. Left(a)' = time[a] - nticks'
    BY <1>3, <1>5 DEF Left
  <2> QED  BY <1>1, <1>2, <1>3, <1>5, <2>1, <2>2, <2>3
<1> QED  BY <1>2, <1>4, <1>5

-----------------------------------------------------------------------------
(* The invariant.                                                          *)

\* Where alt_tick is; an alarm whose callback runs is due.
Cursor == /\ alarm \in Node /\ Started(alarm) /\ succ \in Node \cup {Null}
          /\ succ # Null => alarm # Head /\ Started(succ)
          /\ succ # Null /\ Listed(alarm) => time[alarm] = nticks /\ ~rollover[alarm]

\* What is left to do is ahead, unless the next alarm has been stopped.
Ahead(r) ==
  /\ alarm = Head => \A a \in Alarm : ~Todo(a)
  /\ alarm # Head /\ succ = Null /\ Listed(alarm) => \A a \in Alarm : Todo(a) => r[alarm] <= r[a]
  /\ succ # Null => \A a \in Alarm \ {alarm} :
                       Todo(a) => succ # Head /\ (Listed(succ) => r[succ] <= r[a])

Inv == Shape /\ Clocks /\ Timed /\ Cursor /\ \E r \in [Node -> Int] : Ordered(r) /\ Ahead(r)

\* The abstract alarms.
LeftNow == [a \in Alarm |-> Left(a)]

\* Nothing has been started.
LEMMA InvInit == Init => Inv /\ Promise!Init
<1> SUFFICES ASSUME Init PROVE Inv /\ Promise!Init
  OBVIOUS
<1>1. next[Head] = Head /\ previous[Head] = Head /\ \A a \in Alarm : next[a] = Null
  BY DEF Init, Node
<1>2. \A a \in Alarm : ~Listed(a) /\ ~Todo(a)
  BY <1>1 DEF Listed, Todo
<1>3. Shape
  BY <1>1 DEF Init, Shape, WellLinked, Started, Node
<1>4. Clocks /\ Timed /\ Cursor
  BY <1>1, <1>2 DEF Init, Clocks, Timed, Cursor, Started, Node
<1>5. \E r \in [Node -> Int] : Ordered(r) /\ Ahead(r)
  <2> DEFINE r == [n \in Node |-> 0]
  <2>1. r \in [Node -> Int]
    OBVIOUS
  <2>2. \A n \in Node : InList(n) => n = Head
    BY <1>2 DEF InList
  <2>3. Ordered(r) /\ Ahead(r)
    BY <1>1, <1>2, <2>2 DEF Ordered, Ahead, Init
  <2> QED  BY <2>1, <2>3
<1>6. Promise!Init
  BY <1>2 DEF Promise!Init, Left
<1> QED  BY <1>3, <1>4, <1>5, <1>6 DEF Inv

\* An alarm is started: between two ticks, or by the callback of another one.
LEMMA StartStep ==
  ASSUME Inv, NEW e \in Alarm, alarm = Head \/ succ # Null, e # alarm, Start(e)
  PROVE  Inv' /\ Promise!Set(e)
<1>1. PICK n \in Delays : SetAlarm(e, n + nticks + 1)
  BY DEF Start
<1> DEFINE t == n + nticks + 1
<1>2. t \in nticks + 1 .. nticks + Word - 1 /\ t - nticks \in 1 .. Word - 1
  BY DelayAssumption DEF Inv, Clocks
<1> HIDE DEF t
<1>3. /\ ~Listed(e) /\ Insert(e) /\ UNCHANGED <<nticks, alarm, succ, resettime>>
      /\ Shape /\ Clocks /\ Timed /\ Cursor
  BY DEF Start, Inv
<1>4. PICK r \in [Node -> Int] : Ordered(r) /\ Ahead(r)
  BY DEF Inv
<1>5. /\ time' = [time EXCEPT ![e] = t % Word]
      /\ rollover' = [rollover EXCEPT ![e] = t % Word < nticks]
  BY <1>1 DEF SetAlarm, t
<1>6. /\ t % Word \in 0 .. Word - 1 /\ rollover'[e] \in BOOLEAN /\ time'[e] = t % Word
      /\ IF rollover'[e] /\ nticks # 0 THEN time'[e] < nticks ELSE time'[e] >= nticks
      /\ ~(IF rollover'[e] THEN nticks = 0 ELSE time'[e] = nticks)
      /\ (IF rollover'[e] /\ nticks # 0 THEN time'[e] + Word - nticks ELSE time'[e] - nticks) = t - nticks
  <2>1. time'[e] = t % Word /\ rollover'[e] = (t % Word < nticks) /\ rollover'[e] \in BOOLEAN
    BY <1>3, <1>5 DEF Clocks
  <2> QED  BY <1>2, <1>3, <2>1, SetInTime
<1>7. /\ time' \in [Alarm -> 0 .. Word - 1] /\ rollover' \in [Alarm -> BOOLEAN]
      /\ \A a \in Alarm \ {e} : time'[a] = time[a] /\ rollover'[a] = rollover[a]
  BY <1>3, <1>5, <1>6 DEF Clocks
<1>8. PICK s \in [Node -> Int] :
        /\ Ordered(s)' /\ s[e] = r[Head]
        /\ \A a \in Alarm \ {e} : s[a] = r[a] /\ Listed(a)' = Listed(a)
        /\ Listed(e)'
  <2>1. PICK s : s = [r EXCEPT ![e] = r[Head], ![Head] = r[Head] - 1]
    OBVIOUS
  <2> QED  BY <1>3, <1>4, <2>1, InsertOrdered
<1>9. /\ Shape' /\ next'[e] = next[Head] /\ next'[Head] = e
      /\ \A m \in Node \ {e, Head} : next'[m] = next[m]
  BY <1>3, InsertShape
<1>10. ~Todo(e)' /\ \A a \in Alarm \ {e} : Todo(a)' = Todo(a)
  BY <1>3, <1>6, <1>7, <1>8 DEF Todo
<1>11. Clocks' /\ Timed'
  <2>1. Clocks'
    BY <1>3, <1>7 DEF Clocks
  <2>2. Timed'
    BY <1>3, <1>6, <1>7, <1>8 DEF Timed
  <2> QED  BY <2>1, <2>2
<1>12. Cursor'
  <2>1. e # Null /\ next[Head] # Null /\ e \in Node
    BY <1>3 DEF Shape, Started, Node
  <2>2. \A m \in Node : Started(m) => Started(m)'
    BY <1>9, <2>1 DEF Started
  <2>3. succ # Null /\ Listed(alarm)' => /\ Listed(alarm) /\ time'[alarm] = time[alarm]
                                         /\ rollover'[alarm] = rollover[alarm]
    BY <1>3, <1>7, <1>8 DEF Cursor, Node
  <2> QED  BY <1>3, <2>2, <2>3 DEF Cursor
<1>13. Ahead(s)'
  <2>1. alarm = Head => \A a \in Alarm : ~Todo(a)'
    BY <1>4, <1>10 DEF Ahead
  <2>2. ASSUME succ # Null, NEW a \in Alarm \ {alarm}, Todo(a)'
        PROVE  succ # Head /\ (Listed(succ)' => s[succ] <= s[a])
    <3>1. a # e /\ Todo(a) /\ Listed(a) /\ s[a] = r[a] /\ r[Head] < r[a]
      BY <1>4, <1>8, <1>10, <2>2 DEF Todo, Ordered
    <3>2. succ # Head /\ (Listed(succ) => r[succ] <= r[a])
      BY <1>4, <2>2, <3>1 DEF Ahead
    <3>3. CASE succ = e
      <4>1. r[Head] \in Int /\ r[a] \in Int
        BY DEF Node
      <4> QED  BY <1>8, <3>1, <3>2, <3>3, <4>1
    <3>4. CASE succ # e
      BY <1>3, <1>8, <2>2, <3>1, <3>2, <3>4 DEF Cursor, Node
    <3> QED  BY <3>3, <3>4
  <2> QED  BY <1>3, <2>1, <2>2 DEF Ahead
<1>14. Promise!Set(e)
  <2>1. Left(e) = Off /\ Left(e)' = t - nticks
    BY <1>3, <1>6, <1>8 DEF Left
  <2>2. \A a \in Alarm \ {e} : Left(a)' = Left(a)
    BY <1>3, <1>7, <1>8 DEF Left
  <2> QED  BY <1>2, <2>1, <2>2 DEF Promise!Set
<1> QED  BY <1>8, <1>9, <1>11, <1>12, <1>13, <1>14 DEF Inv

\* An alarm is stopped: between two ticks, or by a callback, its own or another one.
LEMMA StopStep ==
  ASSUME Inv, NEW e \in Alarm, Stop(e)
  PROVE  Inv' /\ Promise!Cancel(e)
<1>1. /\ Started(e) /\ Remove(e) /\ UNCHANGED <<nticks, time, rollover, alarm, succ>>
      /\ Shape /\ Clocks /\ Timed /\ Cursor
  BY DEF Stop, Inv
<1>2. PICK r \in [Node -> Int] : Ordered(r) /\ Ahead(r)
  BY DEF Inv
<1>3. Ordered(r)' /\ ~Listed(e)' /\ \A a \in Alarm \ {e} : Listed(a)' = Listed(a)
  BY <1>1, <1>2, RemoveOrdered
<1>4. /\ Shape' /\ next'[e] = e /\ previous[e] \in Node
      /\ previous[e] # e => next'[previous[e]] = next[e]
      /\ \A n \in Node \ {e, previous[e]} : next'[n] = next[n]
  BY <1>1, RemoveShape
<1>5. \A a \in Alarm : (Listed(a)' => Listed(a)) /\ (Todo(a)' => Todo(a))
  BY <1>1, <1>3 DEF Todo
<1>6. Clocks' /\ Timed'
  BY <1>1, <1>5 DEF Clocks, Timed
<1>7. Cursor'
  <2>1. ASSUME NEW m \in Node, Started(m) PROVE Started(m)'
    <3>1. e # Null /\ next[e] # Null
      BY <1>1 DEF Started, Node
    <3> QED  BY <1>4, <2>1, <3>1 DEF Started
  <2>2. alarm \in Alarm => (Listed(alarm)' => Listed(alarm))
    BY <1>1, <1>5
  <2> QED  BY <1>1, <2>1, <2>2 DEF Cursor, Node
<1>8. Ahead(r)'
  <2>1. alarm # Head => alarm \in Alarm /\ (Listed(alarm)' => Listed(alarm))
    BY <1>1, <1>5 DEF Cursor, Node
  <2>2. succ \notin {Null, Head} => succ \in Alarm /\ (Listed(succ)' => Listed(succ))
    BY <1>1, <1>5 DEF Cursor, Node
  <2>3. (alarm = Head)' => \A a \in Alarm : ~Todo(a)'
    BY <1>1, <1>2, <1>5 DEF Ahead
  <2>4. (alarm # Head /\ succ = Null /\ Listed(alarm))' => \A a \in Alarm : Todo(a)' => r[alarm] <= r[a]
    BY <1>1, <1>2, <1>5, <2>1 DEF Ahead
  <2>5. succ # Null => \A a \in Alarm \ {alarm} :
                          Todo(a)' => succ # Head /\ (Listed(succ)' => r[succ] <= r[a])
    BY <1>2, <1>5, <2>2 DEF Ahead
  <2> QED  BY <1>1, <2>3, <2>4, <2>5 DEF Ahead
<1>9. Promise!Cancel(e)
  <2>1. Left(e)' = Off /\ \A a \in Alarm \ {e} : Left(a)' = Left(a)
    BY <1>1, <1>3 DEF Left
  <2> QED  BY <2>1 DEF Promise!Cancel
<1> QED  BY <1>3, <1>4, <1>6, <1>7, <1>8, <1>9 DEF Inv

\* The counter moves on; the first alarm of the list is before every other.
LEMMA TickStep ==
  ASSUME Inv, Tick
  PROVE  Inv' /\ Promise!Tick
<1>1. /\ alarm = Head /\ nticks' = (nticks + 1) % Word /\ alarm' = next[Head]
      /\ UNCHANGED <<next, previous, time, rollover, succ>>
      /\ Shape /\ Clocks /\ Timed /\ Cursor /\ succ = Null
  BY DEF Tick, Inv, Cursor, links
<1>2. PICK r \in [Node -> Int] : Ordered(r) /\ Ahead(r)
  BY DEF Inv
<1>3. \A a \in Alarm : ~Todo(a)
  BY <1>1, <1>2 DEF Ahead
<1>4. \A a \in Alarm : Listed(a)' = Listed(a)
  BY <1>1 DEF Listed
<1>5. \A a \in Alarm : Listed(a) =>
        /\ IF rollover'[a] /\ nticks' # 0 THEN time'[a] < nticks' ELSE time'[a] >= nticks'
        /\ Left(a) \in Nat \ {0} /\ Left(a)' = Left(a) - 1
  BY <1>1, <1>3, TickInTime
<1>6. nticks' \in 0 .. Word - 1
  <2>1. nticks + 1 \in 0 .. 2 * Word - 1
    BY <1>1 DEF Clocks
  <2> QED  BY <1>1, <2>1, Wrap DEF Clocks
<1>7. Shape' /\ Clocks' /\ Timed' /\ Ordered(r)'
  <2>1. Shape'
    BY <1>1 DEF Shape, WellLinked, Started
  <2>2. Clocks' /\ Timed'
    BY <1>1, <1>4, <1>5, <1>6 DEF Clocks, Timed
  <2>3. Ordered(r)'
    BY <1>1, <1>2, <1>4 DEF Ordered, InList
  <2> QED  BY <2>1, <2>2, <2>3
<1>8. Cursor'
  <2>1. next[Head] \in Node /\ Started(next[Head])
    BY <1>1 DEF Shape, WellLinked, Started, Node
  <2> QED  BY <1>1, <2>1 DEF Cursor, Started
<1>9. ASSUME NEW a \in Alarm, Listed(a)
      PROVE  next[Head] # Head /\ r[next[Head]] <= r[a]
  BY <1>2, <1>9 DEF Ordered, InList, Node
<1>10. Ahead(r)'
  BY <1>1, <1>4, <1>9 DEF Ahead, Todo
<1>11. Promise!Tick
  <2>1. \A a \in Alarm : Left(a) # 0 /\ Left(a)' = IF Left(a) = Off THEN Off ELSE Left(a) - 1
    BY <1>4, <1>5 DEF Left
  <2> QED  BY <2>1 DEF Promise!Tick
<1> QED  BY <1>7, <1>8, <1>10, <1>11 DEF Inv

\* alt_tick comes to an alarm and clears its flag; it calls it back or goes on.
LEMMA VisitStep ==
  ASSUME Inv, Visit
  PROVE  Inv' /\ LeftNow' = LeftNow
<1>1. /\ alarm # Head /\ succ = Null /\ alarm \in Alarm /\ Started(alarm)
      /\ rollover' = [rollover EXCEPT ![alarm] = @ /\ nticks # 0]
      /\ UNCHANGED <<nticks, next, previous, time>>
      /\ Shape /\ Clocks /\ Timed /\ Cursor
  BY DEF Visit, Inv, Cursor, links, Node
<1>2. PICK r \in [Node -> Int] : Ordered(r) /\ Ahead(r)
  BY DEF Inv
<1>3. next[alarm] \in Node /\ next[alarm] # Null /\ Started(next[alarm])
  BY <1>1 DEF Shape, WellLinked, Started, Node
<1>4. /\ rollover' \in [Alarm -> BOOLEAN]
      /\ rollover'[alarm] = (rollover[alarm] /\ nticks # 0)
      /\ \A a \in Alarm \ {alarm} : rollover'[a] = rollover[a]
  BY <1>1 DEF Clocks
<1>5. \A a \in Alarm : Listed(a)' = Listed(a)
                       /\ (rollover'[a] /\ nticks # 0) = (rollover[a] /\ nticks # 0)
  BY <1>1, <1>4 DEF Listed
<1>6. \A a \in Alarm \ {alarm} : Todo(a)' = Todo(a)
  BY <1>1, <1>4, <1>5 DEF Todo
<1>7. Shape' /\ Clocks' /\ Timed' /\ Ordered(r)'
  <2>1. Shape'
    BY <1>1 DEF Shape, WellLinked, Started
  <2>2. Clocks' /\ Timed'
    BY <1>1, <1>4, <1>5 DEF Clocks, Timed
  <2>3. Ordered(r)'
    BY <1>1, <1>2, <1>5 DEF Ordered, InList
  <2> QED  BY <2>1, <2>2, <2>3
<1>8. LeftNow' = LeftNow
  <2>1. \A a \in Alarm : Left(a)' = Left(a)
    BY <1>1, <1>5 DEF Left
  <2> QED  BY <2>1 DEF LeftNow
<1>9. ASSUME NEW a \in Alarm \ {alarm}, Todo(a)
      PROVE  next[alarm] # Head /\ (Listed(next[alarm]) => r[next[alarm]] <= r[a])
  <2>1. CASE Listed(alarm)
    <3>1. r[alarm] <= r[a] /\ Listed(a) /\ InList(a) /\ InList(alarm) /\ alarm \in Node /\ a \in Node
      BY <1>1, <1>2, <1>9, <2>1 DEF Ahead, Todo, InList, Node
    <3>2. r[alarm] < r[a]
      BY <1>2, <1>9, <3>1 DEF Ordered
    <3> QED  BY <1>2, <3>1, <3>2 DEF Ordered
  <2>2. CASE ~Listed(alarm)
    BY <1>1, <2>2 DEF Listed, Started
  <2> QED  BY <2>1, <2>2
<1>10. CASE time[alarm] <= nticks /\ ~rollover'[alarm]
  <2>1. succ' = next[alarm] /\ alarm' = alarm
    BY <1>10 DEF Visit
  <2>2. Listed(alarm) => time[alarm] = nticks
    BY <1>1, <1>4, <1>7, <1>10 DEF Timed, Clocks
  <2>3. Cursor'
    BY <1>1, <1>3, <1>10, <2>1, <2>2 DEF Cursor, Started, Listed, Node
  <2>4. Ahead(r)'
    <3>1. alarm' # Head /\ succ' # Null
      BY <1>1, <1>3, <2>1
    <3>2. ASSUME NEW a \in Alarm \ {alarm}, Todo(a)'
          PROVE  next[alarm] # Head /\ (Listed(next[alarm])' => r[next[alarm]] <= r[a])
      BY <1>1, <1>6, <1>9, <2>1, <3>2 DEF Listed
    <3> QED  BY <1>1, <2>1, <3>1, <3>2 DEF Ahead, Listed
  <2> QED  BY <1>7, <1>8, <2>3, <2>4 DEF Inv
<1>11. CASE ~(time[alarm] <= nticks /\ ~rollover'[alarm])
  <2>1. alarm' = next[alarm] /\ succ' = Null
    BY <1>1, <1>11 DEF Visit
  <2>2. \A a \in Alarm : a = alarm => ~Todo(a)'
    <3>1. rollover'[alarm] => nticks # 0
      BY <1>4
    <3>2. ~rollover'[alarm] => time[alarm] # nticks
      BY <1>1, <1>11 DEF Clocks
    <3> QED  BY <1>1, <3>1, <3>2 DEF Todo
  <2>3. Cursor'
    BY <1>1, <1>3, <2>1 DEF Cursor, Started, Node
  <2>4. Ahead(r)'
    <3>1. ASSUME NEW a \in Alarm, Todo(a)'
          PROVE  alarm' # Head /\ (Listed(alarm)' => r[alarm'] <= r[a])
      <4>1. a # alarm /\ Todo(a)
        BY <1>6, <2>2, <3>1
      <4> QED  BY <1>1, <1>9, <2>1, <4>1 DEF Listed
    <3> QED  BY <2>1, <3>1 DEF Ahead
  <2> QED  BY <1>7, <1>8, <2>3, <2>4 DEF Inv
<1> QED  BY <1>10, <1>11


\* The callback returns: its alarm goes off, and the walk goes on with the next one.
LEMMA ReturnStep ==
  ASSUME Inv, Return
  PROVE  Inv' /\ (Promise!GoOff(alarm) \/ LeftNow' = LeftNow)
<1>1. /\ succ # Null /\ alarm # Head /\ alarm \in Alarm /\ Started(alarm) /\ succ \in Node
      /\ Started(succ) /\ succ' = Null /\ alarm' = succ /\ nticks' = nticks
      /\ Listed(alarm) => time[alarm] = nticks /\ ~rollover[alarm]
      /\ Shape /\ Clocks /\ Timed
  BY DEF Return, Inv, Cursor, Node
<1>2. PICK r \in [Node -> Int] : Ordered(r) /\ Ahead(r)
  BY DEF Inv
<1>3. PICK p \in Periods :
        IF p = 0
        THEN Remove(alarm) /\ UNCHANGED <<time, rollover>>
        ELSE /\ time' = [time EXCEPT ![alarm] = (@ + p) % Word]
             /\ rollover' = [rollover EXCEPT ![alarm] = @ \/ (time[alarm] + p) % Word < nticks]
             /\ UNCHANGED links
  BY DEF Return
<1>4. \A a \in Alarm \ {alarm} : Todo(a) => succ # Head /\ (Listed(succ) => r[succ] <= r[a])
  BY <1>1, <1>2 DEF Ahead
<1>5. SUFFICES
        /\ Shape' /\ Ordered(r)' /\ Clocks' /\ Timed' /\ next'[succ] # Null
        /\ \A a \in Alarm : /\ Listed(a)' => Listed(a)
                            /\ Todo(a)' => a # alarm /\ Todo(a)
        /\ Promise!GoOff(alarm) \/ LeftNow' = LeftNow
  <2>1. Cursor'
    BY <1>1, <1>5 DEF Cursor, Started
  <2>2. ASSUME NEW a \in Alarm, Todo(a)'
        PROVE  alarm' # Head /\ (Listed(alarm)' => r[alarm'] <= r[a])
    <3>1. succ # Head /\ succ \in Alarm /\ (Listed(succ) => r[succ] <= r[a])
      BY <1>1, <1>4, <1>5, <2>2 DEF Node
    <3> QED  BY <1>1, <1>5, <3>1
  <2>3. Ahead(r)'
    BY <1>1, <2>2 DEF Ahead
  <2> QED  BY <1>5, <2>1, <2>3 DEF Inv
<1>6. ASSUME ~Listed(alarm), \A a \in Alarm : Listed(a)' = Listed(a),
             \A a \in Alarm \ {alarm} : time'[a] = time[a] /\ rollover'[a] = rollover[a]
      PROVE  LeftNow' = LeftNow
  <2>1. \A a \in Alarm : Left(a)' = Left(a)
    BY <1>1, <1>6 DEF Left
  <2> QED  BY <2>1 DEF LeftNow
<1>7. ASSUME Listed(alarm), NEW n \in 1 .. Word - 1 \cup {Off},
             \A a \in Alarm : Left(a)' = IF a = alarm THEN n ELSE Left(a)
      PROVE  Promise!GoOff(alarm)
  <2>1. Left(alarm) = 0
    BY <1>1, <1>7 DEF Left, Clocks
  <2>2. LeftNow' = [LeftNow EXCEPT ![alarm] = n]
    BY <1>1, <1>7 DEF LeftNow
  <2> QED  BY <1>1, <2>1, <2>2 DEF Promise!GoOff, LeftNow
<1>8. CASE p = 0
  <2>1. Remove(alarm) /\ time' = time /\ rollover' = rollover
    BY <1>3, <1>8
  <2>2. /\ Ordered(r)' /\ \A a \in Alarm : Listed(a)' = (Listed(a) /\ a # alarm)
    <3>1. PICK e \in Alarm : e = alarm
      BY <1>1
    <3>2. Ordered(r)' /\ ~Listed(e)' /\ \A a \in Alarm \ {e} : Listed(a)' = Listed(a)
      BY <1>1, <1>2, <2>1, <3>1, RemoveOrdered
    <3> QED  BY <3>1, <3>2 DEF Listed
  <2>3. Shape' /\ next'[succ] # Null
    <3>1. /\ Shape' /\ next'[alarm] = alarm
          /\ previous[alarm] # alarm => next'[previous[alarm]] = next[alarm]
          /\ \A m \in Node \ {alarm, previous[alarm]} : next'[m] = next[m]
      BY <1>1, <2>1, RemoveShape
    <3>2. alarm # Null /\ next[alarm] # Null
      BY <1>1 DEF Started, Node
    <3> QED  BY <1>1, <3>1, <3>2 DEF Started
  <2>4. Clocks' /\ Timed' /\ \A a \in Alarm : Todo(a)' => a # alarm /\ Todo(a)
    BY <1>1, <2>1, <2>2 DEF Clocks, Timed, Todo
  <2>5. CASE Listed(alarm)
    <3>1. \A a \in Alarm : Left(a)' = IF a = alarm THEN Off ELSE Left(a)
      BY <1>1, <2>1, <2>2 DEF Left
    <3> QED  BY <1>7, <2>2, <2>3, <2>4, <2>5, <3>1
  <2>6. CASE ~Listed(alarm)
    <3>1. \A a \in Alarm : Listed(a)' = Listed(a)
      BY <2>2, <2>6 DEF Listed
    <3>2. LeftNow' = LeftNow
      BY <1>6, <2>1, <2>6, <3>1
    <3> QED  BY <2>2, <2>3, <2>4, <3>2
  <2> QED  BY <2>5, <2>6
<1>9. CASE p # 0
  <2>1. /\ time' = [time EXCEPT ![alarm] = (@ + p) % Word]
        /\ rollover' = [rollover EXCEPT ![alarm] = @ \/ (time[alarm] + p) % Word < nticks]
        /\ next' = next /\ previous' = previous /\ p \in 1 .. Word - 1
    BY <1>3, <1>9, DelayAssumption DEF links
  <2>2. /\ Shape' /\ Ordered(r)' /\ next'[succ] # Null
        /\ \A a \in Alarm : Listed(a)' = Listed(a)
    BY <1>1, <1>2, <2>1 DEF Shape, WellLinked, Started, Ordered, InList, Listed
  <2>3. /\ time[alarm] \in 0 .. Word - 1 /\ rollover[alarm] \in BOOLEAN
        /\ (time[alarm] + p) % Word \in 0 .. Word - 1
    <3>1. time[alarm] \in 0 .. Word - 1 /\ rollover[alarm] \in BOOLEAN
      BY <1>1 DEF Clocks
    <3>2. time[alarm] + p \in 0 .. 2 * Word - 1
      BY <2>1, <3>1
    <3> QED  BY <3>1, <3>2, Wrap
  <2>4. /\ time'[alarm] = (time[alarm] + p) % Word
        /\ rollover'[alarm] = (rollover[alarm] \/ (time[alarm] + p) % Word < nticks)
        /\ \A a \in Alarm \ {alarm} : time'[a] = time[a] /\ rollover'[a] = rollover[a]
    BY <1>1, <2>1 DEF Clocks
  <2>5. Clocks'
    <3>1. time' \in [Alarm -> 0 .. Word - 1]
      BY <1>1, <2>1, <2>3 DEF Clocks
    <3>2. rollover' \in [Alarm -> BOOLEAN]
      BY <1>1, <2>1, <2>3 DEF Clocks
    <3> QED  BY <1>1, <3>1, <3>2 DEF Clocks
  <2>6. \A a \in Alarm \ {alarm} : Todo(a)' = Todo(a)
    BY <1>1, <2>2, <2>4 DEF Todo
  <2>7. CASE Listed(alarm)
    <3> DEFINE t == nticks + p
    <3>1. t \in nticks + 1 .. nticks + Word - 1 /\ t - nticks = p
      BY <1>1, <2>1 DEF Clocks
    <3>2. time'[alarm] = t % Word /\ rollover'[alarm] = (t % Word < nticks) /\ rollover'[alarm] \in BOOLEAN
      BY <1>1, <2>3, <2>4, <2>7
    <3> HIDE DEF t
    <3>3. /\ IF rollover'[alarm] /\ nticks # 0 THEN time'[alarm] < nticks ELSE time'[alarm] >= nticks
          /\ ~(IF rollover'[alarm] THEN nticks = 0 ELSE time'[alarm] = nticks)
          /\ (IF rollover'[alarm] /\ nticks # 0 THEN time'[alarm] + Word - nticks
              ELSE time'[alarm] - nticks) = p
      BY <1>1, <3>1, <3>2, SetInTime
    <3>4. Timed'
      BY <1>1, <2>2, <2>4, <3>3 DEF Timed
    <3>5. \A a \in Alarm : Todo(a)' => a # alarm /\ Todo(a)
      BY <1>1, <2>6, <3>3 DEF Todo
    <3>6. \A a \in Alarm : Left(a)' = IF a = alarm THEN p ELSE Left(a)
      BY <1>1, <2>2, <2>4, <2>7, <3>3 DEF Left
    <3>7. Promise!GoOff(alarm)
      BY <1>7, <2>1, <2>7, <3>6
    <3> QED  BY <2>2, <2>5, <3>4, <3>5, <3>7
  <2>8. CASE ~Listed(alarm)
    <3>1. Timed' /\ \A a \in Alarm : Todo(a)' => a # alarm /\ Todo(a)
      BY <1>1, <2>2, <2>4, <2>6, <2>8 DEF Timed, Todo
    <3> QED  BY <1>6, <2>2, <2>4, <2>5, <2>8, <3>1
  <2> QED  BY <2>7, <2>8
<1> QED  BY <1>8, <1>9

\* Every step keeps the invariant, and is one of the abstract alarms or none.
LEMMA InvNext ==
  ASSUME Inv, [Next]_vars
  PROVE  Inv' /\ [Promise!Next]_LeftNow
<1>1. ASSUME UNCHANGED <<nticks, links, time, rollover, alarm, succ>>
      PROVE  Inv' /\ LeftNow' = LeftNow
  <2>1. \A a \in Alarm : Left(a)' = Left(a)
    BY <1>1 DEF Left, Listed, links
  <2>2. LeftNow' = LeftNow
    BY <2>1 DEF LeftNow
  <2>3. Inv'
    BY <1>1 DEF Inv, Shape, WellLinked, Clocks, Timed, Cursor, Ordered, Ahead, InList, Todo,
                Listed, Started, links
  <2> QED  BY <2>2, <2>3
<1>2. CASE Program
  <2>1. alarm = Head
    BY <1>2 DEF Program
  <2>2. ASSUME NEW a \in Alarm, Start(a) PROVE Inv' /\ Promise!Next
    BY <2>1, <2>2, StartStep DEF Promise!Next
  <2>3. ASSUME NEW a \in Alarm, Stop(a) PROVE Inv' /\ Promise!Next
    BY <2>3, StopStep DEF Promise!Next
  <2>4. ASSUME NEW t \in Times, SetTimeOfDay(t) PROVE Inv' /\ LeftNow' = LeftNow
    BY <1>1, <2>4 DEF SetTimeOfDay
  <2> QED  BY <1>2, <2>2, <2>3, <2>4 DEF Program
<1>3. CASE Tick
  BY <1>3, TickStep DEF Promise!Next
<1>4. CASE Visit
  BY <1>4, VisitStep
<1>5. CASE Callback
  <2>1. succ # Null
    BY <1>5 DEF Callback
  <2>2. ASSUME NEW a \in Alarm, a # alarm, Start(a) PROVE Inv' /\ Promise!Next
    BY <2>1, <2>2, StartStep DEF Promise!Next
  <2>3. ASSUME NEW a \in Alarm, Stop(a) PROVE Inv' /\ Promise!Next
    BY <2>3, StopStep DEF Promise!Next
  <2> QED  BY <1>5, <2>2, <2>3 DEF Callback
<1>6. CASE Return
  <2>1. alarm \in Alarm
    BY <1>6 DEF Inv, Cursor, Node, Return
  <2> QED  BY <1>6, <2>1, ReturnStep DEF Promise!Next
<1>7. CASE UNCHANGED vars
  BY <1>1, <1>7 DEF vars
<1> QED  BY <1>2, <1>3, <1>4, <1>5, <1>6, <1>7 DEF Next

-----------------------------------------------------------------------------
(* The theorems.                                                           *)

\* What settimeofday keeps.
Reset == resettime \in [sec : Int, usec : Int]

\* The clock of alt_tick.c and the difference that alt_settod.c keeps have their types.
THEOREM TypeCorrect == Spec => []TypeOK
<1>1. Init => Inv /\ Reset
  BY InvInit DEF Init, Reset
<1>2. Inv /\ Reset /\ [Next]_vars
      => Inv' /\ Reset'
  <2> SUFFICES ASSUME Inv, Reset, [Next]_vars
               PROVE  Reset'
    BY InvNext
  <2>1. ASSUME NEW t \in Times, SetTimeOfDay(t) PROVE Reset'
    <3> DEFINE q == nticks \div Rate  u == ((nticks * (US \div Rate)) % Word) % US
    <3>1. nticks \in Nat /\ t.sec \in Int /\ t.usec \in Int /\ Rate \in Nat \ {0} /\ US \in Nat \ {0}
      BY RateAssumption, TimesAssumption DEF Inv, Clocks
    <3>2. q \in Int /\ US \div Rate \in Int
      BY <3>1
    <3>3. nticks * (US \div Rate) \in Int
      BY <3>1, <3>2
    <3>4. u \in Int
      BY <3>1, <3>3
    <3>5. resettime' = [sec |-> t.sec - q, usec |-> t.usec - u]
      BY <2>1 DEF SetTimeOfDay
    <3> HIDE DEF q, u
    <3> QED  BY <3>1, <3>2, <3>4, <3>5 DEF Reset
  <2>2. CASE resettime' = resettime
    BY <2>2 DEF Reset
  <2> QED  BY <2>1, <2>2 DEF Next, Program, Tick, Visit, Callback, Return, Start, Stop, vars
<1>3. Inv /\ Reset => TypeOK
  BY DEF Inv, Shape, Clocks, Cursor, Reset, TypeOK
<1> QED  BY <1>1, <1>2, <1>3, PTL DEF Spec

\* The links of the alarm list (alt_llist.h) agree in both directions at every step of
\* alt_tick, whatever alarms its callbacks start and stop.
THEOREM LinksAgree == Spec => []WellLinked
<1>1. Init => Inv
  BY InvInit
<1>2. Inv /\ [Next]_vars => Inv'
  BY InvNext
<1>3. Inv => WellLinked
  BY DEF Inv, Shape
<1> QED  BY <1>1, <1>2, <1>3, PTL DEF Spec

\* Every alarm goes off after exactly the ticks that alt_alarm_start was given or that
\* its callback returned, across the roll-over of the counter (alt_tick.c): none is late,
\* early, called twice or forgotten, however the list changes during the walk.
THEOREM KeepsPromise == Spec => ImplementsCountdown
<1>1. Init => Inv /\ Promise!Init
  BY InvInit
<1>2. Inv /\ [Next]_vars => Inv' /\ [Promise!Next]_LeftNow
  BY InvNext
<1> QED  BY <1>1, <1>2, PTL DEF Spec, ImplementsCountdown, Promise!Spec, LeftNow

-----------------------------------------------------------------------------
(* The time of day.                                                        *)

\* What a division is, from both sides.
LEMMA Quotient ==
  ASSUME NEW n \in Nat, NEW d \in Nat \ {0}
  PROVE  /\ n \div d \in Nat /\ n - (n \div d) * d \in 0 .. d - 1
         /\ n = (n \div d) * d + (n - (n \div d) * d)
<1>1. n \div d \in Nat
  OBVIOUS
<1>2. (n \div d) * d <= n
  OBVIOUS
<1>3. n < (n \div d) * d + d
  OBVIOUS
<1> DEFINE x == (n \div d) * d
<1>4. x \in Int
  BY <1>1
<1> HIDE DEF x
<1>5. n - x \in 0 .. d - 1 /\ n = x + (n - x)
  BY <1>2, <1>3, <1>4 DEF x
<1> QED  BY <1>1, <1>5 DEF x

\* And a sum of a multiple and less than the divisor is divided so.
LEMMA Divided ==
  ASSUME NEW d \in Nat \ {0}, NEW q \in Nat, NEW r \in 0 .. d - 1, NEW n \in Nat, n = q * d + r
  PROVE  n \div d = q /\ n % d = r
<1>1. n \div d = q
  OBVIOUS
<1>2. n % d = r
  OBVIOUS
<1> QED  BY <1>1, <1>2

\* A product grows with its factors.
LEMMA Larger == ASSUME NEW a \in Nat, NEW b \in Nat, a <= b, NEW c \in Nat
                PROVE  a * c \in Nat /\ a * c <= b * c
OBVIOUS

\* The product of a sum.
LEMMA Distribute ==
  ASSUME NEW q \in Nat, NEW m \in Nat, NEW R \in Nat, NEW D \in Nat
  PROVE  (q * R + m) * D = q * (D * R) + m * D
OBVIOUS

\* The whole microseconds of a tick; they are less than a second, and none if there are
\* more ticks than microseconds.
Step == US \div Rate

LEMMA StepIs == Rate \in Nat \ {0} /\ US \in Nat \ {0} /\ Step \in 0 .. US
<1>1. Rate \in Nat \ {0} /\ US \in Nat \ {0}
  BY RateAssumption
<1>2. Step \in Nat /\ US - Step * Rate \in 0 .. Rate - 1
  BY <1>1, Quotient DEF Step
<1>3. Step <= Step * Rate /\ Step * Rate \in Nat
  BY <1>1, <1>2
<1> QED  BY <1>1, <1>2, <1>3

\* Adding no more than the divisor completes a quotient or not.
LEMMA Adding ==
  ASSUME NEW d \in Nat \ {0}, NEW n \in Nat, NEW k \in 0 .. d
  PROVE  /\ n % d \in 0 .. d - 1 /\ (n + k) % d \in 0 .. d - 1
         /\ n \div d \in Nat /\ (n + k) \div d \in Nat
         /\ \/ (n + k) \div d = n \div d     /\ (n + k) % d = (n % d) + k
            \/ (n + k) \div d = n \div d + 1 /\ (n + k) % d = (n % d) + k - d
<1> DEFINE q == n \div d  r == n - (n \div d) * d
<1>1. q \in Nat /\ r \in 0 .. d - 1 /\ n = q * d + r
  BY Quotient
<1>2. n \div d = q
  OBVIOUS
<1> HIDE DEF q, r
<1>3. n % d = r
  BY <1>1, Divided
<1>4. CASE r + k \in 0 .. d - 1
  <2>1. n + k = q * d + (r + k) /\ n + k \in Nat
    BY <1>1
  <2>2. (n + k) \div d = q /\ (n + k) % d = r + k
    BY <1>1, <1>4, <2>1, Divided
  <2> QED  BY <1>1, <1>2, <1>3, <1>4, <2>2
<1>5. CASE r + k - d \in 0 .. d - 1
  <2> DEFINE x == n + k  y == q + 1  z == r + k - d
  <2>1. x \in Nat /\ y \in Nat /\ z \in 0 .. d - 1 /\ x = y * d + z
    BY <1>1, <1>5
  <2> HIDE DEF x, y, z
  <2>2. x \div d = y /\ x % d = z
    BY <2>1, Divided
  <2>3. z = r + k - d
    BY DEF z
  <2> QED  BY <1>1, <1>2, <1>3, <1>5, <2>1, <2>2, <2>3 DEF x, y
<1> QED  BY <1>1, <1>4, <1>5

\* The microseconds of n ticks.
Micro(n) == n * Step

\* A tick adds its microseconds or passes a whole second of them.
LEMMA OneTick ==
  ASSUME NEW n \in Nat
  PROVE  /\ n \div Rate \in Nat
         /\ (n + 1) \div Rate \in {n \div Rate, n \div Rate + 1}
         /\ Micro(n) % US \in 0 .. US - 1 /\ Micro(n + 1) % US \in 0 .. US - 1
         /\ \/ /\ Micro(n + 1) \div US = Micro(n) \div US
               /\ Micro(n + 1) % US = (Micro(n) % US) + Step
            \/ /\ Micro(n + 1) \div US # Micro(n) \div US
               /\ Micro(n + 1) % US = (Micro(n) % US) + Step - US
<1>1. n \div Rate \in Nat /\ (n + 1) \div Rate \in {n \div Rate, n \div Rate + 1}
  BY StepIs, Adding
<1> DEFINE p == Micro(n)
<1>2. p \in Nat /\ Micro(n + 1) = p + Step
  BY StepIs DEF Micro
<1> HIDE DEF p
<1>3. /\ p % US \in 0 .. US - 1 /\ (p + Step) % US \in 0 .. US - 1
      /\ p \div US \in Nat
      /\ \/ (p + Step) \div US = p \div US     /\ (p + Step) % US = (p % US) + Step
         \/ (p + Step) \div US = p \div US + 1 /\ (p + Step) % US = (p % US) + Step - US
  BY StepIs, <1>2, Adding
<1>4. p \div US + 1 # p \div US
  BY <1>3
<1> QED  BY <1>1, <1>2, <1>3, <1>4 DEF p

\* What settimeofday keeps is a difference of less than a second in its microseconds.
Offset == resettime \in [sec : Int, usec : -(US - 1) .. US - 1]

\* It stays so.
LEMMA OffsetNext == Inv /\ Offset /\ [Next]_vars => Offset'
<1> SUFFICES ASSUME Inv, Offset, [Next]_vars PROVE Offset'
  OBVIOUS
<1>1. ASSUME NEW t \in Times, SetTimeOfDay(t) PROVE Offset'
  <2> DEFINE q == nticks \div Rate  p == (nticks * Step) % Word  u == p % US
  <2>1. nticks \in Nat /\ t.sec \in Int /\ t.usec \in 0 .. US - 1
    BY TimesAssumption DEF Inv, Clocks
  <2>2. q \in Int
    BY <2>1, StepIs
  <2>3. nticks * Step \in Nat
    BY <2>1, StepIs
  <2>4. p \in Nat
    <3>1. ASSUME NEW x \in Nat PROVE x % Word \in Nat
      BY WordAssumption
    <3> QED  BY <2>3, <3>1
  <2>5. u \in 0 .. US - 1
    BY <2>4, StepIs
  <2>6. resettime' = [sec |-> t.sec - q, usec |-> t.usec - u]
    BY <1>1 DEF SetTimeOfDay, Step
  <2> HIDE DEF q, u
  <2>7. t.sec - q \in Int /\ t.usec - u \in -(US - 1) .. US - 1
    BY <2>1, <2>2, <2>5, StepIs
  <2> QED  BY <2>6, <2>7 DEF Offset
<1>2. CASE resettime' = resettime
  BY <1>2 DEF Offset
<1> QED  BY <1>1, <1>2 DEF Next, Program, Tick, Visit, Callback, Return, Start, Stop, vars

\* The clamps of gettimeofday.
Clamped(s, u) == IF u >= US THEN [sec |-> s + 1, usec |-> u - US]
                 ELSE IF u >= 0 THEN [sec |-> s, usec |-> u]
                 ELSE IF s > 0 THEN [sec |-> s - 1, usec |-> u + US]
                 ELSE [sec |-> 0, usec |-> 0]

\* They keep the order of two times, in one second or in two that follow each other.
LEMMA ClampedLater ==
  ASSUME NEW s \in Nat, NEW u \in Int, NEW v \in Int, u <= v, v < 2 * US
  PROVE  Earlier(Clamped(s, u), Clamped(s, v))
BY StepIs DEF Clamped, Earlier

LEMMA ClampedNextSecond ==
  ASSUME NEW s \in Nat, NEW u \in Int, NEW v \in Int, u <= v + US, u < 2 * US, -US <= v, v < 2 * US
  PROVE  Earlier(Clamped(s, u), Clamped(s + 1, v))
BY StepIs DEF Clamped, Earlier

\* And a time that is not a second less is not a second earlier.
LEMMA ClampedSecondBack ==
  ASSUME NEW s \in Nat, NEW u \in Int, NEW v \in Int, u <= v + US, u < 2 * US, -US <= v, v < 2 * US
  PROVE  Earlier(Clamped(s, u), [Clamped(s, v) EXCEPT !.sec = @ + 1])
<1>1. CASE v >= US
  BY <1>1, StepIs DEF Clamped, Earlier
<1>2. CASE v \in 0 .. US - 1
  BY <1>2, StepIs DEF Clamped, Earlier
<1>3. CASE v < 0 /\ s > 0
  BY <1>3, StepIs DEF Clamped, Earlier
<1>4. CASE v < 0 /\ s = 0
  BY <1>4, StepIs DEF Clamped, Earlier
<1> QED  BY <1>1, <1>2, <1>3, <1>4, StepIs

\* What GoesForward allows a step.
Forward == \/ Earlier(TimeOfDay, TimeOfDay')
           \/ Slips /\ Earlier(TimeOfDay, [TimeOfDay' EXCEPT !.sec = @ + 1])

\* A tick that does not roll the counter over takes the time of day forward, or it slips.
LEMMA TickForward ==
  ASSUME Inv, Offset, Tick, nticks' = nticks + 1, resettime.sec + nticks \div Rate >= 0
  PROVE  Forward
<1> DEFINE n == nticks  f == Micro(n) % US  g == Micro(n + 1) % US
           s == resettime.sec + n \div Rate  z == resettime.sec + (n + 1) \div Rate
           c == resettime.usec
           passes == Micro(n + 1) \div US # Micro(n) \div US
<1>1. n \in Nat /\ resettime.sec \in Int /\ c \in -(US - 1) .. US - 1
  BY DEF Inv, Clocks, Offset
<1>2. TimeOfDay = Clamped(s, c + f)
  BY DEF TimeOfDay, Fraction, Clamped, Step, Micro
<1>3. TimeOfDay' = Clamped(z, c + g)
  BY DEF TimeOfDay, Fraction, Clamped, Step, Micro, Tick
<1>4. Slips <=> (n + 1) \div Rate = n \div Rate /\ passes
  BY DEF Slips, Micro, Step
<1>5. /\ s \in Nat /\ f \in 0 .. US - 1 /\ g \in 0 .. US - 1
      /\ z = s \/ z = s + 1
      /\ (~passes /\ g = f + Step) \/ (passes /\ g = f + Step - US)
      /\ z = s /\ passes => Slips
  <2> DEFINE q == n \div Rate  p == (n + 1) \div Rate
  <2>1. /\ q \in Nat /\ p \in {q, q + 1}
        /\ f \in 0 .. US - 1 /\ g \in 0 .. US - 1
        /\ (~passes /\ g = f + Step) \/ (passes /\ g = f + Step - US)
    BY <1>1, OneTick
  <2>2. s = resettime.sec + q /\ z = resettime.sec + p /\ s >= 0
    OBVIOUS
  <2>3. Slips <=> p = q /\ passes
    BY <1>4
  <2> HIDE DEF q, p, s, z, f, g, passes
  <2> QED  BY <1>1, <2>1, <2>2, <2>3
<1> HIDE DEF n, f, g, s, z, c, passes
<1>6. /\ c + f \in Int /\ c + g \in Int /\ c + f < 2 * US /\ c + g < 2 * US /\ -US <= c + g
      /\ c + f <= (c + g) + US
  BY <1>1, <1>5, StepIs
<1>7. CASE z = s + 1
  BY <1>2, <1>3, <1>5, <1>6, <1>7, ClampedNextSecond DEF Forward
<1>8. CASE z = s /\ ~passes
  <2>1. c + f <= c + g
    BY <1>1, <1>5, <1>8, StepIs
  <2> QED  BY <1>2, <1>3, <1>5, <1>6, <1>8, <2>1, ClampedLater DEF Forward
<1>9. CASE z = s /\ passes
  <2>1. Earlier(Clamped(s, c + f), [Clamped(s, c + g) EXCEPT !.sec = @ + 1])
    BY <1>5, <1>6, ClampedSecondBack
  <2> QED  BY <1>2, <1>3, <1>5, <1>9, <2>1 DEF Forward
<1> QED  BY <1>5, <1>7, <1>8, <1>9

\* gettimeofday (alt_gettod.c) does not go back from a tick to the next, whatever
\* settimeofday was given and when and whatever the rate, but at a tick that slips, and
\* then by no more than a second.
THEOREM DayGoesForward == Spec => GoesForward
<1>1. Init => Inv /\ Offset
  BY InvInit, StepIs DEF Init, Offset
<1>2. Inv /\ Offset /\ [Next]_vars => Inv' /\ Offset'
  BY InvNext, OffsetNext
<1>3. Inv /\ Offset /\ [Next]_vars
      => [nticks' = nticks + 1 /\ resettime.sec + nticks \div Rate >= 0
          => \/ Earlier(TimeOfDay, TimeOfDay')
             \/ Slips /\ Earlier(TimeOfDay, [TimeOfDay' EXCEPT !.sec = @ + 1])]_vars
  <2> SUFFICES ASSUME Inv, Offset, Next, nticks' = nticks + 1,
                      resettime.sec + nticks \div Rate >= 0
               PROVE  Forward
    BY DEF Forward
  <2>1. nticks' # nticks
    BY DEF Inv, Clocks
  <2>2. Tick
    BY <2>1 DEF Next, Program, Start, Stop, SetTimeOfDay, Visit, Callback, Return
  <2> QED  BY <2>2, TickForward
<1> QED  BY <1>1, <1>2, <1>3, PTL DEF Spec, GoesForward

\* If the rate divides a second, the ticks of a second add up to it: n ticks are as many
\* whole seconds of microseconds as of ticks.
LEMMA WholeSeconds ==
  ASSUME US % Rate = 0, NEW n \in Nat
  PROVE  Micro(n) \div US = n \div Rate
<1> DEFINE r == US - (US \div Rate) * Rate
<1>1. US \div Rate \in Nat /\ r \in 0 .. Rate - 1 /\ US = (US \div Rate) * Rate + r
  BY StepIs, Quotient
<1> HIDE DEF r
<1>2. r = 0
  BY StepIs, <1>1, Divided
<1>3. Step \in Nat \ {0} /\ US = Step * Rate
  BY StepIs, <1>1, <1>2 DEF Step
<1> DEFINE q == n \div Rate  m == n - (n \div Rate) * Rate
<1>4. q \in Nat /\ m \in 0 .. Rate - 1 /\ n = q * Rate + m
  BY StepIs, Quotient
<1>5. n \div Rate = q
  OBVIOUS
<1> HIDE DEF q, m
<1>6. Micro(n) = q * US + m * Step /\ Micro(n) \in Nat
  BY StepIs, <1>3, <1>4, Distribute DEF Micro
<1>7. m * Step \in 0 .. US - 1
  <2>1. m * Step \in Nat /\ m * Step <= (Rate - 1) * Step
    BY StepIs, <1>4, Larger
  <2>2. (Rate - 1) * Step = US - Step
    BY StepIs, <1>3
  <2> QED  BY <1>3, <2>1, <2>2, StepIs
<1>8. Micro(n) \div US = q
  <2> DEFINE x == Micro(n)  y == m * Step
  <2>1. x \in Nat /\ y \in 0 .. US - 1 /\ x = q * US + y
    BY <1>6, <1>7
  <2> HIDE DEF x, y
  <2>2. x \div US = q
    BY <1>4, <2>1, StepIs, Divided
  <2> QED  BY <2>2 DEF x
<1> QED  BY <1>5, <1>8

\* At such a rate the time of day never goes back but by settimeofday or the roll-over.
THEOREM DividingRateForward ==
  ASSUME US % Rate = 0
  PROVE  Spec => [][nticks' = nticks + 1 /\ resettime.sec + nticks \div Rate >= 0
                    => Earlier(TimeOfDay, TimeOfDay')]_vars
<1>1. Inv /\ [Next]_vars /\ nticks' = nticks + 1 => ~Slips
  <2> SUFFICES ASSUME Inv, nticks' = nticks + 1, Slips PROVE FALSE
    OBVIOUS
  <2>1. nticks \in Nat
    BY DEF Inv, Clocks
  <2>2. Micro(nticks) \div US = nticks \div Rate /\ Micro(nticks + 1) \div US = (nticks + 1) \div Rate
    BY <2>1, WholeSeconds
  <2> QED  BY <2>2 DEF Slips, Micro, Step
<1>2. Init => Inv
  BY InvInit
<1>3. Inv /\ [Next]_vars => Inv'
  BY InvNext
<1>4. Inv /\ [Next]_vars
      /\ [nticks' = nticks + 1 /\ resettime.sec + nticks \div Rate >= 0
          => \/ Earlier(TimeOfDay, TimeOfDay')
             \/ Slips /\ Earlier(TimeOfDay, [TimeOfDay' EXCEPT !.sec = @ + 1])]_vars
      => [nticks' = nticks + 1 /\ resettime.sec + nticks \div Rate >= 0
          => Earlier(TimeOfDay, TimeOfDay')]_vars
  BY <1>1
<1> QED  BY <1>2, <1>3, <1>4, DayGoesForward, PTL DEF Spec, GoesForward

-----------------------------------------------------------------------------
(* One list.                                                               *)

\* An insertion keeps the head in every set that the links of a listed node stay in.
LEMMA InsertReached ==
  ASSUME Shape, HeadReached, NEW e \in Alarm, ~Listed(e), Insert(e)
  PROVE  HeadReached'
<1> SUFFICES ASSUME NEW S \in SUBSET Node, NEW k \in S, k = Head \/ Listed(k)',
                    \A n \in S : next'[n] \in S, Head \notin S
             PROVE  FALSE
  BY DEF HeadReached
<1>1. /\ next'[e] = next[Head] /\ next'[Head] = e
      /\ \A n \in Node \ {e, Head} : next'[n] = next[n]
  BY InsertShape
<1>2. \A n \in S \ {e} : next'[n] = next[n] /\ next[n] \in S /\ Started(n)
  BY <1>1 DEF Started, Node
<1>3. \A n \in S \ {e} : next[n] \in S \ {e}
  BY <1>2, NoStranger
<1>4. ASSUME NEW m \in S \ {e}, Listed(m) PROVE FALSE
  <2>1. S \ {e} \in SUBSET Node
    OBVIOUS
  <2> QED  BY <1>3, <1>4, <2>1 DEF HeadReached
<1>5. CASE e \in S
  <2>1. next[Head] \in S /\ next[Head] # Head
    BY <1>1, <1>5
  <2>2. next[Head] # e /\ InList(next[Head])
    BY NoStranger, NextInList DEF Shape, InList, Node
  <2> QED  BY <1>4, <2>1, <2>2 DEF InList
<1>6. CASE e \notin S
  BY <1>2, <1>4, <1>6 DEF Listed
<1> QED  BY <1>5, <1>6

\* And so does a removal.
LEMMA RemoveReached ==
  ASSUME Shape, HeadReached, NEW e \in Alarm, Started(e), Remove(e)
  PROVE  HeadReached'
<1> SUFFICES ASSUME NEW S \in SUBSET Node, NEW k \in S, k = Head \/ Listed(k)',
                    \A n \in S : next'[n] \in S, Head \notin S
             PROVE  FALSE
  BY DEF HeadReached
<1> DEFINE p == previous[e]
<1>1. /\ next'[e] = e /\ p \in Node /\ next[p] = e /\ (p # e => next'[p] = next[e])
      /\ \A n \in Node \ {e, p} : next'[n] = next[n]
  BY RemoveShape
<1>2. \A n \in Node : Started(n) /\ next[n] = e => n = p
  BY DEF Shape, WellLinked
<1> HIDE DEF p
<1>3. k # e /\ k \in Alarm /\ Listed(k)' /\ e # Null /\ e # Head
  BY <1>1 DEF Listed, Node
<1>4. Listed(k)
  BY <1>1, <1>3 DEF Listed, Node
<1>5. CASE p \in S /\ p # e
  <2>1. \A n \in S \cup {e} : next[n] \in S \cup {e}
    BY <1>1, <1>5
  <2>2. S \cup {e} \in SUBSET Node
    BY DEF Node
  <2> QED  BY <1>3, <1>4, <2>1, <2>2 DEF HeadReached
<1>6. CASE p \notin S \/ p = e
  <2>1. \A n \in S \ {e} : next[n] \in S \ {e}
    <3>1. ASSUME NEW n \in S \ {e} PROVE next[n] \in S \ {e}
      <4>1. next[n] \in S /\ n # p
        BY <1>1, <1>6
      <4>2. Started(n)
        BY <4>1 DEF Started, Node
      <4> QED  BY <1>2, <4>1, <4>2
    <3> QED  BY <3>1
  <2>2. S \ {e} \in SUBSET Node
    OBVIOUS
  <2> QED  BY <1>3, <1>4, <2>1, <2>2 DEF HeadReached
<1> QED  BY <1>5, <1>6

\* The alarm list (alt_llist.h) stays one list: from every alarm in it the walk of alt_tick
\* comes back to the head, whatever its callbacks start and stop.
THEOREM LeadsToHead == Spec => []HeadReached
<1>1. Init => Inv /\ HeadReached
  BY InvInit DEF Init, HeadReached, Listed, Node
<1>2. Inv /\ HeadReached /\ [Next]_vars => Inv' /\ HeadReached'
  <2> SUFFICES ASSUME Inv, HeadReached, [Next]_vars PROVE HeadReached'
    BY InvNext
  <2>1. ASSUME NEW a \in Alarm, Start(a) PROVE HeadReached'
    BY <2>1, InsertReached DEF Start, Inv
  <2>2. ASSUME NEW a \in Alarm, Started(a), Remove(a) PROVE HeadReached'
    BY <2>2, RemoveReached DEF Inv
  <2>3. CASE UNCHANGED links
    BY <2>3 DEF links, HeadReached, Listed
  <2>4. CASE Return
    <3>1. alarm \in Alarm /\ Started(alarm)
      BY <2>4 DEF Return, Inv, Cursor, Node
    <3> QED  BY <2>2, <2>3, <2>4, <3>1 DEF Return
  <2> QED  BY <2>1, <2>2, <2>3, <2>4
           DEF Next, Program, Callback, Stop, Tick, Visit, SetTimeOfDay, vars
<1> QED  BY <1>1, <1>2, PTL DEF Spec

\* Both together (alt_llist.h): whatever callbacks do, alt_tick finds one ring
\* of entries, each linked to the next and back.
THEOREM StaysOneList == Spec => []OneList
<1>1. WellLinked /\ HeadReached => OneList
  BY DEF OneList
<1> QED  BY <1>1, LinksAgree, LeadsToHead, PTL

=============================================================================
