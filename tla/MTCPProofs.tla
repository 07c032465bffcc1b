----------------------------- MODULE MTCPProofs -----------------------------
(***************************************************************************)
(* What TLAPS proves of MTCP, for any number of hosts, peers, connections  *)
(* and messages of any size.                                               *)
(***************************************************************************)
EXTENDS MTCP, SequenceTheorems, TLAPS

-----------------------------------------------------------------------------
(* The inductive invariant: the type invariant and four more parts.  What  *)
(* SuccessNotLost needs besides, TakenInv and HostInv, stands before it.   *)

(* No connection twice in a list. *)
Distinct(s) == \A i, j \in DOMAIN s : s[i] = s[j] => i = j

(* The tables of a host hold only what was opened to it and is not closed. *)
TablesInv ==
    \A n \in Hosts :
        /\ Distinct(waiting[n]) /\ Distinct(open[n]) /\ Distinct(graceful[n])
        /\ ToSet(waiting[n]) \intersect ToSet(open[n]) = {}
        /\ ToSet(waiting[n]) \intersect ToSet(graceful[n]) = {}
        /\ ToSet(open[n]) \intersect ToSet(graceful[n]) = {}
        /\ \A c \in Held(n) : c \notin closed /\ outcome[c] # "unused" /\ link[c][2] = n

(* A loop has still to look at connections of its table, each once, and it *)
(* is in the middle of a message of the first of them only.                *)
LoopOK(n) ==
    /\ task[n].op = "open" => ToSet(task[n].todo) \subseteq ToSet(open[n])
    /\ task[n].op = "graceful" => ToSet(task[n].todo) \subseteq ToSet(graceful[n])
    /\ Distinct(task[n].todo)
    /\ task[n].op = "send" => task[n].connection \in Connections
    /\ IF task[n].op \in {"idle", "send"}
       THEN task[n].todo = << >> /\ task[n].partial = << >>
       ELSE task[n].todo # << >>

LoopsInv == \A n \in Hosts : LoopOK(n)

(* A connection holds units that follow each other, up to the next to be   *)
(* written, and none before it is established or once it is closed.        *)
UnitsOK(c) ==
    /\ upcoming[c][1] \in 1 .. Len(offered[c]) + 1
    /\ \A k \in 1 .. Len(buffer[c]) :
           /\ buffer[c][k][1] \in 1 .. Len(offered[c])
           /\ After(c, buffer[c][k]) = IF k = Len(buffer[c]) THEN upcoming[c] ELSE buffer[c][k + 1]
           /\ After(c, buffer[c][k])[1] <= upcoming[c][1]
    /\ buffer[c] # << >> => Established(c) /\ c \notin reset
    /\ outcome[c] = "unused" => upcoming[c] = <<1, 1>> /\ taken[c] = << >> /\ c \notin reset
    /\ c \in reset => outcome[c] # "pending"

UnitsInv == \A c \in Connections : UnitsOK(c)

(* What the receiver finds next in a connection. *)
Following(c) == IF buffer[c] = << >> THEN upcoming[c] ELSE Head(buffer[c])

Reading(n, c) == task[n].partial # << >> /\ Head(task[n].todo) = c

(* It goes on where it is: at the next message or within it.               *)
ReadOK(c) ==
    /\ \A n \in Hosts : Reading(n, c) =>
           LET partial == task[n].partial
               at      == Len(taken[c]) + 1
           IN  /\ at <= Len(offered[c])
               /\ Len(partial) < Size[offered[c][at]]
               /\ partial = [j \in 1 .. Len(partial) |-> <<at, j>>]
               /\ c \notin reset => Following(c) = <<at, Len(partial) + 1>>
    /\ c \notin closed \union reset /\ (\A n \in Hosts : ~ Reading(n, c))
           => Following(c) = <<Len(taken[c]) + 1, 1>>

ReadInv == \A c \in Connections : ReadOK(c)

IInv == TypeOK /\ TablesInv /\ LoopsInv /\ UnitsInv /\ ReadInv

-----------------------------------------------------------------------------
(* Lists of connections.                                                   *)

(* A connection put at the end of a list. *)
LEMMA AppendList ==
    ASSUME NEW S, NEW s \in Seq(S), NEW c \in S
    PROVE  /\ Append(s, c) \in Seq(S)
           /\ ToSet(Append(s, c)) = ToSet(s) \union {c}
           /\ Distinct(s) /\ c \notin ToSet(s) => Distinct(Append(s, c))
<1> DEFINE a == Append(s, c)
<1>1. a \in Seq(S) /\ Len(a) = Len(s) + 1
  OBVIOUS
<1>2. a[Len(s) + 1] = c /\ \A i \in 1 .. Len(s) : a[i] = s[i]
  OBVIOUS
<1> HIDE DEF a
<1>3. DOMAIN s = 1 .. Len(s) /\ DOMAIN a = 1 .. Len(s) + 1 /\ Len(s) \in Nat
  BY <1>1
<1>4. ToSet(a) = ToSet(s) \union {c}
  BY <1>2, <1>3 DEF ToSet
<1>5. Distinct(s) /\ c \notin ToSet(s) => Distinct(a)
  BY <1>2, <1>3 DEF ToSet, Distinct
<1> QED BY <1>1, <1>4, <1>5 DEF a

(* A list without its first connection. *)
LEMMA TailList ==
    ASSUME NEW S, NEW s \in Seq(S), s # << >>
    PROVE  /\ Head(s) \in S /\ Tail(s) \in Seq(S)
           /\ Head(s) \in ToSet(s) /\ ToSet(Tail(s)) \subseteq ToSet(s)
           /\ ToSet(s) = ToSet(Tail(s)) \union {Head(s)}
           /\ Distinct(s) => Distinct(Tail(s)) /\ Head(s) \notin ToSet(Tail(s))
<1>1. Head(s) \in S /\ Tail(s) \in Seq(S) /\ Head(s) = s[1]
  OBVIOUS
<1>2. DOMAIN s = 1 .. Len(s) /\ Len(s) \in Nat \ {0}
  OBVIOUS
<1>3. DOMAIN Tail(s) = 1 .. Len(s) - 1 /\ \A i \in 1 .. Len(s) - 1 : Tail(s)[i] = s[i + 1]
  BY <1>2
<1>4. Head(s) \in ToSet(s) /\ ToSet(Tail(s)) \subseteq ToSet(s)
  BY <1>1, <1>2, <1>3 DEF ToSet
<1>5. ToSet(s) \subseteq ToSet(Tail(s)) \union {Head(s)}
  <2> SUFFICES ASSUME NEW i \in 1 .. Len(s), i # 1 PROVE s[i] \in ToSet(Tail(s))
    BY <1>1, <1>2 DEF ToSet
  <2>1. i - 1 \in 1 .. Len(s) - 1
    BY <1>2
  <2>2. Tail(s)[i - 1] = s[i]
    BY <1>3, <2>1
  <2> QED BY <1>3, <2>1, <2>2 DEF ToSet
<1>6. Distinct(s) => Distinct(Tail(s)) /\ Head(s) \notin ToSet(Tail(s))
  <2> SUFFICES ASSUME Distinct(s)
               PROVE  Distinct(Tail(s)) /\ Head(s) \notin ToSet(Tail(s))
    OBVIOUS
  <2>1. Distinct(Tail(s))
    BY <1>2, <1>3 DEF Distinct
  <2>2. ASSUME NEW i \in 1 .. Len(s) - 1 PROVE Tail(s)[i] # s[1]
    <3>1. i + 1 \in 1 .. Len(s) /\ 1 \in 1 .. Len(s) /\ i + 1 # 1
      BY <1>2
    <3>2. s[i + 1] # s[1]
      BY <1>2, <3>1 DEF Distinct
    <3> QED BY <1>3, <3>2
  <2> QED BY <1>1, <1>3, <2>1, <2>2 DEF ToSet
<1> QED BY <1>1, <1>4, <1>5, <1>6

(* A list from which a connection is deleted. *)
LEMMA WithoutList ==
    ASSUME NEW S, NEW s \in Seq(S), NEW c
    PROVE  /\ Without(s, c) \in Seq(S)
           /\ Len(Without(s, c)) <= Len(s)
           /\ ToSet(Without(s, c)) \subseteq ToSet(s)
           /\ ToSet(s) \ {c} \subseteq ToSet(Without(s, c))
           /\ Distinct(s) => Distinct(Without(s, c)) /\ c \notin ToSet(Without(s, c))
<1>1. CASE c \notin ToSet(s)
  BY <1>1 DEF Without
<1>2. CASE c \in ToSet(s)
  <2> DEFINE at == CHOOSE i \in DOMAIN s : s[i] = c
             w  == Without(s, c)
  <2>1. at \in 1 .. Len(s) /\ s[at] = c
    BY <1>2 DEF ToSet
  <2>2. w = SubSeq(s, 1, at - 1) \o SubSeq(s, at + 1, Len(s))
    BY <1>2 DEF Without, RemoveAt
  <2> HIDE DEF at, w
  <2>3. /\ SubSeq(s, 1, at - 1) \in Seq(S) /\ Len(SubSeq(s, 1, at - 1)) = at - 1
        /\ \A i \in 1 .. at - 1 : SubSeq(s, 1, at - 1)[i] = s[i]
    <3>1. \A i \in 1 .. at - 1 : s[i] \in S
      BY <2>1
    <3> QED BY <2>1, <3>1, SubSeqProperties
  <2>4. /\ SubSeq(s, at + 1, Len(s)) \in Seq(S)
        /\ Len(SubSeq(s, at + 1, Len(s))) = Len(s) - at
        /\ \A i \in 1 .. Len(s) - at : SubSeq(s, at + 1, Len(s))[i] = s[at + i]
    <3>1. \A i \in at + 1 .. Len(s) : s[i] \in S
      BY <2>1
    <3> QED BY <2>1, <3>1, SubSeqProperties
  <2>5. /\ w \in Seq(S) /\ Len(w) = Len(s) - 1
        /\ \A i \in 1 .. Len(s) - 1 : w[i] = IF i < at THEN s[i] ELSE s[i + 1]
    <3> DEFINE l == SubSeq(s, 1, at - 1)
               r == SubSeq(s, at + 1, Len(s))
    <3>1. /\ l \in Seq(S) /\ Len(l) = at - 1 /\ \A i \in 1 .. at - 1 : l[i] = s[i]
          /\ r \in Seq(S) /\ Len(r) = Len(s) - at
          /\ \A i \in 1 .. Len(s) - at : r[i] = s[at + i]
      BY <2>3, <2>4
    <3>2. w = l \o r
      BY <2>2
    <3> HIDE DEF l, r
    <3>3. w \in Seq(S) /\ Len(w) = Len(l) + Len(r)
      BY <3>1, <3>2
    <3>4. \A i \in 1 .. Len(l) + Len(r) : w[i] = IF i <= Len(l) THEN l[i] ELSE r[i - Len(l)]
      BY <3>1, <3>2, ConcatProperties
    <3>5. Len(s) \in Nat /\ Len(w) = Len(s) - 1
      BY <2>1, <3>1, <3>3
    <3>6. ASSUME NEW i \in 1 .. Len(s) - 1
          PROVE  w[i] = IF i < at THEN s[i] ELSE s[i + 1]
      <4>1. /\ i \in 1 .. Len(l) + Len(r) /\ Len(l) = at - 1 /\ Len(r) = Len(s) - at
            /\ at \in 1 .. Len(s) /\ Len(s) \in Nat
        BY <2>1, <3>1, <3>5
      <4>2. w[i] = IF i <= Len(l) THEN l[i] ELSE r[i - Len(l)]
        BY <3>4, <4>1
      <4>3. CASE i < at
        <5>1. i <= Len(l) /\ i \in 1 .. at - 1
          BY <4>1, <4>3
        <5>2. l[i] = s[i]
          BY <3>1, <5>1
        <5> QED BY <4>2, <4>3, <5>1, <5>2
      <4>4. CASE ~ i < at
        <5>1. /\ ~ i <= Len(l) /\ i - Len(l) \in 1 .. Len(s) - at
              /\ at + (i - Len(l)) = i + 1
          BY <4>1, <4>4
        <5>2. r[i - Len(l)] = s[at + (i - Len(l))]
          BY <3>1, <5>1
        <5> QED BY <4>2, <4>4, <5>1, <5>2
      <4> QED BY <4>3, <4>4
    <3> QED BY <3>3, <3>5, <3>6
  <2>6. \A i \in 1 .. Len(s) - 1 : w[i] = IF i < at THEN s[i] ELSE s[i + 1]
    BY <2>5
  <2> DOMAIN s = 1 .. Len(s) /\ DOMAIN w = 1 .. Len(s) - 1 /\ Len(s) \in Nat
    BY <2>5
  <2>7. ToSet(w) \subseteq ToSet(s)
    <3> SUFFICES ASSUME NEW i \in 1 .. Len(s) - 1 PROVE w[i] \in ToSet(s)
      BY <2>5 DEF ToSet
    <3> QED BY <2>6 DEF ToSet
  <2>8. ToSet(s) \ {c} \subseteq ToSet(w)
    <3> SUFFICES ASSUME NEW i \in 1 .. Len(s), i # at PROVE s[i] \in ToSet(w)
      BY <2>1 DEF ToSet
    <3>1. CASE i < at
      BY <2>1, <2>5, <2>6, <3>1 DEF ToSet
    <3>2. CASE at < i
      <4>1. i - 1 \in 1 .. Len(s) - 1 /\ w[i - 1] = s[i]
        BY <2>1, <2>6, <3>2
      <4> QED BY <2>5, <4>1 DEF ToSet
    <3> QED BY <2>1, <3>1, <3>2
  <2>9. ASSUME Distinct(s) PROVE Distinct(w) /\ c \notin ToSet(w)
    <3>1. \A i, j \in 1 .. Len(s) : s[i] = s[j] => i = j
      BY <2>9 DEF Distinct
    <3>2. \A i, j \in 1 .. Len(s) - 1 : w[i] = w[j] => i = j
      BY <2>1, <2>6, <3>1
    <3>3. \A i \in 1 .. Len(s) - 1 : w[i] # c
      BY <2>1, <2>6, <3>1
    <3> QED BY <2>5, <3>2, <3>3 DEF Distinct, ToSet
  <2> QED BY <2>5, <2>7, <2>8, <2>9 DEF w
<1> QED BY <1>1, <1>2

(* Where a loop goes on: with the same table, with the other, or nowhere.  *)
LEMMA LoopGoesOn ==
    ASSUME NEW op \in {"open", "graceful"}, NEW todo \in Seq(Connections),
           NEW shut_down \in Seq(Connections)
    PROVE  /\ InLoop(op, todo, shut_down) \in Tasks
           /\ InLoop(op, todo, shut_down).partial = << >>
           /\ \/ InLoop(op, todo, shut_down) = Idle
              \/ /\ InLoop(op, todo, shut_down).op = op
                 /\ InLoop(op, todo, shut_down).todo = todo /\ todo # << >>
              \/ /\ op = "open" /\ InLoop(op, todo, shut_down).op = "graceful"
                 /\ InLoop(op, todo, shut_down).todo = shut_down /\ shut_down # << >>
<1>1. \A o \in {"open", "graceful", "idle"}, l \in Seq(Connections) :
          Doing(o, None, l) \in Tasks /\ Doing(o, None, l).partial = << >>
  BY DEF Doing, Tasks
<1>2. \A o, l : Doing(o, None, l).op = o /\ Doing(o, None, l).todo = l
  BY DEF Doing
<1>3. << >> \in Seq(Connections)
  OBVIOUS
<1>4. CASE todo # << >>
  BY <1>1, <1>2, <1>4 DEF InLoop
<1>5. CASE todo = << >> /\ op = "open" /\ shut_down # << >>
  BY <1>1, <1>2, <1>5 DEF InLoop
<1>6. CASE todo = << >> /\ ~ (op = "open" /\ shut_down # << >>)
  BY <1>1, <1>2, <1>3, <1>6 DEF InLoop, Idle
<1> QED BY <1>4, <1>5, <1>6

-----------------------------------------------------------------------------
(* Type correctness.                                                       *)

(* What is read from a connection in a loop of poll(). *)
LEMMA LoopAt ==
    ASSUME IInv, NEW n \in Hosts, NEW c, LooksAt(n, c)
    PROVE  /\ c \in Connections /\ c \in ToSet(task[n].todo)
           /\ task[n] \in Tasks /\ Tail(task[n].todo) \in Seq(Connections)
           /\ ToSet(task[n].todo) = ToSet(Tail(task[n].todo)) \union {c}
           /\ c \notin ToSet(Tail(task[n].todo))
           /\ \/ task[n].op = "open" /\ ToSet(task[n].todo) \subseteq ToSet(open[n])
              \/ task[n].op = "graceful" /\ ToSet(task[n].todo) \subseteq ToSet(graceful[n])
<1>1. task[n] \in Tasks /\ task[n].todo \in Seq(Connections) /\ task[n].todo # << >>
  BY DEF IInv, TypeOK, Tasks, LooksAt
<1>2. c = Head(task[n].todo) /\ task[n].op \in {"open", "graceful"}
  BY DEF LooksAt
<1>3. Distinct(task[n].todo)
  BY DEF IInv, LoopsInv, LoopOK
<1>4. \/ task[n].op = "open" /\ ToSet(task[n].todo) \subseteq ToSet(open[n])
      \/ task[n].op = "graceful" /\ ToSet(task[n].todo) \subseteq ToSet(graceful[n])
  BY <1>2 DEF IInv, LoopsInv, LoopOK
<1> QED BY <1>1, <1>2, <1>3, <1>4, TailList

(* The next task of a host whose loop goes on. *)
LEMMA GoOnTask ==
    ASSUME IInv, NEW n \in Hosts, NEW c, LooksAt(n, c), GoOn(n),
           graceful' \in [Hosts -> Seq(Connections)]
    PROVE  /\ task' \in [Hosts -> Tasks]
           /\ task' = [task EXCEPT ![n] = task'[n]]
           /\ task'[n] = InLoop(task[n].op, Tail(task[n].todo), graceful'[n])
           /\ task'[n].partial = << >>
<1> DEFINE t == InLoop(task[n].op, Tail(task[n].todo), graceful'[n])
<1>1. task' = [task EXCEPT ![n] = t]
  BY DEF GoOn
<1>2. task \in [Hosts -> Tasks]
  BY DEF IInv, TypeOK
<1>3. t \in Tasks /\ t.partial = << >>
  <2>1. /\ task[n].op \in {"open", "graceful"} /\ Tail(task[n].todo) \in Seq(Connections)
        /\ graceful'[n] \in Seq(Connections)
    BY LoopAt
  <2> QED BY <2>1, LoopGoesOn
<1> HIDE DEF t
<1>4. task'[n] = t
  BY <1>1, <1>2
<1> QED BY <1>1, <1>2, <1>3, <1>4 DEF t

(* What deleting a connection does to the tables of a host. *)
LEMMA DiscardLists ==
    ASSUME TypeOK, NEW n \in Hosts, NEW c \in Connections, Discard(n, c)
    PROVE  /\ open' \in [Hosts -> Seq(Connections)]
           /\ graceful' \in [Hosts -> Seq(Connections)]
           /\ waiting' = waiting
           /\ \A h \in Hosts : h # n => open'[h] = open[h] /\ graceful'[h] = graceful[h]
           /\ open'[n] = Without(open[n], c) /\ graceful'[n] = Without(graceful[n], c)
           /\ \A h \in Hosts : Len(open'[h]) <= MaxOpen
<1>1. /\ Without(open[n], c) \in Seq(Connections) /\ Without(graceful[n], c) \in Seq(Connections)
      /\ Len(Without(open[n], c)) <= Len(open[n])
  BY WithoutList DEF TypeOK
<1>2. /\ open' = [open EXCEPT ![n] = Without(open[n], c)]
      /\ graceful' = [graceful EXCEPT ![n] = Without(graceful[n], c)] /\ waiting' = waiting
  BY DEF Discard, TypeOK
<1>3. /\ open \in [Hosts -> Seq(Connections)] /\ graceful \in [Hosts -> Seq(Connections)]
      /\ \A h \in Hosts : Len(open[h]) \in Nat /\ Len(open[h]) <= MaxOpen
  BY DEF TypeOK
<1>4. Len(Without(open[n], c)) \in Nat /\ MaxOpen \in Nat
  BY <1>1, MTCPAssumption
<1> QED BY <1>1, <1>2, <1>3, <1>4

(* Closing a connection in a loop of poll() keeps the types. *)
LEMMA DiscardType ==
    ASSUME IInv, NEW n \in Hosts, NEW c, LooksAt(n, c), Discard(n, c), GoOn(n)
    PROVE  TypeOK'
<1>1. c \in Connections
  BY LoopAt
<1>2. /\ open' \in [Hosts -> Seq(Connections)] /\ graceful' \in [Hosts -> Seq(Connections)]
      /\ \A h \in Hosts : Len(open'[h]) <= MaxOpen
      /\ waiting' = waiting
  BY <1>1, DiscardLists DEF IInv
<1>3. task' \in [Hosts -> Tasks]
  BY <1>2, GoOnTask
<1>4. /\ buffer' \in [Connections -> Seq(Units)] /\ \A d \in Connections : Len(buffer'[d]) <= Capacity
      /\ expired' \in [Connections -> BOOLEAN] /\ closed' \subseteq Connections
  BY <1>1, MTCPAssumption DEF Discard, IInv, TypeOK
<1> QED BY <1>2, <1>3, <1>4 DEF Discard, IInv, TypeOK

(* A whole message is what follows the messages taken so far. *)
LEMMA ReceiveAt ==
    ASSUME IInv, NEW n \in Hosts, NEW c, LooksAt(n, c),
           task[n].partial # << >>, buffer[c] # << >>
    PROVE  LET at      == Len(taken[c]) + 1
               partial == Append(task[n].partial, Head(buffer[c]))
           IN  /\ at \in 1 .. Len(offered[c]) /\ offered[c][at] \in Messages
               /\ Head(buffer[c]) = <<at, Len(task[n].partial) + 1>>
               /\ partial \in Seq(Units) /\ Len(partial) = Len(task[n].partial) + 1
               /\ partial = [j \in 1 .. Len(partial) |-> <<at, j>>]
               /\ Len(partial) <= Size[offered[c][at]]
               /\ Complete(c, partial) <=> Len(partial) = Size[offered[c][at]]
               /\ Assembled(c, partial) = offered[c][at]
<1> DEFINE at == Len(taken[c]) + 1
           old == task[n].partial
           partial == Append(old, Head(buffer[c]))
<1>1. /\ c \in Connections /\ Reading(n, c)
      /\ old \in Seq(Units) /\ old # << >>
  BY LoopAt DEF LooksAt, Reading, Tasks
<1>2. taken[c] \in Seq(Messages) /\ offered[c] \in Seq(Messages) /\ buffer[c] \in Seq(Units)
  BY <1>1 DEF IInv, TypeOK
<1>3. c \notin reset
  BY <1>1 DEF IInv, UnitsInv, UnitsOK
<1>4. /\ at <= Len(offered[c]) /\ Len(old) < Size[offered[c][at]]
      /\ old = [j \in 1 .. Len(old) |-> <<at, j>>]
      /\ Head(buffer[c]) = <<at, Len(old) + 1>>
  BY <1>1, <1>3 DEF IInv, ReadInv, ReadOK, Following
<1>5. at \in 1 .. Len(offered[c]) /\ offered[c][at] \in Messages
  BY <1>2, <1>4
<1>6. Head(buffer[c]) \in Units /\ Len(old) \in Nat \ {0} /\ at \in Nat
  BY <1>1, <1>2
<1>7. partial \in Seq(Units) /\ Len(partial) = Len(old) + 1 /\ partial[Len(old) + 1] = Head(buffer[c])
  BY <1>1, <1>6
<1>8. \A j \in 1 .. Len(old) : partial[j] = old[j] /\ old[j] = <<at, j>>
  BY <1>1, <1>4, <1>6
<1>9. \A j \in 1 .. Len(partial) : partial[j] = <<at, j>>
  BY <1>4, <1>6, <1>7, <1>8
<1>10. partial = [j \in 1 .. Len(partial) |-> <<at, j>>]
  <2> HIDE DEF partial, at
  <2>1. partial \in [1 .. Len(partial) -> Units]
    BY <1>7
  <2> QED BY <1>9, <2>1
<1>11. Head(partial) = <<at, 1>>
  <2>1. Head(partial) = partial[1] /\ 1 \in 1 .. Len(partial)
    BY <1>6, <1>7
  <2> QED BY <1>9, <2>1
<1>12. Len(partial) <= Size[offered[c][at]]
  <2>1. Size[offered[c][at]] \in Nat
    BY <1>5, MTCPAssumption
  <2> QED BY <1>4, <1>6, <1>7, <2>1
<1> HIDE DEF partial, at, old
<1>13. Message(c, Head(partial)) = offered[c][at]
  BY <1>11 DEF Message
<1>14. /\ Complete(c, partial) <=> Len(partial) = Size[offered[c][at]]
       /\ Assembled(c, partial) = offered[c][at]
  BY <1>10, <1>11, <1>13 DEF Complete, Assembled
<1> QED BY <1>4, <1>5, <1>7, <1>10, <1>12, <1>14 DEF partial, at, old

(* The end of a connection, as its sender knows it. *)
LEMMA SettleType ==
    ASSUME TypeOK, NEW c \in Connections, NEW result \in {"succeeded", "failed"},
           Settle(c, result)
    PROVE  /\ outcome' \in [Connections -> {"unused", "pending", "succeeded", "failed"}]
           /\ closed' \subseteq Connections
<1>1. closed' \subseteq Connections
  BY DEF Settle, TypeOK
<1>2. outcome' = [outcome EXCEPT ![c] = result]
  BY DEF Settle
<1> QED BY <1>1, <1>2 DEF TypeOK

(* Every step keeps the types. *)
LEMMA TypeStep ==
    ASSUME IInv, [Next]_vars
    PROVE  TypeOK'
<1> USE DEF IInv
<1>1. ASSUME NEW n \in Hosts, NEW c \in Connections, NEW to \in Hosts, NEW m \in Bundles,
             SendTo(n, c, to, m)
      PROVE  TypeOK'
  <2>1. m \in Messages /\ <<m>> \in Seq(Messages) /\ Doing("send", c, << >>) \in Tasks
    BY MTCPAssumption DEF Doing, Tasks
  <2> QED BY <1>1, <2>1 DEF SendTo, Connect, TypeOK
<1>2. ASSUME NEW c \in Connections, NEW p \in Peers, NEW to \in Hosts, NEW s \in Scripts,
             PeerConnects(p, c, to, s)
      PROVE  TypeOK'
  <2>1. s \in Seq(Messages)
    BY MTCPAssumption
  <2> QED BY <1>2, <2>1 DEF PeerConnects, Connect, TypeOK
<1>3. ASSUME NEW n \in Hosts, Poll(n)
      PROVE  TypeOK'
  <2>1. /\ open' \in [Hosts -> Seq(Connections)] /\ waiting' \in [Hosts -> Seq(Connections)]
        /\ \A h \in Hosts : Len(waiting'[h]) <= MaxWaiting /\ Len(open'[h]) <= MaxOpen
    <3>1. CASE MayAccept(n)
      <4>1. /\ waiting[n] \in Seq(Connections) /\ waiting[n] # << >>
            /\ open[n] \in Seq(Connections) /\ Len(open[n]) < MaxOpen
            /\ MaxOpen \in Nat /\ MaxWaiting \in Nat
        BY <3>1, MTCPAssumption DEF MayAccept, TypeOK
      <4> DEFINE o == Append(open[n], Head(waiting[n]))
                 w == Tail(waiting[n])
      <4>2. o \in Seq(Connections) /\ w \in Seq(Connections)
        BY <4>1
      <4>3. Len(o) <= MaxOpen /\ Len(w) <= Len(waiting[n]) /\ Len(w) \in Nat
        BY <4>1
      <4>4. open' = [open EXCEPT ![n] = o] /\ waiting' = [waiting EXCEPT ![n] = w]
        BY <1>3, <3>1 DEF Poll
      <4> HIDE DEF o, w
      <4>5. open' \in [Hosts -> Seq(Connections)] /\ waiting' \in [Hosts -> Seq(Connections)]
        BY <4>2, <4>4 DEF TypeOK
      <4>6. /\ \A h \in Hosts : open'[h] = IF h = n THEN o ELSE open[h]
            /\ \A h \in Hosts : waiting'[h] = IF h = n THEN w ELSE waiting[h]
        BY <4>4 DEF TypeOK
      <4>7. \A h \in Hosts : Len(waiting[h]) <= MaxWaiting /\ Len(open[h]) <= MaxOpen
        BY DEF TypeOK
      <4>8. Len(w) <= MaxWaiting
        <5>1. Len(waiting[n]) \in Nat
          BY <4>1
        <5> QED BY <4>1, <4>3, <4>7, <5>1
      <4> QED BY <4>3, <4>5, <4>6, <4>7, <4>8
    <3>2. CASE ~ MayAccept(n)
      BY <1>3, <3>2 DEF Poll, TypeOK
    <3> QED BY <3>1, <3>2
  <2>2. task' \in [Hosts -> Tasks]
    <3>1. InLoop("open", open'[n], graceful[n]) \in Tasks
      <4>1. open'[n] \in Seq(Connections) /\ graceful[n] \in Seq(Connections)
        BY <2>1 DEF TypeOK
      <4> QED BY <4>1, LoopGoesOn
    <3> QED BY <1>3, <3>1 DEF Poll, TypeOK
  <2> QED BY <1>3, <2>1, <2>2 DEF Poll, TypeOK
<1>4. ASSUME NEW n \in Hosts, NEW c \in Connections, NothingYet(n, c)
      PROVE  TypeOK'
  <2> USE <1>4 DEF NothingYet
  <2>1. CASE task[n].op = "open" /\ expired[c] /\ n \in MicroPython /\ Discard(n, c)
    BY <2>1, DiscardType
  <2>2. CASE /\ UNCHANGED <<link, offered, outcome, upcoming, buffer, taken, expired,
                            waiting, open, graceful, closed, reset>>
    <3>1. task' \in [Hosts -> Tasks]
      BY <2>2, GoOnTask DEF TypeOK
    <3> QED BY <2>2, <3>1 DEF TypeOK
  <2>3. CASE /\ open' = [open EXCEPT ![n] = Without(@, c)]
             /\ graceful' = [graceful EXCEPT ![n] = Append(@, c)]
             /\ expired' = [expired EXCEPT ![c] = FALSE]
             /\ UNCHANGED <<link, offered, outcome, upcoming, buffer, taken,
                            waiting, closed, reset>>
    <3>1. graceful' \in [Hosts -> Seq(Connections)]
      <4>1. Append(graceful[n], c) \in Seq(Connections)
        BY DEF TypeOK
      <4> QED BY <2>3, <4>1 DEF TypeOK
    <3>2. task' \in [Hosts -> Tasks]
      BY <3>1, GoOnTask
    <3>3. open' \in [Hosts -> Seq(Connections)] /\ \A h \in Hosts : Len(open'[h]) <= MaxOpen
      <4>1. /\ Without(open[n], c) \in Seq(Connections)
            /\ Len(Without(open[n], c)) <= Len(open[n])
        BY WithoutList DEF TypeOK
      <4>2. /\ Len(Without(open[n], c)) \in Nat /\ MaxOpen \in Nat
            /\ \A h \in Hosts : Len(open[h]) \in Nat
        BY <4>1, MTCPAssumption DEF TypeOK
      <4> QED BY <2>3, <4>1, <4>2 DEF TypeOK
    <3> QED BY <2>3, <3>1, <3>2, <3>3 DEF TypeOK
  <2> QED BY <2>1, <2>2, <2>3
<1>5. ASSUME NEW n \in Hosts, NEW c \in Connections, RemoteClosed(n, c) \/ HeaderRefused(n, c)
      PROVE  TypeOK'
  BY <1>5, DiscardType DEF RemoteClosed, HeaderRefused, Header
<1>6. ASSUME NEW n \in Hosts, NEW c \in Connections, PollRaises(n, c)
      PROVE  TypeOK'
  <2>1. Idle \in Tasks
    BY DEF Idle, Doing, Tasks
  <2> QED BY <1>6, <2>1 DEF PollRaises, TypeOK
<1>7. ASSUME NEW n \in Hosts, NEW c \in Connections, HeaderRead(n, c)
      PROVE  TypeOK'
  <2>1. buffer[c] \in Seq(Units) /\ buffer[c] # << >> /\ c \in Connections /\ Len(buffer[c]) <= Capacity
    BY <1>7 DEF HeaderRead, Header, TypeOK
  <2>2. /\ Head(buffer[c]) \in Units /\ Tail(buffer[c]) \in Seq(Units)
        /\ Len(Tail(buffer[c])) <= Capacity
    BY <2>1, MTCPAssumption
  <2>3. [task[n] EXCEPT !.partial = <<Head(buffer[c])>>] \in Tasks
    <3>1. task[n] \in Tasks /\ <<Head(buffer[c])>> \in Seq(Units)
      BY <2>2 DEF TypeOK
    <3> QED BY <3>1 DEF Tasks
  <2>4. task' \in [Hosts -> Tasks]
    BY <1>7, <2>3 DEF HeaderRead, TypeOK
  <2> QED BY <1>7, <2>1, <2>2, <2>4 DEF HeaderRead, TypeOK
<1>8. ASSUME NEW n \in Hosts, NEW c \in Connections, Receive(n, c)
      PROVE  TypeOK'
  <2> DEFINE partial == Append(task[n].partial, Head(buffer[c]))
  <2>1. /\ buffer[c] \in Seq(Units) /\ buffer[c] # << >> /\ Len(buffer[c]) <= Capacity
        /\ LooksAt(n, c) /\ task[n].partial # << >>
    BY <1>8 DEF Receive, TypeOK
  <2>2. /\ Head(buffer[c]) \in Units /\ Tail(buffer[c]) \in Seq(Units)
        /\ Len(Tail(buffer[c])) <= Capacity
    BY <2>1, MTCPAssumption
  <2>3. partial \in Seq(Units) /\ Assembled(c, partial) \in Messages
    BY <2>1, ReceiveAt
  <2> HIDE DEF partial
  <2>4. CASE Complete(c, partial)
    <3>1. /\ taken' = [taken EXCEPT ![c] = Append(taken[c], Assembled(c, partial))]
          /\ expired' = [expired EXCEPT ![c] = FALSE]
          /\ task' = [task EXCEPT ![n] = Idle]
      BY <1>8, <2>4 DEF Receive, partial, TypeOK
    <3>2. Idle \in Tasks
      BY DEF Idle, Doing, Tasks
    <3>3. Append(taken[c], Assembled(c, partial)) \in Seq(Messages)
      BY <2>3 DEF TypeOK
    <3>4. buffer' = [buffer EXCEPT ![c] = Tail(buffer[c])]
      BY <1>8 DEF Receive, TypeOK
    <3>5. UNCHANGED <<link, offered, outcome, upcoming, waiting, open, graceful, closed, reset>>
      BY <1>8 DEF Receive
    <3> QED BY <2>2, <3>1, <3>2, <3>3, <3>4, <3>5 DEF TypeOK
  <2>5. CASE ~ Complete(c, partial)
    <3>1. [task[n] EXCEPT !.partial = partial] \in Tasks
      BY <2>3 DEF TypeOK, Tasks
    <3>2. task' \in [Hosts -> Tasks]
      BY <1>8, <2>5, <3>1 DEF Receive, TypeOK, partial
    <3> QED BY <1>8, <2>1, <2>2, <2>5, <3>2 DEF Receive, TypeOK, partial
  <2> QED BY <2>4, <2>5
<1>9. ASSUME NEW n \in Hosts, SendSucceeds(n) \/ SendStalls(n)
      PROVE  TypeOK'
  <2>1. task[n].connection \in Connections /\ Idle \in Tasks
    BY <1>9 DEF SendSucceeds, SendStalls, LoopsInv, LoopOK, Idle, Doing, Tasks
  <2>2. \/ Settle(task[n].connection, "succeeded")
        \/ Settle(task[n].connection, "failed")
    BY <1>9 DEF SendSucceeds, SendStalls
  <2>3. /\ outcome' \in [Connections -> {"unused", "pending", "succeeded", "failed"}]
        /\ closed' \subseteq Connections
    BY <2>1, <2>2, SettleType
  <2>4. UNCHANGED <<link, offered, upcoming, taken, expired, waiting, open, graceful>>
    BY <2>2 DEF Settle
  <2>5. UNCHANGED <<buffer, reset>> /\ task' = [task EXCEPT ![n] = Idle]
    BY <1>9 DEF SendSucceeds, SendStalls
  <2> QED BY <2>1, <2>3, <2>4, <2>5 DEF TypeOK
<1>10. ASSUME NEW c \in Connections, Establish(c)
       PROVE  TypeOK'
  <2> DEFINE h == link[c][2]
  <2>1. waiting' = [waiting EXCEPT ![h] = Append(@, c)] /\ Len(waiting[h]) < MaxWaiting
    BY <1>10 DEF Establish
  <2> HIDE DEF h
  <2>2. waiting \in [Hosts -> Seq(Connections)] /\ \A i \in Hosts : Len(waiting[i]) <= MaxWaiting
    BY DEF TypeOK
  <2>3. CASE h \in Hosts
    <3>1. /\ Append(waiting[h], c) \in Seq(Connections)
          /\ Len(Append(waiting[h], c)) <= MaxWaiting
      BY <2>1, <2>2, <2>3, MTCPAssumption
    <3>2. waiting' \in [Hosts -> Seq(Connections)] /\ \A i \in Hosts : Len(waiting'[i]) <= MaxWaiting
      BY <2>1, <2>2, <3>1
    <3> QED BY <1>10, <3>2 DEF Establish, TypeOK
  <2>4. CASE h \notin Hosts
    <3>1. waiting' = waiting
      BY <2>1, <2>2, <2>4
    <3> QED BY <1>10, <3>1 DEF Establish, TypeOK
  <2> QED BY <2>3, <2>4
<1>11. ASSUME NEW c \in Connections, WriteToReceiver(c) \/ WriteInVain(c)
       PROVE  TypeOK'
  <2>1. After(c, upcoming[c]) \in Units
    BY DEF After, Units, TypeOK
  <2>2. /\ Append(buffer[c], upcoming[c]) \in Seq(Units)
        /\ Len(buffer[c]) < Capacity => Len(Append(buffer[c], upcoming[c])) <= Capacity
    BY MTCPAssumption DEF TypeOK
  <2>3. upcoming' \in [Connections -> Units]
    <3>1. upcoming' = [upcoming EXCEPT ![c] = After(c, upcoming[c])]
      BY <1>11 DEF WriteToReceiver, WriteInVain, Write, TypeOK
    <3> QED BY <2>1, <3>1 DEF TypeOK
  <2>4. buffer' \in [Connections -> Seq(Units)] /\ \A d \in Connections : Len(buffer'[d]) <= Capacity
    <3>1. CASE WriteInVain(c)
      BY <3>1 DEF WriteInVain, TypeOK
    <3>2. CASE WriteToReceiver(c)
      <4>1. buffer' = [buffer EXCEPT ![c] = Append(buffer[c], upcoming[c])] /\ Len(buffer[c]) < Capacity
        BY <3>2 DEF WriteToReceiver, TypeOK
      <4> QED BY <2>2, <4>1 DEF TypeOK
    <3> QED BY <1>11, <3>1, <3>2
  <2>5. UNCHANGED <<link, offered, outcome, taken, expired, waiting, open,
                    graceful, closed, reset, task>>
    BY <1>11 DEF WriteToReceiver, WriteInVain, Write
  <2> QED BY <2>3, <2>4, <2>5 DEF TypeOK
<1>12. ASSUME NEW c \in Connections, PeerCloses(c) \/ PeerResets(c)
       PROVE  TypeOK'
  <2>1. << >> \in Seq(Units) /\ Len(<< >>) <= Capacity
    BY MTCPAssumption
  <2>2. \/ Settle(c, "succeeded") \/ Settle(c, "failed")
    BY <1>12 DEF PeerCloses, PeerResets, Closing
  <2>3. /\ outcome' \in [Connections -> {"unused", "pending", "succeeded", "failed"}]
        /\ closed' \subseteq Connections
    BY <2>2, SettleType
  <2>4. UNCHANGED <<link, offered, upcoming, taken, expired, waiting, open, graceful>>
    BY <2>2 DEF Settle
  <2>5. /\ task' = task
        /\ \/ UNCHANGED <<buffer, reset>>
           \/ buffer' = [buffer EXCEPT ![c] = << >>] /\ reset' = reset \union {c}
    BY <1>12 DEF PeerCloses, PeerResets, Closing
  <2> QED BY <2>1, <2>3, <2>4, <2>5 DEF TypeOK
<1>13. ASSUME NEW c \in Connections, Expire(c)
       PROVE  TypeOK'
  BY <1>13 DEF Expire, TypeOK
<1>14. ASSUME UNCHANGED vars
       PROVE  TypeOK'
  BY <1>14 DEF vars, TypeOK
<1> QED
  BY <1>1, <1>2, <1>3, <1>4, <1>5, <1>6, <1>7, <1>8, <1>9, <1>10, <1>11, <1>12, <1>13, <1>14
  DEF Next, PollStep

-----------------------------------------------------------------------------
(* The tables of the hosts.                                                *)

(* A step that leaves the tables alone and opens, closes or settles only   *)
(* what is in none of them.                                                *)
LEMMA TablesFrame ==
    ASSUME IInv, UNCHANGED <<waiting, open, graceful>>,
           \A n \in Hosts : \A c \in Held(n) :
               c \notin closed' /\ outcome'[c] # "unused" /\ link'[c] = link[c]
    PROVE  TablesInv'
BY DEF IInv, TablesInv, Held

(* The tables of a host. *)
LEMMA TablesOf ==
    ASSUME IInv, NEW n \in Hosts
    PROVE  /\ Distinct(waiting[n]) /\ Distinct(open[n]) /\ Distinct(graceful[n])
           /\ ToSet(waiting[n]) \intersect ToSet(open[n]) = {}
           /\ ToSet(waiting[n]) \intersect ToSet(graceful[n]) = {}
           /\ ToSet(open[n]) \intersect ToSet(graceful[n]) = {}
           /\ \A c \in Held(n) : c \notin closed /\ outcome[c] # "unused" /\ link[c][2] = n
BY DEF IInv, TablesInv

(* A step that changes the tables of one host. *)
LEMMA TablesChange ==
    ASSUME IInv, NEW n \in Hosts,
           \A h \in Hosts : h # n =>
               waiting'[h] = waiting[h] /\ open'[h] = open[h] /\ graceful'[h] = graceful[h],
           Distinct(waiting'[n]), Distinct(open'[n]), Distinct(graceful'[n]),
           ToSet(waiting'[n]) \intersect ToSet(open'[n]) = {},
           ToSet(waiting'[n]) \intersect ToSet(graceful'[n]) = {},
           ToSet(open'[n]) \intersect ToSet(graceful'[n]) = {},
           \A h \in Hosts : \A d \in Held(h)' :
               d \notin closed' /\ outcome'[d] # "unused" /\ link'[d][2] = h
    PROVE  TablesInv'
<1>1. ASSUME NEW h \in Hosts
      PROVE  /\ Distinct(waiting'[h]) /\ Distinct(open'[h]) /\ Distinct(graceful'[h])
             /\ ToSet(waiting'[h]) \intersect ToSet(open'[h]) = {}
             /\ ToSet(waiting'[h]) \intersect ToSet(graceful'[h]) = {}
             /\ ToSet(open'[h]) \intersect ToSet(graceful'[h]) = {}
  <2>1. CASE h = n
    BY <2>1
  <2>2. CASE h # n
    BY <2>2 DEF IInv, TablesInv
  <2> QED BY <2>1, <2>2
<1> QED BY <1>1 DEF TablesInv

(* Deleting a connection from the tables it may be in. *)
LEMMA TablesDiscard ==
    ASSUME IInv, NEW n \in Hosts, NEW c, LooksAt(n, c), Discard(n, c)
    PROVE  /\ TablesInv'
           /\ \A h \in Hosts : h # n => Held(h)' = Held(h) /\ c \notin Held(h)
           /\ Held(n)' = Held(n) \ {c}
<1>1. c \in Connections /\ c \in Held(n)
  BY LoopAt DEF Held
<1>2. /\ waiting' = waiting
      /\ \A h \in Hosts : h # n => open'[h] = open[h] /\ graceful'[h] = graceful[h]
      /\ open'[n] = Without(open[n], c) /\ graceful'[n] = Without(graceful[n], c)
  BY <1>1, DiscardLists DEF IInv
<1>3. closed' = closed \union {c} /\ UNCHANGED <<link, outcome>>
  BY DEF Discard
<1>4. /\ Distinct(open'[n]) /\ ToSet(open'[n]) = ToSet(open[n]) \ {c}
      /\ Distinct(graceful'[n]) /\ ToSet(graceful'[n]) = ToSet(graceful[n]) \ {c}
  BY <1>2, WithoutList DEF IInv, TypeOK, TablesInv
<1>5. c \notin ToSet(waiting[n])
  BY <1>1, LoopAt DEF IInv, TablesInv
<1>6. \A h \in Hosts : h # n => Held(h)' = Held(h) /\ c \notin Held(h)
  BY <1>1, <1>2 DEF IInv, TablesInv, Held
<1>7. Held(n)' = Held(n) \ {c}
  BY <1>2, <1>4, <1>5 DEF Held
<1>8. \A h \in Hosts : \A d \in Held(h)' : d \notin closed' /\ outcome'[d] # "unused" /\ link'[d][2] = h
  BY <1>3, <1>6, <1>7 DEF IInv, TablesInv
<1>9. TablesInv'
  <2>1. /\ Distinct(waiting'[n])
        /\ ToSet(waiting'[n]) \intersect ToSet(open'[n]) = {}
        /\ ToSet(waiting'[n]) \intersect ToSet(graceful'[n]) = {}
        /\ ToSet(open'[n]) \intersect ToSet(graceful'[n]) = {}
    BY <1>2, <1>4 DEF IInv, TablesInv
  <2> QED BY <1>2, <1>4, <1>8, <2>1, TablesChange
<1> QED BY <1>6, <1>7, <1>9

(* Every step keeps the tables apart. *)
LEMMA TablesStep ==
    ASSUME IInv, [Next]_vars
    PROVE  TablesInv'
<1>1. ASSUME NEW c \in Connections, NEW from, NEW to, NEW messages, Connect(c, from, to, messages)
      PROVE  TablesInv'
  <2>1. \A n \in Hosts : \A d \in Held(n) : d # c /\ d \notin closed /\ outcome[d] # "unused"
    BY <1>1 DEF Connect, Fresh, IInv, TablesInv
  <2>2. /\ UNCHANGED <<waiting, open, graceful, closed>>
        /\ outcome' = [outcome EXCEPT ![c] = "pending"] /\ link' = [link EXCEPT ![c] = <<from, to>>]
    BY <1>1 DEF Connect
  <2>3. \A n \in Hosts : \A d \in Held(n) : outcome'[d] = outcome[d] /\ link'[d] = link[d]
    BY <2>1, <2>2 DEF IInv, TypeOK
  <2> QED BY <2>1, <2>2, <2>3, TablesFrame
<1>2. ASSUME NEW c \in Connections, NEW result \in {"succeeded", "failed"}, Settle(c, result)
      PROVE  TablesInv'
  <2>1. \A n \in Hosts : \A d \in Held(n) : d \notin closed /\ outcome[d] # "unused"
    BY DEF IInv, TablesInv
  <2>2. \A n \in Hosts : \A d \in Held(n) : d \notin closed'
    BY <1>2, <2>1 DEF Settle, Established
  <2>3. UNCHANGED <<waiting, open, graceful, link>> /\ outcome' = [outcome EXCEPT ![c] = result]
    BY <1>2 DEF Settle
  <2>4. \A d : outcome[d] # "unused" => outcome'[d] # "unused"
    BY <2>3 DEF IInv, TypeOK
  <2> QED BY <2>1, <2>2, <2>3, <2>4, TablesFrame
<1>3. ASSUME UNCHANGED <<waiting, open, graceful, closed, outcome, link>>
      PROVE  TablesInv'
  BY <1>3 DEF IInv, TablesInv, Held
<1>4. ASSUME NEW n \in Hosts, Poll(n), MayAccept(n)
      PROVE  TablesInv'
  <2> DEFINE c == Head(waiting[n])
  <2>1. /\ waiting[n] \in Seq(Connections) /\ waiting[n] # << >> /\ open[n] \in Seq(Connections)
        /\ Distinct(waiting[n]) /\ Distinct(open[n]) /\ c \notin ToSet(open[n])
        /\ c \notin ToSet(graceful[n]) /\ c \in ToSet(waiting[n]) /\ c \in Connections
    <3>1. waiting[n] \in Seq(Connections) /\ waiting[n] # << >> /\ open[n] \in Seq(Connections)
      BY <1>4 DEF MayAccept, IInv, TypeOK
    <3>2. c \in ToSet(waiting[n]) /\ c \in Connections
      BY <3>1, TailList
    <3> QED BY <3>1, <3>2 DEF IInv, TablesInv
  <2>2. /\ waiting' = [waiting EXCEPT ![n] = Tail(waiting[n])]
        /\ open' = [open EXCEPT ![n] = Append(open[n], c)]
        /\ UNCHANGED <<graceful, closed, outcome, link>>
    BY <1>4 DEF Poll
  <2> HIDE DEF c
  <2>3. /\ \A h \in Hosts : h # n => waiting'[h] = waiting[h] /\ open'[h] = open[h]
        /\ waiting'[n] = Tail(waiting[n]) /\ open'[n] = Append(open[n], c)
    BY <2>2 DEF IInv, TypeOK
  <2>4. /\ Distinct(waiting'[n]) /\ ToSet(waiting'[n]) = ToSet(waiting[n]) \ {c}
        /\ Distinct(open'[n]) /\ ToSet(open'[n]) = ToSet(open[n]) \union {c}
    BY <2>1, <2>3, TailList, AppendList DEF c
  <2>5. \A h \in Hosts : Held(h)' = Held(h)
    BY <2>1, <2>2, <2>3, <2>4 DEF Held
  <2>6. \A h \in Hosts : \A d \in Held(h)' : d \notin closed' /\ outcome'[d] # "unused" /\ link'[d][2] = h
    BY <2>2, <2>5 DEF IInv, TablesInv
  <2>7. /\ Distinct(graceful'[n])
        /\ ToSet(waiting'[n]) \intersect ToSet(open'[n]) = {}
        /\ ToSet(waiting'[n]) \intersect ToSet(graceful'[n]) = {}
        /\ ToSet(open'[n]) \intersect ToSet(graceful'[n]) = {}
    <3>1. Distinct(graceful'[n]) /\ ToSet(graceful'[n]) = ToSet(graceful[n])
      BY <2>2, TablesOf
    <3>2. /\ ToSet(waiting'[n]) = ToSet(waiting[n]) \ {c}
          /\ ToSet(open'[n]) = ToSet(open[n]) \union {c}
      BY <2>4
    <3>3. c \notin ToSet(graceful[n])
      BY <2>1
    <3> QED BY <3>1, <3>2, <3>3, TablesOf
  <2> QED BY <2>2, <2>3, <2>4, <2>6, <2>7, TablesChange
<1>5. ASSUME NEW n \in Hosts, Poll(n), ~ MayAccept(n)
      PROVE  TablesInv'
  BY <1>3, <1>5 DEF Poll
<1>6. ASSUME NEW n \in Hosts, NEW c \in Connections, NothingYet(n, c)
      PROVE  TablesInv'
  <2>1. LooksAt(n, c)
    BY <1>6 DEF NothingYet
  <2>2. CASE Discard(n, c)
    BY <2>1, <2>2, TablesDiscard
  <2>3. CASE UNCHANGED <<link, offered, outcome, upcoming, buffer, taken, expired,
                         waiting, open, graceful, closed, reset>>
    BY <1>3, <2>3
  <2>4. CASE /\ task[n].op = "open"
             /\ open' = [open EXCEPT ![n] = Without(@, c)]
             /\ graceful' = [graceful EXCEPT ![n] = Append(@, c)]
             /\ UNCHANGED <<link, offered, outcome, upcoming, buffer, taken,
                            waiting, closed, reset>>
    <3>1. c \in ToSet(open[n]) /\ c \notin ToSet(graceful[n]) /\ c \notin ToSet(waiting[n])
      BY <2>1, <2>4, LoopAt DEF IInv, TablesInv
    <3>2. /\ \A h \in Hosts : h # n => graceful'[h] = graceful[h] /\ open'[h] = open[h]
          /\ graceful'[n] = Append(graceful[n], c) /\ open'[n] = Without(open[n], c)
      BY <2>4 DEF IInv, TypeOK
    <3>3. /\ Distinct(open'[n]) /\ ToSet(open'[n]) = ToSet(open[n]) \ {c}
      BY <3>2, WithoutList DEF IInv, TypeOK, TablesInv
    <3>4. /\ Distinct(graceful'[n]) /\ ToSet(graceful'[n]) = ToSet(graceful[n]) \union {c}
      BY <3>1, <3>2, AppendList DEF IInv, TypeOK, TablesInv
    <3>5. \A h \in Hosts : Held(h)' = Held(h)
      BY <2>4, <3>1, <3>2, <3>3, <3>4 DEF Held
    <3>6. \A h \in Hosts : \A d \in Held(h)' :
              d \notin closed' /\ outcome'[d] # "unused" /\ link'[d][2] = h
      BY <2>4, <3>5 DEF IInv, TablesInv
    <3>7. /\ Distinct(waiting'[n])
          /\ ToSet(waiting'[n]) \intersect ToSet(open'[n]) = {}
          /\ ToSet(waiting'[n]) \intersect ToSet(graceful'[n]) = {}
          /\ ToSet(open'[n]) \intersect ToSet(graceful'[n]) = {}
      <4>1. waiting'[n] = waiting[n]
        BY <2>4
      <4> QED BY <3>1, <3>3, <3>4, <4>1, TablesOf
    <3> QED BY <2>4, <3>2, <3>3, <3>4, <3>6, <3>7, TablesChange
  <2> QED BY <1>6, <2>2, <2>3, <2>4 DEF NothingYet
<1>7. ASSUME NEW n \in Hosts, NEW c \in Connections, RemoteClosed(n, c) \/ HeaderRefused(n, c)
      PROVE  TablesInv'
  BY <1>7, TablesDiscard DEF RemoteClosed, HeaderRefused, Header
<1>8. ASSUME NEW c \in Connections, Establish(c)
      PROVE  TablesInv'
  <2>1. /\ outcome[c] = "pending" /\ c \notin closed /\ \A n \in Hosts : c \notin Held(n)
        /\ UNCHANGED <<open, graceful, closed, outcome, link>>
        /\ waiting' = [waiting EXCEPT ![link[c][2]] = Append(@, c)]
    BY <1>8 DEF Establish, Established
  <2>2. CASE link[c][2] \notin Hosts
    <3>1. waiting' = waiting
      BY <2>1, <2>2 DEF IInv, TypeOK
    <3> QED BY <1>3, <2>1, <3>1
  <2>3. ASSUME NEW h \in Hosts, h = link[c][2]
        PROVE  TablesInv'
    <3>1. /\ waiting'[h] = Append(waiting[h], c) /\ waiting[h] \in Seq(Connections)
          /\ \A n \in Hosts : n # h => waiting'[n] = waiting[n]
      BY <2>1, <2>3 DEF IInv, TypeOK
    <3>2. Distinct(waiting'[h]) /\ ToSet(waiting'[h]) = ToSet(waiting[h]) \union {c}
      BY <2>1, <3>1, AppendList DEF IInv, TablesInv, Held
    <3>3. /\ Held(h)' = Held(h) \union {c}
          /\ \A n \in Hosts : n # h => Held(n)' = Held(n)
      BY <2>1, <3>1, <3>2 DEF Held
    <3>4. \A n \in Hosts : \A d \in Held(n)' :
              d \notin closed' /\ outcome'[d] # "unused" /\ link'[d][2] = n
      BY <2>1, <2>3, <3>3 DEF IInv, TablesInv
    <3>5. /\ Distinct(open'[h]) /\ Distinct(graceful'[h])
          /\ ToSet(waiting'[h]) \intersect ToSet(open'[h]) = {}
          /\ ToSet(waiting'[h]) \intersect ToSet(graceful'[h]) = {}
          /\ ToSet(open'[h]) \intersect ToSet(graceful'[h]) = {}
      <4>1. open'[h] = open[h] /\ graceful'[h] = graceful[h]
        BY <2>1
      <4>2. c \notin ToSet(open[h]) /\ c \notin ToSet(graceful[h])
        BY <2>1 DEF Held
      <4> QED BY <3>2, <4>1, <4>2, TablesOf
    <3> QED BY <2>1, <3>1, <3>2, <3>4, <3>5, TablesChange
  <2> QED BY <2>2, <2>3
<1>9. ASSUME NEW n \in Hosts, SendSucceeds(n) \/ SendStalls(n)
      PROVE  TablesInv'
  BY <1>2, <1>9 DEF SendSucceeds, SendStalls, IInv, LoopsInv, LoopOK
<1>10. CASE UNCHANGED vars
  BY <1>3, <1>10 DEF vars
<1> QED
  BY <1>1, <1>2, <1>3, <1>4, <1>5, <1>6, <1>7, <1>8, <1>9, <1>10
  DEF Next, PollStep, SendTo, PeerConnects, PollRaises, HeaderRead, Receive, WriteToReceiver,
      WriteInVain, Write, PeerCloses, PeerResets, Closing, Expire

-----------------------------------------------------------------------------
(* The loops of poll().                                                    *)

(* A step of one host. *)
LEMMA LoopsChange ==
    ASSUME IInv, NEW n \in Hosts, LoopOK(n)',
           \A h \in Hosts : h # n =>
               task'[h] = task[h] /\ open'[h] = open[h] /\ graceful'[h] = graceful[h]
    PROVE  LoopsInv'
<1>1. ASSUME NEW h \in Hosts, h # n PROVE LoopOK(h)'
  BY <1>1 DEF IInv, LoopsInv, LoopOK
<1> QED BY <1>1 DEF LoopsInv

(* A step that leaves the tasks, and the two tables, alone. *)
LEMMA LoopsFrame ==
    ASSUME IInv, UNCHANGED <<task, open, graceful>>
    PROVE  LoopsInv'
BY DEF IInv, LoopsInv, LoopOK

(* A loop that has dealt with a connection. *)
LEMMA LoopsGoOn ==
    ASSUME IInv, NEW n \in Hosts, NEW c, LooksAt(n, c), GoOn(n),
           graceful' \in [Hosts -> Seq(Connections)], Distinct(graceful'[n]),
           \A h \in Hosts : h # n => open'[h] = open[h] /\ graceful'[h] = graceful[h],
           ToSet(open[n]) \ {c} \subseteq ToSet(open'[n]),
           ToSet(graceful[n]) \ {c} \subseteq ToSet(graceful'[n])
    PROVE  LoopsInv'
<1> DEFINE rest == Tail(task[n].todo)
<1>1. /\ task' = [task EXCEPT ![n] = task'[n]]
      /\ task'[n] = InLoop(task[n].op, rest, graceful'[n])
  BY GoOnTask
<1>2. \A h \in Hosts : h # n => task'[h] = task[h]
  <2> DEFINE t == task'[n]
  <2>1. task' = [task EXCEPT ![n] = t]
    BY <1>1
  <2> HIDE DEF t
  <2> QED BY <2>1 DEF IInv, TypeOK
<1>3. /\ rest \in Seq(Connections) /\ c \notin ToSet(rest) /\ Distinct(rest)
      /\ ToSet(rest) \subseteq ToSet(task[n].todo)
  <2>1. task[n].todo \in Seq(Connections) /\ task[n].todo # << >>
    BY LoopAt DEF LooksAt, Tasks
  <2>2. Distinct(task[n].todo)
    BY DEF IInv, LoopsInv, LoopOK
  <2> QED BY <2>1, <2>2, TailList, LoopAt
<1>4. /\ task[n].op \in {"open", "graceful"}
      /\ task[n].op = "open" => ToSet(rest) \subseteq ToSet(open'[n])
      /\ task[n].op = "graceful" => ToSet(rest) \subseteq ToSet(graceful'[n])
  BY <1>3, LoopAt
<1> HIDE DEF rest
<1>5. graceful'[n] \in Seq(Connections)
  OBVIOUS
<1>6. /\ task'[n].partial = << >>
      /\ \/ task'[n] = Idle
         \/ task'[n].op = task[n].op /\ task'[n].todo = rest /\ rest # << >>
         \/ task'[n].op = "graceful" /\ task'[n].todo = graceful'[n] /\ graceful'[n] # << >>
  BY <1>1, <1>3, <1>4, <1>5, LoopGoesOn
<1>7. LoopOK(n)'
  <2>1. CASE task'[n] = Idle
    BY <2>1 DEF LoopOK, Idle, Doing, Distinct
  <2>2. CASE task'[n].op = task[n].op /\ task'[n].todo = rest /\ rest # << >>
    BY <1>3, <1>4, <2>2 DEF LoopOK
  <2>3. CASE task'[n].op = "graceful" /\ task'[n].todo = graceful'[n] /\ graceful'[n] # << >>
    BY <2>3 DEF LoopOK
  <2> QED BY <1>6, <2>1, <2>2, <2>3
<1> QED BY <1>2, <1>7, LoopsChange

(* Every step keeps the loops to the tables. *)
LEMMA LoopsStep ==
    ASSUME IInv, [Next]_vars
    PROVE  LoopsInv'
<1>1. ASSUME NEW n \in Hosts, NEW t, task' = [task EXCEPT ![n] = t], UNCHANGED <<open, graceful>>,
             t = Idle \/ \E c \in Connections : t = Doing("send", c, << >>)
      PROVE  LoopsInv'
  <2>1. task'[n] = t /\ \A h \in Hosts : h # n => task'[h] = task[h]
    BY <1>1 DEF IInv, TypeOK
  <2>2. LoopOK(n)'
    BY <1>1, <2>1 DEF LoopOK, Idle, Doing, Distinct
  <2> QED BY <1>1, <2>1, <2>2, LoopsChange
<1>2. ASSUME NEW n \in Hosts, NEW c, NEW partial, LooksAt(n, c), UNCHANGED <<open, graceful>>,
             task' = [task EXCEPT ![n].partial = partial]
      PROVE  LoopsInv'
  <2>1. /\ task'[n] = [task[n] EXCEPT !.partial = partial]
        /\ \A h \in Hosts : h # n => task'[h] = task[h]
    BY <1>2 DEF IInv, TypeOK
  <2>2. task'[n].op = task[n].op /\ task'[n].todo = task[n].todo
    BY <2>1 DEF IInv, TypeOK, Tasks
  <2>3. LoopOK(n) /\ task[n].op \in {"open", "graceful"}
    BY <1>2 DEF LooksAt, IInv, LoopsInv
  <2>4. LoopOK(n)'
    BY <1>2, <2>2, <2>3 DEF LoopOK
  <2> QED BY <1>2, <2>1, <2>4, LoopsChange
<1>3. ASSUME NEW n \in Hosts, NEW c \in Connections, NothingYet(n, c)
      PROVE  LoopsInv'
  <2>1. LooksAt(n, c) /\ GoOn(n)
    BY <1>3 DEF NothingYet
  <2>2. TypeOK' /\ TablesInv'
    BY <1>3, TypeStep, TablesStep DEF Next, PollStep
  <2>3. graceful' \in [Hosts -> Seq(Connections)] /\ Distinct(graceful'[n])
    BY <2>2 DEF TypeOK, TablesInv
  <2>4. /\ \A h \in Hosts : h # n => open'[h] = open[h] /\ graceful'[h] = graceful[h]
        /\ ToSet(open[n]) \ {c} \subseteq ToSet(open'[n])
        /\ ToSet(graceful[n]) \ {c} \subseteq ToSet(graceful'[n])
    <3>1. CASE Discard(n, c)
      <4>1. /\ \A h \in Hosts : h # n => open'[h] = open[h] /\ graceful'[h] = graceful[h]
            /\ open'[n] = Without(open[n], c) /\ graceful'[n] = Without(graceful[n], c)
        BY <3>1, DiscardLists DEF IInv
      <4> QED BY <4>1, WithoutList DEF IInv, TypeOK
    <3>2. CASE UNCHANGED <<open, graceful>>
      BY <3>2
    <3>3. CASE /\ open' = [open EXCEPT ![n] = Without(@, c)]
               /\ graceful' = [graceful EXCEPT ![n] = Append(@, c)]
      <4>1. /\ \A h \in Hosts : h # n => open'[h] = open[h] /\ graceful'[h] = graceful[h]
            /\ open'[n] = Without(open[n], c) /\ graceful'[n] = Append(graceful[n], c)
        BY <3>3 DEF IInv, TypeOK
      <4> QED BY <4>1, WithoutList, AppendList DEF IInv, TypeOK
    <3> QED BY <1>3, <3>1, <3>2, <3>3 DEF NothingYet
  <2> QED BY <2>1, <2>3, <2>4, LoopsGoOn
<1>4. ASSUME NEW n \in Hosts, NEW c \in Connections, RemoteClosed(n, c) \/ HeaderRefused(n, c)
      PROVE  LoopsInv'
  <2>1. LooksAt(n, c) /\ GoOn(n) /\ Discard(n, c)
    BY <1>4 DEF RemoteClosed, HeaderRefused, Header
  <2>2. TypeOK' /\ TablesInv'
    BY <2>1, DiscardType, TablesDiscard
  <2>3. graceful' \in [Hosts -> Seq(Connections)] /\ Distinct(graceful'[n])
    BY <2>2 DEF TypeOK, TablesInv
  <2>4. /\ \A h \in Hosts : h # n => open'[h] = open[h] /\ graceful'[h] = graceful[h]
        /\ ToSet(open[n]) \ {c} \subseteq ToSet(open'[n])
        /\ ToSet(graceful[n]) \ {c} \subseteq ToSet(graceful'[n])
    <3>1. /\ \A h \in Hosts : h # n => open'[h] = open[h] /\ graceful'[h] = graceful[h]
          /\ open'[n] = Without(open[n], c) /\ graceful'[n] = Without(graceful[n], c)
      BY <2>1, DiscardLists DEF IInv
    <3> QED BY <3>1, WithoutList DEF IInv, TypeOK
  <2> QED BY <2>1, <2>3, <2>4, LoopsGoOn
<1>5. ASSUME NEW n \in Hosts, Poll(n)
      PROVE  LoopsInv'
  <2>1. TypeOK' /\ TablesInv'
    BY <1>5, TypeStep, TablesStep DEF Next
  <2>2. open'[n] \in Seq(Connections) /\ graceful[n] \in Seq(Connections) /\ graceful' = graceful
    BY <1>5, <2>1 DEF Poll, IInv, TypeOK
  <2>3. Distinct(open'[n]) /\ Distinct(graceful[n])
    BY <2>1, TablesOf DEF TablesInv
  <2>4. task' = [task EXCEPT ![n] = InLoop("open", open'[n], graceful[n])]
    BY <1>5 DEF Poll
  <2>5. /\ task'[n] = InLoop("open", open'[n], graceful[n])
        /\ \A h \in Hosts : h # n => task'[h] = task[h]
    BY <2>4 DEF IInv, TypeOK
  <2>6. \A h \in Hosts : h # n => open'[h] = open[h] /\ graceful'[h] = graceful[h]
    BY <1>5 DEF Poll, IInv, TypeOK
  <2>7. \/ task'[n] = Idle
        \/ task'[n].op = "open" /\ task'[n].todo = open'[n] /\ open'[n] # << >>
        \/ task'[n].op = "graceful" /\ task'[n].todo = graceful[n] /\ graceful[n] # << >>
    BY <2>2, <2>5, LoopGoesOn
  <2>8. LoopOK(n)'
    BY <2>2, <2>3, <2>7 DEF LoopOK, Idle, Doing, Distinct
  <2> QED BY <2>5, <2>6, <2>8, LoopsChange
<1>6. ASSUME NEW n \in Hosts, NEW c \in Connections, PollRaises(n, c)
      PROVE  LoopsInv'
  BY <1>1, <1>6 DEF PollRaises
<1>7. ASSUME NEW n \in Hosts, NEW c \in Connections, HeaderRead(n, c) \/ Receive(n, c)
      PROVE  LoopsInv'
  BY <1>1, <1>2, <1>7 DEF HeaderRead, Header, Receive
<1>8. ASSUME NEW n \in Hosts, SendSucceeds(n) \/ SendStalls(n)
      PROVE  LoopsInv'
  BY <1>1, <1>8 DEF SendSucceeds, SendStalls, Settle
<1>9. ASSUME NEW n \in Hosts, NEW c \in Connections, NEW to, NEW m, SendTo(n, c, to, m)
      PROVE  LoopsInv'
  BY <1>1, <1>9 DEF SendTo, Connect
<1>10. CASE UNCHANGED vars
  BY <1>10, LoopsFrame DEF vars
<1> QED
  BY <1>3, <1>4, <1>5, <1>6, <1>7, <1>8, <1>9, <1>10, LoopsFrame
  DEF Next, PollStep, PeerConnects, Connect, Establish, WriteToReceiver, WriteInVain, Write,
      PeerCloses, PeerResets, Closing, Settle, Expire

-----------------------------------------------------------------------------
(* What is on its way in the connections.                                  *)

(* A connection stays with its host until it is closed. *)
LEMMA HeldStep ==
    ASSUME IInv, [Next]_vars, NEW n \in Hosts, NEW d \in Held(n)
    PROVE  d \in Held(n)' \/ (d \in closed' /\ buffer'[d] = << >>)
<1>1. CASE UNCHANGED <<waiting, open, graceful>>
  BY <1>1 DEF Held
<1>2. ASSUME NEW h \in Hosts, NEW c, LooksAt(h, c), Discard(h, c)
      PROVE  d \in Held(n)' \/ (d \in closed' /\ buffer'[d] = << >>)
  <2>1. c \in closed' /\ buffer'[c] = << >>
    BY <1>2, LoopAt DEF Discard, IInv, TypeOK
  <2>2. d = c \/ d \in Held(n)'
    BY <1>2, TablesDiscard
  <2> QED BY <2>1, <2>2
<1>3. ASSUME NEW h \in Hosts, NEW c \in Connections, NothingYet(h, c), ~ Discard(h, c),
             ~ UNCHANGED <<waiting, open, graceful>>
      PROVE  d \in Held(n)'
  <2>1. /\ open' = [open EXCEPT ![h] = Without(@, c)]
        /\ graceful' = [graceful EXCEPT ![h] = Append(@, c)] /\ waiting' = waiting
    BY <1>3 DEF NothingYet
  <2>2. CASE n = h
    <3>1. open'[n] = Without(open[n], c) /\ graceful'[n] = Append(graceful[n], c)
      BY <2>1, <2>2 DEF IInv, TypeOK
    <3>2. /\ ToSet(open[n]) \ {c} \subseteq ToSet(open'[n])
          /\ ToSet(graceful'[n]) = ToSet(graceful[n]) \union {c}
      BY <3>1, WithoutList, AppendList DEF IInv, TypeOK
    <3> QED BY <2>1, <3>2 DEF Held
  <2>3. CASE n # h
    BY <2>1, <2>3 DEF Held, IInv, TypeOK
  <2> QED BY <2>2, <2>3
<1>4. ASSUME NEW h \in Hosts, Poll(h)
      PROVE  d \in Held(n)'
  <2>1. CASE n # h \/ ~ MayAccept(h)
    BY <1>4, <2>1 DEF Poll, Held, IInv, TypeOK
  <2>2. CASE n = h /\ MayAccept(h)
    <3>1. /\ open'[n] = Append(open[n], Head(waiting[n])) /\ waiting'[n] = Tail(waiting[n])
          /\ waiting[n] \in Seq(Connections) /\ waiting[n] # << >> /\ open[n] \in Seq(Connections)
          /\ graceful' = graceful
      BY <1>4, <2>2 DEF Poll, MayAccept, IInv, TypeOK
    <3>2. /\ ToSet(waiting[n]) = ToSet(waiting'[n]) \union {Head(waiting[n])}
          /\ ToSet(open'[n]) = ToSet(open[n]) \union {Head(waiting[n])}
      BY <3>1, TailList, AppendList
    <3> QED BY <3>1, <3>2 DEF Held
  <2> QED BY <2>1, <2>2
<1>5. ASSUME NEW c \in Connections, Establish(c)
      PROVE  d \in Held(n)'
  <2>1. /\ waiting' = [waiting EXCEPT ![link[c][2]] = Append(@, c)]
        /\ UNCHANGED <<open, graceful>>
    BY <1>5 DEF Establish
  <2>2. waiting[n] \in Seq(Connections) /\ (waiting'[n] = waiting[n] \/ waiting'[n] = Append(waiting[n], c))
    BY <2>1 DEF IInv, TypeOK
  <2>3. ToSet(waiting[n]) \subseteq ToSet(waiting'[n])
    <3>1. ToSet(Append(waiting[n], c)) = ToSet(waiting[n]) \union {c}
      BY <2>2, AppendList
    <3> QED BY <2>2, <3>1
  <2> QED BY <2>1, <2>3 DEF Held
<1> QED
  BY <1>1, <1>2, <1>3, <1>4, <1>5
  DEF Next, PollStep, SendTo, PeerConnects, Connect, RemoteClosed, PollRaises, HeaderRefused,
      HeaderRead, Header, Receive, NothingYet, WriteToReceiver, WriteInVain, Write, PeerCloses,
      PeerResets, Closing, Settle, SendSucceeds, SendStalls, Expire, vars

(* A step that leaves what a connection holds alone, or empties it. *)
LEMMA UnitsFrame ==
    ASSUME IInv, [Next]_vars, NEW d \in Connections,
           offered'[d] = offered[d], upcoming'[d] = upcoming[d],
           buffer'[d] \in {buffer[d], << >>}, taken'[d] = taken[d],
           d \in reset' => d \in reset \/ (outcome'[d] \notin {"unused", "pending"} /\ buffer'[d] = << >>),
           outcome'[d] = "unused" => outcome[d] = "unused",
           outcome'[d] = "pending" => outcome[d] \in {"unused", "pending"}
    PROVE  UnitsOK(d)'
<1>1. UnitsOK(d)
  BY DEF IInv, UnitsInv
<1>2. buffer'[d] # << >> => Established(d)' /\ d \notin reset'
  <2>1. ASSUME buffer'[d] # << >>
        PROVE  Established(d)' /\ d \notin reset'
    <3>1. Established(d) /\ d \notin reset
      BY <1>1, <2>1 DEF UnitsOK
    <3>2. PICK n \in Hosts : d \in Held(n)
      BY <3>1 DEF Established
    <3>3. d \in Held(n)'
      BY <2>1, <3>2, HeldStep
    <3> QED BY <2>1, <3>1, <3>3 DEF Established
  <2> QED BY <2>1
<1>3. \A u : After(d, u)' = After(d, u)
  BY DEF After, Message
<1>4. \A k \in 1 .. Len(buffer'[d]) :
          /\ buffer'[d][k][1] \in 1 .. Len(offered'[d])
          /\ After(d, buffer'[d][k])
                 = IF k = Len(buffer'[d]) THEN upcoming'[d] ELSE buffer'[d][k + 1]
          /\ After(d, buffer'[d][k])[1] <= upcoming'[d][1]
  BY <1>1 DEF UnitsOK
<1> QED BY <1>1, <1>2, <1>3, <1>4 DEF UnitsOK

(* The unit after a unit is of the same message or begins the next. *)
LEMMA AfterUnit ==
    ASSUME NEW c, NEW u \in Units
    PROVE  /\ After(c, u) \in Units /\ u[1] \in Nat /\ u[2] \in Nat
           /\ After(c, u) = <<u[1], u[2] + 1>> \/ After(c, u) = <<u[1] + 1, 1>>
           /\ After(c, u)[1] \in {u[1], u[1] + 1}
<1>1. u[1] \in Nat /\ u[2] \in Nat
  BY DEF Units
<1>2. CASE u[2] < Size[Message(c, u)]
  <2>1. After(c, u) = <<u[1], u[2] + 1>>
    BY <1>2 DEF After
  <2> QED BY <1>1, <2>1 DEF Units
<1>3. CASE ~ u[2] < Size[Message(c, u)]
  <2>1. After(c, u) = <<u[1] + 1, 1>>
    BY <1>3 DEF After
  <2> QED BY <1>1, <2>1 DEF Units
<1> QED BY <1>1, <1>2, <1>3

(* The receiver reads one unit. *)
LEMMA UnitsRead ==
    ASSUME IInv, NEW c \in Connections, buffer[c] # << >>,
           buffer' = [buffer EXCEPT ![c] = Tail(@)],
           UNCHANGED <<offered, upcoming, outcome, reset, waiting, open, graceful>>
    PROVE  UnitsOK(c)'
<1>1. UnitsOK(c) /\ buffer[c] \in Seq(Units) /\ buffer'[c] = Tail(buffer[c])
  BY DEF IInv, UnitsInv, TypeOK
<1>2. \A u : After(c, u)' = After(c, u)
  BY DEF After, Message
<1>3. /\ Len(buffer[c]) \in Nat \ {0} /\ Len(buffer'[c]) = Len(buffer[c]) - 1
      /\ \A k \in 1 .. Len(buffer[c]) - 1 : buffer'[c][k] = buffer[c][k + 1]
  <2> DEFINE b == buffer[c]
             t == buffer'[c]
  <2>1. b \in Seq(Units) /\ b # << >> /\ t = Tail(b)
    BY <1>1
  <2> HIDE DEF b, t
  <2>2. Len(b) \in Nat \ {0} /\ Len(t) = Len(b) - 1 /\ \A k \in 1 .. Len(b) - 1 : t[k] = b[k + 1]
    BY <2>1
  <2> QED BY <2>2 DEF b, t
<1>4. ASSUME NEW k \in 1 .. Len(buffer'[c])
      PROVE  /\ buffer'[c][k][1] \in 1 .. Len(offered[c])
             /\ After(c, buffer'[c][k])
                    = IF k = Len(buffer'[c]) THEN upcoming[c] ELSE buffer'[c][k + 1]
             /\ After(c, buffer'[c][k])[1] <= upcoming[c][1]
  <2>1. k + 1 \in 1 .. Len(buffer[c]) /\ k \in 1 .. Len(buffer[c]) - 1
    BY <1>3
  <2>2. buffer'[c][k] = buffer[c][k + 1]
    BY <1>3, <2>1
  <2>3. /\ buffer[c][k + 1][1] \in 1 .. Len(offered[c])
        /\ After(c, buffer[c][k + 1])
               = IF k + 1 = Len(buffer[c]) THEN upcoming[c] ELSE buffer[c][k + 1 + 1]
        /\ After(c, buffer[c][k + 1])[1] <= upcoming[c][1]
    BY <1>1, <2>1 DEF UnitsOK
  <2>4. CASE k + 1 = Len(buffer[c])
    BY <1>3, <2>1, <2>2, <2>3, <2>4
  <2>5. CASE k + 1 # Len(buffer[c])
    <3>1. k + 1 \in 1 .. Len(buffer[c]) - 1 /\ k # Len(buffer'[c])
      BY <1>3, <2>1, <2>5
    <3>2. buffer'[c][k + 1] = buffer[c][k + 1 + 1]
      BY <1>3, <3>1
    <3> QED BY <2>2, <2>3, <2>5, <3>1, <3>2
  <2> QED BY <2>4, <2>5
<1>5. Established(c)' /\ c \notin reset'
  <2>1. Established(c) /\ c \notin reset
    BY <1>1 DEF UnitsOK
  <2> QED BY <2>1 DEF Established, Held
<1>6. outcome[c] # "unused"
  <2>1. PICK n \in Hosts : c \in Held(n)
    BY <1>1 DEF UnitsOK, Established
  <2> QED BY <2>1, TablesOf
<1>7. \A k \in 1 .. Len(buffer'[c]) :
          /\ buffer'[c][k][1] \in 1 .. Len(offered'[c])
          /\ After(c, buffer'[c][k])
                 = IF k = Len(buffer'[c]) THEN upcoming'[c] ELSE buffer'[c][k + 1]
          /\ After(c, buffer'[c][k])[1] <= upcoming'[c][1]
  BY <1>4
<1>8. upcoming'[c][1] \in 1 .. Len(offered'[c]) + 1
  BY <1>1 DEF UnitsOK
<1> QED BY <1>2, <1>5, <1>6, <1>7, <1>8 DEF UnitsOK

(* The sender writes one unit. *)
LEMMA UnitsWritten ==
    ASSUME IInv, NEW c \in Connections, WriteToReceiver(c)
    PROVE  UnitsOK(c)'
<1> DEFINE u == upcoming[c]
           b == buffer[c]
<1>1. /\ UnitsOK(c) /\ b \in Seq(Units) /\ u \in Units
      /\ buffer'[c] = Append(b, u) /\ upcoming'[c] = After(c, u)
      /\ u[1] <= Len(offered[c]) /\ Len(offered[c]) \in Nat
      /\ UNCHANGED <<offered, outcome, reset, taken>> /\ Established(c)
      /\ outcome[c] = "pending"
  BY DEF WriteToReceiver, Write, AllWritten, IInv, UnitsInv, TypeOK, Units
<1>2. \A v : After(c, v)' = After(c, v)
  BY <1>1 DEF After, Message
<1>3. u[1] \in 1 .. Len(offered[c])
  BY <1>1 DEF UnitsOK
<1>4. /\ After(c, u)[1] \in 1 .. Len(offered[c]) + 1
      /\ u[1] <= After(c, u)[1] /\ After(c, u)[1] \in Nat
  BY <1>1, <1>3, AfterUnit
<1>5. /\ Len(b) \in Nat /\ Len(buffer'[c]) = Len(b) + 1 /\ buffer'[c][Len(b) + 1] = u
      /\ \A k \in 1 .. Len(b) : buffer'[c][k] = b[k]
  BY <1>1
<1> HIDE DEF u, b
<1>6. ASSUME NEW k \in 1 .. Len(b) + 1
      PROVE  /\ buffer'[c][k][1] \in 1 .. Len(offered[c])
             /\ After(c, buffer'[c][k])
                    = IF k = Len(b) + 1 THEN After(c, u) ELSE buffer'[c][k + 1]
             /\ After(c, buffer'[c][k])[1] <= After(c, u)[1]
  <2>1. CASE k = Len(b) + 1
    BY <1>3, <1>4, <1>5, <2>1
  <2>2. CASE k \in 1 .. Len(b)
    <3>1. /\ b[k][1] \in 1 .. Len(offered[c])
          /\ After(c, b[k]) = IF k = Len(b) THEN u ELSE b[k + 1]
          /\ After(c, b[k])[1] <= u[1]
      BY <1>1, <2>2 DEF UnitsOK, u, b
    <3>2. buffer'[c][k] = b[k] /\ k # Len(b) + 1
      BY <1>5, <2>2
    <3>3. buffer'[c][k + 1] = IF k = Len(b) THEN u ELSE b[k + 1]
      <4>1. k = Len(b) \/ k + 1 \in 1 .. Len(b)
        BY <1>5, <2>2
      <4>2. CASE k = Len(b)
        BY <1>5, <4>2
      <4>3. CASE k # Len(b) /\ k + 1 \in 1 .. Len(b)
        BY <1>5, <4>3
      <4> QED BY <4>1, <4>2, <4>3
    <3>4. After(c, b[k])[1] <= After(c, u)[1]
      <4>1. b[k] \in Units /\ b[k][1] \in Nat /\ u[1] \in Nat /\ After(c, b[k])[1] \in Nat
        BY <1>1, <2>2, AfterUnit
      <4> QED BY <1>4, <3>1, <4>1
    <3> QED BY <3>1, <3>2, <3>3, <3>4
  <2> QED BY <1>5, <2>1, <2>2
<1>7. Established(c)'
  BY <1>1 DEF WriteToReceiver, Write, Established, Held
<1>8. \A k \in 1 .. Len(buffer'[c]) :
          /\ buffer'[c][k][1] \in 1 .. Len(offered'[c])
          /\ After(c, buffer'[c][k])
                 = IF k = Len(buffer'[c]) THEN upcoming'[c] ELSE buffer'[c][k + 1]
          /\ After(c, buffer'[c][k])[1] <= upcoming'[c][1]
  BY <1>1, <1>5, <1>6
<1> QED BY <1>1, <1>2, <1>4, <1>7, <1>8 DEF UnitsOK

(* A connection that is opened is empty. *)
LEMMA UnitsOpened ==
    ASSUME IInv, NEW c \in Connections, NEW from, NEW to, NEW messages \in Seq(Messages),
           Connect(c, from, to, messages)
    PROVE  /\ buffer[c] = << >> /\ buffer' = buffer /\ upcoming[c] = <<1, 1>> /\ upcoming' = upcoming
           /\ taken[c] = << >> /\ taken' = taken /\ c \notin reset /\ reset' = reset
           /\ offered' = [offered EXCEPT ![c] = messages] /\ outcome[c] = "unused"
           /\ outcome' = [outcome EXCEPT ![c] = "pending"]
           /\ UnitsOK(c)'
<1>1. /\ buffer' = buffer /\ upcoming' = upcoming /\ taken' = taken /\ reset' = reset
      /\ offered' = [offered EXCEPT ![c] = messages]
      /\ outcome[c] = "unused" /\ outcome' = [outcome EXCEPT ![c] = "pending"]
  BY DEF Connect, Fresh
<1>2. upcoming[c] = <<1, 1>> /\ taken[c] = << >> /\ c \notin reset
  BY <1>1 DEF IInv, UnitsInv, UnitsOK
<1>3. buffer[c] = << >>
  <2>1. ~ Established(c)
    BY <1>1, TablesOf DEF Established
  <2> QED BY <2>1 DEF IInv, UnitsInv, UnitsOK
<1>4. offered'[c] = messages /\ Len(messages) \in Nat /\ outcome'[c] = "pending"
  BY <1>1 DEF IInv, TypeOK
<1>5. upcoming'[c][1] \in 1 .. Len(offered'[c]) + 1
  BY <1>1, <1>2, <1>4
<1>6. UnitsOK(c)'
  BY <1>1, <1>2, <1>3, <1>4, <1>5 DEF UnitsOK
<1> QED BY <1>1, <1>2, <1>3, <1>6

(* Every step keeps the units of a connection in their order. *)
LEMMA UnitsStep ==
    ASSUME IInv, [Next]_vars
    PROVE  UnitsInv'
<1> SUFFICES ASSUME NEW d \in Connections PROVE UnitsOK(d)'
  BY DEF UnitsInv
<1>1. ASSUME UNCHANGED <<offered, upcoming, taken, reset, outcome>>,
             buffer'[d] \in {buffer[d], << >>}
      PROVE  UnitsOK(d)'
  BY <1>1, UnitsFrame
<1>2. ASSUME NEW c \in Connections, NEW from, NEW to, NEW messages \in Seq(Messages),
             Connect(c, from, to, messages)
      PROVE  UnitsOK(d)'
  <2>1. CASE d = c
    BY <1>2, <2>1, UnitsOpened
  <2>2. CASE d # c
    <3>1. /\ UNCHANGED <<buffer, upcoming, taken, reset>>
          /\ offered' = [offered EXCEPT ![c] = messages]
          /\ outcome' = [outcome EXCEPT ![c] = "pending"]
      BY <1>2, UnitsOpened
    <3>2. offered'[d] = offered[d] /\ outcome'[d] = outcome[d]
      BY <2>2, <3>1 DEF IInv, TypeOK
    <3>3. d \in reset' => d \in reset
      BY <3>1
    <3> QED BY <3>1, <3>2, <3>3, UnitsFrame
  <2> QED BY <2>1, <2>2
<1>3. ASSUME NEW c \in Connections, NEW result \in {"succeeded", "failed"}, Settle(c, result),
             \/ UNCHANGED <<buffer, reset>>
             \/ buffer' = [buffer EXCEPT ![c] = << >>] /\ reset' = reset \union {c}
      PROVE  UnitsOK(d)'
  <2>1. /\ UNCHANGED <<offered, upcoming, taken>> /\ outcome[c] = "pending"
        /\ outcome' = [outcome EXCEPT ![c] = result]
    BY <1>3 DEF Settle
  <2>2. outcome'[d] = IF d = c THEN result ELSE outcome[d]
    BY <2>1 DEF IInv, TypeOK
  <2>3. buffer'[d] \in {buffer[d], << >>} /\ (d \in reset' => d \in reset \/ (d = c /\ buffer'[d] = << >>))
    BY <1>3 DEF IInv, TypeOK
  <2> QED BY <2>1, <2>2, <2>3, UnitsFrame
<1>4. ASSUME NEW n \in Hosts, NEW c \in Connections, NothingYet(n, c) \/ RemoteClosed(n, c)
                                                        \/ HeaderRefused(n, c) \/ PollRaises(n, c)
      PROVE  UnitsOK(d)'
  <2>1. UNCHANGED <<offered, upcoming, taken, reset, outcome>> /\ buffer'[d] \in {buffer[d], << >>}
    BY <1>4 DEF NothingYet, RemoteClosed, HeaderRefused, PollRaises, Discard, IInv, TypeOK
  <2> QED BY <1>1, <2>1
<1>5. ASSUME NEW n \in Hosts, NEW c \in Connections, HeaderRead(n, c) \/ Receive(n, c)
      PROVE  UnitsOK(d)'
  <2>1. /\ buffer[c] # << >> /\ buffer' = [buffer EXCEPT ![c] = Tail(@)]
        /\ UNCHANGED <<offered, upcoming, outcome, reset, waiting, open, graceful>>
        /\ taken' = taken \/ \E m : taken' = [taken EXCEPT ![c] = Append(@, m)]
    BY <1>5 DEF HeaderRead, Header, Receive
  <2>2. CASE d = c
    BY <2>1, <2>2, UnitsRead
  <2>3. CASE d # c
    <3>1. buffer'[d] = buffer[d] /\ taken'[d] = taken[d]
      BY <2>1, <2>3 DEF IInv, TypeOK
    <3> QED BY <2>1, <3>1, UnitsFrame
  <2> QED BY <2>2, <2>3
<1>6. ASSUME NEW c \in Connections, WriteToReceiver(c)
      PROVE  UnitsOK(d)'
  <2>1. CASE d = c
    BY <1>6, <2>1, UnitsWritten
  <2>2. CASE d # c
    <3>1. buffer'[d] = buffer[d] /\ upcoming'[d] = upcoming[d]
      BY <1>6, <2>2 DEF WriteToReceiver, Write, IInv, TypeOK
    <3> QED BY <1>6, <3>1, UnitsFrame DEF WriteToReceiver, Write
  <2> QED BY <2>1, <2>2
<1>7. ASSUME NEW c \in Connections, WriteInVain(c)
      PROVE  UnitsOK(d)'
  <2>1. /\ UNCHANGED <<offered, buffer, taken, reset, outcome>>
        /\ upcoming' = [upcoming EXCEPT ![c] = After(c, @)]
        /\ c \in closed /\ outcome[c] = "pending" /\ upcoming[c][1] <= Len(offered[c])
    BY <1>7 DEF WriteInVain, Write, AllWritten, IInv, TypeOK, Units
  <2>2. CASE d # c
    <3>1. upcoming'[d] = upcoming[d]
      BY <2>1, <2>2 DEF IInv, TypeOK
    <3> QED BY <2>1, <3>1, UnitsFrame
  <2>3. CASE d = c
    <3>1. UnitsOK(c) /\ buffer[c] = << >>
      <4>1. ~ Established(c)
        BY <2>1, TablesOf DEF Established
      <4> QED BY <4>1 DEF IInv, UnitsInv, UnitsOK
    <3>2. /\ upcoming'[c][1] \in {upcoming[c][1], upcoming[c][1] + 1}
          /\ upcoming[c] \in Units /\ Len(offered[c]) \in Nat
      <4>1. upcoming[c] \in Units /\ Len(offered[c]) \in Nat
        BY DEF IInv, TypeOK
      <4>2. upcoming'[c] = After(c, upcoming[c])
        BY <2>1 DEF IInv, TypeOK
      <4> QED BY <4>1, <4>2, AfterUnit
    <3>3. upcoming'[c][1] \in 1 .. Len(offered[c]) + 1
      BY <2>1, <3>1, <3>2 DEF UnitsOK
    <3> QED BY <2>1, <2>3, <3>1, <3>3 DEF UnitsOK
  <2> QED BY <2>2, <2>3
<1>8. CASE UNCHANGED <<offered, upcoming, buffer, taken, reset, outcome>>
  BY <1>1, <1>8
<1>9. ASSUME NEW n \in Hosts, SendSucceeds(n) \/ SendStalls(n)
      PROVE  UnitsOK(d)'
  BY <1>3, <1>9 DEF SendSucceeds, SendStalls, IInv, LoopsInv, LoopOK
<1>10. ASSUME NEW n \in Hosts, NEW c \in Connections, NEW to \in Hosts, NEW m \in Bundles,
              SendTo(n, c, to, m)
       PROVE  UnitsOK(d)'
  <2>1. <<m>> \in Seq(Messages)
    BY MTCPAssumption
  <2> QED BY <1>2, <1>10, <2>1 DEF SendTo
<1>11. ASSUME NEW c \in Connections, NEW p \in Peers, NEW to \in Hosts, NEW s \in Scripts,
              PeerConnects(p, c, to, s)
       PROVE  UnitsOK(d)'
  <2>1. s \in Seq(Messages)
    BY MTCPAssumption
  <2> QED BY <1>2, <1>11, <2>1 DEF PeerConnects
<1>12. ASSUME NEW c \in Connections, PeerCloses(c) \/ PeerResets(c)
       PROVE  UnitsOK(d)'
  BY <1>3, <1>12 DEF PeerCloses, PeerResets, Closing
<1> QED
  BY <1>4, <1>5, <1>6, <1>7, <1>8, <1>9, <1>10, <1>11, <1>12
  DEF Next, PollStep, Poll, Establish, Expire, vars

-----------------------------------------------------------------------------
(* Where the receivers are in what they read.                              *)

(* Only the host that has a connection reads from it. *)
LEMMA ReaderHolds ==
    ASSUME IInv, NEW n \in Hosts, NEW d, Reading(n, d)
    PROVE  /\ d \in Held(n) /\ d \notin closed /\ LooksAt(n, d)
           /\ \A h \in Hosts : d \in Held(h) => h = n
<1>1. LooksAt(n, d)
  <2>1. task[n] \in Tasks /\ LoopOK(n) /\ task[n].partial # << >> /\ Head(task[n].todo) = d
    BY DEF IInv, TypeOK, LoopsInv, Reading
  <2>2. task[n].op \notin {"idle", "send"} /\ task[n].todo # << >>
    BY <2>1 DEF LoopOK
  <2> QED BY <2>1, <2>2 DEF LooksAt, Tasks
<1>2. d \in Held(n)
  BY <1>1, LoopAt DEF Held
<1> QED BY <1>1, <1>2, TablesOf

(* A step after which a connection and those who read from it are as they were. *)
LEMMA ReadFrame ==
    ASSUME IInv, NEW d \in Connections, offered'[d] = offered[d], taken'[d] = taken[d],
           d \in closed => d \in closed', d \in reset => d \in reset',
           d \in closed' \union reset' \/ Following(d)' = Following(d),
           (\E n \in Hosts : Reading(n, d)) => d \in reset' \/ Following(d)' = Following(d),
           \A n \in Hosts : Reading(n, d)' => Reading(n, d) /\ task'[n].partial = task[n].partial,
           \A n \in Hosts : Reading(n, d) => Reading(n, d)' \/ d \in closed' \union reset'
    PROVE  ReadOK(d)'
<1>1. ReadOK(d)
  BY DEF IInv, ReadInv
<1>2. ASSUME NEW n \in Hosts, Reading(n, d)'
      PROVE  LET partial == task'[n].partial
                 at      == Len(taken'[d]) + 1
             IN  /\ at <= Len(offered'[d])
                 /\ Len(partial) < Size[offered'[d][at]]
                 /\ partial = [j \in 1 .. Len(partial) |-> <<at, j>>]
                 /\ d \notin reset' => Following(d)' = <<at, Len(partial) + 1>>
  <2>1. Reading(n, d) /\ task'[n].partial = task[n].partial
    BY <1>2
  <2> QED BY <1>1, <2>1 DEF ReadOK
<1>3. ASSUME d \notin closed' \union reset', \A n \in Hosts : ~ Reading(n, d)'
      PROVE  Following(d)' = <<Len(taken'[d]) + 1, 1>>
  BY <1>1, <1>3 DEF ReadOK
<1> QED BY <1>2, <1>3 DEF ReadOK

(* Who reads what, when one host changes its task and reads nothing after. *)
LEMMA ReadingAfter ==
    ASSUME IInv, NEW n \in Hosts, NEW t, task' = [task EXCEPT ![n] = t], t.partial = << >>
    PROVE  /\ \A d : ~ Reading(n, d)'
           /\ \A h \in Hosts : \A d : h # n =>
                  (Reading(h, d)' <=> Reading(h, d)) /\ task'[h].partial = task[h].partial
<1>1. task'[n] = t /\ \A h \in Hosts : h # n => task'[h] = task[h]
  BY DEF IInv, TypeOK
<1> QED BY <1>1 DEF Reading

(* A step of a host that reads nothing before and after it. *)
LEMMA ReadQuiet ==
    ASSUME IInv, NEW n \in Hosts, NEW t, task' = [task EXCEPT ![n] = t],
           task[n].partial = << >>, t.partial = << >>, NEW d \in Connections,
           offered'[d] = offered[d], taken'[d] = taken[d],
           d \in closed => d \in closed', d \in reset => d \in reset',
           d \in closed' \/ (buffer'[d] = buffer[d] /\ upcoming'[d] = upcoming[d]),
           d \in closed' => \A h \in Hosts : h # n => d \notin Held(h)
    PROVE  ReadOK(d)'
<1>1. /\ ~ Reading(n, d) /\ ~ Reading(n, d)'
      /\ \A h \in Hosts : h # n => /\ Reading(h, d)' <=> Reading(h, d)
                                   /\ task'[h].partial = task[h].partial
  BY ReadingAfter DEF Reading
<1>2. d \in closed' \/ Following(d)' = Following(d)
  BY DEF Following
<1>3. (\E h \in Hosts : Reading(h, d)) => d \notin closed'
  BY <1>1, ReaderHolds
<1> QED BY <1>1, <1>2, <1>3, ReadFrame

(* The connection that is opened has no reader yet. *)
LEMMA ReadOpened ==
    ASSUME IInv, NEW c \in Connections, NEW from, NEW to, NEW messages \in Seq(Messages),
           Connect(c, from, to, messages), \A n \in Hosts : ~ Reading(n, c)'
    PROVE  ReadOK(c)'
<1>1. /\ buffer'[c] = << >> /\ upcoming'[c] = <<1, 1>> /\ taken'[c] = << >>
  BY UnitsOpened
<1>2. Following(c)' = <<1, 1>>
  BY <1>1 DEF Following
<1> QED BY <1>1, <1>2 DEF ReadOK

(* A loop that discards a connection. *)
LEMMA ReadDiscarded ==
    ASSUME IInv, NEW n \in Hosts, NEW c, LooksAt(n, c), Discard(n, c), GoOn(n),
           NEW d \in Connections
    PROVE  ReadOK(d)'
<1>1. /\ c \in Connections /\ c \in Held(n) /\ graceful' \in [Hosts -> Seq(Connections)]
      /\ \A h \in Hosts : h # n => c \notin Held(h)
  BY LoopAt, DiscardLists, TablesDiscard DEF IInv, Held
<1>2. task' = [task EXCEPT ![n] = task'[n]] /\ task'[n].partial = << >>
  BY <1>1, GoOnTask
<1>3. /\ ~ Reading(n, d)'
      /\ \A h \in Hosts : h # n => /\ Reading(h, d)' <=> Reading(h, d)
                                   /\ task'[h].partial = task[h].partial
  <2> DEFINE t == task'[n]
  <2>1. task' = [task EXCEPT ![n] = t] /\ t.partial = << >>
    BY <1>2
  <2> HIDE DEF t
  <2> QED BY <2>1, ReadingAfter
<1>4. UNCHANGED <<offered, taken, upcoming, reset>> /\ closed' = closed \union {c}
  BY DEF Discard
<1>5. CASE d = c
  <2>1. d \in closed' /\ \A h \in Hosts : h # n => ~ Reading(h, d)
    BY <1>1, <1>4, <1>5, ReaderHolds
  <2>2. \A h \in Hosts : ~ Reading(h, d)'
    BY <1>3, <2>1
  <2> QED BY <2>1, <2>2 DEF ReadOK
<1>6. CASE d # c
  <2>1. buffer'[d] = buffer[d]
    BY <1>6 DEF Discard, IInv, TypeOK
  <2>2. Following(d)' = Following(d)
    BY <1>4, <2>1 DEF Following
  <2>3. ~ Reading(n, d)
    BY <1>6 DEF Reading, LooksAt
  <2> QED BY <1>3, <1>4, <2>2, <2>3, ReadFrame
<1> QED BY <1>5, <1>6

(* What follows when the receiver has read one unit. *)
LEMMA FollowingRead ==
    ASSUME IInv, NEW c \in Connections, buffer[c] # << >>,
           buffer' = [buffer EXCEPT ![c] = Tail(@)], upcoming' = upcoming
    PROVE  /\ Following(c)' = After(c, Head(buffer[c]))
           /\ Head(buffer[c])[1] \in 1 .. Len(offered[c])
           /\ After(c, Head(buffer[c]))[1] <= upcoming[c][1]
<1> DEFINE b == buffer[c]
           r == buffer'[c]
<1>1. /\ b \in Seq(Units) /\ b # << >> /\ r = Tail(b) /\ UnitsOK(c)
  BY DEF IInv, TypeOK, UnitsInv
<1>2. /\ b[1][1] \in 1 .. Len(offered[c])
      /\ After(c, b[1]) = IF 1 = Len(b) THEN upcoming[c] ELSE b[1 + 1]
      /\ After(c, b[1])[1] <= upcoming[c][1]
  <2>1. 1 \in 1 .. Len(b)
    BY <1>1
  <2> QED BY <1>1, <2>1 DEF UnitsOK
<1>3. Following(c)' = IF r = << >> THEN upcoming[c] ELSE Head(r)
  BY DEF Following
<1> HIDE DEF b, r
<1>4. /\ r \in Seq(Units) /\ Len(b) \in Nat \ {0} /\ Len(r) = Len(b) - 1
      /\ \A k \in 1 .. Len(b) - 1 : r[k] = b[k + 1]
      /\ Head(b) = b[1]
  BY <1>1
<1>5. Len(b) = 1 => r = << >>
  BY <1>4
<1>6. Len(b) # 1 => r # << >> /\ Head(r) = b[2]
  <2> SUFFICES ASSUME Len(b) # 1 PROVE r # << >> /\ Head(r) = b[2]
    OBVIOUS
  <2>1. 1 \in 1 .. Len(b) - 1 /\ Len(r) # 0
    BY <1>4
  <2>2. r # << >> /\ Head(r) = r[1]
    BY <1>4, <2>1
  <2> QED BY <1>4, <2>1, <2>2
<1>7. Following(c)' = After(c, Head(b))
  BY <1>2, <1>3, <1>4, <1>5, <1>6
<1> QED BY <1>2, <1>4, <1>7 DEF b

(* The next unit is the header of the next message, and there is more of it. *)
LEMMA ReadHeader ==
    ASSUME IInv, NEW n \in Hosts, NEW c \in Connections, HeaderRead(n, c),
           NEW d \in Connections
    PROVE  ReadOK(d)'
<1> DEFINE at == Len(taken[c]) + 1
<1>1. /\ LooksAt(n, c) /\ task[n].partial = << >> /\ buffer[c] # << >>
      /\ Size[Message(c, Head(buffer[c]))] > 1
      /\ buffer' = [buffer EXCEPT ![c] = Tail(@)]
      /\ task' = [task EXCEPT ![n].partial = <<Head(buffer[c])>>]
      /\ UNCHANGED <<offered, taken, upcoming, reset, closed>>
  BY DEF HeaderRead, Header
<1>2. /\ task'[n].partial = <<Head(buffer[c])>> /\ task'[n].todo = task[n].todo
      /\ \A h \in Hosts : h # n => task'[h] = task[h]
  BY <1>1 DEF IInv, TypeOK, Tasks
<1>3. Head(task[n].todo) = c /\ c \in Held(n) /\ c \notin closed
  <2>1. c \in Held(n) /\ Head(task[n].todo) = c
    BY <1>1, LoopAt DEF LooksAt, Held
  <2> QED BY <2>1, TablesOf
<1>4. CASE d # c
  <2>1. ~ Reading(n, d) /\ ~ Reading(n, d)'
    BY <1>2, <1>3, <1>4 DEF Reading
  <2>2. \A h \in Hosts : h # n => /\ Reading(h, d)' <=> Reading(h, d)
                                  /\ task'[h].partial = task[h].partial
    BY <1>2 DEF Reading
  <2>3. buffer'[d] = buffer[d]
    BY <1>1, <1>4 DEF IInv, TypeOK
  <2>4. Following(d)' = Following(d)
    <3>1. upcoming' = upcoming
      BY <1>1
    <3> QED BY <2>3, <3>1 DEF Following
  <2> QED BY <1>1, <2>1, <2>2, <2>4, ReadFrame
<1>5. CASE d = c
  <2>1. \A h \in Hosts : ~ Reading(h, c)
    <3>1. ~ Reading(n, c)
      BY <1>1 DEF Reading
    <3> QED BY <1>3, <3>1, ReaderHolds
  <2>2. UnitsOK(c) /\ buffer[c] \in Seq(Units) /\ taken[c] \in Seq(Messages)
    BY DEF IInv, UnitsInv, TypeOK
  <2>3. c \notin reset
    BY <1>1, <2>2 DEF UnitsOK
  <2>4. Head(buffer[c]) = <<at, 1>>
    BY <1>1, <1>3, <2>1, <2>3 DEF IInv, ReadInv, ReadOK, Following
  <2>5. Following(c)' = After(c, <<at, 1>>) /\ at \in 1 .. Len(offered[c])
    <3>1. upcoming' = upcoming
      BY <1>1
    <3>2. /\ Following(c)' = After(c, Head(buffer[c]))
          /\ Head(buffer[c])[1] \in 1 .. Len(offered[c])
      BY <1>1, <3>1, FollowingRead
    <3> QED BY <2>4, <3>2
  <2>6. Size[offered[c][at]] > 1
    BY <1>1, <2>4 DEF Message
  <2>7. After(c, <<at, 1>>) = <<at, 2>>
    BY <2>6 DEF After, Message
  <2>8. /\ task'[n].partial = <<<<at, 1>>>> /\ Len(task'[n].partial) = 1 /\ at \in Nat
        /\ task'[n].partial = [j \in 1 .. 1 |-> <<at, j>>]
    <3>1. task'[n].partial = <<<<at, 1>>>>
      BY <1>2, <2>4
    <3>2. Len(<<<<at, 1>>>>) = 1 /\ <<<<at, 1>>>> = [j \in 1 .. 1 |-> <<at, j>>]
      OBVIOUS
    <3> QED BY <2>2, <3>1, <3>2
  <2>9. Reading(n, c)' /\ \A h \in Hosts : h # n => ~ Reading(h, c)'
    BY <1>2, <1>3, <2>1, <2>8 DEF Reading
  <2>10. at <= Len(offered[c]) /\ 1 < Size[offered[c][at]]
    <3>1. Len(offered[c]) \in Nat
      BY DEF IInv, TypeOK
    <3>2. offered[c][at] \in Messages
      BY <2>5 DEF IInv, TypeOK
    <3>3. Size[offered[c][at]] \in Nat
      BY <3>2, MTCPAssumption
    <3> QED BY <2>5, <2>6, <3>1, <3>3
  <2>11. ReadOK(c)'
    <3>1. \A h \in Hosts : Reading(h, c)' => h = n
      BY <2>9
    <3>2. offered' = offered /\ taken' = taken
      BY <1>1
    <3>3. /\ at <= Len(offered'[c]) /\ Len(task'[n].partial) < Size[offered'[c][at]]
          /\ task'[n].partial = [j \in 1 .. Len(task'[n].partial) |-> <<at, j>>]
          /\ Following(c)' = <<at, Len(task'[n].partial) + 1>>
      BY <2>5, <2>7, <2>8, <2>10, <3>2
    <3>4. at = Len(taken'[c]) + 1
      BY <3>2
    <3> HIDE DEF at
    <3> QED BY <2>9, <3>1, <3>3, <3>4 DEF ReadOK
  <2> QED BY <1>5, <2>11
<1> QED BY <1>4, <1>5

(* A unit in the middle of a message. *)
LEMMA ReadReceived ==
    ASSUME IInv, NEW n \in Hosts, NEW c \in Connections, Receive(n, c),
           NEW d \in Connections
    PROVE  ReadOK(d)'
<1> DEFINE at == Len(taken[c]) + 1
           old == task[n].partial
           partial == Append(old, Head(buffer[c]))
           size == Size[offered[c][at]]
<1>1. /\ LooksAt(n, c) /\ old # << >> /\ buffer[c] # << >>
      /\ buffer' = [buffer EXCEPT ![c] = Tail(@)]
      /\ UNCHANGED <<offered, upcoming, reset, closed>>
  BY DEF Receive
<1>2. /\ at \in 1 .. Len(offered[c]) /\ offered[c][at] \in Messages
      /\ Head(buffer[c]) = <<at, Len(old) + 1>>
      /\ partial \in Seq(Units) /\ Len(partial) = Len(old) + 1
      /\ partial = [j \in 1 .. Len(partial) |-> <<at, j>>]
      /\ Len(partial) <= size
      /\ Complete(c, partial) <=> Len(partial) = size
      /\ Assembled(c, partial) = offered[c][at]
  BY <1>1, ReceiveAt
<1>3. /\ Complete(c, partial) =>
           /\ taken' = [taken EXCEPT ![c] = Append(@, offered[c][at])]
           /\ task' = [task EXCEPT ![n] = Idle]
      /\ ~ Complete(c, partial) =>
           /\ taken' = taken
           /\ task' = [task EXCEPT ![n].partial = partial]
  BY <1>2 DEF Receive
<1>4. /\ Head(task[n].todo) = c /\ c \in Held(n) /\ c \notin closed
      /\ \A h \in Hosts : h # n => c \notin Held(h)
  <2>1. c \in Held(n) /\ Head(task[n].todo) = c
    BY <1>1, LoopAt DEF LooksAt, Held
  <2> QED BY <2>1, TablesOf
<1>5. c \notin reset
  BY <1>1 DEF IInv, UnitsInv, UnitsOK
<1>6. /\ task \in [Hosts -> Tasks] /\ taken \in [Connections -> Seq(Messages)]
      /\ offered \in [Connections -> Seq(Messages)] /\ old \in Seq(Units)
  BY DEF IInv, TypeOK, Tasks
<1>7. upcoming' = upcoming
  BY <1>1
<1>8. Following(c)' = After(c, <<at, Len(partial)>>)
  BY <1>1, <1>2, <1>7, FollowingRead
<1> HIDE DEF partial, old
<1>9. \A h \in Hosts : h # n => task'[h] = task[h]
  BY <1>3, <1>6
<1>10. CASE d # c
  <2>1. ~ Reading(n, d) /\ ~ Reading(n, d)'
    <3>1. ~ Reading(n, d)
      BY <1>4, <1>10 DEF Reading
    <3>2. CASE Complete(c, partial)
      <4>1. task'[n].partial = << >>
        BY <1>3, <1>6, <3>2 DEF Idle, Doing
      <4> QED BY <3>1, <4>1 DEF Reading
    <3>3. CASE ~ Complete(c, partial)
      <4>1. task'[n] = [task[n] EXCEPT !.partial = partial]
        BY <1>3, <1>6, <3>3
      <4>2. task'[n].todo = task[n].todo
        BY <1>6, <4>1 DEF Tasks
      <4> QED BY <1>4, <1>10, <3>1, <4>2 DEF Reading
    <3> QED BY <3>2, <3>3
  <2>2. \A h \in Hosts : h # n => /\ Reading(h, d)' <=> Reading(h, d)
                                  /\ task'[h].partial = task[h].partial
    BY <1>9 DEF Reading
  <2>3. buffer'[d] = buffer[d] /\ taken'[d] = taken[d]
    BY <1>1, <1>3, <1>10 DEF IInv, TypeOK
  <2>4. Following(d)' = Following(d)
    BY <1>7, <2>3 DEF Following
  <2> QED BY <1>1, <2>1, <2>2, <2>3, <2>4, ReadFrame
<1>11. \A h \in Hosts : h # n => ~ Reading(h, c)'
  <2>1. \A h \in Hosts : h # n => ~ Reading(h, c)
    BY <1>4, ReaderHolds
  <2> QED BY <1>9, <2>1 DEF Reading
<1>12. CASE d = c /\ Complete(c, partial)
  <2>1. task'[n].partial = << >>
    BY <1>3, <1>6, <1>12 DEF Idle, Doing
  <2>2. \A h \in Hosts : ~ Reading(h, c)'
    BY <1>11, <2>1 DEF Reading
  <2>3. Len(taken'[c]) = at
    BY <1>2, <1>3, <1>6, <1>12
  <2>4. After(c, <<at, Len(partial)>>) = <<at + 1, 1>>
    <3>1. ~ Len(partial) < size
      <4>1. Len(partial) \in Nat
        BY <1>2
      <4> QED BY <1>2, <1>12, <4>1
    <3> QED BY <3>1 DEF After, Message
  <2> QED BY <1>8, <1>12, <2>2, <2>3, <2>4 DEF ReadOK
<1>13. CASE d = c /\ ~ Complete(c, partial)
  <2>1. task'[n] = [task[n] EXCEPT !.partial = partial] /\ taken' = taken
    BY <1>3, <1>6, <1>13
  <2>2. task'[n].partial = partial /\ task'[n].todo = task[n].todo
    BY <1>6, <2>1 DEF Tasks
  <2>3. /\ Len(partial) \in Nat /\ size \in Nat /\ Len(partial) < size
    <3>1. Len(partial) \in Nat /\ size \in Nat
      BY <1>2, MTCPAssumption
    <3> QED BY <1>2, <1>13, <3>1
  <2>4. After(c, <<at, Len(partial)>>) = <<at, Len(partial) + 1>>
    BY <2>3 DEF After, Message
  <2>5. Reading(n, c)'
    <3>1. partial # << >>
      BY <1>2, <1>6
    <3> QED BY <1>4, <2>2, <3>1 DEF Reading
  <2>6. at <= Len(offered[c]) /\ offered' = offered /\ at = Len(taken'[c]) + 1
    BY <1>1, <1>2, <2>1
  <2>7. /\ Len(task'[n].partial) < Size[offered'[c][at]]
        /\ task'[n].partial = [j \in 1 .. Len(task'[n].partial) |-> <<at, j>>]
        /\ Following(c)' = <<at, Len(task'[n].partial) + 1>>
    BY <1>2, <1>8, <2>2, <2>3, <2>4, <2>6
  <2> HIDE DEF at, size
  <2>8. \A h \in Hosts : Reading(h, c)' => h = n
    BY <1>11
  <2> QED BY <1>13, <2>5, <2>6, <2>7, <2>8 DEF ReadOK
<1> QED BY <1>10, <1>12, <1>13

(* The sender writes one unit. *)
LEMMA ReadWritten ==
    ASSUME IInv, NEW c \in Connections, WriteToReceiver(c) \/ WriteInVain(c),
           NEW d \in Connections
    PROVE  ReadOK(d)'
<1>1. /\ UNCHANGED <<offered, taken, reset, closed, task>>
      /\ upcoming' = [upcoming EXCEPT ![c] = After(c, @)]
      /\ WriteToReceiver(c) => buffer' = [buffer EXCEPT ![c] = Append(@, upcoming[c])]
      /\ WriteInVain(c) => buffer' = buffer /\ c \in closed
  BY DEF WriteToReceiver, WriteInVain, Write
<1>2. \A n \in Hosts : Reading(n, d)' <=> Reading(n, d)
  BY <1>1 DEF Reading
<1>3. CASE d # c
  <2>1. buffer'[d] = buffer[d] /\ upcoming'[d] = upcoming[d]
    BY <1>1, <1>3 DEF IInv, TypeOK
  <2>2. Following(d)' = Following(d)
    BY <2>1 DEF Following
  <2> QED BY <1>1, <1>2, <2>2, ReadFrame
<1>4. CASE d = c /\ WriteInVain(c)
  <2>1. \A n \in Hosts : ~ Reading(n, c)
    BY <1>1, <1>4, ReaderHolds
  <2> QED BY <1>1, <1>2, <1>4, <2>1 DEF ReadOK
<1>5. CASE d = c /\ WriteToReceiver(c)
  <2> DEFINE b == buffer[c]
             u == upcoming[c]
             w == buffer'[c]
  <2>1. b \in Seq(Units) /\ u \in Units /\ w = Append(b, u)
    BY <1>1, <1>5 DEF IInv, TypeOK
  <2>2. Following(c) = (IF b = << >> THEN u ELSE Head(b))
        /\ Following(c)' = IF w = << >> THEN upcoming'[c] ELSE Head(w)
    BY DEF Following
  <2> HIDE DEF b, u, w
  <2>3. w # << >> /\ Head(w) = IF b = << >> THEN u ELSE Head(b)
    <3>1. Len(b) \in Nat /\ Len(w) = Len(b) + 1 /\ w \in Seq(Units)
      BY <2>1
    <3>2. w # << >> /\ Head(w) = w[1]
      BY <3>1
    <3>3. CASE b = << >>
      BY <2>1, <3>2, <3>3
    <3>4. CASE b # << >>
      <4>1. 1 \in 1 .. Len(b) /\ Head(b) = b[1]
        BY <2>1, <3>4
      <4>2. w[1] = b[1]
        BY <2>1, <4>1
      <4> QED BY <3>2, <3>4, <4>1, <4>2
    <3> QED BY <3>3, <3>4
  <2>4. Following(c)' = Following(c)
    BY <2>2, <2>3
  <2> QED BY <1>1, <1>2, <1>5, <2>4, ReadFrame
<1> QED BY <1>3, <1>4, <1>5

(* Every step leaves the receivers at the message after those they took. *)
LEMMA ReadStep ==
    ASSUME IInv, [Next]_vars
    PROVE  ReadInv'
<1> SUFFICES ASSUME NEW d \in Connections PROVE ReadOK(d)'
  BY DEF ReadInv
<1>1. ASSUME UNCHANGED <<offered, upcoming, buffer, taken, closed, reset, task>>
      PROVE  ReadOK(d)'
  BY <1>1 DEF IInv, ReadInv, ReadOK, Following, Reading
<1>2. ASSUME NEW c \in Connections, NEW from, NEW to, NEW messages \in Seq(Messages),
             Connect(c, from, to, messages),
             \/ task' = task
             \/ \E n \in Hosts : task[n] = Idle /\ task' = [task EXCEPT ![n] = Doing("send", c, << >>)]
      PROVE  ReadOK(d)'
  <2>1. \A n \in Hosts : /\ Reading(n, d)' <=> Reading(n, d)
                         /\ Reading(n, d) => task'[n].partial = task[n].partial
    <3>1. CASE task' = task
      BY <3>1 DEF Reading
    <3>2. ASSUME NEW n \in Hosts, task[n] = Idle, task' = [task EXCEPT ![n] = Doing("send", c, << >>)]
          PROVE  \A h \in Hosts : /\ Reading(h, d)' <=> Reading(h, d)
                                  /\ Reading(h, d) => task'[h].partial = task[h].partial
      <4>1. Doing("send", c, << >>).partial = << >> /\ ~ Reading(n, d)
        BY <3>2 DEF Reading, Idle, Doing
      <4> QED BY <3>2, <4>1, ReadingAfter
    <3> QED BY <1>2, <3>1, <3>2
  <2>2. /\ UNCHANGED <<buffer, upcoming, taken, reset, closed>>
        /\ offered' = [offered EXCEPT ![c] = messages] /\ outcome[c] = "unused"
    BY <1>2, UnitsOpened DEF Connect
  <2>3. CASE d = c
    <3>1. \A n \in Hosts : ~ Reading(n, c)
      BY <2>2, ReaderHolds, TablesOf
    <3>2. \A n \in Hosts : ~ Reading(n, c)'
      BY <2>1, <2>3, <3>1
    <3> QED BY <1>2, <2>3, <3>2, ReadOpened
  <2>4. CASE d # c
    <3>1. offered'[d] = offered[d]
      BY <2>2, <2>4 DEF IInv, TypeOK
    <3>2. Following(d)' = Following(d)
      BY <2>2 DEF Following
    <3> QED BY <2>1, <2>2, <3>1, <3>2, ReadFrame
  <2> QED BY <2>3, <2>4
<1>3. ASSUME NEW c \in Connections, NEW result \in {"succeeded", "failed"}, Settle(c, result),
             \/ UNCHANGED <<buffer, reset>>
             \/ buffer' = [buffer EXCEPT ![c] = << >>] /\ reset' = reset \union {c},
             \/ task' = task
             \/ \E n \in Hosts : task[n].op = "send" /\ task' = [task EXCEPT ![n] = Idle]
      PROVE  ReadOK(d)'
  <2>1. \A n \in Hosts : /\ Reading(n, d)' <=> Reading(n, d)
                         /\ Reading(n, d) => task'[n].partial = task[n].partial
    <3>1. CASE task' = task
      BY <3>1 DEF Reading
    <3>2. ASSUME NEW n \in Hosts, task[n].op = "send", task' = [task EXCEPT ![n] = Idle]
          PROVE  \A h \in Hosts : /\ Reading(h, d)' <=> Reading(h, d)
                                  /\ Reading(h, d) => task'[h].partial = task[h].partial
      <4>1. Idle.partial = << >>
        BY DEF Idle, Doing
      <4>2. ~ Reading(n, d)
        BY <3>2 DEF Reading, IInv, LoopsInv, LoopOK
      <4> QED BY <3>2, <4>1, <4>2, ReadingAfter
    <3> QED BY <1>3, <3>1, <3>2
  <2>2. UNCHANGED <<offered, upcoming, taken>> /\ closed \subseteq closed'
    BY <1>3 DEF Settle
  <2>3. (\E n \in Hosts : Reading(n, d)) => d \notin closed'
    <3>1. ASSUME NEW n \in Hosts, Reading(n, d) PROVE d \notin closed'
      <4>1. Established(d) /\ d \notin closed
        BY <3>1, ReaderHolds DEF Established
      <4> QED BY <1>3, <4>1 DEF Settle
    <3> QED BY <3>1
  <2>4. d \in reset' \/ (d \notin reset /\ Following(d)' = Following(d))
    BY <1>3, <2>2 DEF Following, IInv, TypeOK
  <2>5. d \in reset => d \in reset'
    BY <1>3
  <2> QED BY <2>1, <2>2, <2>3, <2>4, <2>5, ReadFrame
<1>4. ASSUME NEW n \in Hosts, NEW c \in Connections, RemoteClosed(n, c) \/ HeaderRefused(n, c)
      PROVE  ReadOK(d)'
  BY <1>4, ReadDiscarded DEF RemoteClosed, HeaderRefused, Header
<1>5. ASSUME NEW n \in Hosts, NEW c \in Connections, NothingYet(n, c)
      PROVE  ReadOK(d)'
  <2>1. LooksAt(n, c) /\ GoOn(n) /\ task[n].partial = << >>
    BY <1>5 DEF NothingYet
  <2>2. CASE Discard(n, c)
    BY <2>1, <2>2, ReadDiscarded
  <2>3. CASE ~ Discard(n, c)
    <3>1. UNCHANGED <<offered, upcoming, buffer, taken, closed, reset>>
      BY <1>5, <2>3 DEF NothingYet
    <3>2. graceful' \in [Hosts -> Seq(Connections)]
      BY <1>5, TypeStep DEF Next, PollStep, TypeOK
    <3>3. task' = [task EXCEPT ![n] = task'[n]] /\ task'[n].partial = << >>
      BY <2>1, <3>2, GoOnTask
    <3>4. \A h \in Hosts : /\ Reading(h, d)' <=> Reading(h, d)
                           /\ Reading(h, d) => task'[h].partial = task[h].partial
      <4> DEFINE t == task'[n]
      <4>1. task' = [task EXCEPT ![n] = t] /\ t.partial = << >> /\ ~ Reading(n, d)
        BY <2>1, <3>3 DEF Reading
      <4> HIDE DEF t
      <4> QED BY <4>1, ReadingAfter
    <3>5. Following(d)' = Following(d)
      BY <3>1 DEF Following
    <3> QED BY <3>1, <3>4, <3>5, ReadFrame
  <2> QED BY <2>2, <2>3
<1>6. ASSUME NEW n \in Hosts, NEW c \in Connections, PollRaises(n, c)
      PROVE  ReadOK(d)'
  <2>1. /\ LooksAt(n, c) /\ c \in reset /\ task' = [task EXCEPT ![n] = Idle]
        /\ UNCHANGED <<offered, upcoming, buffer, taken, closed, reset>>
    BY <1>6 DEF PollRaises, ShutdownRaises
  <2>2. Idle.partial = << >>
    BY DEF Idle, Doing
  <2>3. /\ ~ Reading(n, d)'
        /\ \A h \in Hosts : h # n => /\ Reading(h, d)' <=> Reading(h, d)
                                     /\ task'[h].partial = task[h].partial
    BY <2>1, <2>2, ReadingAfter
  <2>4. Reading(n, d) => d \in reset'
    BY <2>1 DEF LooksAt, Reading
  <2>5. Following(d)' = Following(d)
    BY <2>1 DEF Following
  <2> QED BY <2>1, <2>3, <2>4, <2>5, ReadFrame
<1>7. ASSUME NEW n \in Hosts, Poll(n)
      PROVE  ReadOK(d)'
  <2> DEFINE t == InLoop("open", open'[n], graceful[n])
  <2>1. /\ task[n].partial = << >> /\ task' = [task EXCEPT ![n] = t]
        /\ UNCHANGED <<offered, upcoming, buffer, taken, closed, reset>>
    BY <1>7 DEF Poll, Idle, Doing
  <2>2. t.partial = << >>
    <3>1. open'[n] \in Seq(Connections) /\ graceful[n] \in Seq(Connections)
      BY <1>7, TypeStep DEF Next, IInv, TypeOK
    <3> QED BY <3>1, LoopGoesOn
  <2>3. ~ Reading(n, d)
    BY <2>1 DEF Reading
  <2> HIDE DEF t
  <2>4. \A h \in Hosts : /\ Reading(h, d)' <=> Reading(h, d)
                         /\ Reading(h, d) => task'[h].partial = task[h].partial
    BY <2>1, <2>2, <2>3, ReadingAfter
  <2>5. Following(d)' = Following(d)
    BY <2>1 DEF Following
  <2> QED BY <2>1, <2>4, <2>5, ReadFrame
<1>8. ASSUME NEW n \in Hosts, SendSucceeds(n) \/ SendStalls(n)
      PROVE  ReadOK(d)'
  <2>1. task[n].connection \in Connections
    BY <1>8 DEF SendSucceeds, SendStalls, IInv, LoopsInv, LoopOK
  <2> QED BY <1>3, <1>8, <2>1 DEF SendSucceeds, SendStalls
<1>9. ASSUME NEW n \in Hosts, NEW c \in Connections, NEW to \in Hosts, NEW m \in Bundles,
             SendTo(n, c, to, m)
      PROVE  ReadOK(d)'
  <2>1. <<m>> \in Seq(Messages)
    BY MTCPAssumption
  <2> QED BY <1>2, <1>9, <2>1 DEF SendTo
<1>10. ASSUME NEW c \in Connections, NEW p \in Peers, NEW to \in Hosts, NEW s \in Scripts,
              PeerConnects(p, c, to, s)
       PROVE  ReadOK(d)'
  <2>1. s \in Seq(Messages)
    BY MTCPAssumption
  <2> QED BY <1>2, <1>10, <2>1 DEF PeerConnects
<1>11. ASSUME NEW c \in Connections, PeerCloses(c) \/ PeerResets(c)
       PROVE  ReadOK(d)'
  BY <1>3, <1>11 DEF PeerCloses, PeerResets, Closing
<1> QED
  BY <1>1, <1>4, <1>5, <1>6, <1>7, <1>8, <1>9, <1>10, <1>11, ReadHeader, ReadReceived, ReadWritten
  DEF Next, PollStep, Establish, Expire, vars

-----------------------------------------------------------------------------
(* The invariant, and what it gives.                                       *)

(* A fresh network has nothing to be wrong about. *)
LEMMA InitInv ==
    ASSUME Init
    PROVE  IInv
<1>1. Idle \in Tasks /\ Idle.todo = << >> /\ Idle.partial = << >> /\ Idle.op = "idle"
  BY DEF Idle, Doing, Tasks
<1>2. TypeOK
  BY <1>1, MTCPAssumption DEF Init, TypeOK, Units
<1>3. TablesInv
  BY DEF Init, TablesInv, Held, ToSet, Distinct
<1>4. LoopsInv
  BY <1>1 DEF Init, LoopsInv, LoopOK, Distinct
<1>5. UnitsInv
  <2> SUFFICES ASSUME NEW c \in Connections PROVE UnitsOK(c)
    BY DEF UnitsInv
  <2>1. /\ buffer[c] = << >> /\ upcoming[c] = <<1, 1>> /\ offered[c] = << >>
        /\ taken[c] = << >> /\ reset = {}
    BY DEF Init
  <2> QED BY <2>1 DEF UnitsOK
<1>6. ReadInv
  <2> SUFFICES ASSUME NEW c \in Connections PROVE ReadOK(c)
    BY DEF ReadInv
  <2>1. \A n \in Hosts : ~ Reading(n, c)
    BY <1>1 DEF Init, Reading
  <2>2. /\ buffer[c] = << >> /\ upcoming[c] = <<1, 1>> /\ taken[c] = << >>
    BY DEF Init
  <2> QED BY <2>1, <2>2 DEF ReadOK, Following
<1> QED BY <1>2, <1>3, <1>4, <1>5, <1>6 DEF IInv

(* The inductive invariant holds in every behaviour. *)
LEMMA Inductive == Spec => []IInv
<1>1. Init => IInv
  BY InitInv
<1>2. IInv /\ [Next]_vars => IInv'
  BY TypeStep, TablesStep, LoopsStep, UnitsStep, ReadStep DEF IInv
<1> QED BY <1>1, <1>2, PTL DEF Spec

(* Type correctness: the limits of the queue and of the table of open      *)
(* connections hold, and what is taken from a connection is a message.     *)
THEOREM MTCPTypeCorrect == Spec => []TypeOK
<1>1. IInv => TypeOK
  BY DEF IInv
<1> QED BY <1>1, Inductive, PTL

(* Two lists without anything twice and with nothing in common.            *)
LEMMA ConcatDistinct ==
    ASSUME NEW S, NEW s \in Seq(S), NEW t \in Seq(S), Distinct(s), Distinct(t),
           ToSet(s) \intersect ToSet(t) = {}
    PROVE  /\ s \o t \in Seq(S) /\ Distinct(s \o t)
           /\ ToSet(s \o t) = ToSet(s) \union ToSet(t)
<1> DEFINE a == s \o t
<1>1. /\ a \in Seq(S) /\ Len(a) = Len(s) + Len(t) /\ Len(s) \in Nat /\ Len(t) \in Nat
      /\ \A i \in 1 .. Len(s) + Len(t) : a[i] = IF i <= Len(s) THEN s[i] ELSE t[i - Len(s)]
  BY ConcatProperties
<1> HIDE DEF a
<1>2. DOMAIN a = 1 .. Len(s) + Len(t) /\ DOMAIN s = 1 .. Len(s) /\ DOMAIN t = 1 .. Len(t)
  BY <1>1
<1>3. ASSUME NEW i \in 1 .. Len(s) + Len(t)
      PROVE  \/ i \in 1 .. Len(s) /\ a[i] = s[i] /\ a[i] \in ToSet(s)
             \/ i - Len(s) \in 1 .. Len(t) /\ a[i] = t[i - Len(s)] /\ a[i] \in ToSet(t)
  <2>1. a[i] = IF i <= Len(s) THEN s[i] ELSE t[i - Len(s)]
    BY <1>1
  <2>2. CASE i <= Len(s)
    <3>1. i \in 1 .. Len(s) /\ a[i] = s[i]
      BY <1>1, <2>1, <2>2
    <3> QED BY <1>2, <3>1 DEF ToSet
  <2>3. CASE ~ i <= Len(s)
    <3>1. i - Len(s) \in 1 .. Len(t) /\ a[i] = t[i - Len(s)]
      BY <1>1, <2>1, <2>3
    <3> QED BY <1>2, <3>1 DEF ToSet
  <2> QED BY <2>2, <2>3
<1>4. Distinct(a)
  <2> SUFFICES ASSUME NEW i \in 1 .. Len(s) + Len(t), NEW j \in 1 .. Len(s) + Len(t), a[i] = a[j]
               PROVE  i = j
    BY <1>2 DEF Distinct
  <2>1. CASE a[i] \in ToSet(s)
    <3>1. i \in 1 .. Len(s) /\ j \in 1 .. Len(s) /\ a[i] = s[i] /\ a[j] = s[j]
      BY <1>3, <2>1
    <3> QED BY <1>2, <3>1 DEF Distinct
  <2>2. CASE a[i] \notin ToSet(s)
    <3>1. /\ i - Len(s) \in 1 .. Len(t) /\ j - Len(s) \in 1 .. Len(t)
          /\ a[i] = t[i - Len(s)] /\ a[j] = t[j - Len(s)]
      BY <1>3, <2>2
    <3>2. i - Len(s) = j - Len(s)
      BY <1>2, <3>1 DEF Distinct
    <3> QED BY <1>1, <3>2
  <2> QED BY <2>1, <2>2
<1>5. ToSet(a) = ToSet(s) \union ToSet(t)
  <2>1. ToSet(a) \subseteq ToSet(s) \union ToSet(t)
    BY <1>2, <1>3 DEF ToSet
  <2>2. ToSet(s) \subseteq ToSet(a)
    <3>1. ASSUME NEW i \in 1 .. Len(s) PROVE i \in 1 .. Len(s) + Len(t) /\ a[i] = s[i]
      BY <1>1
    <3> QED BY <1>2, <3>1 DEF ToSet
  <2>3. ToSet(t) \subseteq ToSet(a)
    <3>1. ASSUME NEW i \in 1 .. Len(t)
          PROVE  i + Len(s) \in 1 .. Len(s) + Len(t) /\ a[i + Len(s)] = t[i]
      <4>1. i + Len(s) \in 1 .. Len(s) + Len(t) /\ ~ i + Len(s) <= Len(s) /\ (i + Len(s)) - Len(s) = i
        BY <1>1
      <4> QED BY <1>1, <4>1
    <3> QED BY <1>2, <3>1 DEF ToSet
  <2> QED BY <2>1, <2>2, <2>3
<1> QED BY <1>1, <1>4, <1>5 DEF a

(* A connection is in one of the tables of its host only, so that no two   *)
(* loops read from it, and in none when it is closed.                      *)
THEOREM ConnectionsInOnePlace == Spec => []OnePlace
<1>1. ASSUME IInv PROVE OnePlace
  <2> SUFFICES ASSUME NEW n \in Hosts
               PROVE  LET all == waiting[n] \o open[n] \o graceful[n]
                      IN  Distinct(all) /\ ToSet(all) \intersect closed = {}
    BY DEF OnePlace, Distinct
  <2>1. /\ waiting[n] \in Seq(Connections) /\ open[n] \in Seq(Connections)
        /\ graceful[n] \in Seq(Connections)
    BY <1>1 DEF IInv, TypeOK
  <2> DEFINE w    == waiting[n]
             o    == open[n]
             g    == graceful[n]
             both == w \o o
  <2>2. /\ Distinct(w) /\ Distinct(o) /\ Distinct(g) /\ ToSet(w) \intersect ToSet(o) = {}
        /\ ToSet(w) \intersect ToSet(g) = {} /\ ToSet(o) \intersect ToSet(g) = {}
    BY <1>1, TablesOf
  <2> HIDE DEF w, o, g
  <2>3. /\ both \in Seq(Connections) /\ Distinct(both)
        /\ ToSet(both) = ToSet(w) \union ToSet(o)
    <3>1. w \in Seq(Connections) /\ o \in Seq(Connections)
      BY <2>1 DEF w, o
    <3> QED BY <2>2, <3>1, ConcatDistinct
  <2> HIDE DEF both
  <2>4. Distinct(both \o g) /\ ToSet(both \o g) = ToSet(both) \union ToSet(g)
    <3>1. g \in Seq(Connections)
      BY <2>1 DEF g
    <3>2. ToSet(both) \intersect ToSet(g) = {}
      BY <2>2, <2>3
    <3> QED BY <2>2, <2>3, <3>1, <3>2, ConcatDistinct
  <2>5. Held(n) \intersect closed = {}
    BY <1>1, TablesOf
  <2> QED BY <2>3, <2>4, <2>5 DEF Held, both, w, o, g
<1> QED BY <1>1, Inductive, PTL

-----------------------------------------------------------------------------
(* MTCP keeps the promise of Transfer.                                     *)

(* The four variables of Transfer stay as they are. *)
LEMMA Stutter ==
    ASSUME UNCHANGED <<offered, upcoming, taken, outcome>>
    PROVE  UNCHANGED <<offered, [c \in Connections |-> Handed(c)], taken, outcome>>
BY DEF Handed

(* Opening a connection offers the messages.                               *)
LEMMA ConnectOffers ==
    ASSUME IInv, NEW c \in Connections, NEW from, NEW to,
           NEW messages \in Seq(Messages), Connect(c, from, to, messages)
    PROVE  Promise!Offer(c)
<1>1. /\ outcome[c] = "unused" /\ outcome' = [outcome EXCEPT ![c] = "pending"]
      /\ offered' = [offered EXCEPT ![c] = messages] /\ UNCHANGED <<upcoming, taken>>
  BY DEF Connect, Fresh
<1>2. offered'[c] = messages
  BY <1>1 DEF IInv, TypeOK
<1>3. UNCHANGED [d \in Connections |-> Handed(d)]
  BY <1>1 DEF Handed
<1> QED BY <1>1, <1>2, <1>3 DEF Promise!Offer

(* Writing the last unit of a message hands it over; the others do not.    *)
LEMMA WriteHandsOver ==
    ASSUME IInv, NEW c \in Connections, Write(c)
    PROVE  \/ Promise!HandOver(c)
           \/ UNCHANGED <<offered, [d \in Connections |-> Handed(d)], taken, outcome>>
<1> DEFINE u == upcoming[c]
           v == After(c, u)
           handed == [d \in Connections |-> Handed(d)]
<1>1. /\ outcome[c] = "pending" /\ upcoming' = [upcoming EXCEPT ![c] = v]
      /\ UNCHANGED <<offered, taken, outcome>> /\ u[1] <= Len(offered[c])
      /\ u \in Units /\ offered[c] \in Seq(Messages)
  <2>1. u \in Nat \X Nat /\ offered[c] \in Seq(Messages)
    BY DEF IInv, TypeOK, Units
  <2>2. u[1] \in Nat /\ Len(offered[c]) \in Nat
    BY <2>1
  <2> QED BY <2>1, <2>2 DEF Write, AllWritten, Units
<1>2. u[1] \in Nat /\ v[1] \in {u[1], u[1] + 1}
  BY <1>1, AfterUnit
<1> HIDE DEF v
<1>3. upcoming'[c] = v /\ \A d \in Connections : d # c => upcoming'[d] = upcoming[d]
  BY <1>1 DEF IInv, TypeOK
<1>4. CASE v[1] = u[1]
  BY <1>1, <1>3, <1>4 DEF Handed
<1>5. CASE v[1] = u[1] + 1
  <2>1. handed' = [handed EXCEPT ![c] = @ + 1]
    <3>1. handed'[c] = handed[c] + 1 /\ \A d \in Connections : d # c => handed'[d] = handed[d]
      BY <1>2, <1>3, <1>5 DEF Handed
    <3> QED BY <3>1
  <2>2. handed[c] < Len(offered[c])
    BY <1>1, <1>2 DEF Handed
  <2> QED BY <1>1, <2>1, <2>2 DEF Promise!HandOver
<1> QED BY <1>2, <1>4, <1>5

(* Reading the last unit of a message takes it, whole and in its turn.     *)
LEMMA ReceiveTakes ==
    ASSUME IInv, NEW n \in Hosts, NEW c \in Connections, Receive(n, c)
    PROVE  \/ Promise!Take(c)
           \/ UNCHANGED <<offered, [d \in Connections |-> Handed(d)], taken, outcome>>
<1> DEFINE at      == Len(taken[c]) + 1
           old     == task[n].partial
           unit    == Head(buffer[c])
           partial == Append(old, unit)
           size    == Size[offered[c][at]]
<1>1. /\ LooksAt(n, c) /\ old # << >> /\ buffer[c] # << >>
      /\ buffer' = [buffer EXCEPT ![c] = Tail(@)]
      /\ UNCHANGED <<offered, upcoming, outcome>>
      /\ IF Complete(c, partial) THEN taken' = [taken EXCEPT ![c] = Append(@, Assembled(c, partial))]
                                 ELSE UNCHANGED taken
  BY DEF Receive
<1>2. /\ at \in 1 .. Len(offered[c]) /\ unit = <<at, Len(old) + 1>>
      /\ partial \in Seq(Units) /\ Len(partial) = Len(old) + 1
      /\ partial = [j \in 1 .. Len(partial) |-> <<at, j>>]
  BY <1>1, ReceiveAt
<1>3. unit[1] \in 1 .. Len(offered[c]) /\ After(c, unit)[1] <= upcoming[c][1]
  BY <1>1, FollowingRead
<1>4. UNCHANGED [d \in Connections |-> Handed(d)]
  BY <1>1 DEF Handed
<1>5. CASE ~ Complete(c, partial)
  BY <1>1, <1>4, <1>5
<1>6. CASE Complete(c, partial)
  <2>1. Len(old) \in Nat /\ Len(taken[c]) \in Nat /\ upcoming[c][1] \in Nat
    <3>1. task[n] \in Tasks /\ taken[c] \in Seq(Messages) /\ upcoming[c] \in Nat \X Nat
      BY DEF IInv, TypeOK, Units
    <3>2. old \in Seq(Units)
      BY <3>1 DEF Tasks
    <3> QED BY <3>1, <3>2
  <2> HIDE DEF partial, old
  <2>2. Head(partial) = <<at, 1>>
    <3>1. 1 \in 1 .. Len(partial) /\ Head(partial) = partial[1]
      BY <1>2, <2>1
    <3> QED BY <1>2, <3>1
  <2>3. Assembled(c, partial) = offered[c][at] /\ Len(partial) = size
    BY <1>2, <1>6, <2>2 DEF Assembled, Complete, Message
  <2>4. After(c, unit) = <<at + 1, 1>>
    <3>1. unit[1] = at /\ unit[2] = size
      BY <1>2, <2>3
    <3>2. ~ size < size
      BY <1>2, <2>1, <2>3
    <3> QED BY <3>1, <3>2 DEF After, Message
  <2>5. Len(taken[c]) < Handed(c)
    BY <1>3, <2>1, <2>4 DEF Handed
  <2>6. taken' = [taken EXCEPT ![c] = Append(@, offered[c][Len(@) + 1])]
    BY <1>1, <1>6, <2>3
  <2> QED BY <1>1, <1>4, <2>5, <2>6 DEF Promise!Take
<1> QED BY <1>5, <1>6

(* A send succeeds when all is written, which is when all is handed over.  *)
LEMMA SettleSettles ==
    ASSUME IInv, NEW c \in Connections,
           Settle(c, IF AllWritten(c) THEN "succeeded" ELSE "failed")
    PROVE  Promise!Settle(c)
<1>1. upcoming[c][1] \in 1 .. Len(offered[c]) + 1 /\ Len(offered[c]) \in Nat
  BY DEF IInv, UnitsInv, UnitsOK, TypeOK
<1>2. AllWritten(c) <=> Handed(c) = Len(offered[c])
  BY <1>1 DEF AllWritten, Handed
<1>3. /\ outcome[c] = "pending"
      /\ outcome' = [outcome EXCEPT ![c] =
                         IF Handed(c) = Len(offered[c]) THEN "succeeded" ELSE "failed"]
      /\ UNCHANGED <<offered, upcoming, taken>>
  BY <1>2 DEF Settle
<1>4. UNCHANGED [d \in Connections |-> Handed(d)]
  BY <1>3 DEF Handed
<1> QED BY <1>3, <1>4 DEF Promise!Settle

(* Every step of MTCP is a step of Transfer, or one it does not see.       *)
LEMMA StepTransfers ==
    ASSUME IInv, [Next]_vars
    PROVE  [Promise!Next]_<<offered, [c \in Connections |-> Handed(c)], taken, outcome>>
<1>1. CASE UNCHANGED <<offered, upcoming, taken, outcome>>
  BY <1>1, Stutter
<1>2. ASSUME NEW n \in Hosts, SendSucceeds(n) \/ SendStalls(n)
      PROVE  Promise!Next
  <2> DEFINE c == task[n].connection
  <2>1. c \in Connections
    BY <1>2 DEF SendSucceeds, SendStalls, IInv, LoopsInv, LoopOK
  <2>2. Settle(c, IF AllWritten(c) THEN "succeeded" ELSE "failed")
    BY <1>2 DEF SendSucceeds, SendStalls
  <2> HIDE DEF c
  <2> QED BY <2>1, <2>2, SettleSettles DEF Promise!Next
<1>3. ASSUME NEW n \in Hosts, NEW c \in Connections, NEW to \in Hosts, NEW m \in Bundles,
             SendTo(n, c, to, m)
      PROVE  Promise!Next
  <2>1. <<m>> \in Seq(Messages)
    BY MTCPAssumption
  <2> QED BY <1>3, <2>1, ConnectOffers DEF SendTo, Promise!Next
<1>4. ASSUME NEW c \in Connections, NEW p \in Peers, NEW to \in Hosts, NEW s \in Scripts,
             PeerConnects(p, c, to, s)
      PROVE  Promise!Next
  <2>1. s \in Seq(Messages)
    BY MTCPAssumption
  <2> QED BY <1>4, <2>1, ConnectOffers DEF PeerConnects, Promise!Next
<1>5. ASSUME NEW c \in Connections, PeerCloses(c) \/ PeerResets(c)
      PROVE  Promise!Next
  BY <1>5, SettleSettles DEF PeerCloses, PeerResets, Closing, Promise!Next
<1>6. ASSUME NEW c \in Connections, WriteToReceiver(c) \/ WriteInVain(c)
      PROVE  [Promise!Next]_<<offered, [d \in Connections |-> Handed(d)], taken, outcome>>
  BY <1>6, WriteHandsOver DEF WriteToReceiver, WriteInVain, Promise!Next
<1>7. ASSUME NEW n \in Hosts, NEW c \in Connections, Receive(n, c)
      PROVE  [Promise!Next]_<<offered, [d \in Connections |-> Handed(d)], taken, outcome>>
  BY <1>7, ReceiveTakes DEF Promise!Next
<1>8. ASSUME NEW n \in Hosts, NEW c \in Connections,
             NothingYet(n, c) \/ RemoteClosed(n, c) \/ PollRaises(n, c)
                 \/ HeaderRefused(n, c) \/ HeaderRead(n, c)
      PROVE  UNCHANGED <<offered, upcoming, taken, outcome>>
  BY <1>8 DEF NothingYet, RemoteClosed, PollRaises, HeaderRefused, HeaderRead, Discard
<1>9. ASSUME NEW n \in Hosts, Poll(n)
      PROVE  UNCHANGED <<offered, upcoming, taken, outcome>>
  BY <1>9 DEF Poll
<1>10. ASSUME NEW c \in Connections, Establish(c) \/ Expire(c)
       PROVE  UNCHANGED <<offered, upcoming, taken, outcome>>
  BY <1>10 DEF Establish, Expire
<1>11. CASE UNCHANGED vars
  BY <1>1, <1>11 DEF vars
<1> QED
  BY <1>1, <1>2, <1>3, <1>4, <1>5, <1>6, <1>7, <1>8, <1>9, <1>10, <1>11 DEF Next, PollStep

(* The layer keeps the promise of Transfer: the receiver takes whole       *)
(* messages, each once and in their order, and a send reports failure only *)
(* if something of its bundle was not written.                             *)
THEOREM TransferImplemented == Spec => TransferKept
<1>1. Init => Promise!Init
  BY DEF Init, Promise!Init, Handed
<1>2. IInv /\ [Next]_vars
          => [Promise!Next]_<<offered, [c \in Connections |-> Handed(c)], taken, outcome>>
  BY StepTransfers
<1> QED BY <1>1, <1>2, Inductive, PTL DEF Spec, TransferKept, Promise!Spec

-----------------------------------------------------------------------------
(* What hosts send each other is not lost.                                 *)

(* What is taken from a connection are the first of its messages. *)
TakenInv ==
    \A c \in Connections : \A i \in 1 .. Len(taken[c]) :
        i <= Len(offered[c]) /\ taken[c][i] = offered[c][i]

(* A connection of two hosts carries one bundle, and no peer resets it.  It *)
(* is established before its first unit is written, and closed only if the *)
(* sender has given up or the bundle is received.                          *)
Between(c) == outcome[c] # "unused" /\ \E n \in Hosts \ MicroPython : link[c] \in Hosts \X {n}

HostOK(c) ==
    /\ outcome[c] = "unused" => c \notin closed
    /\ Between(c) =>
         /\ \E m \in Bundles : offered[c] = <<m>>
         /\ c \notin reset
         /\ outcome[c] = "pending" => c \notin closed
         /\ upcoming[c] # <<1, 1>> => Established(c) \/ c \in closed
         /\ outcome[c] = "succeeded" => AllWritten(c)
         /\ c \in closed => outcome[c] = "failed" \/ taken[c] = offered[c]

HostInv == \A c \in Connections : HostOK(c)

(* Every step keeps what was taken to the beginning of what is offered.    *)
LEMMA TakenStep ==
    ASSUME IInv, TakenInv, [Next]_vars
    PROVE  TakenInv'
<1> SUFFICES ASSUME NEW d \in Connections, NEW i \in 1 .. Len(taken'[d])
             PROVE  i <= Len(offered'[d]) /\ taken'[d][i] = offered'[d][i]
  BY DEF TakenInv
<1>1. /\ taken[d] \in Seq(Messages) /\ offered[d] \in Seq(Messages)
      /\ taken \in [Connections -> Seq(Messages)] /\ offered \in [Connections -> Seq(Messages)]
      /\ outcome[d] = "unused" => taken[d] = << >>
  BY DEF IInv, TypeOK, UnitsInv, UnitsOK
<1>2. \A j \in 1 .. Len(taken[d]) : j <= Len(offered[d]) /\ taken[d][j] = offered[d][j]
  BY DEF TakenInv
<1>3. CASE taken'[d] = taken[d] /\ offered'[d] = offered[d]
  BY <1>2, <1>3
<1>4. ASSUME NEW c \in Connections, Promise!Offer(c)
      PROVE  i <= Len(offered'[d]) /\ taken'[d][i] = offered'[d][i]
  <2>1. outcome[c] = "unused" /\ taken' = taken
    BY <1>4 DEF Promise!Offer
  <2>2. CASE d = c
    BY <1>1, <2>1, <2>2
  <2>3. CASE d # c
    <3> DEFINE messages == offered'[c]
    <3>1. offered' = [offered EXCEPT ![c] = messages]
      BY <1>4 DEF Promise!Offer
    <3> HIDE DEF messages
    <3>2. offered'[d] = offered[d]
      BY <1>1, <2>3, <3>1
    <3> QED BY <1>3, <2>1, <3>2
  <2> QED BY <2>2, <2>3
<1>5. ASSUME NEW c \in Connections, Promise!Take(c)
      PROVE  i <= Len(offered'[d]) /\ taken'[d][i] = offered'[d][i]
  <2> DEFINE next == offered[c][Len(taken[c]) + 1]
  <2>1. Len(taken[c]) < Handed(c) /\ offered' = offered
        /\ taken' = [taken EXCEPT ![c] = Append(@, next)]
    BY <1>5 DEF Promise!Take
  <2>2. CASE d # c
    BY <1>1, <1>3, <2>1, <2>2
  <2>3. CASE d = c
    <3>1. taken'[d] = Append(taken[d], next) /\ next = offered[d][Len(taken[d]) + 1]
      BY <1>1, <2>1, <2>3
    <3>2. Handed(c) <= Len(offered[c]) /\ Handed(c) \in Int
      <4>1. upcoming[c][1] \in 1 .. Len(offered[c]) + 1 /\ Len(offered[c]) \in Nat
        BY DEF IInv, TypeOK, UnitsInv, UnitsOK
      <4> QED BY <4>1 DEF Handed
    <3> HIDE DEF next
    <3>3. Len(taken[d]) \in Nat /\ Len(offered[d]) \in Nat
      BY <1>1
    <3>4. Len(taken[d]) + 1 <= Len(offered[d])
      BY <2>1, <2>3, <3>2, <3>3
    <3>5. next \in Messages
      BY <1>1, <3>1, <3>3, <3>4
    <3>6. /\ Len(taken'[d]) = Len(taken[d]) + 1 /\ taken'[d][Len(taken[d]) + 1] = next
          /\ \A j \in 1 .. Len(taken[d]) : taken'[d][j] = taken[d][j]
      BY <1>1, <3>1, <3>5
    <3>7. CASE i = Len(taken[d]) + 1
      BY <2>1, <3>1, <3>4, <3>6, <3>7
    <3>8. CASE i # Len(taken[d]) + 1
      <4>1. i \in 1 .. Len(taken[d])
        BY <3>3, <3>6, <3>8
      <4> QED BY <1>2, <2>1, <3>6, <4>1
    <3> QED BY <3>7, <3>8
  <2> QED BY <2>2, <2>3
<1>6. ASSUME NEW c \in Connections, Promise!HandOver(c) \/ Promise!Settle(c)
      PROVE  i <= Len(offered'[d]) /\ taken'[d][i] = offered'[d][i]
  BY <1>3, <1>6 DEF Promise!HandOver, Promise!Settle
<1> QED BY <1>3, <1>4, <1>5, <1>6, StepTransfers DEF Promise!Next

(* An established connection stays so until it is closed. *)
LEMMA StaysEstablished ==
    ASSUME IInv, [Next]_vars, NEW d, Established(d)
    PROVE  Established(d)' \/ d \in closed'
BY HeldStep DEF Established

(* A step that leaves a connection alone, or closes it rightly. *)
LEMMA HostFrame ==
    ASSUME IInv, HostInv, [Next]_vars, NEW d \in Connections,
           offered'[d] = offered[d], link'[d] = link[d], upcoming'[d] = upcoming[d],
           outcome'[d] = outcome[d], d \in reset' => d \in reset, d \in closed => d \in closed',
           d \in closed => taken'[d] = taken[d],
           d \in closed' => \/ d \in closed
                            \/ /\ outcome[d] # "unused"
                               /\ Between(d) => /\ outcome[d] # "pending"
                                                /\ outcome[d] = "failed" \/ taken'[d] = offered[d]
    PROVE  HostOK(d)'
<1>1. HostOK(d)
  BY DEF HostInv
<1>2. outcome'[d] = "unused" => d \notin closed'
  BY <1>1 DEF HostOK
<1>3. ASSUME Between(d)'
      PROVE  /\ \E m \in Bundles : offered'[d] = <<m>>
             /\ d \notin reset'
             /\ outcome'[d] = "pending" => d \notin closed'
             /\ upcoming'[d] # <<1, 1>> => Established(d)' \/ d \in closed'
             /\ outcome'[d] = "succeeded" => AllWritten(d)'
             /\ d \in closed' => outcome'[d] = "failed" \/ taken'[d] = offered'[d]
  <2>1. Between(d)
    BY <1>3 DEF Between
  <2>2. upcoming'[d] # <<1, 1>> => Established(d)' \/ d \in closed'
    BY <1>1, <2>1, StaysEstablished DEF HostOK
  <2>3. AllWritten(d)' <=> AllWritten(d)
    BY DEF AllWritten
  <2> QED BY <1>1, <2>1, <2>2, <2>3 DEF HostOK
<1> QED BY <1>2, <1>3 DEF HostOK

(* The end of a connection of hosts is read when its bundle has been. *)
LEMMA EndIsRead ==
    ASSUME IInv, TakenInv, HostInv, NEW n \in Hosts, NEW c \in Connections, Between(c),
           RemoteClosed(n, c), outcome[c] = "succeeded"
    PROVE  taken[c] = offered[c]
<1>1. PICK m \in Bundles : offered[c] = <<m>>
  BY DEF HostInv, HostOK
<1>2. Len(offered[c]) = 1 /\ taken[c] \in Seq(Messages) /\ Len(taken[c]) \in Nat
  BY <1>1 DEF IInv, TypeOK
<1>3. upcoming[c][1] = 2
  <2>1. AllWritten(c) /\ upcoming[c][1] \in 1 .. Len(offered[c]) + 1
    BY DEF HostInv, HostOK, IInv, UnitsInv, UnitsOK
  <2> QED BY <1>2, <2>1 DEF AllWritten
<1>4. Following(c) = upcoming[c] /\ LooksAt(n, c)
  BY DEF RemoteClosed, Following
<1>5. c \notin reset
  BY DEF HostInv, HostOK
<1>6. c \notin closed
  <2>1. c \in Held(n)
    BY <1>4, LoopAt DEF Held
  <2> QED BY <2>1, TablesOf
<1>7. ReadOK(c)
  BY DEF IInv, ReadInv
<1>8. \A h \in Hosts : ~ Reading(h, c)
  <2> SUFFICES ASSUME NEW h \in Hosts, Reading(h, c) PROVE FALSE
    OBVIOUS
  <2> DEFINE at == Len(taken[c]) + 1
  <2>1. at <= Len(offered[c]) /\ Following(c) = <<at, Len(task[h].partial) + 1>>
    BY <1>5, <1>7 DEF ReadOK
  <2>2. upcoming[c][1] = at
    BY <1>4, <2>1
  <2> QED BY <1>2, <1>3, <2>1, <2>2
<1>9. Len(taken[c]) = 1
  <2> DEFINE at == Len(taken[c]) + 1
  <2>1. upcoming[c] = <<at, 1>>
    BY <1>4, <1>5, <1>6, <1>7, <1>8 DEF ReadOK
  <2>2. upcoming[c][1] = at
    BY <2>1
  <2>3. Len(taken[c]) + 1 = 2
    BY <1>3, <2>2
  <2>4. Len(taken[c]) \in Nat
    BY <1>2
  <2>5. \A k \in Nat : k + 1 = 2 => k = 1
    OBVIOUS
  <2> HIDE DEF at
  <2> QED BY <2>3, <2>4, <2>5
<1>10. taken[c][1] = offered[c][1]
  BY <1>9 DEF TakenInv
<1> QED BY <1>1, <1>2, <1>9, <1>10

(* The receiver refuses no header of a connection of hosts. *)
LEMMA HeaderNotRefused ==
    ASSUME IInv, HostInv, NEW n \in Hosts, NEW c \in Connections, Between(c)
    PROVE  ~ HeaderRefused(n, c)
<1> SUFFICES ASSUME HeaderRefused(n, c) PROVE FALSE
  OBVIOUS
<1>1. PICK m \in Bundles : offered[c] = <<m>>
  BY DEF HostInv, HostOK
<1>2. /\ LooksAt(n, c) /\ task[n].partial = << >> /\ buffer[c] # << >>
      /\ ~ ValidHeader(c, Head(buffer[c])) \/ Size[Message(c, Head(buffer[c]))] = 1
  BY DEF HeaderRefused, Header
<1>3. c \in Held(n) /\ c \notin reset /\ c \notin closed
  <2>1. c \in Held(n)
    BY <1>2, LoopAt DEF Held
  <2> QED BY <2>1, TablesOf DEF HostInv, HostOK
<1>4. \A h \in Hosts : ~ Reading(h, c)
  BY <1>2, <1>3, ReaderHolds DEF Reading
<1>5. Head(buffer[c]) = <<Len(taken[c]) + 1, 1>>
  <2>1. ReadOK(c)
    BY DEF IInv, ReadInv
  <2> QED BY <1>2, <1>3, <1>4, <2>1 DEF ReadOK, Following
<1>6. Head(buffer[c])[1] \in 1 .. 1
  <2>1. Head(buffer[c]) = buffer[c][1] /\ Len(buffer[c]) \in Nat \ {0}
    BY <1>2 DEF IInv, TypeOK
  <2>2. buffer[c][1][1] \in 1 .. Len(offered[c])
    BY <2>1 DEF IInv, UnitsInv, UnitsOK
  <2> QED BY <1>1, <2>1, <2>2
<1>7. Message(c, Head(buffer[c])) = m /\ Head(buffer[c])[2] = 1
  BY <1>1, <1>5, <1>6 DEF Message
<1> QED BY <1>2, <1>7, MTCPAssumption DEF ValidHeader

(* Closing a connection in a loop of poll(). *)
LEMMA HostDiscarded ==
    ASSUME IInv, TakenInv, HostInv, [Next]_vars, NEW n \in Hosts, NEW c \in Connections,
           LooksAt(n, c), Discard(n, c),
           RemoteClosed(n, c) \/ HeaderRefused(n, c) \/ n \in MicroPython,
           NEW d \in Connections
    PROVE  HostOK(d)'
<1>1. /\ UNCHANGED <<link, offered, outcome, upcoming, taken, reset>>
      /\ closed' = closed \union {c}
  BY DEF Discard
<1>2. c \in Held(n)
  BY LoopAt DEF Held
<1>3. outcome[c] # "unused" /\ link[c][2] = n
  BY <1>2, TablesOf
<1>4. ASSUME Between(c)
      PROVE  outcome[c] # "pending" /\ (outcome[c] = "failed" \/ taken[c] = offered[c])
  <2>1. n \notin MicroPython
    BY <1>3, <1>4 DEF Between
  <2>2. RemoteClosed(n, c)
    BY <1>4, <2>1, HeaderNotRefused
  <2>3. outcome[c] \in {"succeeded", "failed"}
    BY <2>2 DEF RemoteClosed
  <2> QED BY <1>4, <2>2, <2>3, EndIsRead
<1>5. d \in closed' => d \in closed \/ d = c
  BY <1>1
<1> QED BY <1>1, <1>3, <1>4, <1>5, HostFrame

(* A sender that settles. *)
LEMMA HostSettled ==
    ASSUME IInv, HostInv, [Next]_vars, NEW c \in Connections,
           Settle(c, IF AllWritten(c) THEN "succeeded" ELSE "failed"),
           reset' = reset \/ (reset' = reset \union {c} /\ link[c][1] \in Peers),
           NEW d \in Connections
    PROVE  HostOK(d)'
<1> DEFINE result == IF AllWritten(c) THEN "succeeded" ELSE "failed"
<1>1. /\ outcome[c] = "pending" /\ outcome' = [outcome EXCEPT ![c] = result]
      /\ closed' = IF Established(c) THEN closed ELSE closed \union {c}
      /\ UNCHANGED <<link, offered, upcoming, taken, waiting, open, graceful>>
  BY DEF Settle
<1>2. result \in {"succeeded", "failed"} /\ (result = "succeeded" <=> AllWritten(c))
  OBVIOUS
<1> HIDE DEF result
<1>3. outcome'[c] = result /\ \A b \in Connections : b # c => outcome'[b] = outcome[b]
  BY <1>1 DEF IInv, TypeOK
<1>4. CASE d # c
  BY <1>1, <1>3, <1>4, HostFrame
<1>5. CASE d = c
  <2>1. HostOK(c)
    BY DEF HostInv
  <2>2. ASSUME Between(c)'
        PROVE  /\ \E m \in Bundles : offered'[c] = <<m>>
               /\ c \notin reset'
               /\ outcome'[c] = "pending" => c \notin closed'
               /\ upcoming'[c] # <<1, 1>> => Established(c)' \/ c \in closed'
               /\ outcome'[c] = "succeeded" => AllWritten(c)'
               /\ c \in closed' => outcome'[c] = "failed" \/ taken'[c] = offered'[c]
    <3>1. Between(c)
      BY <1>1, <2>2 DEF Between
    <3>2. link[c][1] \notin Peers
      BY <3>1, MTCPAssumption DEF Between
    <3>3. PICK m \in Bundles : offered[c] = <<m>>
      BY <2>1, <3>1 DEF HostOK
    <3>4. c \notin reset' /\ c \notin closed
      BY <1>1, <2>1, <3>1, <3>2 DEF HostOK
    <3>5. upcoming'[c] # <<1, 1>> => Established(c)' \/ c \in closed'
      BY <1>1, <2>1, <3>1, StaysEstablished DEF HostOK
    <3>6. AllWritten(c)' <=> AllWritten(c)
      BY <1>1 DEF AllWritten
    <3>7. AllWritten(c) => Established(c)
      <4>1. AllWritten(c) => upcoming[c] # <<1, 1>>
        BY <3>3 DEF AllWritten
      <4> QED BY <2>1, <3>1, <3>4, <4>1 DEF HostOK
    <3> QED BY <1>1, <1>2, <1>3, <3>3, <3>4, <3>5, <3>6, <3>7
  <2> QED BY <1>2, <1>3, <1>5, <2>2 DEF HostOK
<1> QED BY <1>4, <1>5

(* A unit is written. *)
LEMMA HostWritten ==
    ASSUME IInv, HostInv, [Next]_vars, NEW c \in Connections,
           WriteToReceiver(c) \/ WriteInVain(c), NEW d \in Connections
    PROVE  HostOK(d)'
<1>1. /\ outcome[c] = "pending" /\ upcoming' = [upcoming EXCEPT ![c] = After(c, @)]
      /\ UNCHANGED <<link, offered, outcome, taken, closed, reset>>
      /\ Established(c) \/ c \in closed
  BY DEF WriteToReceiver, WriteInVain, Write
<1>2. CASE d # c
  <2>1. upcoming'[d] = upcoming[d]
    BY <1>1, <1>2 DEF IInv, TypeOK
  <2> QED BY <1>1, <2>1, HostFrame
<1>3. CASE d = c
  <2>1. HostOK(c)
    BY DEF HostInv
  <2>2. Established(c)' \/ c \in closed'
    BY <1>1, StaysEstablished
  <2>3. Between(c)' <=> Between(c)
    BY <1>1 DEF Between
  <2> QED BY <1>1, <1>3, <2>1, <2>2, <2>3 DEF HostOK
<1> QED BY <1>2, <1>3

(* A connection is opened. *)
LEMMA HostOpened ==
    ASSUME IInv, HostInv, [Next]_vars, NEW c \in Connections, NEW from, NEW to \in Hosts,
           NEW messages \in Seq(Messages), Connect(c, from, to, messages),
           from \in Hosts => \E m \in Bundles : messages = <<m>>, NEW d \in Connections
    PROVE  HostOK(d)'
<1>1. /\ outcome[c] = "unused" /\ outcome' = [outcome EXCEPT ![c] = "pending"]
      /\ link' = [link EXCEPT ![c] = <<from, to>>] /\ offered' = [offered EXCEPT ![c] = messages]
      /\ UNCHANGED <<upcoming, taken, closed, reset>>
  BY DEF Connect, Fresh
<1>2. CASE d # c
  <2>1. outcome'[d] = outcome[d] /\ link'[d] = link[d] /\ offered'[d] = offered[d]
    BY <1>1, <1>2 DEF IInv, TypeOK
  <2> QED BY <1>1, <2>1, HostFrame
<1>3. CASE d = c
  <2>1. outcome'[c] = "pending" /\ link'[c] = <<from, to>> /\ offered'[c] = messages
    BY <1>1 DEF IInv, TypeOK
  <2>2. c \notin closed' /\ c \notin reset' /\ upcoming'[c] = <<1, 1>>
    BY <1>1 DEF HostInv, HostOK, IInv, UnitsInv, UnitsOK
  <2>3. Between(c)' => from \in Hosts
    BY <2>1 DEF Between
  <2> QED BY <1>3, <2>1, <2>2, <2>3 DEF HostOK
<1> QED BY <1>2, <1>3

(* Every step closes a connection of hosts only if nothing is lost by it.  *)
LEMMA HostStep ==
    ASSUME IInv, TakenInv, HostInv, [Next]_vars
    PROVE  HostInv'
<1> SUFFICES ASSUME NEW d \in Connections PROVE HostOK(d)'
  BY DEF HostInv
<1>1. CASE UNCHANGED <<link, offered, outcome, upcoming, taken, closed, reset>>
  BY <1>1, HostFrame
<1>2. ASSUME NEW n \in Hosts, SendSucceeds(n) \/ SendStalls(n)
      PROVE  HostOK(d)'
  <2> DEFINE c == task[n].connection
  <2>1. c \in Connections
    BY <1>2 DEF SendSucceeds, SendStalls, IInv, LoopsInv, LoopOK
  <2>2. Settle(c, IF AllWritten(c) THEN "succeeded" ELSE "failed") /\ reset' = reset
    BY <1>2 DEF SendSucceeds, SendStalls
  <2> HIDE DEF c
  <2> QED BY <2>1, <2>2, HostSettled
<1>3. ASSUME NEW c \in Connections, PeerCloses(c) \/ PeerResets(c)
      PROVE  HostOK(d)'
  BY <1>3, HostSettled DEF PeerCloses, PeerResets, Closing
<1>4. ASSUME NEW n \in Hosts, NEW c \in Connections, NEW to \in Hosts, NEW m \in Bundles,
             SendTo(n, c, to, m)
      PROVE  HostOK(d)'
  <2>1. <<m>> \in Seq(Messages)
    BY MTCPAssumption
  <2> QED BY <1>4, <2>1, HostOpened DEF SendTo
<1>5. ASSUME NEW c \in Connections, NEW p \in Peers, NEW to \in Hosts, NEW s \in Scripts,
             PeerConnects(p, c, to, s)
      PROVE  HostOK(d)'
  <2>1. s \in Seq(Messages) /\ p \notin Hosts
    BY MTCPAssumption
  <2> QED BY <1>5, <2>1, HostOpened DEF PeerConnects
<1>6. ASSUME NEW n \in Hosts, NEW c \in Connections,
             NothingYet(n, c) \/ RemoteClosed(n, c) \/ HeaderRefused(n, c)
      PROVE  HostOK(d)'
  BY <1>1, <1>6, HostDiscarded DEF NothingYet, RemoteClosed, HeaderRefused, Header
<1>7. ASSUME NEW n \in Hosts, NEW c \in Connections, Receive(n, c)
      PROVE  HostOK(d)'
  <2>1. /\ UNCHANGED <<link, offered, outcome, upcoming, closed, reset>> /\ LooksAt(n, c)
        /\ taken' = taken \/ \E m : taken' = [taken EXCEPT ![c] = Append(@, m)]
    BY <1>7 DEF Receive
  <2>2. c \in Held(n)
    BY <2>1, LoopAt DEF Held
  <2>3. c \notin closed
    BY <2>2, TablesOf
  <2>4. d # c => taken'[d] = taken[d]
    BY <2>1 DEF IInv, TypeOK
  <2> QED BY <2>1, <2>3, <2>4, HostFrame
<1>8. ASSUME NEW c \in Connections, WriteToReceiver(c) \/ WriteInVain(c)
      PROVE  HostOK(d)'
  BY <1>8, HostWritten
<1> QED
  BY <1>1, <1>2, <1>3, <1>4, <1>5, <1>6, <1>7, <1>8
  DEF Next, PollStep, Poll, Establish, Expire, PollRaises, HeaderRead, vars

(* A bundle that a host has sent with success to one on CPython is         *)
(* received, or its connection is still in the receiver's hands: neither   *)
(* the inactivity timeout, the limit of open connections, a peer nor       *)
(* whatever else is polled meanwhile closes the connection before it is    *)
(* read to its end.                                                        *)
THEOREM SuccessKept == Spec => []SuccessNotLost
<1>1. Init => TakenInv /\ HostInv
  BY DEF Init, TakenInv, HostInv, HostOK, Between
<1>2. IInv /\ TakenInv /\ HostInv /\ [Next]_vars => TakenInv' /\ HostInv'
  BY TakenStep, HostStep
<1>3. IInv /\ HostInv => SuccessNotLost
  <2> SUFFICES ASSUME IInv, HostInv, NEW c \in Connections, NEW n \in Hosts \ MicroPython,
                      link[c] \in Hosts \X {n}, outcome[c] = "succeeded"
               PROVE  taken[c] = offered[c] \/ c \in Held(n)
    BY DEF SuccessNotLost
  <2>1. HostOK(c) /\ Between(c)
    BY DEF HostInv, Between
  <2>2. PICK m \in Bundles : offered[c] = <<m>>
    BY <2>1 DEF HostOK
  <2>3. upcoming[c] # <<1, 1>>
    BY <2>1, <2>2 DEF HostOK, AllWritten
  <2>4. Established(c) \/ c \in closed
    BY <2>1, <2>3 DEF HostOK
  <2>5. CASE c \in closed
    BY <2>1, <2>5 DEF HostOK
  <2>6. CASE Established(c)
    <3>1. PICK h \in Hosts : c \in Held(h)
      BY <2>6 DEF Established
    <3>2. link[c][2] = h
      BY <3>1, TablesOf
    <3> QED BY <3>1, <3>2
  <2> QED BY <2>4, <2>5, <2>6
<1> QED BY <1>1, <1>2, <1>3, Inductive, PTL DEF Spec
=============================================================================
