---------------------------- MODULE StreamProofs ----------------------------
(* Type correctness of Stream, the lock of the hub, the order in which a   *)
(* dashboard sees messages, where each message is, and what a list makes   *)
(* of them, for any number of events, dashboards, connections, losses and  *)
(* restarts, and any capacity.                                             *)
EXTENDS Stream, SequenceTheorems, FiniteSetTheorems, TLAPS

(* A message number stays one while more is published. *)
LEMMA NumbersGrow ==
    ASSUME TypeOK, NEW m \in Messages, published' = Append(published, m)
    PROVE  /\ published' \in Seq(Messages)
           /\ Len(published') = Len(published) + 1
           /\ Numbers \subseteq Numbers'
           /\ Len(published) + 1 \in Numbers'
BY DEF TypeOK, Numbers

(* Sequences of numbers keep their type. *)
LEMMA SeqGrows ==
    ASSUME NEW S, NEW T, S \subseteq T, NEW s \in Seq(S)
    PROVE  s \in Seq(T)
BY SeqDef

(* What the store does to a list gives a list. *)
LEMMA ShownIsList ==
    ASSUME NEW l \in Seq(Entries), NEW m \in Messages
    PROVE  Shown(l, m) \in Seq(Entries)
<1> USE SizesAssumption
<1>1. CASE m.kind = "received"
  <2> DEFINE e == [event |-> m.event, status |-> "received"]
             k == <<e>> \o l
  <2>1. e \in Entries
    BY DEF Messages, Entries
  <2>2. k \in Seq(Entries)
    BY <2>1
  <2>3. Shorten(k) \in Seq(Entries)
    <3> HIDE DEF k
    <3>1. (IF Len(k) > ListSize THEN ListSize ELSE Len(k)) \in 0..Len(k)
      BY <2>2
    <3> QED
      BY <2>2, <3>1, SubSeqProperties DEF Shorten
  <2> QED
    BY <1>1, <2>3 DEF Shown, Outcomes
<1>2. CASE m.kind \in Outcomes
  <2> DEFINE f == [i \in DOMAIN l |-> IF i \in FirstOf(l, m.event) THEN [l[i] EXCEPT !.status = m.kind]
                                     ELSE l[i]]
  <2>1. DOMAIN l = 1..Len(l) /\ Len(l) \in Nat
    OBVIOUS
  <2>2. \A i \in 1..Len(l) : l[i] \in Entries
    OBVIOUS
  <2>3. \A i \in 1..Len(l) : [l[i] EXCEPT !.status = m.kind] \in Entries
    BY <2>2, <1>2 DEF Entries
  <2>4. f \in [1..Len(l) -> Entries]
    BY <2>1, <2>2, <2>3
  <2>5. f \in Seq(Entries)
    <3> HIDE DEF f
    <3> QED
      BY <2>1, <2>4, SeqDef
  <2>6. Shown(l, m) = f
    BY <1>2 DEF Shown, Outcomes
  <2> QED
    BY <2>5, <2>6
<1>3. CASE m.kind = "buried"
  BY <1>3 DEF Shown, Outcomes
<1> QED
  BY <1>1, <1>2, <1>3 DEF Messages, Kinds, Outcomes

(* What is on its way to a dashboard's connection has been published: the  *)
(* connection of an online dashboard is one.                               *)
LEMMA OnTheWayIsNumbers ==
    ASSUME TypeOK, NEW t \in Tabs, online[t]
    PROVE  OnTheWay(<<t, latest[t]>>) \subseteq Numbers
<1> DEFINE c == <<t, latest[t]>>
<1>1. c \in Connections
  BY DEF TypeOK, Connections
<1>2. buffer[c] \in Seq(Numbers)
  BY <1>1 DEF TypeOK
<1>3. \A i \in DOMAIN buffer[c] : buffer[c][i] \in Numbers
  BY <1>2
<1>4. sending # 0 => sending \in Numbers
  BY DEF TypeOK
<1> QED
  BY <1>3, <1>4 DEF OnTheWay

(* The state is well typed, whatever is published, lost and restarted. *)
THEOREM TypeInvariant == Spec => []TypeOK
<1>1. Init => TypeOK
  BY BoundsAssumption DEF Init, TypeOK, Numbers
<1>2. TypeOK /\ [Next]_vars => TypeOK'
  <2> SUFFICES ASSUME TypeOK, [Next]_vars PROVE TypeOK'
    OBVIOUS
  <2> USE BoundsAssumption DEF channel, hub, handlers, browsers
  <2>1. CASE UNCHANGED vars
    BY <2>1 DEF vars, TypeOK, Numbers
  <2>2. ASSUME NEW k \in Kinds, NEW e \in Events, Publish(k, e),
               UNCHANGED <<hub, handlers, browsers, restarts>>
        PROVE  TypeOK'
    <3> DEFINE m == [kind |-> k, event |-> e]
    <3>0. m \in Messages
      BY DEF Messages
    <3>1. /\ published' \in Seq(Messages) /\ Numbers \subseteq Numbers'
          /\ Len(published) + 1 \in Numbers'
      <4>1. published' = Append(published, m)
        BY <2>2 DEF Publish
      <4> QED
        BY <3>0, <4>1, NumbersGrow DEF TypeOK, Numbers
    <3>2. feed \in Seq(Numbers')
      BY <3>1, SeqMonotonic DEF TypeOK
    <3>3. feed' \in Seq(Numbers')
      <4>1. CASE feed' = Append(feed, Len(published) + 1)
        BY <3>1, <3>2, <4>1
      <4>2. CASE UNCHANGED feed
        BY <3>2, <4>2
      <4> QED
        BY <2>2, <4>1, <4>2 DEF Publish
    <3>4. /\ buffer' \in [Connections -> Seq(Numbers')]
          /\ \A c \in Connections : stage'[c] = "writing" => buffer'[c] # <<>>
      <4>1. \A c \in Connections : buffer[c] \in Seq(Numbers')
        BY <3>1, SeqMonotonic DEF TypeOK
      <4> QED
        BY <2>2, <4>1 DEF TypeOK
    <3>5. seen' \in [Tabs -> Seq(Numbers')]
      <4>1. \A t \in Tabs : seen[t] \in Seq(Numbers')
        BY <3>1, SeqMonotonic DEF TypeOK
      <4> QED
        BY <2>2, <4>1 DEF TypeOK
    <3>6. missed' \in [Tabs -> SUBSET Numbers']
      <4>1. \A t \in Tabs : missed[t] \in SUBSET Numbers'
        BY <3>1 DEF TypeOK
      <4>2. CASE UNCHANGED missed
        BY <4>1, <4>2 DEF TypeOK
      <4>3. CASE missed' = [t \in Tabs |-> IF Matches(t, m) THEN missed[t] \union {Len(published) + 1}
                                          ELSE missed[t]]
        BY <3>1, <4>1, <4>3
      <4> QED
        BY <2>2, <4>2, <4>3 DEF Publish
    <3>7. lost' \in 0..MaxLost
      BY <2>2 DEF TypeOK, Publish
    <3> QED
      BY <2>2, <3>1, <3>3, <3>4, <3>5, <3>6, <3>7 DEF TypeOK
  <2>3. CASE Broadcast
    <3>1. /\ Head(feed) \in Numbers /\ Tail(feed) \in Seq(Numbers)
      BY <2>3 DEF Broadcast, TypeOK
    <3>2. Numbers' = Numbers
      BY <2>3 DEF Broadcast, Begin, Numbers
    <3>3. 0 \notin Numbers
      BY DEF Numbers
    <3> QED
      BY <2>3, <3>1, <3>2, <3>3 DEF Broadcast, Begin, TypeOK
  <2>4. ASSUME NEW c \in Connections, Send(c) PROVE TypeOK'
    <3>1. sending \in Numbers
      BY <2>4 DEF Send, Turn, TypeOK
    <3>2. Numbers' = Numbers
      BY <2>4 DEF Send, Turn, Numbers
    <3>3. /\ buffer' \in [Connections -> Seq(Numbers)]
          /\ \A d \in Connections : stage[d] = "writing" => buffer'[d] # <<>>
      <4>1. CASE Put(c)
        <5>0. buffer[c] \in Seq(Numbers)
          BY DEF TypeOK
        <5>1. Append(buffer[c], sending) \in Seq(Numbers) /\ Append(buffer[c], sending) # <<>>
          BY <3>1, <5>0
        <5> QED
          BY <4>1, <5>1 DEF Put, TypeOK
      <4>2. CASE UNCHANGED buffer
        BY <4>2 DEF TypeOK
      <4> QED
        BY <2>4, <4>1, <4>2 DEF Send, Skip, Drop
    <3>4. missed' \in [Tabs -> SUBSET Numbers]
      <4>1. missed \in [Tabs -> SUBSET Numbers]
        BY DEF TypeOK
      <4> QED
        BY <2>4, <3>1, <4>1 DEF Send, Skip, Put, Drop
    <3> QED
      BY <2>4, <3>1, <3>2, <3>3, <3>4 DEF Send, Turn, TypeOK
  <2>5. ASSUME NEW c \in Connections, Register(c) PROVE TypeOK'
    BY <2>5 DEF Register, TypeOK, Numbers
  <2>6. ASSUME NEW c \in Connections, Write(c) PROVE TypeOK'
    <3>1. Numbers' = Numbers
      BY <2>6 DEF Write, Numbers
    <3>2. /\ Head(buffer[c]) \in Numbers /\ Tail(buffer[c]) \in Seq(Numbers)
      <4>1. buffer[c] \in Seq(Numbers) /\ buffer[c] # <<>>
        BY <2>6 DEF Write, TypeOK
      <4> QED
        BY <4>1
    <3>3. published[Head(buffer[c])] \in Messages
      BY <3>2 DEF TypeOK, Numbers
    <3>4. Owner(c) \in Tabs
      BY DEF Connections, Owner
    <3>5. Shown(list[Owner(c)], published[Head(buffer[c])]) \in Seq(Entries)
      BY <3>3, <3>4, ShownIsList DEF TypeOK
    <3>6. list' \in [Tabs -> Seq(Entries)] /\ seen' \in [Tabs -> Seq(Numbers)]
      <4>1. CASE Connected(c)
        <5>1. /\ list' = [list EXCEPT ![Owner(c)] = Shown(list[Owner(c)], published[Head(buffer[c])])]
              /\ seen' = [seen EXCEPT ![Owner(c)] = Append(seen[Owner(c)], Head(buffer[c]))]
          BY <2>6, <4>1 DEF Write
        <5>2. Append(seen[Owner(c)], Head(buffer[c])) \in Seq(Numbers)
          BY <3>2, <3>4 DEF TypeOK
        <5> QED
          BY <3>5, <5>1, <5>2 DEF TypeOK
      <4>2. CASE ~ Connected(c)
        BY <2>6, <4>2 DEF Write, TypeOK
      <4> QED
        BY <4>1, <4>2
    <3>7. buffer' \in [Connections -> Seq(Numbers)]
      BY <2>6, <3>2 DEF Write, TypeOK
    <3>8. /\ stage' = [stage EXCEPT ![c] = "serving"]
          /\ \A d \in Connections \ {c} : buffer'[d] = buffer[d]
      BY <2>6 DEF Write, TypeOK
    <3>9. \A d \in Connections : stage'[d] = "writing" => buffer'[d] # <<>>
      BY <3>8 DEF TypeOK
    <3> QED
      BY <2>6, <3>1, <3>6, <3>7, <3>9 DEF Write, TypeOK
  <2>7. ASSUME NEW c \in Connections, Leave(c) PROVE TypeOK'
    BY <2>7 DEF Leave, TypeOK, Numbers
  <2>12. ASSUME NEW c \in Connections, Take(c) PROVE TypeOK'
    BY <2>12 DEF Take, TypeOK, Numbers
  <2>13. ASSUME NEW t \in Tabs, Stall(t) PROVE TypeOK'
    BY <2>13 DEF Stall, TypeOK, Numbers
  <2>8. ASSUME NEW c \in Connections, Unregister(c) PROVE TypeOK'
    BY <2>8 DEF Unregister, Closing, TypeOK, Numbers
  <2>9. ASSUME NEW t \in Tabs, Connect(t) PROVE TypeOK'
    <3>1. latest[t] \in Nat /\ latest[t] + 1 \in 1..MaxConnects
      BY <2>9 DEF Connect, TypeOK
    <3>2. latest' \in [Tabs -> 0..MaxConnects]
      BY <2>9, <3>1 DEF Connect, TypeOK
    <3>3. /\ online' \in [Tabs -> BOOLEAN]
          /\ \A u \in Tabs : online'[u] => latest'[u] > 0
      BY <2>9, <3>1 DEF Connect, TypeOK
    <3>4. stage' \in [Connections -> {"unused", "opening", "serving", "writing", "leaving", "closed"}]
      BY <2>9 DEF Connect, TypeOK
    <3> QED
      BY <2>9, <3>2, <3>3, <3>4 DEF Connect, TypeOK, Numbers
  <2>10. ASSUME NEW t \in Tabs, Disconnect(t) PROVE TypeOK'
    <3>1. OnTheWay(<<t, latest[t]>>) \subseteq Numbers
      BY <2>10, OnTheWayIsNumbers DEF Disconnect
    <3> QED
      BY <2>10, <3>1 DEF Disconnect, TypeOK, Numbers
  <2>11. CASE Restart
    <3>1. \A t \in Tabs : online[t] => OnTheWay(<<t, latest[t]>>) \subseteq Numbers
      BY OnTheWayIsNumbers
    <3>2. \A i \in DOMAIN feed : feed[i] \in Numbers
      BY DEF TypeOK
    <3>3. missed' \in [Tabs -> SUBSET Numbers]
      BY <2>11, <3>1, <3>2 DEF Restart, TypeOK
    <3> QED
      BY <2>11, <3>3 DEF Restart, TypeOK, Numbers
  <2> QED
    BY <2>1, <2>2, <2>3, <2>4, <2>5, <2>6, <2>7, <2>8, <2>9, <2>10, <2>11, <2>12, <2>13, ReportsAssumption
    DEF Next, Announce, Report, Fanout, Serve, Browse, Kinds
<1> QED
  BY <1>1, <1>2, PTL DEF Spec

-----------------------------------------------------------------------------
(* The hub's map holds the connections between Register and Unregister,    *)
(* and only they have anything in their channel.                           *)
Registered ==
    /\ clients = {c \in Connections : stage[c] \in {"serving", "writing", "leaving"}}
    /\ \A c \in Connections : stage[c] \notin {"serving", "writing", "leaving"} => buffer[c] = <<>>
    /\ \A t \in Tabs : \A n \in 1..MaxConnects : n > latest[t] => stage[<<t, n>>] = "unused"
    /\ todo \subseteq clients

(* The lock keeps Registered: Register and Unregister find no broadcast.   *)
LEMMA RegisteredInvariant == Spec => []Registered
<1>1. Init => Registered
  <2> SUFFICES ASSUME Init PROVE Registered
    OBVIOUS
  <2>1. \A t \in Tabs : \A n \in 1..MaxConnects : stage[<<t, n>>] = "unused"
    BY DEF Init, Connections
  <2> QED
    BY <2>1 DEF Init, Registered
<1>2. TypeOK /\ Registered /\ [Next]_vars => Registered'
  <2> SUFFICES ASSUME TypeOK, Registered, [Next]_vars PROVE Registered'
    OBVIOUS
  <2> USE BoundsAssumption DEF channel, hub, handlers, browsers
  <2>1. CASE UNCHANGED vars
    BY <2>1 DEF vars, Registered
  <2>2. ASSUME NEW k \in Kinds, NEW e \in Events, Publish(k, e),
               UNCHANGED <<hub, handlers, browsers, restarts>>
        PROVE  Registered'
    BY <2>2 DEF Registered
  <2>3. CASE Broadcast
    BY <2>3 DEF Broadcast, Begin, Registered
  <2>4. ASSUME NEW c \in Connections, Send(c) PROVE Registered'
    <3>1. c \in clients /\ todo' \subseteq clients
      BY <2>4 DEF Send, Turn, Registered
    <3>2. \A d \in Connections : stage[d] \notin {"serving", "writing", "leaving"} => buffer'[d] = buffer[d]
      BY <2>4, <3>1 DEF Send, Skip, Put, Drop, Registered, TypeOK
    <3> QED
      BY <2>4, <3>1, <3>2 DEF Send, Turn, Registered
  <2>5. ASSUME NEW c \in Connections, Register(c) PROVE Registered'
    BY <2>5 DEF Register, Registered, TypeOK
  <2>6. ASSUME NEW c \in Connections, Write(c) PROVE Registered'
    BY <2>6 DEF Write, Registered, TypeOK
  <2>7. ASSUME NEW c \in Connections, Leave(c) PROVE Registered'
    BY <2>7 DEF Leave, Registered, TypeOK
  <2>12. ASSUME NEW c \in Connections, Take(c) PROVE Registered'
    BY <2>12 DEF Take, Registered, TypeOK
  <2>13. ASSUME NEW t \in Tabs, Stall(t) PROVE Registered'
    BY <2>13 DEF Stall, Registered
  <2>8. ASSUME NEW c \in Connections, Unregister(c) PROVE Registered'
    <3>1. todo = {}
      BY <2>8 DEF Unregister, TypeOK
    <3> QED
      BY <2>8, <3>1 DEF Unregister, Closing, Registered, TypeOK
  <2>9. ASSUME NEW t \in Tabs, Connect(t) PROVE Registered'
    <3> DEFINE c == <<t, latest[t] + 1>>
    <3>1. latest[t] \in Nat /\ latest[t] + 1 \in 1..MaxConnects
      BY <2>9 DEF Connect, TypeOK
    <3>2. c \in Connections /\ stage[c] = "unused"
      BY <3>1 DEF Registered, Connections
    <3>3. /\ stage' = [stage EXCEPT ![c] = "opening"]
          /\ latest' = [latest EXCEPT ![t] = latest[t] + 1]
          /\ UNCHANGED <<clients, todo, buffer>>
      BY <2>9 DEF Connect
    <3>4. clients' = {d \in Connections : stage'[d] \in {"serving", "writing", "leaving"}}
      BY <3>2, <3>3 DEF Registered, TypeOK
    <3>5. \A d \in Connections : stage'[d] \notin {"serving", "writing", "leaving"} => buffer'[d] = <<>>
      BY <3>2, <3>3 DEF Registered, TypeOK
    <3>6. ASSUME NEW u \in Tabs, NEW n \in 1..MaxConnects, n > latest'[u]
          PROVE  stage'[<<u, n>>] = "unused"
      <4>1. n > latest[u] /\ <<u, n>> # c
        BY <3>1, <3>3, <3>6 DEF TypeOK
      <4>2. <<u, n>> \in Connections
        BY DEF Connections
      <4> QED
        BY <3>3, <4>1, <4>2 DEF Registered, TypeOK
    <3> QED
      BY <3>3, <3>4, <3>5, <3>6 DEF Registered
  <2>10. ASSUME NEW t \in Tabs, Disconnect(t) PROVE Registered'
    BY <2>10 DEF Disconnect, Registered
  <2>11. CASE Restart
    <3>1. \A t \in Tabs : \A n \in 1..MaxConnects : <<t, n>> \in Connections
      BY DEF Connections
    <3> QED
      BY <2>11, <3>1 DEF Restart, Registered
  <2> QED
    BY <2>1, <2>2, <2>3, <2>4, <2>5, <2>6, <2>7, <2>8, <2>9, <2>10, <2>11, <2>12, <2>13, ReportsAssumption
    DEF Next, Announce, Report, Fanout, Serve, Browse, Kinds
<1> QED
  BY <1>1, <1>2, TypeInvariant, PTL DEF Spec

(* A broadcast never reaches a channel that has been closed. *)
THEOREM LockHolds == Spec => []NeverSendsOnClosed
<1>1. Registered => NeverSendsOnClosed
  BY DEF Registered, NeverSendsOnClosed
<1> QED
  BY <1>1, RegisteredInvariant, PTL

-----------------------------------------------------------------------------
Ascending(s) == \A i, j \in DOMAIN s : i < j => s[i] < s[j]

(* Everything in the first sequence is before everything in the second. *)
Before(s, r) == \A i \in DOMAIN s, j \in DOMAIN r : s[i] < r[j]
BeforeNumber(s, n) == \A i \in DOMAIN s : s[i] < n

Current(t) == <<t, latest[t]>>

(* Along the way from a dashboard back to Redis the numbers grow: shown,   *)
(* in the channel, being broadcast, in the subscriber's channel.           *)
InLine ==
    /\ Ascending(feed)
    /\ sending # 0 => \A j \in DOMAIN feed : sending < feed[j]
    /\ \A c \in Connections : /\ Ascending(buffer[c])
                              /\ Before(buffer[c], feed)
                              /\ c \in todo => BeforeNumber(buffer[c], sending)
    /\ \A t \in Tabs :
        /\ Ascending(seen[t])
        /\ Before(seen[t], feed)
        /\ online[t] => /\ Before(seen[t], buffer[Current(t)])
                        /\ Current(t) \in todo => BeforeNumber(seen[t], sending)

LEMMA AppendLargest ==
    ASSUME NEW s \in Seq(Nat), NEW n \in Nat, Ascending(s), BeforeNumber(s, n)
    PROVE  Ascending(Append(s, n))
BY DEF Ascending, BeforeNumber

LEMMA TailAscends ==
    ASSUME NEW s \in Seq(Nat), s # <<>>, Ascending(s)
    PROVE  /\ Ascending(Tail(s))
           /\ Head(s) \in Nat /\ Tail(s) \in Seq(Nat)
           /\ \A j \in DOMAIN Tail(s) : Head(s) < Tail(s)[j]
           /\ \A r : Before(r, s) => Before(r, Tail(s)) /\ BeforeNumber(r, Head(s))
           /\ \A r : Before(s, r) => Before(Tail(s), r) /\ \A j \in DOMAIN r : Head(s) < r[j]
           /\ \A n : BeforeNumber(s, n) => BeforeNumber(Tail(s), n) /\ Head(s) < n
BY DEF Ascending, Before, BeforeNumber

LEMMA BeforeAppend ==
    ASSUME NEW s, NEW r \in Seq(Nat), NEW n \in Nat, Before(s, r), BeforeNumber(s, n)
    PROVE  Before(s, Append(r, n))
BY DEF Before, BeforeNumber

LEMMA AppendBefore ==
    ASSUME NEW s \in Seq(Nat), NEW r, NEW n \in Nat, Before(s, r), \A j \in DOMAIN r : n < r[j]
    PROVE  Before(Append(s, n), r)
BY DEF Before

(* Sequences of message numbers are sequences of naturals. *)
LEMMA InNat ==
    ASSUME TypeOK
    PROVE  /\ feed \in Seq(Nat) /\ sending \in Nat /\ Len(published) \in Nat
           /\ \A c \in Connections : buffer[c] \in Seq(Nat)
           /\ \A t \in Tabs : seen[t] \in Seq(Nat)
           /\ \A c \in Connections : Owner(c) \in Tabs /\ c = <<Owner(c), c[2]>>
           /\ \A t \in Tabs : online[t] => Current(t) \in Connections
<1>1. Numbers \subseteq Nat
  BY DEF Numbers
<1>2. feed \in Seq(Nat)
  BY <1>1, SeqMonotonic DEF TypeOK
<1>3. \A c \in Connections : buffer[c] \in Seq(Nat)
  BY <1>1, SeqMonotonic DEF TypeOK
<1>4. \A t \in Tabs : seen[t] \in Seq(Nat)
  BY <1>1, SeqMonotonic DEF TypeOK
<1>5. \A t \in Tabs : online[t] => Current(t) \in Connections
  BY BoundsAssumption DEF TypeOK, Connections, Current
<1> QED
  BY <1>1, <1>2, <1>3, <1>4, <1>5 DEF TypeOK, Connections, Owner

(* The next number is greater than all in use. *)
LEMMA NextIsLargest ==
    ASSUME TypeOK
    PROVE  LET n == Len(published) + 1
           IN  /\ n \in Nat /\ sending < n
               /\ BeforeNumber(feed, n)
               /\ \A c \in Connections : BeforeNumber(buffer[c], n)
               /\ \A t \in Tabs : BeforeNumber(seen[t], n)
<1> DEFINE n == Len(published) + 1
<1>1. n \in Nat /\ \A i \in Numbers : i < n
  BY DEF TypeOK, Numbers
<1>2. ASSUME NEW s \in Seq(Numbers) PROVE BeforeNumber(s, n)
  BY <1>1, <1>2 DEF BeforeNumber
<1>3. sending < n
  BY <1>1 DEF TypeOK
<1> QED
  BY <1>1, <1>2, <1>3 DEF TypeOK

LEMMA InLineInvariant == Spec => []InLine
<1>1. Init => InLine
  BY DEF Init, InLine, Ascending, Before, BeforeNumber
<1>2. TypeOK /\ Registered /\ InLine /\ [Next]_vars => InLine'
  <2> SUFFICES ASSUME TypeOK, Registered, InLine, [Next]_vars PROVE InLine'
    OBVIOUS
  <2> USE DEF channel, hub, handlers, browsers
  <2>1. CASE UNCHANGED vars
    BY <2>1 DEF vars, InLine, Ascending, Before, BeforeNumber, Current
  <2>2. ASSUME NEW k \in Kinds, NEW e \in Events, Publish(k, e),
               UNCHANGED <<hub, handlers, browsers, restarts>>
        PROVE  InLine'
    <3> DEFINE n == Len(published) + 1
    <3>0. UNCHANGED <<sending, todo, buffer, seen, online, latest>>
      BY <2>2
    <3>1. CASE UNCHANGED feed
      BY <3>0, <3>1 DEF InLine, Ascending, Before, BeforeNumber, Current
    <3>2. CASE feed' = Append(feed, n)
      <4>1. Ascending(feed')
        BY <3>2, InNat, NextIsLargest, AppendLargest DEF InLine
      <4>2. sending # 0 => \A j \in DOMAIN feed' : sending < feed'[j]
        BY <3>2, InNat, NextIsLargest DEF InLine
      <4>3. \A c \in Connections : Before(buffer[c], feed')
        BY <3>2, InNat, NextIsLargest, BeforeAppend DEF InLine
      <4>4. \A t \in Tabs : Before(seen[t], feed')
        BY <3>2, InNat, NextIsLargest, BeforeAppend DEF InLine
      <4> QED
        BY <3>0, <4>1, <4>2, <4>3, <4>4 DEF InLine, Ascending, Before, BeforeNumber, Current
    <3> QED
      BY <2>2, <3>1, <3>2 DEF Publish
  <2>3. CASE Broadcast
    <3> DEFINE n == Head(feed)
    <3>1. /\ feed # <<>> /\ feed' = Tail(feed) /\ sending' \in {0, n}
          /\ UNCHANGED <<buffer, seen, online, latest>>
      BY <2>3 DEF Broadcast, Begin
    <3>2. \A j \in DOMAIN feed' : n < feed'[j]
      BY <3>1, InNat, TailAscends DEF InLine
    <3>3. \A c \in Connections : Before(buffer[c], feed') /\ BeforeNumber(buffer[c], n)
      BY <3>1, InNat, TailAscends DEF InLine
    <3>4. \A t \in Tabs : Before(seen[t], feed') /\ BeforeNumber(seen[t], n)
      BY <3>1, InNat, TailAscends DEF InLine
    <3>5. Ascending(feed')
      BY <3>1, InNat, TailAscends DEF InLine
    <3>6. sending' = 0 => todo' = {}
      <4>1. n # 0
        BY <3>1, InNat DEF TypeOK, Numbers
      <4> QED
        BY <2>3, <4>1 DEF Broadcast, Begin
    <3>7. sending' = n \/ todo' = {}
      BY <3>1, <3>6
    <3>8. \A c \in Connections : c \in todo' => BeforeNumber(buffer[c], sending')
      BY <3>3, <3>7
    <3>9. \A t \in Tabs : Current(t) \in todo' => BeforeNumber(seen[t], sending')
      BY <3>4, <3>7
    <3>10. sending' # 0 => \A j \in DOMAIN feed' : sending' < feed'[j]
      BY <3>1, <3>2
    <3>12. \A c \in Connections : Ascending(buffer'[c]) /\ Before(buffer'[c], feed')
                                  /\ (c \in todo' => BeforeNumber(buffer'[c], sending'))
      BY <3>1, <3>3, <3>8 DEF InLine
    <3>13. ASSUME NEW t \in Tabs
           PROVE  /\ Ascending(seen'[t]) /\ Before(seen'[t], feed')
                  /\ online'[t] => /\ Before(seen'[t], buffer'[Current(t)'])
                                   /\ Current(t)' \in todo' => BeforeNumber(seen'[t], sending')
      BY <3>1, <3>4, <3>9 DEF InLine, Current
    <3> QED
      BY <3>5, <3>10, <3>12, <3>13 DEF InLine
  <2>4. ASSUME NEW c \in Connections, Send(c) PROVE InLine'
    <3>1. /\ c \in todo /\ todo' = todo \ {c} /\ sending # 0 /\ sending' \in {0, sending}
          /\ sending' = sending \/ todo' = {}
          /\ UNCHANGED <<feed, seen, online, latest>>
      BY <2>4 DEF Send, Turn, TypeOK
    <3>2. CASE UNCHANGED buffer
      BY <3>1, <3>2 DEF InLine, Ascending, Before, BeforeNumber, Current
    <3>3. CASE buffer' = [buffer EXCEPT ![c] = Append(buffer[c], sending)]
      <4>1. buffer'[c] = Append(buffer[c], sending)
        BY <3>3 DEF TypeOK
      <4>2. \A d \in Connections \ {c} : buffer'[d] = buffer[d]
        BY <3>3 DEF TypeOK
      <4>3. Ascending(buffer'[c]) /\ Before(buffer'[c], feed)
        BY <3>1, <4>1, InNat, AppendLargest, AppendBefore DEF InLine
      <4>4. \A d \in Connections : /\ Ascending(buffer'[d]) /\ Before(buffer'[d], feed')
                                   /\ d \in todo' => BeforeNumber(buffer'[d], sending')
        BY <3>1, <4>2, <4>3 DEF InLine
      <4>5. ASSUME NEW t \in Tabs, online[t]
            PROVE  /\ Before(seen[t], buffer'[Current(t)])
                   /\ Current(t) \in todo' => BeforeNumber(seen[t], sending')
        <5>1. CASE Current(t) = c
          BY <3>1, <4>1, <4>5, <5>1, InNat, BeforeAppend DEF InLine
        <5>2. CASE Current(t) # c
          BY <3>1, <4>2, <4>5, <5>2, InNat DEF InLine
        <5> QED
          BY <5>1, <5>2
      <4>6. ASSUME NEW t \in Tabs
            PROVE  /\ Ascending(seen'[t]) /\ Before(seen'[t], feed')
                   /\ online'[t] => /\ Before(seen'[t], buffer'[Current(t)'])
                                    /\ Current(t)' \in todo' => BeforeNumber(seen'[t], sending')
        BY <3>1, <4>5 DEF InLine, Current
      <4>7. Ascending(feed') /\ (sending' # 0 => \A j \in DOMAIN feed' : sending' < feed'[j])
        BY <3>1 DEF InLine
      <4> QED
        BY <4>4, <4>6, <4>7 DEF InLine
    <3> QED
      BY <2>4, <3>2, <3>3 DEF Send, Skip, Put, Drop
  <2>5. ASSUME NEW c \in Connections, Register(c) PROVE InLine'
    BY <2>5 DEF Register, InLine, Ascending, Before, BeforeNumber, Current
  <2>6. ASSUME NEW c \in Connections, Write(c) PROVE InLine'
    <3> DEFINE o == Owner(c)
               n == Head(buffer[c])
    <3>1. /\ buffer[c] # <<>> /\ buffer' = [buffer EXCEPT ![c] = Tail(buffer[c])]
          /\ UNCHANGED <<feed, sending, todo, online, latest>>
      BY <2>6 DEF Write, TypeOK
    <3>2. /\ buffer'[c] = Tail(buffer[c])
          /\ \A d \in Connections \ {c} : buffer'[d] = buffer[d]
      BY <3>1 DEF TypeOK
    <3>3. /\ Ascending(buffer'[c]) /\ Before(buffer'[c], feed)
          /\ c \in todo => BeforeNumber(buffer'[c], sending)
          /\ n \in Nat
          /\ \A j \in DOMAIN buffer'[c] : n < buffer'[c][j]
          /\ \A j \in DOMAIN feed : n < feed[j]
          /\ c \in todo => n < sending
      BY <3>1, <3>2, InNat, TailAscends DEF InLine
    <3>4. \A d \in Connections : /\ Ascending(buffer'[d]) /\ Before(buffer'[d], feed')
                                 /\ d \in todo' => BeforeNumber(buffer'[d], sending')
      BY <3>1, <3>2, <3>3 DEF InLine
    <3>5. ASSUME NEW t \in Tabs, online[t] PROVE Before(seen[t], buffer'[Current(t)])
      <4>1. CASE Current(t) = c
        BY <3>1, <3>2, <3>5, <4>1, InNat, TailAscends DEF InLine
      <4>2. CASE Current(t) # c
        BY <3>2, <3>5, <4>2, InNat DEF InLine
      <4> QED
        BY <4>1, <4>2
    <3>6. ASSUME NEW t \in Tabs
          PROVE  /\ Ascending(seen'[t]) /\ Before(seen'[t], feed')
                 /\ online'[t] => /\ Before(seen'[t], buffer'[Current(t)'])
                                  /\ Current(t)' \in todo' => BeforeNumber(seen'[t], sending')
      <4>0. Current(t)' = Current(t)
        BY <3>1 DEF Current
      <4>1. CASE Connected(c) /\ t = o
        <5>1. seen'[t] = Append(seen[t], n)
          BY <2>6, <4>1 DEF Write, TypeOK
        <5>2. Current(t) = c /\ online[t]
          BY <4>1, InNat DEF Connected, Current
        <5>3. /\ Ascending(seen[t]) /\ Before(seen[t], feed) /\ BeforeNumber(seen[t], n)
              /\ c \in todo => BeforeNumber(seen[t], sending)
          BY <3>1, <5>2, InNat, TailAscends DEF InLine
        <5>4. Ascending(seen'[t]) /\ Before(seen'[t], feed)
          BY <3>3, <5>1, <5>3, InNat, AppendLargest, AppendBefore
        <5>5. Before(seen'[t], buffer'[c])
          BY <3>3, <3>5, <5>1, <5>2, InNat, AppendBefore
        <5>6. c \in todo => BeforeNumber(seen'[t], sending)
          BY <3>3, <5>1, <5>3, InNat DEF BeforeNumber
        <5> QED
          BY <3>1, <4>0, <5>2, <5>4, <5>5, <5>6
      <4>2. CASE ~ (Connected(c) /\ t = o)
        <5>1. seen'[t] = seen[t]
          BY <2>6, <4>2 DEF Write, TypeOK
        <5> QED
          BY <3>1, <3>5, <4>0, <5>1 DEF InLine
      <4> QED
        BY <4>1, <4>2
    <3>7. Ascending(feed') /\ (sending' # 0 => \A j \in DOMAIN feed' : sending' < feed'[j])
      BY <3>1 DEF InLine
    <3> QED
      BY <3>4, <3>6, <3>7 DEF InLine
  <2>7. ASSUME NEW c \in Connections, Leave(c) PROVE InLine'
    BY <2>7 DEF Leave, InLine, Ascending, Before, BeforeNumber, Current
  <2>12. ASSUME NEW c \in Connections, Take(c) PROVE InLine'
    BY <2>12 DEF Take, InLine, Ascending, Before, BeforeNumber, Current
  <2>13. ASSUME NEW t \in Tabs, Stall(t) PROVE InLine'
    BY <2>13 DEF Stall, InLine, Ascending, Before, BeforeNumber, Current
  <2>8. ASSUME NEW c \in Connections, Unregister(c) PROVE InLine'
    <3>1. /\ UNCHANGED <<feed, sending, todo, seen, online, latest>>
          /\ \A d \in Connections : buffer'[d] = buffer[d] \/ buffer'[d] = <<>>
      BY <2>8 DEF Unregister, Closing, TypeOK
    <3>2. \A t \in Tabs : online[t] => Current(t) \in Connections
      BY InNat
    <3> QED
      BY <3>1, <3>2 DEF InLine, Ascending, Before, BeforeNumber, Current
  <2>9. ASSUME NEW t \in Tabs, Connect(t) PROVE InLine'
    <3> DEFINE c == <<t, latest[t] + 1>>
    <3>1. latest[t] \in Nat /\ latest[t] + 1 \in 1..MaxConnects
      BY <2>9, BoundsAssumption DEF Connect, TypeOK
    <3>2. c \in Connections /\ stage[c] = "unused"
      BY <3>1 DEF Registered, Connections
    <3>3. buffer[c] = <<>> /\ c \notin todo
      BY <3>2 DEF Registered
    <3>4. /\ UNCHANGED <<feed, sending, todo, seen, buffer>>
          /\ latest' = [latest EXCEPT ![t] = latest[t] + 1]
          /\ online' = [online EXCEPT ![t] = TRUE]
      BY <2>9 DEF Connect
    <3>5. ASSUME NEW u \in Tabs, online'[u]
          PROVE  /\ Before(seen'[u], buffer'[Current(u)'])
                 /\ Current(u)' \in todo' => BeforeNumber(seen'[u], sending')
      <4>1. CASE u = t
        <5>1. Current(u)' = c
          BY <3>4, <4>1 DEF TypeOK, Current
        <5> QED
          BY <3>3, <3>4, <5>1 DEF Before
      <4>2. CASE u # t
        <5>1. Current(u)' = Current(u) /\ online[u]
          BY <3>4, <3>5, <4>2 DEF TypeOK, Current
        <5> QED
          BY <3>4, <5>1 DEF InLine
      <4> QED
        BY <4>1, <4>2
    <3> QED
      BY <3>4, <3>5 DEF InLine
  <2>10. ASSUME NEW t \in Tabs, Disconnect(t) PROVE InLine'
    <3>1. /\ UNCHANGED <<feed, sending, todo, seen, buffer, latest>>
          /\ \A u \in Tabs : online'[u] => online[u]
      BY <2>10 DEF Disconnect, TypeOK
    <3> QED
      BY <3>1 DEF InLine, Current
  <2>11. CASE Restart
    BY <2>11 DEF Restart, InLine, Ascending, Before, BeforeNumber
  <2> QED
    BY <2>1, <2>2, <2>3, <2>4, <2>5, <2>6, <2>7, <2>8, <2>9, <2>10, <2>11, <2>12, <2>13, ReportsAssumption
    DEF Next, Announce, Report, Fanout, Serve, Browse, Kinds
<1> QED
  BY <1>1, <1>2, TypeInvariant, RegisteredInvariant, PTL DEF Spec

(* Messages come in the order of the channel, and none comes twice. *)
THEOREM OrderKept == Spec => []SeenInOrder
<1>1. InLine => SeenInOrder
  BY DEF InLine, SeenInOrder, Ascending
<1> QED
  BY <1>1, InLineInvariant, PTL

-----------------------------------------------------------------------------
(* Where each message is *)

Elements(s) == {s[i] : i \in DOMAIN s}

AskedBy(t) == {n \in Numbers : Matches(t, published[n])}

ToCome(t) == IF online[t] THEN OnTheWay(Current(t)) ELSE {}

Awaited(t) == (Elements(feed) \intersect AskedBy(t)) \union ToCome(t)

(* Every message asked for is seen, missed or awaited, and only one of them. *)
Accounted(t) ==
    /\ AskedBy(t) = Elements(seen[t]) \union missed[t] \union Awaited(t)
    /\ Elements(seen[t]) \intersect missed[t] = {}
    /\ (Elements(seen[t]) \union missed[t]) \intersect Awaited(t) = {}

(* A handler that leaves has lost its dashboard for good. *)
LeftBehind == \A c \in Connections : stage[c] \in {"leaving", "closed"} => ~ Connected(c)

LEMMA ElementsAppend ==
    ASSUME NEW S, NEW s \in Seq(S), NEW x \in S
    PROVE  Elements(Append(s, x)) = Elements(s) \union {x}
<1> DEFINE a == Append(s, x)
<1>1. /\ Len(s) \in Nat /\ DOMAIN s = 1..Len(s) /\ DOMAIN a = 1..(Len(s) + 1)
      /\ a[Len(s) + 1] = x /\ \A i \in 1..Len(s) : a[i] = s[i]
  OBVIOUS
<1> HIDE DEF a
<1>2. \A i \in DOMAIN a : i \in DOMAIN s \/ i = Len(s) + 1
  BY <1>1
<1>3. \A i \in DOMAIN s : i \in DOMAIN a /\ a[i] = s[i]
  BY <1>1
<1>4. Len(s) + 1 \in DOMAIN a
  BY <1>1
<1>5. Elements(a) = Elements(s) \union {x}
  BY <1>1, <1>2, <1>3, <1>4 DEF Elements
<1> QED
  BY <1>5 DEF a

LEMMA ElementsTail ==
    ASSUME NEW S, NEW s \in Seq(S), s # <<>>
    PROVE  Head(s) \in S /\ Elements(s) = Elements(Tail(s)) \union {Head(s)}
<1>1. /\ Len(s) \in Nat /\ Len(s) > 0 /\ DOMAIN s = 1..Len(s)
      /\ Head(s) = s[1] /\ s[1] \in S
      /\ DOMAIN Tail(s) = 1..(Len(s) - 1) /\ \A i \in 1..(Len(s) - 1) : Tail(s)[i] = s[i + 1]
  OBVIOUS
<1>2. \A i \in 1..Len(s) : i = 1 \/ (i - 1 \in 1..(Len(s) - 1) /\ s[i] = Tail(s)[i - 1])
  BY <1>1
<1>3. \A i \in 1..(Len(s) - 1) : i + 1 \in 1..Len(s) /\ Tail(s)[i] = s[i + 1]
  BY <1>1
<1>4. Elements(s) \subseteq Elements(Tail(s)) \union {Head(s)}
  <2> SUFFICES ASSUME NEW i \in DOMAIN s PROVE s[i] \in Elements(Tail(s)) \union {Head(s)}
    BY DEF Elements
  <2> QED
    BY <1>1, <1>2 DEF Elements
<1>5. Elements(Tail(s)) \union {Head(s)} \subseteq Elements(s)
  BY <1>1, <1>3 DEF Elements
<1> QED
  BY <1>1, <1>4, <1>5

(* A broadcast, a subscriber and a channel take a message from the front   *)
(* only once.                                                              *)
LEMMA TakenOnce ==
    ASSUME TypeOK, InLine
    PROVE  /\ feed # <<>> => Head(feed) \notin Elements(Tail(feed))
           /\ \A c \in Connections :
                /\ feed # <<>> => Head(feed) \notin Elements(buffer[c])
                /\ c \in todo => sending \notin Elements(buffer[c]) /\ sending \notin Elements(feed)
                /\ buffer[c] # <<>> => /\ Head(buffer[c]) \notin Elements(Tail(buffer[c]))
                                       /\ Head(buffer[c]) \notin Elements(feed)
                                       /\ c \in todo => Head(buffer[c]) # sending
<1>1. /\ feed \in Seq(Nat) /\ sending \in Nat /\ \A c \in Connections : buffer[c] \in Seq(Nat)
  BY InNat
<1>2. feed # <<>> => Head(feed) \notin Elements(Tail(feed))
  <2>1. feed # <<>> => Head(feed) \in Nat /\ \A j \in DOMAIN Tail(feed) : Head(feed) < Tail(feed)[j]
    BY <1>1, TailAscends DEF InLine
  <2> QED
    BY <2>1 DEF Elements
<1>3. ASSUME NEW c \in Connections, feed # <<>> PROVE Head(feed) \notin Elements(buffer[c])
  <2>1. Head(feed) \in Nat /\ BeforeNumber(buffer[c], Head(feed))
    BY <1>1, <1>3, TailAscends DEF InLine
  <2> QED
    BY <2>1 DEF BeforeNumber, Elements
<1>4. ASSUME NEW c \in Connections, c \in todo
      PROVE  sending \notin Elements(buffer[c]) /\ sending \notin Elements(feed)
  <2>1. BeforeNumber(buffer[c], sending) /\ \A j \in DOMAIN feed : sending < feed[j]
    BY <1>4 DEF InLine, TypeOK
  <2> QED
    BY <1>1, <2>1 DEF BeforeNumber, Elements
<1>5. ASSUME NEW c \in Connections, buffer[c] # <<>>
      PROVE  /\ Head(buffer[c]) \notin Elements(Tail(buffer[c]))
             /\ Head(buffer[c]) \notin Elements(feed)
             /\ c \in todo => Head(buffer[c]) # sending
  <2>1. /\ Head(buffer[c]) \in Nat
        /\ \A j \in DOMAIN Tail(buffer[c]) : Head(buffer[c]) < Tail(buffer[c])[j]
        /\ \A j \in DOMAIN feed : Head(buffer[c]) < feed[j]
        /\ c \in todo => Head(buffer[c]) < sending
    BY <1>1, <1>5, TailAscends DEF InLine
  <2> QED
    BY <1>1, <2>1 DEF Elements
<1> QED
  BY <1>2, <1>3, <1>4, <1>5

LEMMA LeftBehindStep ==
    ASSUME TypeOK, Registered, LeftBehind, [Next]_vars
    PROVE  LeftBehind'
<1> USE DEF channel, hub, handlers, browsers
<1>1. CASE UNCHANGED <<stage, latest, online>>
  BY <1>1 DEF LeftBehind, Connected, Owner
<1>2. ASSUME NEW c \in Connections, Register(c) \/ Take(c) \/ Write(c) \/ Leave(c) \/ Unregister(c)
      PROVE  LeftBehind'
  <2>1. UNCHANGED <<latest, online>>
    BY <1>2 DEF Register, Take, Write, Leave, Unregister, Closing
  <2>2. CASE Register(c)
    BY <2>1, <2>2 DEF Register, LeftBehind, Connected, Owner, TypeOK
  <2>3. CASE Leave(c)
    BY <2>1, <2>3 DEF Leave, LeftBehind, Connected, Owner, TypeOK
  <2>4. CASE Unregister(c)
    BY <2>1, <2>4 DEF Unregister, Closing, LeftBehind, Connected, Owner, TypeOK
  <2>5. CASE Take(c)
    BY <2>1, <2>5 DEF Take, LeftBehind, Connected, Owner, TypeOK
  <2>6. CASE Write(c)
    <3>1. stage[c] = "writing" /\ stage' = [stage EXCEPT ![c] = "serving"]
      BY <2>6 DEF Write
    <3> QED
      BY <2>1, <3>1 DEF LeftBehind, Connected, Owner, TypeOK
  <2> QED
    BY <1>2, <2>2, <2>3, <2>4, <2>5, <2>6
<1>3. ASSUME NEW t \in Tabs, Connect(t) PROVE LeftBehind'
  <2> SUFFICES ASSUME NEW c \in Connections, stage'[c] \in {"leaving", "closed"} PROVE ~ Connected(c)'
    BY DEF LeftBehind
  <2>1. stage[c] = stage'[c]
    BY <1>3 DEF Connect, TypeOK
  <2>2. c[2] \in 1..MaxConnects /\ c[1] \in Tabs /\ c = <<c[1], c[2]>>
    BY DEF Connections
  <2>3. ~ (c[2] > latest[c[1]])
    BY <2>1, <2>2 DEF Registered
  <2>4. latest[t] \in Nat /\ latest' = [latest EXCEPT ![t] = latest[t] + 1]
        /\ online' = [online EXCEPT ![t] = TRUE]
    BY <1>3, BoundsAssumption DEF Connect, TypeOK
  <2>5. CASE c[1] = t
    BY <2>2, <2>3, <2>4, <2>5, BoundsAssumption DEF Connected, Owner, TypeOK
  <2>6. CASE c[1] # t
    BY <2>1, <2>2, <2>4, <2>6 DEF LeftBehind, Connected, Owner, TypeOK
  <2> QED
    BY <2>5, <2>6
<1>4. ASSUME NEW t \in Tabs, Disconnect(t) PROVE LeftBehind'
  BY <1>4 DEF Disconnect, LeftBehind, Connected, Owner, Connections, TypeOK
<1>5. CASE Restart
  BY <1>5 DEF Restart, LeftBehind, Connected, Owner, Connections
<1>6. (\E c \in Connections : Send(c)) \/ (\E t \in Tabs : Stall(t)) \/ Broadcast \/ UNCHANGED vars
        \/ (\E e \in Events : Announce(e) \/ Report(e)) => UNCHANGED <<stage, latest, online>>
  BY DEF Send, Turn, Stall, Broadcast, Begin, Announce, Report, vars
<1> QED
  BY <1>1, <1>2, <1>3, <1>4, <1>5, <1>6 DEF Next, Fanout, Serve, Browse

(* What is on its way to a connection: its channel, and its turn in the    *)
(* broadcast. None of it is still in the subscriber's channel.             *)
Turns(c) == {n \in {sending} : c \in todo /\ Matches(Owner(c), published[n])}

LEMMA OnTheWayIs ==
    ASSUME TypeOK, NEW c \in Connections
    PROVE  OnTheWay(c) = Elements(buffer[c]) \union Turns(c)
<1>1. c \in todo => sending # 0
  BY DEF TypeOK
<1> QED
  BY <1>1 DEF OnTheWay, Elements, Turns

LEMMA ToComeApart ==
    ASSUME TypeOK, InLine, NEW t \in Tabs
    PROVE  Elements(feed) \intersect ToCome(t) = {}
<1>1. CASE online[t]
  <2> DEFINE c == Current(t)
  <2>1. c \in Connections
    BY <1>1, InNat
  <2>2. feed \in Seq(Nat) /\ sending \in Nat /\ buffer[c] \in Seq(Nat)
    BY <2>1, InNat
  <2>3. Before(buffer[c], feed)
    BY <2>1 DEF InLine
  <2>4. Elements(buffer[c]) \intersect Elements(feed) = {}
    BY <2>2, <2>3 DEF Before, Elements
  <2>5. c \in todo => sending \notin Elements(feed)
    BY <2>1, TakenOnce
  <2>6. Turns(c) \intersect Elements(feed) = {}
    BY <2>5 DEF Turns
  <2> QED
    BY <1>1, <2>1, <2>4, <2>6, OnTheWayIs DEF ToCome
<1>2. CASE ~ online[t]
  BY <1>2 DEF ToCome
<1> QED
  BY <1>1, <1>2

LEMMA OnTheWayWillBe ==
    ASSUME TypeOK', NEW c \in Connections
    PROVE  OnTheWay(c)' = Elements(buffer'[c]) \union Turns(c)'
<1>1. c \in todo' => sending' # 0
  BY DEF TypeOK
<1> QED
  BY <1>1 DEF OnTheWay, Elements, Turns

(* Publishing adds a message to what is asked for, and to what is awaited  *)
(* or missed.                                                              *)
LEMMA AccountedPublish ==
    ASSUME TypeOK, TypeOK', NEW k \in Kinds, NEW e \in Events, Publish(k, e),
           UNCHANGED <<hub, handlers, browsers, restarts>>,
           NEW t \in Tabs, Accounted(t)
    PROVE  Accounted(t)'
<1> USE DEF hub, handlers, browsers
<1> DEFINE m == [kind |-> k, event |-> e]
           n == Len(published) + 1
           N == {x \in {n} : Matches(t, m)}
<1>1. /\ published' = Append(published, m) /\ n \in Nat /\ n \notin Numbers
      /\ UNCHANGED <<sending, todo, buffer, latest, online, seen>>
  BY InNat DEF Publish, Numbers
<1>2. /\ Numbers' = Numbers \union {n} /\ published'[n] = m
      /\ \A x \in Numbers : published'[x] = published[x]
  BY <1>1 DEF Numbers, TypeOK, Messages
<1>3. AskedBy(t)' = AskedBy(t) \union N /\ n \notin AskedBy(t)
  BY <1>1, <1>2 DEF AskedBy, Matches
<1>4. ToCome(t)' = ToCome(t)
  <2>1. \A c \in Connections : OnTheWay(c)' = OnTheWay(c)
    <3> SUFFICES ASSUME NEW c \in Connections PROVE OnTheWay(c)' = OnTheWay(c)
      OBVIOUS
    <3>1. c \in todo => published'[sending] = published[sending]
      BY <1>2 DEF TypeOK
    <3>2. Turns(c)' = Turns(c)
      BY <1>1, <3>1 DEF Turns, Matches, Owner
    <3> QED
      BY <1>1, <3>2, OnTheWayIs, OnTheWayWillBe
  <2>2. online[t] => Current(t) \in Connections
    BY InNat
  <2> QED
    BY <1>1, <2>1, <2>2 DEF ToCome, Current
<1>5. Elements(feed) \subseteq Numbers
  BY DEF Elements, TypeOK
<1>6. CASE feed' = Append(feed, n) /\ UNCHANGED missed
  <2>1. Elements(feed') = Elements(feed) \union {n}
    BY <1>1, <1>6, InNat, ElementsAppend
  <2>2. Awaited(t)' = Awaited(t) \union N
    BY <1>1, <1>3, <1>4, <1>5, <2>1 DEF Awaited
  <2>3. N = {} \/ N = {n}
    OBVIOUS
  <2> HIDE DEF N
  <2>4. seen' = seen /\ missed' = missed
    BY <1>1, <1>6
  <2> QED
    BY <1>3, <2>2, <2>3, <2>4 DEF Accounted
<1>7. CASE UNCHANGED feed /\ missed'[t] = missed[t] \union N
  <2>1. Awaited(t)' = Awaited(t)
    BY <1>1, <1>3, <1>4, <1>5, <1>7 DEF Awaited
  <2> QED
    BY <1>1, <1>3, <1>7, <2>1 DEF Accounted
<1>8. (feed' = Append(feed, n) /\ UNCHANGED missed) \/ (UNCHANGED feed /\ missed'[t] = missed[t] \union N)
  BY DEF Publish, TypeOK
<1> QED
  BY <1>6, <1>7, <1>8

(* A broadcast takes a message from the subscriber's channel to the turn   *)
(* of every registered connection.                                         *)
LEMMA AccountedBroadcast ==
    ASSUME TypeOK, TypeOK', InLine, Broadcast, NEW t \in Tabs, Accounted(t)
    PROVE  Accounted(t)'
<1> USE DEF handlers, browsers
<1> DEFINE n == Head(feed)
           Reached == online[t] /\ Current(t) \in clients
<1>1. /\ feed # <<>> /\ sending = 0 /\ feed' = Tail(feed) /\ todo' = clients
      /\ sending' = IF clients = {} THEN 0 ELSE n
      /\ UNCHANGED <<published, buffer, latest, online, seen>>
      /\ missed'[t] = IF Matches(t, published[n]) /\ ~ \E c \in clients : Owner(c) = t /\ Connected(c)
                      THEN missed[t] \union {n} ELSE missed[t]
  BY DEF Broadcast, Begin, TypeOK
<1>2. todo = {}
  BY <1>1 DEF TypeOK
<1>3. AskedBy(t)' = AskedBy(t) /\ n \in Numbers
  BY <1>1 DEF AskedBy, Numbers, Matches, TypeOK
<1>4. Elements(feed) = Elements(feed') \union {n} /\ n \notin Elements(feed')
  BY <1>1, InNat, ElementsTail, TakenOnce
<1>5. n \notin ToCome(t)
  BY <1>4, ToComeApart
<1>6. (\E c \in clients : Owner(c) = t /\ Connected(c)) <=> Reached
  <2>1. ASSUME NEW c \in clients, Owner(c) = t, Connected(c) PROVE Reached
    <3>1. c \in Connections /\ c = <<Owner(c), c[2]>>
      BY InNat DEF TypeOK
    <3>2. online[t] /\ c[2] = latest[t]
      BY <2>1 DEF Connected
    <3> QED
      BY <2>1, <3>1, <3>2 DEF Current
  <2>2. ASSUME Reached PROVE Owner(Current(t)) = t /\ Connected(Current(t))
    BY <2>2 DEF Connected, Current, Owner
  <2> QED
    BY <2>1, <2>2
<1>7. ToCome(t)' = ToCome(t) \union {x \in {n} : Reached /\ Matches(t, published[n])}
  <2>1. CASE online[t]
    <3>0. PICK c : c = Current(t)
      OBVIOUS
    <3>1. c \in Connections /\ Owner(c) = t /\ Current(t)' = c
      BY <1>1, <2>1, <3>0, InNat DEF Current, Owner
    <3>2. OnTheWay(c) = Elements(buffer[c])
      BY <1>2, <3>1, OnTheWayIs DEF Turns
    <3>3. OnTheWay(c)' = Elements(buffer[c]) \union {x \in {n} : c \in clients /\ Matches(t, published[n])}
      BY <1>1, <3>1, OnTheWayWillBe DEF Turns, Owner, Matches
    <3> QED
      BY <1>1, <2>1, <3>0, <3>1, <3>2, <3>3 DEF ToCome
  <2>2. CASE ~ online[t]
    BY <1>1, <2>2 DEF ToCome
  <2> QED
    BY <2>1, <2>2
<1>8. CASE ~ Matches(t, published[n])
  <2>1. n \notin AskedBy(t)
    BY <1>8 DEF AskedBy
  <2> QED
    BY <1>1, <1>3, <1>4, <1>7, <1>8, <2>1 DEF Accounted, Awaited
<1>9. CASE Matches(t, published[n]) /\ Reached
  <2>1. n \in AskedBy(t)
    BY <1>3, <1>9 DEF AskedBy
  <2> QED
    BY <1>1, <1>3, <1>4, <1>6, <1>7, <1>9, <2>1 DEF Accounted, Awaited
<1>10. CASE Matches(t, published[n]) /\ ~ Reached
  <2>1. n \in AskedBy(t)
    BY <1>3, <1>10 DEF AskedBy
  <2>2. /\ missed'[t] = missed[t] \union {n}
        /\ ToCome(t)' = ToCome(t)
    BY <1>1, <1>6, <1>7, <1>10
  <2>3. Awaited(t)' = Awaited(t) \ {n} /\ n \in Awaited(t)
    BY <1>3, <1>4, <1>5, <2>1, <2>2 DEF Awaited
  <2> QED
    BY <1>1, <1>3, <2>2, <2>3 DEF Accounted
<1> QED
  BY <1>8, <1>9, <1>10


(* One client's turn puts the message in its channel, or in what its       *)
(* dashboard has missed, and concerns no other dashboard.                  *)
LEMMA AccountedSend ==
    ASSUME TypeOK, TypeOK', InLine, NEW c \in Connections, Send(c), NEW t \in Tabs, Accounted(t)
    PROVE  Accounted(t)'
<1> USE DEF channel, browsers
<1>1. /\ c \in todo /\ todo' = todo \ {c} /\ sending # 0
      /\ todo' # {} => sending' = sending
      /\ UNCHANGED <<published, feed, latest, online, seen>>
  BY DEF Send, Turn, TypeOK
<1>2. AskedBy(t)' = AskedBy(t)
  BY <1>1 DEF AskedBy, Numbers, Matches
<1>3. \A d \in Connections \ {c} : OnTheWay(d)' = OnTheWay(d)
  <2> SUFFICES ASSUME NEW d \in Connections \ {c} PROVE OnTheWay(d)' = OnTheWay(d)
    OBVIOUS
  <2>1. buffer'[d] = buffer[d]
    BY DEF Send, Skip, Put, Drop, TypeOK
  <2>2. d \in todo' <=> d \in todo
    BY <1>1
  <2>3. Turns(d)' = Turns(d)
    BY <1>1, <2>2 DEF Turns, Matches, Owner
  <2> QED
    BY <2>1, <2>3, OnTheWayIs, OnTheWayWillBe
<1>4. Turns(c)' = {}
  BY <1>1 DEF Turns
<1>5. CASE online[t] /\ Current(t) = c
  <2>1. Owner(c) = t /\ Connected(c) /\ Current(t)' = c
    BY <1>1, <1>5 DEF Current, Owner, Connected
  <2>2. ToCome(t) = Elements(buffer[c]) \union Turns(c) /\ ToCome(t)' = Elements(buffer'[c])
    BY <1>1, <1>4, <1>5, <2>1, OnTheWayIs, OnTheWayWillBe DEF ToCome
  <2>3. CASE Skip(c)
    <3>1. Turns(c) = {} /\ UNCHANGED <<buffer, missed>>
      BY <2>3 DEF Turns, Skip, Wants
    <3> QED
      BY <1>1, <1>2, <2>2, <3>1 DEF Accounted, Awaited
  <2>4. CASE Put(c)
    <3>1. Turns(c) = {sending}
      BY <1>1, <2>4 DEF Turns, Put, Wants
    <3>2. buffer'[c] = Append(buffer[c], sending) /\ UNCHANGED missed
      BY <2>4 DEF Put, TypeOK
    <3>3. Elements(buffer'[c]) = Elements(buffer[c]) \union {sending}
      BY <3>2, InNat, ElementsAppend
    <3> QED
      BY <1>1, <1>2, <2>2, <3>1, <3>2, <3>3 DEF Accounted, Awaited
  <2>5. CASE Drop(c)
    <3>1. Turns(c) = {sending}
      BY <1>1, <2>5 DEF Turns, Drop, Wants
    <3>2. UNCHANGED buffer /\ missed'[t] = missed[t] \union {sending}
      BY <2>1, <2>5 DEF Drop, TypeOK
    <3>3. sending \notin Elements(buffer[c]) /\ sending \notin Elements(feed)
      BY <1>1, TakenOnce
    <3>4. Awaited(t)' = Awaited(t) \ {sending} /\ sending \in Awaited(t)
      BY <1>1, <1>2, <2>2, <3>1, <3>2, <3>3 DEF Awaited
    <3> QED
      BY <1>1, <1>2, <3>2, <3>4 DEF Accounted
  <2> QED
    BY <2>3, <2>4, <2>5 DEF Send
<1>6. CASE ~ (online[t] /\ Current(t) = c)
  <2>1. ~ (Owner(c) = t /\ Connected(c))
    <3>1. c = <<Owner(c), c[2]>>
      BY InNat
    <3> QED
      BY <1>6, <3>1 DEF Connected, Current
  <2>2. missed'[t] = missed[t]
    BY <2>1 DEF Send, Skip, Put, Drop, TypeOK
  <2>3. ToCome(t)' = ToCome(t)
    <3>1. CASE online[t]
      <4>0. PICK d : d = Current(t)
        OBVIOUS
      <4>1. d \in Connections \ {c} /\ Current(t)' = d
        BY <1>1, <1>6, <3>1, <4>0, InNat DEF Current
      <4> QED
        BY <1>1, <1>3, <3>1, <4>0, <4>1 DEF ToCome
    <3>2. CASE ~ online[t]
      BY <1>1, <3>2 DEF ToCome
    <3> QED
      BY <3>1, <3>2
  <2> QED
    BY <1>1, <1>2, <2>2, <2>3 DEF Accounted, Awaited
<1> QED
  BY <1>5, <1>6

(* A handler that writes shows its dashboard the next message, if the      *)
(* connection is still the one the dashboard has.                          *)
LEMMA AccountedWrite ==
    ASSUME TypeOK, TypeOK', InLine, NEW c \in Connections, Write(c), NEW t \in Tabs, Accounted(t)
    PROVE  Accounted(t)'
<1> USE DEF channel, hub
<1> DEFINE n == Head(buffer[c])
<1>1. /\ buffer[c] # <<>> /\ buffer'[c] = Tail(buffer[c])
      /\ \A d \in Connections \ {c} : buffer'[d] = buffer[d]
      /\ UNCHANGED <<published, feed, sending, todo, latest, online, missed>>
  BY DEF Write, TypeOK
<1>2. AskedBy(t)' = AskedBy(t) /\ \A d \in Connections : Turns(d)' = Turns(d)
  BY <1>1 DEF AskedBy, Numbers, Matches, Turns, Owner
<1>3. CASE online[t] /\ Current(t) = c
  <2>1. Owner(c) = t /\ Connected(c) /\ Current(t)' = c
    BY <1>1, <1>3 DEF Current, Owner, Connected
  <2>2. n \in Nat /\ Elements(buffer[c]) = Elements(buffer'[c]) \union {n}
    BY <1>1, InNat, ElementsTail
  <2>3. n \notin Elements(buffer'[c]) /\ n \notin Elements(feed) /\ n \notin Turns(c)
    BY <1>1, TakenOnce DEF Turns
  <2>4. Elements(seen'[t]) = Elements(seen[t]) \union {n}
    <3>1. seen'[t] = Append(seen[t], n)
      BY <2>1 DEF Write, TypeOK
    <3> QED
      BY <2>2, <3>1, InNat, ElementsAppend
  <2>5. ToCome(t)' = ToCome(t) \ {n} /\ n \in ToCome(t)
    BY <1>1, <1>2, <1>3, <2>1, <2>2, <2>3, OnTheWayIs, OnTheWayWillBe DEF ToCome
  <2>6. Awaited(t)' = Awaited(t) \ {n} /\ n \in Awaited(t)
    BY <1>1, <1>2, <2>3, <2>5 DEF Awaited
  <2> QED
    BY <1>1, <1>2, <2>4, <2>6 DEF Accounted
<1>4. CASE ~ (online[t] /\ Current(t) = c)
  <2>1. ~ (Owner(c) = t /\ Connected(c))
    <3>1. c = <<Owner(c), c[2]>>
      BY InNat
    <3> QED
      BY <1>4, <3>1 DEF Connected, Current
  <2>2. seen'[t] = seen[t]
    BY <2>1 DEF Write, TypeOK
  <2>3. ToCome(t)' = ToCome(t)
    <3>1. CASE online[t]
      <4>0. PICK d : d = Current(t)
        OBVIOUS
      <4>1. d \in Connections \ {c} /\ Current(t)' = d
        BY <1>1, <1>4, <3>1, <4>0, InNat DEF Current
      <4> QED
        BY <1>1, <1>2, <3>1, <4>0, <4>1, OnTheWayIs, OnTheWayWillBe DEF ToCome
    <3>2. CASE ~ online[t]
      BY <1>1, <3>2 DEF ToCome
    <3> QED
      BY <3>1, <3>2
  <2> QED
    BY <1>1, <1>2, <2>2, <2>3 DEF Accounted, Awaited
<1> QED
  BY <1>3, <1>4


(* Where nothing of a dashboard's own moves, nothing of it is lost: the    *)
(* handlers come and go for connections that are no longer its own.        *)
LEMMA AccountedElsewhere ==
    ASSUME TypeOK, TypeOK', NEW t \in Tabs, Accounted(t),
           UNCHANGED <<channel, browsers, sending, todo, missed>>,
           \A c \in Connections : Connected(c) => buffer'[c] = buffer[c]
    PROVE  Accounted(t)'
<1> USE DEF channel, browsers
<1>1. AskedBy(t)' = AskedBy(t) /\ \A d \in Connections : Turns(d)' = Turns(d)
  BY DEF AskedBy, Numbers, Matches, Turns, Owner
<1>2. ToCome(t)' = ToCome(t)
  <2>1. CASE online[t]
    <3>0. PICK d : d = Current(t)
      OBVIOUS
    <3>1. d \in Connections /\ Current(t)' = d /\ Connected(d)
      BY <2>1, <3>0, InNat DEF Current, Connected, Owner
    <3> QED
      BY <1>1, <2>1, <3>0, <3>1, OnTheWayIs, OnTheWayWillBe DEF ToCome
  <2>2. CASE ~ online[t]
    BY <2>2 DEF ToCome
  <2> QED
    BY <2>1, <2>2
<1> QED
  BY <1>1, <1>2 DEF Accounted, Awaited

(* A new connection has nothing on its way yet; a lost one misses what was *)
(* on its way.                                                             *)
LEMMA AccountedBrowse ==
    ASSUME TypeOK, TypeOK', Registered, InLine, NEW u \in Tabs, Browse(u),
           NEW t \in Tabs, Accounted(t)
    PROVE  Accounted(t)'
<1> USE DEF channel, hub, handlers
<1>1. /\ UNCHANGED <<published, feed, sending, todo, buffer, list, seen>>
      /\ AskedBy(t)' = AskedBy(t) /\ \A d \in Connections : Turns(d)' = Turns(d)
  BY DEF Browse, Connect, Stall, Disconnect, AskedBy, Numbers, Matches, Turns, Owner
<1>2. CASE t # u \/ Stall(u)
  <2>1. online'[t] = online[t] /\ missed'[t] = missed[t] /\ Current(t)' = Current(t)
    <3>1. CASE Stall(u)
      BY <3>1 DEF Stall, Current
    <3>2. CASE t # u /\ (Connect(u) \/ Disconnect(u))
      BY <3>2 DEF Connect, Disconnect, Current, TypeOK
    <3> QED
      BY <1>2, <3>1, <3>2 DEF Browse
  <2>2. ToCome(t)' = ToCome(t)
    <3>1. CASE online[t]
      <4>0. PICK d : d = Current(t)
        OBVIOUS
      <4>1. d \in Connections /\ Current(t)' = d
        BY <2>1, <3>1, <4>0, InNat
      <4> QED
        BY <1>1, <2>1, <3>1, <4>0, <4>1, OnTheWayIs, OnTheWayWillBe DEF ToCome
    <3>2. CASE ~ online[t]
      BY <2>1, <3>2 DEF ToCome
    <3> QED
      BY <3>1, <3>2
  <2> QED
    BY <1>1, <2>1, <2>2 DEF Accounted, Awaited
<1>3. CASE t = u /\ Connect(u)
  <2>1. latest[t] \in Nat /\ latest[t] + 1 \in 1..MaxConnects
    BY <1>3, BoundsAssumption DEF Connect, TypeOK
  <2>2. PICK c : c = <<t, latest[t] + 1>>
    OBVIOUS
  <2>3. c \in Connections /\ stage[c] = "unused"
    BY <2>1, <2>2 DEF Registered, Connections
  <2>4. buffer[c] = <<>> /\ c \notin todo
    BY <2>3 DEF Registered
  <2>5. Current(t)' = c /\ missed' = missed
    BY <1>3, <2>2 DEF Connect, Current, TypeOK
  <2>6. Elements(buffer'[c]) = {} /\ Turns(c)' = {}
    BY <1>1, <2>4 DEF Elements, Turns
  <2>7. OnTheWay(c)' = {}
    BY <2>3, <2>6, OnTheWayWillBe
  <2>8. ToCome(t)' = {}
    BY <2>5, <2>7 DEF ToCome
  <2>9. ToCome(t) = {}
    BY <1>3 DEF Connect, ToCome
  <2> QED
    BY <1>1, <2>5, <2>8, <2>9 DEF Accounted, Awaited
<1>4. CASE t = u /\ Disconnect(u)
  <2>1. ~ online'[t] /\ missed'[t] = missed[t] \union ToCome(t)
    BY <1>4 DEF Disconnect, ToCome, Current, TypeOK
  <2>2. ToCome(t)' = {}
    BY <2>1 DEF ToCome
  <2>3. Awaited(t)' = Awaited(t) \ ToCome(t)
    BY <1>1, <2>2, ToComeApart DEF Awaited
  <2>4. ToCome(t) \subseteq Awaited(t)
    BY DEF Awaited
  <2> QED
    BY <1>1, <2>1, <2>3, <2>4 DEF Accounted
<1> QED
  BY <1>2, <1>3, <1>4 DEF Browse

(* A restart of cmd/sse loses whatever was under way to anybody.           *)
LEMMA AccountedRestart ==
    ASSUME TypeOK, Restart, NEW t \in Tabs, Accounted(t)
    PROVE  Accounted(t)'
<1>1. AskedBy(t)' = AskedBy(t) /\ seen' = seen
  BY DEF Restart, AskedBy, Numbers, Matches
<1>2. Elements(feed) \subseteq Numbers
  BY DEF Elements, TypeOK
<1>3. missed'[t] = missed[t] \union Awaited(t)
  BY <1>2 DEF Restart, Awaited, ToCome, Current, Elements, AskedBy
<1>4. Awaited(t)' = {}
  BY DEF Restart, Awaited, ToCome, Elements
<1> QED
  BY <1>1, <1>3, <1>4 DEF Accounted

LEMMA AccountedStep ==
    ASSUME TypeOK, TypeOK', Registered, InLine, LeftBehind, [Next]_vars,
           NEW t \in Tabs, Accounted(t)
    PROVE  Accounted(t)'
<1>1. CASE UNCHANGED vars
  BY <1>1 DEF vars, channel, hub, handlers, browsers, Accounted, Awaited, AskedBy, Numbers, Matches,
              ToCome, OnTheWay, Current, Owner
<1>2. ASSUME NEW e \in Events, Announce(e) \/ Report(e) PROVE Accounted(t)'
  BY <1>2, AccountedPublish, ReportsAssumption DEF Announce, Report, Kinds
<1>3. CASE Fanout
  BY <1>3, AccountedBroadcast, AccountedSend DEF Fanout
<1>4. ASSUME NEW c \in Connections, Register(c) \/ Take(c) \/ Leave(c) PROVE Accounted(t)'
  BY <1>4, AccountedElsewhere DEF Register, Take, Leave, channel, hub, browsers
<1>5. ASSUME NEW c \in Connections, Unregister(c) PROVE Accounted(t)'
  <2>1. ~ Connected(c)
    BY <1>5 DEF Unregister, Closing, LeftBehind
  <2>2. \A d \in Connections : Connected(d) => buffer'[d] = buffer[d]
    BY <1>5, <2>1 DEF Unregister, Closing, TypeOK
  <2> QED
    BY <1>5, <2>2, AccountedElsewhere DEF Unregister, Closing, browsers
<1>6. ASSUME NEW c \in Connections, Write(c) PROVE Accounted(t)'
  BY <1>6, AccountedWrite
<1>7. ASSUME NEW u \in Tabs, Browse(u) PROVE Accounted(t)'
  BY <1>7, AccountedBrowse
<1>8. CASE Restart
  BY <1>8, AccountedRestart
<1> QED
  BY <1>1, <1>2, <1>3, <1>4, <1>5, <1>6, <1>7, <1>8 DEF Next, Serve

(* A dashboard misses a message for a reason of its own: the full channel, *)
(* the slow handler and the lost connection of another cost it nothing.    *)
THEOREM MessagesAccounted == Spec => []EveryMessageAccounted
<1> DEFINE Inv == LeftBehind /\ \A t \in Tabs : Accounted(t)
<1>1. Init => Inv
  BY DEF Init, LeftBehind, Connected, Owner, Connections, Accounted, Awaited, AskedBy, Numbers, ToCome,
         Elements
<1>2. /\ TypeOK /\ TypeOK' /\ Registered /\ InLine
      /\ Inv /\ [Next]_vars
      => Inv'
  BY LeftBehindStep, AccountedStep
<1>3. Inv => EveryMessageAccounted
  BY DEF EveryMessageAccounted, Accounted, Awaited, AskedBy, ToCome, Current, Elements
<1> QED
  BY <1>1, <1>2, <1>3, TypeInvariant, RegisteredInvariant, InLineInvariant, PTL DEF Spec


-----------------------------------------------------------------------------
(* The list of a dashboard *)

(* The list l after the messages number s[1], s[2], ... of p were shown:   *)
(* what ListMatchesSeen says of one dashboard, with names for its parts.   *)
Firsts(p, s)   == {i \in DOMAIN s : p[s[i]].kind = "received"}
After(p, s, i) == {j \in Firsts(p, s) : j > i}
Newer(p, s, i) == Cardinality(After(p, s, i))
Again(p, s, i) == {j \in After(p, s, i) : p[s[j]].event = p[s[i]].event}
Later(p, s, i) == {j \in DOMAIN s : /\ j > i /\ p[s[j]].kind \in Outcomes
                                    /\ p[s[j]].event = p[s[i]].event
                                    /\ \A k \in Again(p, s, i) : j < k}

ShowsEntry(p, s, i, entry) ==
    /\ entry.event = p[s[i]].event
    /\ IF Later(p, s, i) = {} THEN entry.status = "received"
       ELSE \E j \in Later(p, s, i) : /\ \A k \in Later(p, s, i) : k <= j
                                      /\ entry.status = p[s[j]].kind

AtMost(n) == IF n > ListSize THEN ListSize ELSE n

Shows(p, s, l) ==
    /\ Len(l) = AtMost(Cardinality(Firsts(p, s)))
    /\ \A i \in Firsts(p, s) : Newer(p, s, i) < ListSize => ShowsEntry(p, s, i, l[Newer(p, s, i) + 1])

(* An entry that is shown at all is in the list. *)
LEMMA EntriesAreThere ==
    ASSUME NEW p, NEW S, NEW s \in Seq(S)
    PROVE  /\ IsFiniteSet(Firsts(p, s)) /\ Cardinality(Firsts(p, s)) \in Nat
           /\ \A i \in Firsts(p, s) :
                /\ IsFiniteSet(After(p, s, i))
                /\ Newer(p, s, i) \in Nat /\ Newer(p, s, i) + 1 <= Cardinality(Firsts(p, s))
<1>1. Len(s) \in Nat /\ DOMAIN s = 1..Len(s)
  OBVIOUS
<1>2. IsFiniteSet(1..Len(s))
  BY <1>1, FS_Interval
<1>3. Firsts(p, s) \subseteq 1..Len(s)
  BY <1>1 DEF Firsts
<1>4. IsFiniteSet(Firsts(p, s)) /\ Cardinality(Firsts(p, s)) \in Nat
  BY <1>2, <1>3, FS_Subset, FS_CardinalityType
<1>5. ASSUME NEW i \in Firsts(p, s)
      PROVE  /\ IsFiniteSet(After(p, s, i))
             /\ Newer(p, s, i) \in Nat /\ Newer(p, s, i) + 1 <= Cardinality(Firsts(p, s))
  <2>1. After(p, s, i) \subseteq Firsts(p, s) /\ i \notin After(p, s, i)
    BY <1>3 DEF After
  <2>2. IsFiniteSet(After(p, s, i)) /\ Newer(p, s, i) \in Nat
    BY <1>4, <2>1, FS_Subset, FS_CardinalityType DEF Newer
  <2>3. Cardinality(After(p, s, i) \union {i}) = Newer(p, s, i) + 1
    BY <2>1, <2>2, FS_AddElement DEF Newer
  <2>4. After(p, s, i) \union {i} \subseteq Firsts(p, s)
    BY <2>1
  <2>5. Cardinality(After(p, s, i) \union {i}) <= Cardinality(Firsts(p, s))
    BY <1>4, <2>4, FS_Subset
  <2> QED
    BY <2>2, <2>3, <2>5
<1> QED
  BY <1>4, <1>5

(* The newer an entry, the fewer are newer; and each place is somebody's.  *)
LEMMA PlacesAreTaken ==
    ASSUME NEW p, NEW S, NEW s \in Seq(S)
    PROVE  /\ \A i, k \in Firsts(p, s) : k > i <=> Newer(p, s, k) < Newer(p, s, i)
           /\ \A y \in 1..Cardinality(Firsts(p, s)) : \E k \in Firsts(p, s) : Newer(p, s, k) + 1 = y
<1> DEFINE F == Firsts(p, s)
           C == Cardinality(F)
<1>1. /\ F \subseteq Nat /\ IsFiniteSet(F) /\ C \in Nat
      /\ \A i \in F : Newer(p, s, i) \in Nat /\ IsFiniteSet(After(p, s, i)) /\ Newer(p, s, i) + 1 <= C
  <2>1. F \subseteq Nat
    BY DEF Firsts
  <2> QED
    BY <2>1, EntriesAreThere
<1>2. ASSUME NEW i \in F, NEW k \in F, k > i PROVE Newer(p, s, k) < Newer(p, s, i)
  <2>1. After(p, s, k) \union {k} \subseteq After(p, s, i)
    BY <1>1, <1>2 DEF After
  <2>2. k \notin After(p, s, k)
    BY <1>1 DEF After
  <2>3. Cardinality(After(p, s, k) \union {k}) = Newer(p, s, k) + 1
    BY <1>1, <2>2, FS_AddElement DEF Newer
  <2>4. Cardinality(After(p, s, k) \union {k}) <= Newer(p, s, i)
    BY <1>1, <2>1, FS_Subset DEF Newer
  <2> QED
    BY <1>1, <2>3, <2>4
<1>3. ASSUME NEW i \in F, NEW k \in F PROVE k > i <=> Newer(p, s, k) < Newer(p, s, i)
  <2>1. k > i \/ k = i \/ i > k
    BY <1>1
  <2>2. i > k => Newer(p, s, i) < Newer(p, s, k)
    BY <1>2
  <2> QED
    BY <1>1, <1>2, <2>1, <2>2
<1>4. ASSUME NEW y \in 1..C PROVE \E k \in F : Newer(p, s, k) + 1 = y
  <2> DEFINE f == [i \in F |-> Newer(p, s, i) + 1]
  <2>1. f \in [F -> 1..C]
    BY <1>1
  <2>2. \A i, k \in F : f[i] = f[k] => i = k
    <3> SUFFICES ASSUME NEW i \in F, NEW k \in F, i # k PROVE f[i] # f[k]
      OBVIOUS
    <3>1. k > i \/ i > k
      BY <1>1
    <3> QED
      BY <1>1, <1>2, <3>1
  <2>3. f \in Injection(F, 1..C)
    BY <2>1, <2>2 DEF Injection, IsInjective
  <2>4. IsFiniteSet(1..C) /\ Cardinality(1..C) = C
    BY <1>1, FS_Interval
  <2> HIDE DEF f
  <2>5. f \in Surjection(F, 1..C)
    BY <2>3, <2>4, FS_Injection
  <2>6. \E k \in F : f[k] = y
    BY <2>5 DEF Surjection
  <2> QED
    BY <2>6 DEF f
<1> QED
  BY <1>3, <1>4

(* findIndex finds the newest entry of the event.                          *)
LEMMA FirstIsNewest ==
    ASSUME NEW p, NEW S, NEW s \in Seq(S), NEW l \in Seq(Entries), Shows(p, s, l),
           NEW i \in Firsts(p, s), Newer(p, s, i) < ListSize, NEW e
    PROVE  Newer(p, s, i) + 1 \in FirstOf(l, e) <=> p[s[i]].event = e /\ Again(p, s, i) = {}
<1> DEFINE F == Firsts(p, s)
           C == Cardinality(F)
           x == Newer(p, s, i) + 1
<1>1. /\ \A k \in F : Newer(p, s, k) \in Nat /\ Newer(p, s, k) + 1 <= C
      /\ C \in Nat /\ Len(l) = AtMost(C) /\ DOMAIN l = 1..Len(l)
  BY EntriesAreThere DEF Shows
<1>2. ASSUME NEW k \in F, Newer(p, s, k) < ListSize
      PROVE  Newer(p, s, k) + 1 \in DOMAIN l /\ l[Newer(p, s, k) + 1].event = p[s[k]].event
  <2>1. Newer(p, s, k) + 1 \in DOMAIN l
    BY <1>1, <1>2, SizesAssumption DEF AtMost
  <2> QED
    BY <1>2, <2>1 DEF Shows, ShowsEntry
<1>3. x \in DOMAIN l /\ l[x].event = p[s[i]].event
  BY <1>2
<1>4. ASSUME p[s[i]].event = e, Again(p, s, i) = {} PROVE x \in FirstOf(l, e)
  <2> SUFFICES ASSUME NEW y \in 1..(x - 1), l[y].event = e PROVE FALSE
    BY <1>3, <1>4 DEF FirstOf
  <2>1. y \in 1..C /\ y < x /\ y \in Nat
    BY <1>1, <1>3
  <2>2. PICK k \in F : Newer(p, s, k) + 1 = y
    BY <2>1, PlacesAreTaken
  <2>3. Newer(p, s, k) < Newer(p, s, i)
    BY <1>1, <2>1, <2>2
  <2>4. k > i
    BY <2>3, PlacesAreTaken
  <2>5. p[s[k]].event = e
    BY <1>1, <1>2, <2>2, <2>3, SizesAssumption
  <2>6. k \in Again(p, s, i)
    BY <1>4, <2>4, <2>5 DEF Again, After
  <2> QED
    BY <1>4, <2>6
<1>5. ASSUME x \in FirstOf(l, e) PROVE p[s[i]].event = e /\ Again(p, s, i) = {}
  <2>1. p[s[i]].event = e
    BY <1>3, <1>5 DEF FirstOf
  <2>2. ASSUME NEW k \in Again(p, s, i) PROVE FALSE
    <3>1. k \in F /\ k > i /\ p[s[k]].event = e
      BY <2>1 DEF Again, After
    <3>2. Newer(p, s, k) < Newer(p, s, i)
      BY <3>1, PlacesAreTaken
    <3>3. l[Newer(p, s, k) + 1].event = e /\ Newer(p, s, k) + 1 \in 1..(x - 1)
      BY <1>1, <1>2, <3>1, <3>2, SizesAssumption
    <3> QED
      BY <1>5, <3>3 DEF FirstOf
  <2> QED
    BY <2>1, <2>2
<1> QED
  BY <1>4, <1>5

(* What is shown does not depend on what is published later. *)
LEMMA ShowsMore ==
    ASSUME NEW p \in Seq(Messages), NEW s \in Seq(1..Len(p)), NEW l, NEW m \in Messages, Shows(p, s, l)
    PROVE  Shows(Append(p, m), s, l)
<1> DEFINE q == Append(p, m)
<1>1. \A i \in DOMAIN s : s[i] \in 1..Len(p)
  OBVIOUS
<1>2. \A n \in 1..Len(p) : q[n] = p[n]
  OBVIOUS
<1> HIDE DEF q
<1>3. \A i \in DOMAIN s : q[s[i]] = p[s[i]]
  BY <1>1, <1>2
<1>4. Firsts(q, s) = Firsts(p, s) /\ Firsts(p, s) \subseteq DOMAIN s
  BY <1>3 DEF Firsts
<1>5. \A i \in Firsts(p, s) : After(q, s, i) = After(p, s, i) /\ Later(q, s, i) = Later(p, s, i)
  <2> SUFFICES ASSUME NEW i \in Firsts(p, s)
               PROVE  After(q, s, i) = After(p, s, i) /\ Later(q, s, i) = Later(p, s, i)
    OBVIOUS
  <2>1. After(q, s, i) = After(p, s, i) /\ After(p, s, i) \subseteq DOMAIN s /\ i \in DOMAIN s
    BY <1>4 DEF After
  <2>2. Again(q, s, i) = Again(p, s, i)
    BY <1>3, <2>1 DEF Again
  <2> QED
    BY <1>3, <2>1, <2>2 DEF Later
<1>6. \A i \in Firsts(p, s) : \A e : ShowsEntry(p, s, i, e) => ShowsEntry(q, s, i, e)
  <2> SUFFICES ASSUME NEW i \in Firsts(p, s), NEW e, ShowsEntry(p, s, i, e) PROVE ShowsEntry(q, s, i, e)
    OBVIOUS
  <2>1. \A j \in Later(p, s, i) : q[s[j]] = p[s[j]]
    BY <1>3 DEF Later
  <2> QED
    BY <1>3, <1>4, <1>5, <2>1 DEF ShowsEntry
<1>7. Shows(q, s, l)
  BY <1>4, <1>5, <1>6 DEF Shows, Newer
<1> QED
  BY <1>7 DEF q


(* One more message is the last one, and after all others. *)
Extended(p, s, n, r, z) ==
    /\ z \in Nat /\ DOMAIN r = DOMAIN s \union {z}
    /\ r \in Seq(1..Len(p)) /\ r[z] = n
    /\ \A i \in DOMAIN s : r[i] = s[i] /\ i \in Nat /\ i < z
    /\ Firsts(p, r) = Firsts(p, s) \union {i \in {z} : p[n].kind = "received"}
    /\ After(p, r, z) = {} /\ Later(p, r, z) = {}
    /\ \A i \in Firsts(p, s) :
         /\ i \in DOMAIN s
         /\ After(p, r, i) = After(p, s, i) \union {j \in {z} : p[n].kind = "received"}
         /\ Later(p, r, i) = Later(p, s, i)
              \union {j \in {z} : /\ p[n].kind \in Outcomes /\ p[n].event = p[s[i]].event
                                  /\ Again(p, s, i) = {}}

LEMMA OneMoreSeen ==
    ASSUME NEW p \in Seq(Messages), NEW s \in Seq(1..Len(p)), NEW n \in 1..Len(p)
    PROVE  Extended(p, s, n, Append(s, n), Len(s) + 1)
<1> SUFFICES ASSUME NEW r, r = Append(s, n), NEW z, z = Len(s) + 1 PROVE Extended(p, s, n, r, z)
  OBVIOUS
<1>1. z \in Nat /\ DOMAIN s = 1..Len(s) /\ Len(s) \in Nat /\ DOMAIN r = 1..z /\ r \in Seq(1..Len(p)) /\ r[z] = n
  OBVIOUS
<1>2. \A i \in 1..Len(s) : r[i] = s[i]
  OBVIOUS
<1>3. DOMAIN r = DOMAIN s \union {z}
  BY <1>1
<1>4. \A i \in DOMAIN s : r[i] = s[i] /\ i \in Nat /\ i < z
  BY <1>1, <1>2
<1>5. Firsts(p, r) = Firsts(p, s) \union {i \in {z} : p[n].kind = "received"}
  BY <1>1, <1>3, <1>4 DEF Firsts
<1>6. Firsts(p, s) \subseteq DOMAIN s
  BY DEF Firsts
<1>7. \A j \in DOMAIN r : ~ (j > z)
  BY <1>1
<1>8. After(p, r, z) = {} /\ Later(p, r, z) = {}
  BY <1>7 DEF After, Later, Firsts
<1>9. ASSUME NEW i \in Firsts(p, s)
      PROVE  After(p, r, i) = After(p, s, i) \union {j \in {z} : p[n].kind = "received"}
  <2>1. i \in Nat /\ z > i
    BY <1>1, <1>4, <1>6
  <2> QED
    BY <1>5, <2>1 DEF After
<1>10. ASSUME NEW i \in Firsts(p, s)
       PROVE  Later(p, r, i) = Later(p, s, i)
                \union {j \in {z} : /\ p[n].kind \in Outcomes /\ p[n].event = p[s[i]].event
                                    /\ Again(p, s, i) = {}}
  <2>1. i \in Nat /\ z > i /\ r[i] = s[i]
    BY <1>1, <1>4, <1>6
  <2>2. /\ After(p, s, i) \subseteq DOMAIN s
        /\ After(p, r, i) = After(p, s, i) \union {j \in {z} : p[n].kind = "received"}
    BY <1>6, <1>9 DEF After
  <2>3. Again(p, r, i) = Again(p, s, i)
          \union {j \in {z} : p[n].kind = "received" /\ p[n].event = p[s[i]].event}
    BY <1>1, <1>4, <2>1, <2>2 DEF Again
  <2>4. Again(p, s, i) \subseteq DOMAIN s
    BY <2>2 DEF Again
  <2>5. ASSUME NEW j \in DOMAIN s PROVE j \in Later(p, r, i) <=> j \in Later(p, s, i)
    <3>1. j < z /\ r[j] = s[j] /\ j \in DOMAIN r
      BY <1>3, <1>4
    <3>2. (\A k \in Again(p, r, i) : j < k) <=> (\A k \in Again(p, s, i) : j < k)
      BY <2>3, <3>1
    <3> QED
      BY <2>1, <3>1, <3>2 DEF Later
  <2>6. z \in Later(p, r, i) <=> /\ p[n].kind \in Outcomes /\ p[n].event = p[s[i]].event
                                  /\ Again(p, s, i) = {}
    <3>1. (\A k \in Again(p, s, i) : z < k) <=> Again(p, s, i) = {}
      BY <1>1, <1>4, <2>4
    <3>2. p[n].kind \in Outcomes => Again(p, r, i) = Again(p, s, i)
      BY <2>3 DEF Outcomes
    <3> QED
      BY <1>1, <2>1, <3>1, <3>2 DEF Later
  <2>7. z \notin Later(p, s, i) /\ Later(p, s, i) \subseteq DOMAIN s /\ Later(p, r, i) \subseteq DOMAIN r
    BY <1>4 DEF Later
  <2> QED
    BY <1>3, <2>5, <2>6, <2>7
<1> QED
  BY <1>1, <1>3, <1>4, <1>5, <1>6, <1>8, <1>9, <1>10 DEF Extended

(* A received message becomes the first entry, and the oldest one goes     *)
(* when there are too many.                                                *)
LEMMA ShowsReceived ==
    ASSUME NEW p \in Seq(Messages), NEW s \in Seq(1..Len(p)), NEW l \in Seq(Entries), NEW n \in 1..Len(p),
           Shows(p, s, l), p[n].kind = "received"
    PROVE  Shows(p, Append(s, n), Shown(l, p[n]))
<1>1. PICK r, z, e, k : /\ r = Append(s, n) /\ z = Len(s) + 1
                        /\ e = [event |-> p[n].event, status |-> "received"]
                        /\ k = Shown(l, p[n])
  OBVIOUS
<1>0. Extended(p, s, n, r, z)
  BY <1>1, OneMoreSeen
<1> DEFINE F == Firsts(p, s)
           C == Cardinality(F)
<1>2. C \in Nat /\ IsFiniteSet(F)
  BY EntriesAreThere
<1>3. Firsts(p, r) = F \union {z} /\ z \notin F /\ Cardinality(Firsts(p, r)) = C + 1
  <2>1. Firsts(p, r) = F \union {z}
    BY <1>0 DEF Extended
  <2>2. z \notin F
    BY <1>0 DEF Extended, Firsts
  <2> QED
    BY <1>2, <2>1, <2>2, FS_AddElement
<1>4. /\ Len(k) = AtMost(Len(l) + 1) /\ k[1] = e
      /\ \A i \in 1..Len(l) : i + 1 <= Len(k) => k[i + 1] = l[i]
  <2>0. PICK h : h = <<e>> \o l
    OBVIOUS
  <2>1. e \in Entries
    <3>0. p[n] \in Messages
      OBVIOUS
    <3>1. p[n].event \in Events
      BY <3>0 DEF Messages
    <3> QED
      BY <1>1, <3>1 DEF Entries
  <2>2. /\ h \in Seq(Entries) /\ Len(l) \in Nat /\ Len(h) = Len(l) + 1 /\ h[1] = e
        /\ \A i \in 1..Len(l) : h[i + 1] = l[i]
    BY <2>0, <2>1
  <2>3. k = Shorten(h)
    BY <1>1, <2>0 DEF Shown, Outcomes
  <2>4. AtMost(Len(h)) \in 1..Len(h)
    BY <2>2, SizesAssumption DEF AtMost
  <2>5. k = SubSeq(h, 1, AtMost(Len(h)))
    BY <2>3 DEF Shorten, AtMost
  <2>6. Len(k) = AtMost(Len(h)) /\ \A i \in 1..AtMost(Len(h)) : k[i] = h[i]
    BY <2>2, <2>4, <2>5, SubSeqProperties
  <2>7. k[1] = e /\ Len(k) = AtMost(Len(l) + 1)
    BY <2>2, <2>4, <2>6
  <2>8. \A i \in 1..Len(l) : i + 1 <= Len(k) => k[i + 1] = l[i]
    BY <2>2, <2>4, <2>6
  <2> QED
    BY <2>7, <2>8
<1>5. Len(l) = AtMost(C)
  BY DEF Shows
<1>6. Len(k) = AtMost(Cardinality(Firsts(p, r)))
  BY <1>2, <1>3, <1>4, <1>5, SizesAssumption DEF AtMost
<1>7. ShowsEntry(p, r, z, k[Newer(p, r, z) + 1])
  <2>1. Newer(p, r, z) = 0 /\ Later(p, r, z) = {} /\ r[z] = n
    BY <1>0, FS_EmptySet DEF Newer, Extended
  <2>2. k[Newer(p, r, z) + 1] = e
    BY <1>4, <2>1
  <2> QED
    BY <1>1, <2>1, <2>2 DEF ShowsEntry
<1>8. ASSUME NEW i \in F, Newer(p, r, i) < ListSize
      PROVE  ShowsEntry(p, r, i, k[Newer(p, r, i) + 1])
  <2>1. /\ i \in DOMAIN s /\ r[i] = s[i] /\ \A j \in DOMAIN s : r[j] = s[j]
        /\ Later(p, r, i) = Later(p, s, i) /\ After(p, r, i) = After(p, s, i) \union {z}
    BY <1>0, <1>1 DEF Extended, Outcomes
  <2>2. Newer(p, r, i) = Newer(p, s, i) + 1
    <3>1. IsFiniteSet(After(p, s, i)) /\ z \notin After(p, s, i)
      BY <1>3, EntriesAreThere DEF After
    <3> QED
      BY <2>1, <3>1, FS_AddElement DEF Newer
  <2>3. PICK x : x = Newer(p, s, i) + 1
    OBVIOUS
  <2>4. /\ x \in Nat /\ 1 <= x /\ x <= C /\ x < ListSize
        /\ Newer(p, s, i) \in Nat /\ Newer(p, s, i) < ListSize
    BY <1>2, <1>8, <2>2, <2>3, EntriesAreThere, SizesAssumption
  <2>5. x \in 1..Len(l) /\ x + 1 <= Len(k)
    BY <1>2, <1>4, <1>5, <2>4, SizesAssumption DEF AtMost
  <2>6. k[Newer(p, r, i) + 1] = l[x]
    BY <1>4, <2>2, <2>3, <2>5
  <2>7. ShowsEntry(p, s, i, l[x])
    BY <2>3, <2>4 DEF Shows
  <2>8. Later(p, s, i) \subseteq DOMAIN s
    BY DEF Later
  <2> QED
    BY <2>1, <2>6, <2>7, <2>8 DEF ShowsEntry
<1>9. Shows(p, r, k)
  BY <1>3, <1>6, <1>7, <1>8 DEF Shows
<1> QED
  BY <1>1, <1>9

(* An outcome is the last one of its event, and changes its newest entry.  *)
LEMMA ShowsOutcome ==
    ASSUME NEW p \in Seq(Messages), NEW s \in Seq(1..Len(p)), NEW l \in Seq(Entries), NEW n \in 1..Len(p),
           Shows(p, s, l), p[n].kind \in Outcomes
    PROVE  Shows(p, Append(s, n), Shown(l, p[n]))
<1>1. PICK r, z, k, m : /\ r = Append(s, n) /\ z = Len(s) + 1
                        /\ k = Shown(l, m) /\ m = p[n]
  OBVIOUS
<1>0. Extended(p, s, n, r, z)
  BY <1>1, OneMoreSeen
<1> DEFINE F == Firsts(p, s)
           C == Cardinality(F)
<1>2. C \in Nat /\ Len(l) = AtMost(C) /\ Len(l) \in Nat
  BY EntriesAreThere DEF Shows
<1>3. Firsts(p, r) = F
  BY <1>0, <1>1 DEF Extended, Outcomes
<1>4. /\ Len(k) = Len(l)
      /\ \A x \in 1..Len(l) : /\ k[x].event = l[x].event
                              /\ k[x].status = IF x \in FirstOf(l, m.event) THEN m.kind
                                               ELSE l[x].status
  <2>1. k = [x \in 1..Len(l) |-> IF x \in FirstOf(l, m.event) THEN [l[x] EXCEPT !.status = m.kind]
                                 ELSE l[x]]
    BY <1>1 DEF Shown, Outcomes
  <2>2. \A x \in 1..Len(l) : l[x] \in Entries
    OBVIOUS
  <2>3. Len(k) = Len(l)
    BY <1>2, <2>1
  <2> QED
    BY <2>1, <2>2, <2>3 DEF Entries
<1>5. ASSUME NEW i \in F, Newer(p, r, i) < ListSize
      PROVE  ShowsEntry(p, r, i, k[Newer(p, r, i) + 1])
  <2>0. /\ i \in DOMAIN s /\ After(p, r, i) = After(p, s, i)
        /\ Later(p, r, i) = Later(p, s, i)
             \union {j \in {z} : m.event = p[s[i]].event /\ Again(p, s, i) = {}}
    <3>1. m.kind # "received" /\ m.kind \in Outcomes
      BY <1>1 DEF Outcomes
    <3> QED
      BY <1>0, <1>1, <3>1 DEF Extended
  <2>1. /\ i \in DOMAIN s /\ r[i] = s[i] /\ r[z] = n /\ \A j \in DOMAIN s : r[j] = s[j] /\ j < z /\ j \in Nat
        /\ z \in Nat /\ After(p, r, i) = After(p, s, i)
        /\ Later(p, r, i) = Later(p, s, i)
             \union {j \in {z} : m.event = p[s[i]].event /\ Again(p, s, i) = {}}
    BY <1>0, <2>0 DEF Extended
  <2>2. PICK x : x = Newer(p, s, i) + 1
    OBVIOUS
  <2>3. Newer(p, s, i) < ListSize /\ x = Newer(p, r, i) + 1 /\ x \in 1..Len(l)
    BY <1>2, <1>5, <2>1, <2>2, EntriesAreThere, SizesAssumption DEF Newer, AtMost
  <2>4. ShowsEntry(p, s, i, l[x])
    BY <2>2, <2>3 DEF Shows
  <2>5. Later(p, s, i) \subseteq DOMAIN s
    BY DEF Later
  <2>6. k[x].event = p[r[i]].event /\ l[x].event = p[s[i]].event
    BY <1>4, <2>1, <2>3, <2>4 DEF ShowsEntry
  <2>9. x \in FirstOf(l, m.event) <=> m.event = p[s[i]].event /\ Again(p, s, i) = {}
    <3>1. i \in Firsts(p, s) /\ Newer(p, s, i) < ListSize /\ x = Newer(p, s, i) + 1
      BY <2>2, <2>3
    <3>2. Newer(p, s, i) + 1 \in FirstOf(l, m.event) <=> p[s[i]].event = m.event /\ Again(p, s, i) = {}
      BY <3>1, FirstIsNewest
    <3> QED
      BY <3>1, <3>2
  <2>7. CASE m.event = p[s[i]].event /\ Again(p, s, i) = {}
    <3>1. z \in Later(p, r, i) /\ \A j \in Later(p, r, i) : j <= z
      BY <2>1, <2>5, <2>7
    <3>2. k[x].status = p[r[z]].kind
      BY <1>1, <1>4, <2>1, <2>3, <2>9, <2>7
    <3> QED
      BY <2>3, <2>6, <3>1, <3>2 DEF ShowsEntry
  <2>8. CASE ~ (m.event = p[s[i]].event /\ Again(p, s, i) = {})
    <3>1. Later(p, r, i) = Later(p, s, i)
      BY <2>1, <2>8
    <3>2. k[x].status = l[x].status
      BY <1>4, <2>3, <2>9, <2>8
    <3> QED
      BY <2>1, <2>3, <2>4, <2>5, <2>6, <3>1, <3>2 DEF ShowsEntry
  <2> QED
    BY <2>7, <2>8
<1>6. Shows(p, r, k)
  BY <1>2, <1>3, <1>4, <1>5 DEF Shows
<1> QED
  BY <1>1, <1>6

(* Nobody listens for the third kind. *)
LEMMA ShowsBuried ==
    ASSUME NEW p \in Seq(Messages), NEW s \in Seq(1..Len(p)), NEW l, NEW n \in 1..Len(p),
           Shows(p, s, l), p[n].kind = "buried"
    PROVE  Shows(p, Append(s, n), Shown(l, p[n]))
<1>1. PICK r, z : r = Append(s, n) /\ z = Len(s) + 1
  OBVIOUS
<1>0. Extended(p, s, n, r, z)
  BY <1>1, OneMoreSeen
<1>2. Shown(l, p[n]) = l
  BY DEF Shown, Outcomes
<1>3. /\ \A j \in DOMAIN s : r[j] = s[j]
      /\ Firsts(p, r) = Firsts(p, s) /\ Firsts(p, s) \subseteq DOMAIN s
      /\ \A i \in Firsts(p, s) : After(p, r, i) = After(p, s, i) /\ Later(p, r, i) = Later(p, s, i)
  <2>1. p[n].kind # "received" /\ p[n].kind \notin Outcomes
    BY DEF Outcomes
  <2>2. Firsts(p, s) \subseteq DOMAIN s
    BY DEF Firsts
  <2> QED
    BY <1>0, <2>1, <2>2 DEF Extended
<1>4. \A i \in Firsts(p, s) : \A e : ShowsEntry(p, s, i, e) => ShowsEntry(p, r, i, e)
  BY <1>3 DEF ShowsEntry, Later
<1>5. Shows(p, r, l)
  BY <1>3, <1>4 DEF Shows, Newer
<1> QED
  BY <1>1, <1>2, <1>5

(* The list of a dashboard is what the messages it saw make of it: a       *)
(* reconnection, a lost message or a full channel changes what it sees,    *)
(* and never what it does with it.                                         *)
THEOREM ListFollows == Spec => []ListMatchesSeen
<1> DEFINE Inv == \A t \in Tabs : Shows(published, seen[t], list[t])
<1>1. Init => Inv
  <2> SUFFICES ASSUME Init, NEW t \in Tabs PROVE Shows(published, seen[t], list[t])
    OBVIOUS
  <2>1. seen[t] = <<>> /\ list[t] = <<>>
    BY DEF Init
  <2>2. Firsts(published, seen[t]) = {}
    BY <2>1 DEF Firsts
  <2>3. Len(list[t]) = 0 /\ AtMost(0) = 0
    BY <2>1, SizesAssumption DEF AtMost
  <2> QED
    BY <2>2, <2>3, FS_EmptySet DEF Shows
<1>2. TypeOK /\ Inv /\ [Next]_vars => Inv'
  <2> SUFFICES ASSUME TypeOK, Inv, [Next]_vars, NEW t \in Tabs
               PROVE  Shows(published, seen[t], list[t])'
    OBVIOUS
  <2>0. PICK p, s, l : p = published /\ s = seen[t] /\ l = list[t]
    OBVIOUS
  <2>1. Shows(p, s, l) /\ p \in Seq(Messages) /\ s \in Seq(1..Len(p)) /\ l \in Seq(Entries)
    BY <2>0 DEF TypeOK, Numbers
  <2>2. CASE published' = p /\ seen'[t] = s /\ list'[t] = l
    BY <2>1, <2>2
  <2>3. ASSUME NEW k \in Kinds, NEW e \in Events, Publish(k, e), UNCHANGED browsers
        PROVE  Shows(published, seen[t], list[t])'
    <3>1. PICK m \in Messages : published' = Append(p, m)
      BY <2>0, <2>3 DEF Publish, Messages
    <3>2. seen'[t] = s /\ list'[t] = l
      BY <2>0, <2>3 DEF browsers
    <3> QED
      BY <2>1, <3>1, <3>2, ShowsMore
  <2>4. ASSUME NEW c \in Connections, Write(c) PROVE Shows(published, seen[t], list[t])'
    <3>1. CASE Connected(c) /\ t = Owner(c)
      <4>1. PICK n : n = Head(buffer[c])
        OBVIOUS
      <4>2. n \in 1..Len(p)
        <5>1. buffer[c] \in Seq(Numbers) /\ buffer[c] # <<>>
          BY <2>4 DEF Write, TypeOK
        <5> QED
          BY <2>0, <4>1, <5>1 DEF Numbers
      <4>3. published' = p /\ seen'[t] = Append(s, n) /\ list'[t] = Shown(l, p[n])
        BY <2>0, <2>4, <3>1, <4>1 DEF Write, channel, TypeOK
      <4>4. p[n].kind = "received" \/ p[n].kind \in Outcomes \/ p[n].kind = "buried"
        <5>1. p[n] \in Messages
          BY <2>1, <4>2
        <5> QED
          BY <5>1 DEF Messages, Kinds, Outcomes
      <4> QED
        BY <2>1, <4>2, <4>3, <4>4, ShowsReceived, ShowsOutcome, ShowsBuried
    <3>2. CASE ~ (Connected(c) /\ t = Owner(c))
      BY <2>0, <2>2, <2>4, <3>2 DEF Write, channel, TypeOK
    <3> QED
      BY <3>1, <3>2
  <2>5. ASSUME NEW c \in Connections, Send(c) \/ Register(c) \/ Take(c) \/ Leave(c) \/ Unregister(c)
        PROVE  Shows(published, seen[t], list[t])'
    BY <2>0, <2>2, <2>5 DEF Send, Turn, Register, Take, Leave, Unregister, Closing, channel, browsers
  <2>6. CASE Broadcast \/ Restart \/ (\E u \in Tabs : Browse(u)) \/ UNCHANGED vars
    BY <2>0, <2>2, <2>6 DEF Broadcast, Begin, Restart, Browse, Connect, Stall, Disconnect, vars, channel, browsers
  <2> QED
    BY <2>3, <2>4, <2>5, <2>6, ReportsAssumption DEF Next, Announce, Report, Fanout, Serve, Kinds
<1>3. Inv <=> ListMatchesSeen
  BY DEF ListMatchesSeen, Shows, ShowsEntry, AtMost, Newer, After, Firsts, Again, Later
<1> QED
  BY <1>1, <1>2, <1>3, TypeInvariant, PTL DEF Spec


=============================================================================
