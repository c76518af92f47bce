------------------------------ MODULE ServingProofs -----------------------------
(* Proofs about the parts of Serving, for any number of connections, addresses, *)
(* pages, endpoints, documents, chains, agents, services and windows, and any     *)
(* capacity: the stream, the limiter and the page cache, the fetches, the reset, *)
(* the lists read page by page, and the score of an agent with its snapshots.    *)
EXTENDS Serving, FiniteSetTheorems, TLAPS

-------------------------------------------------------------------------------
(* Induction over the natural numbers, with a set for the predicate.            *)

\* What has 0 and the successor of each of its members has every number.
LEMMA NatSetInduction ==
    ASSUME NEW P, 0 \in P, \A n \in Nat : n \in P => n + 1 \in P
    PROVE  \A n \in Nat : n \in P
<1> DEFINE R == {x \in Nat \X Nat : x[1] < x[2]}
           T == Nat \ P
<1>1. OpToRel(<, Nat) = R
  BY DEF OpToRel
<1>2. IsWellFoundedOn(R, Nat)
  BY <1>1, NatLessThanWellFounded, Zenon
<1>3. SUFFICES ASSUME T # {} PROVE FALSE
  OBVIOUS
<1>4. PICK x \in T : \A y \in T : ~ (<<y, x>> \in R)
  <2> HIDE DEF R
  <2>1. T \subseteq Nat
    OBVIOUS
  <2> HIDE DEF T
  <2> QED BY <1>2, <1>3, <2>1, WFMin
<1>5. x # 0 /\ x \in Nat
  BY <1>4
<1>6. x - 1 \in T
  BY <1>5
<1>7. <<x - 1, x>> \in R
  BY <1>5
<1>8. QED BY <1>4, <1>6, <1>7

-------------------------------------------------------------------------------
(* WebSocketHub: the hub goroutine cannot panic on a client's channel.         *)

\* The part of the state that Hub.Run decides on is well typed.
HubTypeOK ==
    /\ registerQ \in Seq(Conns) /\ unregisterQ \in Seq(Conns)
    /\ members \subseteq Conns
    /\ send \in [Conns -> [buf : Seq(Nat), closes : Nat]]
    /\ serving \in [Conns -> {"new", "upgraded", "registered", "served"}]
    /\ broadcastQ \in Seq(Nat) /\ arrived \in Nat

\* A connection that is not registered yet, or whose registration is queued, is
\* no client and its channel is open; it is queued once.
Unjoined(c) == c \notin members /\ send[c].closes = 0
Queued(c) == \E i \in DOMAIN registerQ : registerQ[i] = c
QueuedOnce == \A i, j \in DOMAIN registerQ : registerQ[i] = registerQ[j] => i = j
RegisterInv == \A c \in Conns :
                  /\ Queued(c) => Unjoined(c) /\ serving[c] \notin {"new", "upgraded"}
                  /\ serving[c] \in {"new", "upgraded"} => Unjoined(c)

HubInv == HubTypeOK /\ QueuedOnce /\ RegisterInv /\ NoPanic

\* No connection, queue or close yet.
LEMMA InitHub == HubInit => HubInv
BY DEF HubInit, HubInv, HubTypeOK, QueuedOnce, RegisterInv, Queued, Unjoined, NoPanic

\* Whatever leaves members, the queue of registrations, the channels' closes and
\* the progress of ServeWS alone keeps the rest.
LEMMA HubQuiet ==
    ASSUME HubInv, HubTypeOK', UNCHANGED <<registerQ, members, serving>>,
           \A c \in Conns : send'[c].closes = send[c].closes
    PROVE  HubInv'
BY DEF HubInv, HubTypeOK, QueuedOnce, RegisterInv, Queued, Unjoined, NoPanic

\* The clients in cs leave and their channels are closed.
LEMMA HubDrops ==
    ASSUME HubInv, HubTypeOK', NEW cs, cs \subseteq members, UNCHANGED <<registerQ, serving>>,
           members' = members \ cs,
           \A c \in Conns : send'[c].closes = IF c \in cs THEN send[c].closes + 1 ELSE send[c].closes
    PROVE  HubInv'
<1>1. \A c \in Conns : Unjoined(c) => Unjoined(c)'
  BY DEF HubInv, HubTypeOK, Unjoined
<1>2. QueuedOnce' /\ \A c \in Conns : Queued(c)' = Queued(c)
  BY DEF HubInv, QueuedOnce, Queued
<1>3. RegisterInv'
  BY <1>1, <1>2 DEF HubInv, RegisterInv
<1>4. NoPanic'
  BY DEF HubInv, HubTypeOK, NoPanic
<1>5. QED BY <1>2, <1>3, <1>4 DEF HubInv

\* Closing the channels of cs.
LEMMA ClosedType ==
    ASSUME HubTypeOK, NEW cs
    PROVE  /\ Closed(cs) \in [Conns -> [buf : Seq(Nat), closes : Nat]]
           /\ \A c \in Conns : Closed(cs)[c].closes = IF c \in cs THEN send[c].closes + 1 ELSE send[c].closes
<1>1. \A c \in Conns : /\ send[c] \in [buf : Seq(Nat), closes : Nat]
                       /\ [send[c] EXCEPT !.closes = @ + 1] \in [buf : Seq(Nat), closes : Nat]
                       /\ [send[c] EXCEPT !.closes = @ + 1].closes = send[c].closes + 1
  <2>1. TAKE c \in Conns
  <2>2. send[c] \in [buf : Seq(Nat), closes : Nat]
    BY DEF HubTypeOK
  <2>3. send[c].closes + 1 \in Nat
    BY <2>2
  <2>4. QED BY <2>2, <2>3
<1>2. \A c \in Conns : Closed(cs)[c] = IF c \in cs THEN [send[c] EXCEPT !.closes = @ + 1] ELSE send[c]
  BY DEF Closed
<1>3. Closed(cs) = [c \in Conns |-> Closed(cs)[c]]
  BY DEF Closed
<1>4. \A c \in Conns : Closed(cs)[c] \in [buf : Seq(Nat), closes : Nat]
  BY <1>1, <1>2
<1>5. Closed(cs) \in [Conns -> [buf : Seq(Nat), closes : Nat]]
  BY <1>3, <1>4
<1>6. \A c \in Conns : Closed(cs)[c].closes = IF c \in cs THEN send[c].closes + 1 ELSE send[c].closes
  BY <1>1, <1>2
<1>7. QED BY <1>5, <1>6

\* Every step of the hub keeps HubInv.
LEMMA StepHub ==
    ASSUME HubInv, [HubNext]_hubVars
    PROVE  HubInv'
<1> USE DEF queues, hubHistory
<1>1. ASSUME NEW c \in Conns, Upgrade(c) PROVE HubInv'
  BY <1>1 DEF Upgrade, HubInv, HubTypeOK, QueuedOnce, RegisterInv, Queued, Unjoined, NoPanic
<1>2. ASSUME NEW c \in Conns, Register(c) PROVE HubInv'
  <2>1. /\ serving[c] = "upgraded" /\ registerQ' = Append(registerQ, c)
        /\ serving' = [serving EXCEPT ![c] = "registered"]
        /\ UNCHANGED <<unregisterQ, broadcastQ, members, send, arrived>>
    BY <1>2 DEF Register
  <2>2. HubTypeOK' /\ NoPanic'
    BY <2>1 DEF HubInv, HubTypeOK, NoPanic
  <2>3. /\ DOMAIN registerQ' = DOMAIN registerQ \cup {Len(registerQ) + 1}
        /\ Len(registerQ) + 1 \notin DOMAIN registerQ
        /\ \A i \in DOMAIN registerQ : registerQ'[i] = registerQ[i]
        /\ registerQ'[Len(registerQ) + 1] = c
    BY <2>1 DEF HubInv, HubTypeOK
  <2>4. ~Queued(c) /\ Unjoined(c)
    BY <2>1 DEF HubInv, RegisterInv
  <2>5. QueuedOnce'
    BY <2>3, <2>4 DEF HubInv, QueuedOnce, Queued
  <2>6. \A d \in Conns : (Queued(d)' => Queued(d) \/ d = c) /\ Unjoined(d)' = Unjoined(d)
    BY <2>1, <2>3 DEF Queued, Unjoined
  <2>7. \A d \in Conns : serving'[d] = IF d = c THEN "registered" ELSE serving[d]
    BY <2>1 DEF HubInv, HubTypeOK
  <2>8. RegisterInv'
    BY <2>4, <2>6, <2>7 DEF HubInv, RegisterInv
  <2>9. QED BY <2>2, <2>5, <2>8 DEF HubInv
<1>3. ASSUME NEW c \in Conns, StartPumps(c) PROVE HubInv'
  BY <1>3 DEF StartPumps, HubInv, HubTypeOK, QueuedOnce, RegisterInv, Queued, Unjoined, NoPanic
<1>4. ASSUME NEW c \in Conns, ReadFails(c) \/ WriterLeaves(c) PROVE HubInv'
  BY <1>4 DEF ReadFails, WriterLeaves, HubInv, HubTypeOK, QueuedOnce, RegisterInv, Queued, Unjoined, NoPanic
<1>5. ASSUME NEW c \in Conns, Unregister(c) PROVE HubInv'
  <2>1. HubTypeOK'
    BY <1>5 DEF Unregister, HubInv, HubTypeOK
  <2>2. QED BY <1>5, <2>1, HubQuiet DEF Unregister
<1>6. ASSUME NEW c \in Conns, WritePayload(c) \/ WriteFails(c) PROVE HubInv'
  <2>1. \E b \in Seq(Nat) : send' = [send EXCEPT ![c].buf = b]
    <3>1. send[c].buf \in Seq(Nat) /\ (send[c].buf # <<>> => Tail(send[c].buf) \in Seq(Nat))
      BY DEF HubInv, HubTypeOK
    <3>2. QED BY <1>6, <3>1 DEF WritePayload, WriteFails
  <2>2. UNCHANGED <<registerQ, unregisterQ, broadcastQ, members, serving, arrived>>
    BY <1>6 DEF WritePayload, WriteFails
  <2>3. /\ send' \in [Conns -> [buf : Seq(Nat), closes : Nat]]
        /\ \A d \in Conns : send'[d].closes = send[d].closes
    <3>1. PICK b \in Seq(Nat) : send' = [send EXCEPT ![c].buf = b]
      BY <2>1
    <3>2. QED BY <3>1 DEF HubInv, HubTypeOK
  <2>4. HubTypeOK'
    BY <2>2, <2>3 DEF HubInv, HubTypeOK
  <2>5. QED BY <2>2, <2>3, <2>4, HubQuiet
<1>7. CASE Broadcast
  <2>1. HubTypeOK'
    BY <1>7 DEF Broadcast, HubInv, HubTypeOK
  <2>2. QED BY <1>7, <2>1, HubQuiet DEF Broadcast
<1>8. CASE HubRegister
  <2>1. /\ registerQ # <<>> /\ registerQ' = Tail(registerQ)
        /\ members' = members \cup {Head(registerQ)}
        /\ UNCHANGED <<unregisterQ, broadcastQ, send, serving, arrived>>
    BY <1>8 DEF HubRegister
  <2>2. /\ Head(registerQ) = registerQ[1] /\ 1 \in DOMAIN registerQ
        /\ \A i \in DOMAIN registerQ' : /\ i \in Nat \ {0} /\ i + 1 \in DOMAIN registerQ
                                        /\ registerQ'[i] = registerQ[i + 1]
    BY <2>1, SMTT(30) DEF HubInv, HubTypeOK
  <2>3. Queued(registerQ[1]) /\ registerQ[1] \in Conns
    BY <2>2 DEF Queued, HubInv, HubTypeOK
  <2>4. Unjoined(registerQ[1]) /\ serving[registerQ[1]] \notin {"new", "upgraded"}
    BY <2>3 DEF HubInv, RegisterInv
  <2>5. HubTypeOK'
    BY <2>1, <2>2, <2>3 DEF HubInv, HubTypeOK
  <2>6. NoPanic'
    BY <2>1, <2>2, <2>4 DEF HubInv, NoPanic, Unjoined
  <2>7. \A d \in Conns : d # registerQ[1] /\ Unjoined(d) => Unjoined(d)'
    BY <2>1, <2>2 DEF Unjoined
  <2>8. \A i, j \in DOMAIN registerQ' : registerQ'[i] = registerQ'[j] => i + 1 = j + 1
    BY <2>2 DEF HubInv, QueuedOnce
  <2>9. QueuedOnce'
    BY <2>2, <2>8 DEF QueuedOnce
  <2>10. \A d \in Conns : Queued(d)' => Queued(d) /\ d # registerQ[1]
    <3>1. \A i \in DOMAIN registerQ' : i + 1 # 1
      BY <2>2
    <3>2. QED BY <2>2, <3>1 DEF Queued, HubInv, QueuedOnce
  <2>11. RegisterInv'
    BY <2>1, <2>4, <2>7, <2>10 DEF HubInv, RegisterInv
  <2>12. QED BY <2>5, <2>6, <2>9, <2>11 DEF HubInv
<1>9. CASE HubUnregister
  <2> DEFINE c == Head(unregisterQ)
  <2>1. /\ members' = members \ {c} /\ send' = Closed({c} \cap members)
        /\ unregisterQ' = Tail(unregisterQ)
    BY <1>9 DEF HubUnregister, Unregistered
  <2>2. UNCHANGED <<registerQ, broadcastQ, serving, arrived>> /\ unregisterQ # <<>>
    BY <1>9 DEF HubUnregister
  <2>3. members' = members \ ({c} \cap members) /\ {c} \cap members \subseteq members
    BY <2>1
  <2>4. HubTypeOK'
    BY <2>1, <2>2, ClosedType, SMTT(30) DEF HubInv, HubTypeOK
  <2>5. \A d \in Conns : send'[d].closes = IF d \in {c} \cap members THEN send[d].closes + 1 ELSE send[d].closes
    BY <2>1, ClosedType DEF HubInv
  <2> HIDE DEF c
  <2>6. QED BY <2>2, <2>3, <2>4, <2>5, HubDrops
<1>10. CASE HubBroadcast
  <2>1. /\ UNCHANGED <<registerQ, unregisterQ, serving, arrived>> /\ broadcastQ # <<>>
        /\ broadcastQ' = Tail(broadcastQ) /\ members' = members \ Slow
        /\ send' = [c \in Conns |-> IF c \in members \ Slow
                                    THEN [send[c] EXCEPT !.buf = Append(@, Head(broadcastQ))]
                                    ELSE Closed(members \ (members \ Slow))[c]]
    BY <1>10 DEF HubBroadcast, StaysAfter
  <2>2. Slow \subseteq members /\ members \ (members \ Slow) = Slow
    BY DEF Slow
  <2>3. Head(broadcastQ) \in Nat
    BY <2>1 DEF HubInv, HubTypeOK
  <2>4. /\ \A d \in Conns : send'[d].closes = IF d \in Slow THEN send[d].closes + 1 ELSE send[d].closes
        /\ send' \in [Conns -> [buf : Seq(Nat), closes : Nat]]
    <3>1. \A d \in Conns : d \in members \ Slow =>
             /\ send'[d] \in [buf : Seq(Nat), closes : Nat] /\ send'[d].closes = send[d].closes
      <4>1. SUFFICES ASSUME NEW d \in Conns, d \in members \ Slow
                     PROVE  /\ send'[d] \in [buf : Seq(Nat), closes : Nat]
                            /\ send'[d].closes = send[d].closes
        OBVIOUS
      <4>2. send'[d] = [send[d] EXCEPT !.buf = Append(send[d].buf, Head(broadcastQ))]
        BY <2>1, <4>1
      <4>3. send[d] \in [buf : Seq(Nat), closes : Nat] /\ Append(send[d].buf, Head(broadcastQ)) \in Seq(Nat)
        BY <2>3, <4>1 DEF HubInv, HubTypeOK
      <4>4. QED BY <4>2, <4>3
    <3>2. \A d \in Conns : d \notin members \ Slow => send'[d] = Closed(Slow)[d]
      BY <2>1, <2>2
    <3>3. DOMAIN send' = Conns /\ send' = [d \in Conns |-> send'[d]]
      BY <2>1
    <3>4. QED BY <3>1, <3>2, <3>3, ClosedType DEF HubInv
  <2>5. HubTypeOK'
    <3>1. Tail(broadcastQ) \in Seq(Nat) /\ members' \subseteq Conns
      BY <2>1 DEF HubInv, HubTypeOK
    <3>2. QED BY <2>1, <2>4, <3>1 DEF HubInv, HubTypeOK
  <2>6. QED BY <2>1, <2>2, <2>4, <2>5, HubDrops
<1>11. CASE HubStop
  <2>1. /\ members' = members \ members /\ send' = Closed(members)
        /\ UNCHANGED <<registerQ, unregisterQ, broadcastQ, serving, arrived>>
    BY <1>11 DEF HubStop
  <2>2. HubTypeOK'
    BY <2>1, ClosedType DEF HubInv, HubTypeOK
  <2>3. QED BY <2>1, <2>2, ClosedType, HubDrops DEF HubInv
<1>12. CASE UNCHANGED hubVars
  BY <1>12 DEF hubVars, HubInv, HubTypeOK, QueuedOnce, RegisterInv, Queued, Unjoined, NoPanic
<1>13. QED BY <1>1, <1>2, <1>3, <1>4, <1>5, <1>6, <1>7, <1>8, <1>9, <1>10, <1>11, <1>12 DEF HubNext

\* The hub goroutine closes the channel of a client once, and what is in its set
\* of clients has an open one, in whatever order registrations, unregistrations,
\* drops of slow clients and the stop reach it (hub.go Run).
THEOREM NoPanicHolds == HubSpec => []NoPanic
<1>1. HubInv => NoPanic
  BY DEF HubInv
<1>2. QED BY <1>1, InitHub, StepHub, PTL DEF HubSpec

\* s is what follows the first j of the stream f.
Follows(f, j, s) == j + Len(s) <= Len(f) /\ \A i \in 1..Len(s) : s[i] = f[j + i]

\* What is written to the peer moves from the channel to what was received.
LEMMA FollowsTaken ==
    ASSUME NEW f \in Seq(Nat), NEW j \in Nat, NEW r \in Seq(Nat), NEW b \in Seq(Nat), b # <<>>,
           Follows(f, j, r), Follows(f, j + Len(r), b)
    PROVE  /\ Follows(f, j, Append(r, Head(b))) /\ Follows(f, j + Len(Append(r, Head(b))), Tail(b))
           /\ j + Len(Append(r, Head(b))) + Len(Tail(b)) = j + Len(r) + Len(b)
<1>1. PICK n \in Nat : n = Len(r)
  OBVIOUS
<1>2. PICK m \in Nat \ {0} : m = Len(b)
  OBVIOUS
<1>3. PICK r2 \in Seq(Nat) : r2 = Append(r, Head(b))
  <2>1. Append(r, Head(b)) \in Seq(Nat)
    OBVIOUS
  <2>2. QED BY <2>1
<1>4. PICK b2 \in Seq(Nat) : b2 = Tail(b)
  <2>1. Tail(b) \in Seq(Nat)
    OBVIOUS
  <2>2. QED BY <2>1
<1>5. Len(r2) = n + 1 /\ (\A i \in 1..n : r2[i] = r[i]) /\ r2[n + 1] = b[1]
  BY <1>1, <1>3
<1>6. Len(b2) = m - 1 /\ \A i \in 1..(m - 1) : b2[i] = b[i + 1]
  BY <1>2, <1>4
<1>7. /\ j + n <= Len(f) /\ \A i \in 1..n : r[i] = f[j + i]
      /\ j + n + m <= Len(f) /\ \A i \in 1..m : b[i] = f[j + n + i]
  BY <1>1, <1>2 DEF Follows
<1>8. Len(f) \in Nat /\ j + (n + 1) = j + n + 1 /\ 1 \in 1..m
  OBVIOUS
<1>9. Follows(f, j, r2)
  <2>1. \A i \in 1..(n + 1) : i \in 1..n \/ i = n + 1
    OBVIOUS
  <2>2. r2[n + 1] = f[j + (n + 1)]
    BY <1>5, <1>7, <1>8
  <2>3. \A i \in 1..(n + 1) : r2[i] = f[j + i]
    BY <1>5, <1>7, <2>1, <2>2
  <2>4. j + (n + 1) <= Len(f)
    BY <1>7, <1>8
  <2>5. QED BY <1>5, <2>3, <2>4 DEF Follows
<1>10. Follows(f, j + (n + 1), b2)
  <2>1. ASSUME NEW i \in 1..(m - 1) PROVE b2[i] = f[j + (n + 1) + i]
    <3>1. i + 1 \in 1..m /\ j + n + (i + 1) = j + (n + 1) + i
      OBVIOUS
    <3>2. b[i + 1] = f[j + n + (i + 1)]
      BY <1>7, <3>1
    <3>3. QED BY <1>6, <3>1, <3>2
  <2>2. j + (n + 1) + (m - 1) <= Len(f)
    BY <1>7, <1>8
  <2>3. QED BY <1>6, <2>1, <2>2 DEF Follows
<1>11. j + (n + 1) + (m - 1) = j + n + m
  OBVIOUS
<1>12. QED BY <1>1, <1>2, <1>3, <1>4, <1>5, <1>6, <1>9, <1>10, <1>11

\* The stream grows; a channel that had all of it and gets what is new has all of it.
LEMMA FollowsGrown ==
    ASSUME NEW f \in Seq(Nat), NEW p \in Nat, NEW j \in Nat, NEW s \in Seq(Nat), Follows(f, j, s)
    PROVE  /\ Follows(Append(f, p), j, s)
           /\ j + Len(s) = Len(f) =>
                 /\ Follows(Append(f, p), j, Append(s, p))
                 /\ j + Len(Append(s, p)) = Len(Append(f, p))
<1>1. PICK n \in Nat : n = Len(s)
  OBVIOUS
<1>2. PICK m \in Nat : m = Len(f)
  OBVIOUS
<1>3. PICK f2 \in Seq(Nat) : f2 = Append(f, p)
  <2>1. Append(f, p) \in Seq(Nat)
    OBVIOUS
  <2>2. QED BY <2>1
<1>4. PICK s2 \in Seq(Nat) : s2 = Append(s, p)
  <2>1. Append(s, p) \in Seq(Nat)
    OBVIOUS
  <2>2. QED BY <2>1
<1>5. Len(f2) = m + 1 /\ (\A i \in 1..m : f2[i] = f[i]) /\ f2[m + 1] = p
  BY <1>2, <1>3
<1>6. Len(s2) = n + 1 /\ (\A i \in 1..n : s2[i] = s[i]) /\ s2[n + 1] = p
  BY <1>1, <1>4
<1>7. j + n <= m /\ \A i \in 1..n : s[i] = f[j + i]
  BY <1>1, <1>2 DEF Follows
<1>8. \A i \in 1..n : j + i \in 1..m
  BY <1>7
<1>9. j + n <= m + 1 /\ \A i \in 1..n : s[i] = f2[j + i]
  <2>1. \A i \in 1..n : f2[j + i] = f[j + i]
    BY <1>5, <1>8
  <2>2. \A i \in 1..n : s[i] = f2[j + i]
    BY <1>7, <2>1
  <2>3. j + n <= m + 1
    BY <1>7
  <2>4. QED BY <2>2, <2>3
<1>10. ASSUME j + n = m PROVE j + (n + 1) = m + 1 /\ \A i \in 1..(n + 1) : s2[i] = f2[j + i]
  <2>1. \A i \in 1..(n + 1) : i \in 1..n \/ i = n + 1
    OBVIOUS
  <2>2. j + (n + 1) = m + 1
    BY <1>10
  <2>3. QED BY <1>5, <1>6, <1>9, <2>1, <2>2
<1>11. Follows(f2, j, s)
  BY <1>1, <1>5, <1>9 DEF Follows
<1>12. ASSUME j + n = m PROVE Follows(f2, j, s2) /\ j + Len(s2) = Len(f2)
  <2>1. j + (n + 1) <= m + 1
    BY <1>10, <1>12
  <2>2. QED BY <1>5, <1>6, <1>10, <1>12, <2>1 DEF Follows
<1>13. QED BY <1>1, <1>2, <1>3, <1>4, <1>11, <1>12

\* What a client was sent and what waits in its channel follow each other in the
\* stream from where it joined; a client that never joined has nothing of it, and what
\* waits is forgotten with the write pump.
InStep(c) ==
    /\ Follows(fanned, joined[c], received[c])
    /\ Unjoined(c) => received[c] = <<>> /\ send[c].buf = <<>>
    /\ writePump[c] # "done" =>
          /\ Follows(fanned, joined[c] + Len(received[c]), send[c].buf)
          /\ c \in members => joined[c] + Len(received[c]) + Len(send[c].buf) = Len(fanned)

GapTypeOK ==
    /\ fanned \in Seq(Nat) /\ joined \in [Conns -> Nat] /\ received \in [Conns -> Seq(Nat)]
    /\ writePump \in [Conns -> {"none", "writing", "done"}]
    /\ \A c \in Conns : serving[c] # "served" => writePump[c] = "none"

GapInv == HubInv /\ GapTypeOK /\ \A c \in Conns : InStep(c)

\* Nothing has been sent yet.
LEMMA InitGap == HubInit => GapInv
<1> SUFFICES ASSUME HubInit PROVE GapInv
  OBVIOUS
<1>1. HubInv
  BY InitHub
<1>2. /\ fanned = <<>> /\ members = {} /\ joined = [c \in Conns |-> 0] /\ received = [c \in Conns |-> <<>>]
      /\ \A c \in Conns : send[c].buf = <<>>
      /\ writePump = [c \in Conns |-> "none"]
  BY DEF HubInit
<1>3. GapTypeOK
  BY <1>2 DEF GapTypeOK
<1>4. Follows(<<>>, 0, <<>>) /\ Len(<<>>) = 0
  BY DEF Follows
<1>5. \A c \in Conns : InStep(c)
  BY <1>2, <1>4 DEF InStep
<1>6. QED BY <1>1, <1>3, <1>5 DEF GapInv

\* A step that leaves the stream and the channels' contents alone.
LEMMA GapQuiet ==
    ASSUME GapInv, HubInv', GapTypeOK', UNCHANGED <<fanned, joined, received>>, members' \subseteq members,
           \A c \in Conns : /\ send'[c].buf = send[c].buf
                            /\ Unjoined(c)' => Unjoined(c)
                            /\ writePump'[c] # "done" => writePump[c] # "done"
    PROVE  GapInv'
<1>1. ASSUME NEW c \in Conns PROVE InStep(c)'
  BY DEF GapInv, InStep
<1>2. QED BY <1>1 DEF GapInv

\* Closing channels changes nothing that waits in them.
LEMMA ClosedKeeps ==
    ASSUME HubTypeOK, NEW cs
    PROVE  \A c \in Conns : Closed(cs)[c].buf = send[c].buf
<1>1. TAKE c \in Conns
<1>2. send[c] \in [buf : Seq(Nat), closes : Nat]
  BY DEF HubTypeOK
<1>3. Closed(cs)[c] = IF c \in cs THEN [send[c] EXCEPT !.closes = @ + 1] ELSE send[c]
  BY DEF Closed
<1>4. QED BY <1>2, <1>3

\* Every step of the hub keeps GapInv.
LEMMA StepGap ==
    ASSUME GapInv, [HubNext]_hubVars
    PROVE  GapInv'
<1> USE DEF queues, hubHistory
<1>0. HubInv /\ HubInv'
  BY StepHub DEF GapInv
<1>1. ASSUME NEW c \in Conns, Upgrade(c) \/ Register(c) \/ ReadFails(c) \/ Unregister(c)
      PROVE  GapInv'
  <2>1. UNCHANGED <<members, send, writePump, fanned, joined, received>>
    BY <1>1 DEF Upgrade, Register, ReadFails, Unregister
  <2>2. \A d \in Conns : Unjoined(d)' => Unjoined(d)
    BY <2>1 DEF Unjoined
  <2>3. \A d \in Conns : serving'[d] # "served" => serving[d] # "served"
    BY <1>0, <1>1 DEF Upgrade, Register, ReadFails, Unregister, HubInv, HubTypeOK
  <2>4. GapTypeOK'
    BY <2>1, <2>3 DEF GapInv, GapTypeOK
  <2>5. QED BY <1>0, <2>1, <2>2, <2>4, GapQuiet
<1>2. ASSUME NEW c \in Conns, StartPumps(c) \/ WriterLeaves(c)
      PROVE  GapInv'
  <2>1. UNCHANGED <<members, send, fanned, joined, received>>
    BY <1>2 DEF StartPumps, WriterLeaves
  <2>2. /\ writePump[c] # "done" /\ writePump' \in [Conns -> {"none", "writing", "done"}] /\ serving'[c] = "served"
        /\ \A d \in Conns : d # c => writePump'[d] = writePump[d] /\ serving'[d] = serving[d]
    <3>1. CASE StartPumps(c)
      BY <1>0, <3>1 DEF StartPumps, GapInv, GapTypeOK, HubInv, HubTypeOK
    <3>2. CASE WriterLeaves(c)
      BY <1>0, <3>2 DEF WriterLeaves, GapInv, GapTypeOK, HubInv, HubTypeOK
    <3>3. QED BY <1>2, <3>1, <3>2
  <2>3. \A d \in Conns : Unjoined(d)' => Unjoined(d)
    BY <2>1 DEF Unjoined
  <2>4. GapTypeOK'
    BY <2>1, <2>2 DEF GapInv, GapTypeOK
  <2>5. QED BY <1>0, <2>1, <2>2, <2>3, <2>4, GapQuiet
<1>3. CASE Broadcast
  <2>1. UNCHANGED <<members, send, serving, writePump, fanned, joined, received>>
    BY <1>3 DEF Broadcast
  <2>2. \A d \in Conns : Unjoined(d)' => Unjoined(d)
    BY <2>1 DEF Unjoined
  <2>3. QED BY <1>0, <2>1, <2>2, GapQuiet DEF GapInv, GapTypeOK
<1>4. CASE HubUnregister \/ HubStop
  <2>1. PICK cs \in SUBSET members :
           /\ members' = members \ cs /\ send' = Closed(cs)
           /\ UNCHANGED <<serving, writePump, fanned, joined, received>>
    <3>1. CASE HubUnregister
      <4>1. {Head(unregisterQ)} \cap members \in SUBSET members
        OBVIOUS
      <4>2. members \ {Head(unregisterQ)} = members \ ({Head(unregisterQ)} \cap members)
        OBVIOUS
      <4>3. QED BY <3>1, <4>1, <4>2 DEF HubUnregister, Unregistered
    <3>2. CASE HubStop
      <4>1. members \in SUBSET members /\ {} = members \ members
        OBVIOUS
      <4>2. QED BY <3>2, <4>1 DEF HubStop
    <3>3. QED BY <1>4, <3>1, <3>2
  <2>2. \A d \in Conns : /\ send'[d].closes = IF d \in cs THEN send[d].closes + 1 ELSE send[d].closes
                         /\ send'[d].buf = send[d].buf /\ send[d].closes \in Nat
    BY <1>0, <2>1, ClosedType, ClosedKeeps, SMTT(30) DEF HubInv, HubTypeOK
  <2>3. \A d \in Conns : Unjoined(d)' => Unjoined(d)
    BY <2>1, <2>2 DEF Unjoined
  <2>4. QED BY <1>0, <2>1, <2>2, <2>3, GapQuiet DEF GapInv, GapTypeOK
<1>5. ASSUME NEW c \in Conns, WritePayload(c) PROVE GapInv'
  <2>1. /\ writePump[c] = "writing" /\ send[c].buf # <<>>
        /\ send' = [send EXCEPT ![c].buf = Tail(send[c].buf)]
        /\ received' = [received EXCEPT ![c] = Append(received[c], Head(send[c].buf))]
        /\ UNCHANGED <<members, serving, writePump, fanned, joined>>
    BY <1>5 DEF WritePayload
  <2>2. /\ send[c].buf \in Seq(Nat) /\ received[c] \in Seq(Nat) /\ joined[c] \in Nat /\ fanned \in Seq(Nat)
        /\ DOMAIN send = Conns /\ send[c] \in [buf : Seq(Nat), closes : Nat]
        /\ Len(received[c]) \in Nat /\ Len(send[c].buf) \in Nat /\ Len(fanned) \in Nat
    BY <1>0 DEF HubInv, HubTypeOK, GapInv, GapTypeOK
  <2>3. Head(send[c].buf) \in Nat
    BY <2>1, <2>2
  <2>4. GapTypeOK'
    BY <2>1, <2>2, <2>3 DEF GapInv, GapTypeOK
  <2>5. /\ received'[c] = Append(received[c], Head(send[c].buf))
        /\ send'[c].buf = Tail(send[c].buf) /\ send'[c].closes = send[c].closes
        /\ \A d \in Conns : d # c => received'[d] = received[d] /\ send'[d] = send[d]
    BY <2>1, <2>2, <2>3 DEF GapInv, GapTypeOK
  <2>6. InStep(c)
    BY DEF GapInv
  <2>7. ~Unjoined(c)'
    BY <2>1, <2>5, <2>6 DEF InStep, Unjoined
  <2>8. /\ Follows(fanned, joined[c], received[c])
        /\ Follows(fanned, joined[c] + Len(received[c]), send[c].buf)
        /\ c \in members => joined[c] + Len(received[c]) + Len(send[c].buf) = Len(fanned)
    BY <2>1, <2>6 DEF InStep
  <2>9. /\ Follows(fanned, joined[c], received'[c])
        /\ Follows(fanned, joined[c] + Len(received'[c]), send'[c].buf)
        /\ joined[c] + Len(received'[c]) + Len(send'[c].buf) = joined[c] + Len(received[c]) + Len(send[c].buf)
    BY <2>1, <2>2, <2>5, <2>8, FollowsTaken, SMTT(30)
  <2>10. InStep(c)'
    BY <2>1, <2>7, <2>8, <2>9 DEF InStep
  <2>11. \A d \in Conns : d # c => InStep(d)'
    BY <2>1, <2>5 DEF GapInv, InStep, Unjoined
  <2>12. QED BY <1>0, <2>4, <2>10, <2>11 DEF GapInv
<1>6. ASSUME NEW c \in Conns, WriteFails(c) PROVE GapInv'
  <2>1. /\ send' = [send EXCEPT ![c].buf = IF send[c].buf = <<>> THEN send[c].buf ELSE Tail(send[c].buf)]
        /\ writePump[c] = "writing" /\ writePump' = [writePump EXCEPT ![c] = "done"]
        /\ UNCHANGED <<members, serving, received, fanned, joined>>
    BY <1>6 DEF WriteFails
  <2>2. DOMAIN send = Conns /\ send[c] \in [buf : Seq(Nat), closes : Nat]
    BY <1>0 DEF HubInv, HubTypeOK
  <2>3. GapTypeOK'
    BY <2>1 DEF GapInv, GapTypeOK
  <2>4. /\ writePump'[c] = "done" /\ send'[c].closes = send[c].closes
        /\ send[c].buf = <<>> => send'[c].buf = <<>>
        /\ \A d \in Conns : d # c => writePump'[d] = writePump[d] /\ send'[d] = send[d]
    BY <2>1, <2>2 DEF GapInv, GapTypeOK
  <2>5. \A d \in Conns : InStep(d)'
    BY <2>1, <2>4 DEF GapInv, InStep, Unjoined
  <2>6. QED BY <1>0, <2>3, <2>5 DEF GapInv
<1>7. CASE HubRegister
  <2>1. registerQ # <<>> /\ Head(registerQ) \in Conns /\ Queued(Head(registerQ))
    <3>1. /\ registerQ # <<>> /\ 1 \in DOMAIN registerQ /\ Head(registerQ) = registerQ[1] /\ registerQ[1] \in Conns
      BY <1>0, <1>7 DEF HubRegister, HubInv, HubTypeOK
    <3>2. QED BY <3>1 DEF Queued
  <2>2. PICK h \in Conns : h = Head(registerQ)
    BY <2>1
  <2>3. /\ members' = members \cup {h}
        /\ joined' = [joined EXCEPT ![h] = Len(fanned)]
        /\ UNCHANGED <<send, serving, writePump, fanned, received>>
    BY <1>7, <2>2 DEF HubRegister
  <2>4. Unjoined(h)
    BY <1>0, <2>1, <2>2 DEF HubInv, RegisterInv
  <2>5. /\ received[h] = <<>> /\ send[h].buf = <<>> /\ received'[h] = <<>> /\ send'[h].buf = <<>>
        /\ Len(<<>>) = 0 /\ 1..0 = {}
    BY <2>3, <2>4 DEF GapInv, InStep
  <2>6. Len(fanned) \in Nat
    BY DEF GapInv, GapTypeOK
  <2>7. GapTypeOK'
    BY <2>3, <2>6 DEF GapInv, GapTypeOK
  <2>8. joined'[h] = Len(fanned) /\ \A d \in Conns : d # h => joined'[d] = joined[d]
    BY <2>3 DEF GapInv, GapTypeOK
  <2>9. InStep(h)'
    <3>1. Follows(fanned, Len(fanned), <<>>) /\ Len(fanned) + Len(<<>>) = Len(fanned)
      BY <2>5, <2>6 DEF Follows
    <3>2. QED BY <2>3, <2>4, <2>5, <2>6, <2>8, <3>1 DEF InStep, Unjoined
  <2>10. \A d \in Conns : d # h => InStep(d)'
    BY <2>3, <2>8 DEF GapInv, InStep, Unjoined
  <2>11. QED BY <1>0, <2>7, <2>9, <2>10 DEF GapInv
<1>8. CASE HubBroadcast
  <2>1. PICK p \in Nat : p = Head(broadcastQ)
    BY <1>0, <1>8 DEF HubBroadcast, HubInv, HubTypeOK
  <2>2. /\ fanned' = Append(fanned, p) /\ members' = members \ Slow
        /\ send' = [c \in Conns |-> IF c \in members \ Slow THEN [send[c] EXCEPT !.buf = Append(@, p)]
                                    ELSE Closed(members \ (members \ Slow))[c]]
        /\ UNCHANGED <<serving, writePump, joined, received>>
    BY <1>8, <2>1 DEF HubBroadcast, StaysAfter
  <2>3. GapTypeOK'
    BY <2>2 DEF GapInv, GapTypeOK
  <2>4. ASSUME NEW c \in Conns PROVE InStep(c)'
    <3>1. /\ joined'[c] = joined[c] /\ received'[c] = received[c] /\ writePump'[c] = writePump[c]
          /\ joined[c] \in Nat /\ received[c] \in Seq(Nat) /\ fanned \in Seq(Nat)
          /\ Len(received[c]) \in Nat /\ joined[c] + Len(received[c]) \in Nat
      BY <2>2 DEF GapInv, GapTypeOK
    <3>2. send[c] \in [buf : Seq(Nat), closes : Nat] /\ send[c].buf \in Seq(Nat) /\ send[c].closes \in Nat
      BY <1>0 DEF HubInv, HubTypeOK
    <3>3. InStep(c)
      BY DEF GapInv
    <3>4. Follows(fanned', joined[c], received[c])
      BY <2>2, <3>1, <3>3, FollowsGrown DEF InStep
    <3>5. ASSUME writePump[c] # "done"
          PROVE  /\ Follows(fanned', joined[c] + Len(received[c]), send[c].buf)
                 /\ c \in members =>
                       /\ Follows(fanned', joined[c] + Len(received[c]), Append(send[c].buf, p))
                       /\ joined[c] + Len(received[c]) + Len(Append(send[c].buf, p)) = Len(fanned')
      <4>1. Follows(fanned, joined[c] + Len(received[c]), send[c].buf)
            /\ (c \in members => joined[c] + Len(received[c]) + Len(send[c].buf) = Len(fanned))
        BY <3>3, <3>5 DEF InStep
      <4>2. QED BY <2>2, <3>1, <3>2, <4>1, FollowsGrown
    <3>6. CASE c \in members \ Slow
      <4>1. send'[c].buf = Append(send[c].buf, p) /\ c \in members'
        BY <2>2, <3>2, <3>6
      <4>2. QED BY <3>1, <3>4, <3>5, <3>6, <4>1 DEF InStep, Unjoined
    <3>7. CASE c \notin members \ Slow
      <4>1. send'[c] = Closed(members \ (members \ Slow))[c] /\ c \notin members'
        BY <2>2, <3>7
      <4>2. send'[c].buf = send[c].buf
        BY <1>0, <4>1, ClosedKeeps DEF HubInv
      <4>3. Unjoined(c)' => Unjoined(c)
        <5>1. send'[c].closes = IF c \in members \ (members \ Slow) THEN send[c].closes + 1 ELSE send[c].closes
          BY <1>0, <4>1, ClosedType DEF HubInv
        <5>2. QED BY <3>2, <3>7, <5>1 DEF Unjoined
      <4>4. Unjoined(c)' => received'[c] = <<>> /\ send'[c].buf = <<>>
        BY <3>1, <3>3, <4>2, <4>3 DEF InStep
      <4>5. QED BY <3>1, <3>4, <3>5, <4>1, <4>2, <4>4 DEF InStep
    <3>8. QED BY <3>6, <3>7
  <2>5. QED BY <1>0, <2>3, <2>4 DEF GapInv
<1>9. CASE UNCHANGED hubVars
  <2>1. UNCHANGED <<members, send, serving, writePump, fanned, joined, received>>
    BY <1>9 DEF hubVars
  <2>2. \A d \in Conns : Unjoined(d)' => Unjoined(d)
    BY <2>1 DEF Unjoined
  <2>3. QED BY <1>0, <2>1, <2>2, GapQuiet DEF GapInv, GapTypeOK
<1>10. QED BY <1>1, <1>2, <1>3, <1>4, <1>5, <1>6, <1>7, <1>8, <1>9 DEF HubNext

\* Two sequences of one length with the same elements are one.
LEMMA SameElements ==
    ASSUME NEW S, NEW s \in Seq(S), NEW t \in Seq(S), Len(s) = Len(t), \A i \in 1..Len(s) : s[i] = t[i]
    PROVE  s = t
OBVIOUS

\* What GapInv says element by element is what StreamWithoutGap says of sequences.
LEMMA GapElements == GapInv => StreamWithoutGap
<1> SUFFICES ASSUME GapInv, NEW c \in Conns
             PROVE  /\ received[c] = SubSeq(Since(c), 1, Len(received[c]))
                    /\ c \in members /\ writePump[c] # "done" => received[c] \o send[c].buf = Since(c)
  BY DEF StreamWithoutGap
<1> DEFINE r == received[c]
           b == send[c].buf
           j == joined[c]
<1>1. r \in Seq(Nat) /\ b \in Seq(Nat) /\ j \in Nat /\ fanned \in Seq(Nat)
  BY DEF GapInv, GapTypeOK, HubInv, HubTypeOK
<1>2. /\ j + Len(r) <= Len(fanned)
      /\ \A i \in 1..Len(r) : r[i] = fanned[j + i]
      /\ writePump[c] # "done" =>
            /\ c \in members => j + Len(r) + Len(b) = Len(fanned)
            /\ \A i \in 1..Len(b) : b[i] = fanned[j + Len(r) + i]
  BY DEF GapInv, InStep, Follows
<1>3. Since(c) = SubSeq(fanned, j + 1, Len(fanned))
  BY DEF Since
<1> DEFINE z == Since(c)
<1> HIDE DEF r, b, j, z
<1>4. z \in Seq(Nat) /\ Len(z) = Len(fanned) - j /\ \A i \in 1..Len(z) : z[i] = fanned[j + i]
  <2>1. z = SubSeq(fanned, j + 1, Len(fanned))
    BY <1>3 DEF z
  <2>2. j <= Len(fanned) /\ Len(r) \in Nat /\ Len(fanned) \in Nat
    BY <1>1, <1>2
  <2>3. z \in Seq(Nat) /\ Len(z) = Len(fanned) - j
    BY <1>1, <2>1, <2>2
  <2>4. \A i \in 1..Len(z) : z[i] = fanned[j + 1 + i - 1]
    BY <1>1, <2>1, <2>2, <2>3
  <2>5. \A i \in 1..Len(z) : j + 1 + i - 1 = j + i
    BY <1>1
  <2>6. QED BY <2>3, <2>4, <2>5
<1>5. r = SubSeq(z, 1, Len(r))
  <2>1. Len(r) \in Nat /\ Len(r) <= Len(z)
    BY <1>1, <1>2, <1>4
  <2>2. SubSeq(z, 1, Len(r)) \in Seq(Nat) /\ Len(SubSeq(z, 1, Len(r))) = Len(r)
        /\ \A i \in 1..Len(r) : SubSeq(z, 1, Len(r))[i] = z[i]
    BY <1>4, <2>1
  <2>3. \A i \in 1..Len(r) : r[i] = SubSeq(z, 1, Len(r))[i]
    BY <1>2, <1>4, <2>1, <2>2
  <2>4. QED BY <1>1, <2>2, <2>3, SameElements
<1>6. ASSUME c \in members, writePump[c] # "done" PROVE r \o b = z
  <2>1. r \o b \in Seq(Nat) /\ Len(r \o b) = Len(r) + Len(b) /\ Len(r \o b) = Len(z)
    BY <1>1, <1>2, <1>4, <1>6
  <2>2. \A i \in 1..Len(r \o b) : (r \o b)[i] = z[i]
    <3>1. SUFFICES ASSUME NEW i \in 1..Len(r \o b) PROVE (r \o b)[i] = z[i]
      OBVIOUS
    <3>2. CASE i <= Len(r)
      BY <1>1, <1>2, <1>4, <2>1, <3>1, <3>2
    <3>3. CASE i > Len(r)
      <4>1. i - Len(r) \in 1..Len(b) /\ (r \o b)[i] = b[i - Len(r)]
        BY <1>1, <2>1, <3>1, <3>3
      <4>2. b[i - Len(r)] = fanned[j + Len(r) + (i - Len(r))]
        BY <1>2, <1>6, <4>1
      <4>3. j + Len(r) + (i - Len(r)) = j + i
        BY <1>1, <3>1, <2>1
      <4>4. QED BY <1>4, <2>1, <3>1, <4>1, <4>2, <4>3
    <3>4. QED BY <1>1, <2>1, <3>1, <3>2, <3>3
  <2>3. QED BY <1>4, <2>1, <2>2, SameElements
<1>7. QED BY <1>5, <1>6 DEF r, b, z

\* Whatever joins, leaves, lags, fails or stops, a peer has seen a gapless run of what
\* the hub fanned out since it joined, and a client whose write pump lives has the rest
\* in its channel (hub.go Run, client.go).
THEOREM StreamWithoutGapHolds == HubSpec => []StreamWithoutGap
<1>1. QED BY InitGap, StepGap, GapElements, PTL DEF HubSpec

-------------------------------------------------------------------------------
(* ApiServer: the limiter lets no address exceed its bucket, and no page is     *)
(* served that is older than its time to live and one handler.                  *)

Running == [pc : {"called", "read"}, page : Pages, at : Times, version : Versions]

ApiTypeOK ==
    /\ clock \in Times /\ version \in Versions
    /\ visitors \in [Addrs -> [known : BOOLEAN, tokens : Nat, last : Times, seen : Times]]
    /\ cache \in [Pages -> [known : BOOLEAN, version : Versions, expiry : Nat]]
    /\ requests \in [Slots -> Running \cup {NoRequest}]
    /\ allowed \in [Addrs -> [Times -> Nat]]
    /\ until \in [Versions -> Times]

\* What a handler has read was current when it started, or later; a cached page was
\* read by a handler that answered MaxHandling later at most.
FreshInv ==
    /\ \A v \in Versions : v >= version => until[v] = MaxTime
    /\ \A s \in Slots : requests[s] # NoRequest =>
          /\ requests[s].at <= clock /\ clock <= requests[s].at + MaxHandling
          /\ requests[s].at <= until[requests[s].version]
    /\ \A p \in Pages : cache[p].known =>
          /\ cache[p].expiry <= clock + Ttl[p]
          /\ cache[p].expiry <= until[cache[p].version] + MaxHandling + Ttl[p]

\* The tokens an address has at hand: a forgotten one has a full bucket.
AtHand(a) == IF visitors[a].known
             THEN AtMost(visitors[a].tokens + Rate * (clock - visitors[a].last), Burst) ELSE Burst

\* What was let through since t and what could be let through now is within what
\* the bucket holds and gained; the bucket and the last request have one time.
BucketInv ==
    /\ \A a \in Addrs : visitors[a].known => visitors[a].last = visitors[a].seen /\ visitors[a].last <= clock
    /\ \A a \in Addrs : \A t \in Times :
          IF t <= clock THEN allowed[a][t] + AtHand(a) <= Burst + Rate * (clock - t)
                        ELSE allowed[a][t] = 0

ApiInv == ApiTypeOK /\ FreshInv /\ BucketInv

\* What the parameters of the limiter and the cache are.
LEMMA ApiParams ==
    /\ Burst \in Nat \ {0} /\ Rate \in Nat /\ IdleTTL \in Nat /\ IdleTTL * Rate >= Burst
    /\ Ttl \in [Pages -> Nat] /\ MaxTime \in Nat /\ MaxWrites \in Nat /\ MaxHandling \in Nat
BY ApiAssumption

\* Products with the rate.
LEMMA Gained ==
    ASSUME NEW r \in Nat, NEW n \in Nat
    PROVE  r * n \in Nat /\ r * (n + 1) = r * n + r /\ r * 0 = 0
OBVIOUS

\* More time gains no fewer tokens.
LEMMA GainGrows ==
    ASSUME NEW r \in Nat, NEW m \in Nat, NEW n \in Nat, m <= n
    PROVE  m * r <= r * n
OBVIOUS

\* A bucket never holds more than a burst.
LEMMA AtHandFacts ==
    ASSUME ApiInv, NEW a \in Addrs
    PROVE  AtHand(a) \in 0..Burst
<1>1. CASE ~visitors[a].known
  BY <1>1, ApiParams DEF AtHand
<1>2. CASE visitors[a].known
  <2>1. clock - visitors[a].last \in Nat /\ visitors[a].tokens \in Nat
    BY <1>2 DEF ApiInv, ApiTypeOK, BucketInv, Times
  <2>2. Rate * (clock - visitors[a].last) \in Nat
    BY <2>1, ApiParams, Gained
  <2>3. QED BY <1>2, <2>1, <2>2, ApiParams DEF AtHand, AtMost
<1>3. QED BY <1>1, <1>2

\* allow finds the bucket as it is at hand.
LEMMA FoundFacts ==
    ASSUME ApiInv, NEW a \in Addrs
    PROVE  /\ Found(a) \in [known : BOOLEAN, tokens : Nat, last : Times, seen : Times]
           /\ Found(a).known /\ Found(a).tokens = AtHand(a) /\ Found(a).last = clock
<1>0. /\ visitors[a] \in [known : BOOLEAN, tokens : Nat, last : Times, seen : Times]
      /\ clock \in Times /\ Burst \in Nat /\ AtHand(a) \in Nat
  BY ApiParams, AtHandFacts DEF ApiInv, ApiTypeOK
<1>1. CASE ~visitors[a].known
  BY <1>0, <1>1 DEF Found, AtHand
<1>2. CASE visitors[a].known
  <2>1. Found(a) = [visitors[a] EXCEPT !.tokens = AtHand(a), !.last = clock]
    BY <1>0, <1>2 DEF Found, AtHand
  <2>2. QED BY <1>0, <1>2, <2>1
<1>3. QED BY <1>1, <1>2

\* Empty cache, no visitor.
LEMMA InitApi == ApiInit => ApiInv
<1> SUFFICES ASSUME ApiInit PROVE ApiInv
  OBVIOUS
<1>1. ApiTypeOK
  BY ApiParams DEF ApiInit, ApiTypeOK, Times, Versions, NoVisitor, NoEntry
<1>2. FreshInv
  BY ApiParams DEF ApiInit, FreshInv, NoEntry
<1>3. BucketInv
  <2>1. \A a \in Addrs : ~visitors[a].known /\ AtHand(a) = Burst
    BY DEF ApiInit, NoVisitor, AtHand
  <2>2. clock = 0 /\ Rate * 0 = 0
    BY ApiParams, Gained DEF ApiInit
  <2>3. \A a \in Addrs : \A t \in Times : allowed[a][t] = 0
    BY DEF ApiInit
  <2>4. \A t \in Times : t <= clock => Rate * (clock - t) = 0
    BY <2>2 DEF Times
  <2>5. QED BY <2>1, <2>3, <2>4, ApiParams DEF BucketInv
<1>4. QED BY <1>1, <1>2, <1>3 DEF ApiInv

\* A request that is let through takes a token; nothing else of the limiter changes.
LEMMA TokenTaken ==
    ASSUME ApiInv, NEW a \in Addrs, Allowed(a), TakeToken(a), UNCHANGED clock
    PROVE  /\ visitors' \in [Addrs -> [known : BOOLEAN, tokens : Nat, last : Times, seen : Times]]
           /\ allowed' \in [Addrs -> [Times -> Nat]]
           /\ BucketInv'
<1>0. clock \in Times /\ Times \subseteq Nat
  BY DEF ApiInv, ApiTypeOK, Times
<1> DEFINE V == [known : BOOLEAN, tokens : Nat, last : Times, seen : Times]
           v == [Seen(Found(a)) EXCEPT !.tokens = Found(a).tokens - 1]
<1>1. /\ v \in V /\ v.known /\ v.last = clock /\ v.seen = clock /\ v.tokens = AtHand(a) - 1
      /\ AtHand(a) \in 1..Burst
  <2>1. AtHand(a) \in 1..Burst /\ AtHand(a) - 1 \in Nat
    BY FoundFacts, AtHandFacts, ApiParams DEF Allowed
  <2>2. Seen(Found(a)) \in V /\ Seen(Found(a)).known /\ Seen(Found(a)).last = clock
        /\ Seen(Found(a)).seen = clock /\ Seen(Found(a)).tokens = AtHand(a)
    BY <1>0, FoundFacts DEF Seen
  <2>3. v = [Seen(Found(a)) EXCEPT !.tokens = AtHand(a) - 1]
    BY FoundFacts
  <2> HIDE DEF v
  <2>4. v \in V /\ v.known /\ v.last = clock /\ v.seen = clock /\ v.tokens = AtHand(a) - 1
    BY <2>1, <2>2, <2>3
  <2>5. QED BY <2>1, <2>4
<1>2. visitors' = [visitors EXCEPT ![a] = v]
  <2>1. Seen(Found(a)).tokens = Found(a).tokens
    BY <1>0, FoundFacts DEF Seen
  <2>2. QED BY <2>1 DEF TakeToken
<1> HIDE DEF v
<1>3. visitors' \in [Addrs -> V]
  BY <1>1, <1>2 DEF ApiInv, ApiTypeOK
<1>4. \A b \in Addrs : visitors'[b] = IF b = a THEN v ELSE visitors[b]
  BY <1>2 DEF ApiInv, ApiTypeOK
<1>5. \A b \in Addrs : AtHand(b)' = IF b = a THEN AtHand(a) - 1 ELSE AtHand(b)
  <2>1. Rate * (clock - clock) = 0
    BY <1>0, ApiParams
  <2>2. AtHand(a)' = AtHand(a) - 1
    BY <1>0, <1>1, <1>4, <2>1, ApiParams DEF AtHand, AtMost
  <2>3. QED BY <1>4, <2>2 DEF AtHand
<1>6. /\ allowed' = [allowed EXCEPT ![a] = [t \in Times |-> IF t <= clock THEN allowed[a][t] + 1 ELSE allowed[a][t]]]
      /\ \A t \in Times : allowed[a][t] \in Nat
  BY DEF TakeToken, ApiInv, ApiTypeOK
<1>7. /\ allowed' \in [Addrs -> [Times -> Nat]]
      /\ \A b \in Addrs : \A t \in Times :
            allowed'[b][t] = IF b = a /\ t <= clock THEN allowed[b][t] + 1 ELSE allowed[b][t]
  <2>1. [t \in Times |-> IF t <= clock THEN allowed[a][t] + 1 ELSE allowed[a][t]] \in [Times -> Nat]
    BY <1>0, <1>6
  <2>2. QED BY <1>6, <2>1 DEF ApiInv, ApiTypeOK
<1>8. ASSUME NEW b \in Addrs, NEW t \in Times
      PROVE  IF t <= clock THEN allowed'[b][t] + AtHand(b)' <= Burst + Rate * (clock - t)
                           ELSE allowed'[b][t] = 0
  <2>1. IF t <= clock THEN allowed[b][t] + AtHand(b) <= Burst + Rate * (clock - t)
                      ELSE allowed[b][t] = 0
    BY DEF ApiInv, BucketInv
  <2>2. AtHand(b) \in Nat /\ allowed[b][t] \in Nat
    BY AtHandFacts, ApiParams DEF ApiInv, ApiTypeOK
  <2>3. CASE t <= clock
    <3>1. allowed'[b][t] + AtHand(b)' = allowed[b][t] + AtHand(b)
      BY <1>5, <1>7, <2>2, <2>3
    <3>2. QED BY <2>1, <2>3, <3>1
  <2>4. CASE ~(t <= clock)
    BY <1>7, <2>1, <2>4
  <2>5. QED BY <2>3, <2>4
<1>9. BucketInv'
  <2>1. \A b \in Addrs : visitors'[b].known => visitors'[b].last = visitors'[b].seen /\ visitors'[b].last <= clock'
    BY <1>0, <1>1, <1>4 DEF BucketInv, ApiInv
  <2>2. QED BY <1>8, <2>1 DEF BucketInv
<1>10. QED BY <1>3, <1>7, <1>9

\* Every step of the API keeps ApiInv.
LEMMA StepApi ==
    ASSUME ApiInv, [ApiNext]_apiVars
    PROVE  ApiInv'
<1> DEFINE V == [known : BOOLEAN, tokens : Nat, last : Times, seen : Times]
           C == [known : BOOLEAN, version : Versions, expiry : Nat]
<1>0. /\ clock \in Nat /\ clock <= MaxTime /\ MaxTime \in Nat /\ Times = 0..MaxTime
      /\ version \in Versions /\ Versions = 0..MaxWrites /\ MaxWrites \in Nat
  BY ApiParams DEF ApiInv, ApiTypeOK, Times, Versions
<1>1. CASE UNCHANGED apiVars
  BY <1>1 DEF apiVars, ApiInv, ApiTypeOK, FreshInv, BucketInv, AtHand
\* The cache, the handlers and the versions do not touch the limiter.
<1>2. ASSUME UNCHANGED <<clock, visitors, allowed>> PROVE BucketInv'
  BY <1>2 DEF ApiInv, BucketInv, AtHand
<1>3. ASSUME UNCHANGED <<clock, cache, version, requests, until>> PROVE FreshInv'
  BY <1>3 DEF ApiInv, FreshInv
<1>4. ASSUME NEW a \in Addrs, Refuse(a) PROVE ApiInv'
  <2>1. /\ visitors' = [visitors EXCEPT ![a] = Seen(Found(a))]
        /\ UNCHANGED <<clock, cache, version, requests, allowed, until>>
    BY <1>4 DEF Refuse
  <2>2. Seen(Found(a)) \in V /\ Seen(Found(a)).known /\ Seen(Found(a)).last = clock
        /\ Seen(Found(a)).seen = clock /\ Seen(Found(a)).tokens = AtHand(a)
    BY <1>0, FoundFacts DEF Seen
  <2>3. visitors' \in [Addrs -> V] /\ \A b \in Addrs : b # a => visitors'[b] = visitors[b]
    BY <2>1, <2>2 DEF ApiInv, ApiTypeOK
  <2>4. visitors'[a] = Seen(Found(a))
    BY <2>1 DEF ApiInv, ApiTypeOK
  <2>5. \A b \in Addrs : AtHand(b)' = AtHand(b)
    <3>1. Rate * (clock - clock) = 0
      BY <1>0, ApiParams
    <3>2. AtHand(a) \in 0..Burst
      BY AtHandFacts
    <3>3. AtHand(a)' = AtMost(AtHand(a) + 0, Burst)
      BY <2>1, <2>2, <2>4, <3>1 DEF AtHand
    <3>4. AtHand(a)' = AtHand(a)
      BY <3>2, <3>3, ApiParams DEF AtMost
    <3>5. QED BY <2>1, <2>3, <3>4 DEF AtHand
  <2>6. BucketInv'
    BY <1>0, <2>1, <2>2, <2>3, <2>4, <2>5 DEF ApiInv, BucketInv
  <2>7. QED BY <1>3, <2>1, <2>3, <2>6 DEF ApiInv, ApiTypeOK
<1>5. ASSUME NEW a \in Addrs, NEW p \in Pages, Hit(a, p) PROVE ApiInv'
  <2>1. Allowed(a) /\ TakeToken(a) /\ UNCHANGED <<clock, cache, version, requests, until>>
    BY <1>5 DEF Hit
  <2>2. QED BY <1>3, <2>1, TokenTaken DEF ApiInv, ApiTypeOK
<1>6. ASSUME NEW a \in Addrs, NEW s \in Slots, NEW p \in Pages, Miss(a, s, p) PROVE ApiInv'
  <2> DEFINE r == [pc |-> "called", page |-> p, at |-> clock, version |-> version]
  <2>1. /\ Allowed(a) /\ TakeToken(a) /\ UNCHANGED <<clock, cache, version, until>>
        /\ requests' = [requests EXCEPT ![s] = r]
    BY <1>6 DEF Miss
  <2>2. r \in Running /\ r.at = clock /\ r.version = version
    BY <1>0 DEF Running
  <2> HIDE DEF r
  <2>3. requests' \in [Slots -> Running \cup {NoRequest}]
        /\ \A q \in Slots : requests'[q] = IF q = s THEN r ELSE requests[q]
    BY <2>1, <2>2 DEF ApiInv, ApiTypeOK
  <2>4. FreshInv'
    <3>1. clock <= clock + MaxHandling /\ clock <= until[version]
      BY <1>0, ApiParams DEF ApiInv, FreshInv
    <3>2. \A q \in Slots : requests'[q] # NoRequest =>
            /\ requests'[q].at <= clock' /\ clock' <= requests'[q].at + MaxHandling
            /\ requests'[q].at <= until'[requests'[q].version]
      BY <1>0, <2>1, <2>2, <2>3, <3>1 DEF ApiInv, FreshInv
    <3>3. QED BY <2>1, <3>2 DEF ApiInv, FreshInv
  <2>5. QED BY <2>1, <2>3, <2>4, TokenTaken DEF ApiInv, ApiTypeOK
<1>7. ASSUME NEW s \in Slots, Read(s) PROVE ApiInv'
  <2>1. /\ requests[s].pc = "called" /\ UNCHANGED <<clock, visitors, cache, version, allowed, until>>
        /\ requests' = [requests EXCEPT ![s] = [requests[s] EXCEPT !.pc = "read", !.version = version]]
    BY <1>7 DEF Read
  <2>2. requests[s] \in Running
    BY <2>1 DEF NoRequest, ApiInv, ApiTypeOK
  <2> DEFINE r == [requests[s] EXCEPT !.pc = "read", !.version = version]
  <2>3. r \in Running /\ r.at = requests[s].at /\ r.version = version
    BY <1>0, <2>2 DEF Running
  <2> HIDE DEF r
  <2>4. requests' = [requests EXCEPT ![s] = r]
    BY <2>1 DEF r
  <2>5. requests' \in [Slots -> Running \cup {NoRequest}]
        /\ \A q \in Slots : requests'[q] = IF q = s THEN r ELSE requests[q]
    BY <2>3, <2>4 DEF ApiInv, ApiTypeOK
  <2>6. requests[s] # NoRequest /\ requests[s].at \in Nat
    BY <1>0, <2>1, <2>2 DEF NoRequest, Running
  <2>7. /\ requests[s].at <= clock /\ clock <= requests[s].at + MaxHandling
        /\ requests[s].at <= until[version]
    BY <1>0, <2>6 DEF ApiInv, FreshInv
  <2>8. FreshInv'
    BY <2>1, <2>3, <2>5, <2>7 DEF ApiInv, FreshInv
  <2>9. QED BY <1>2, <2>1, <2>5, <2>8 DEF ApiInv, ApiTypeOK
<1>8. ASSUME NEW s \in Slots, requests' = [requests EXCEPT ![s] = NoRequest],
             UNCHANGED <<clock, version, until>>
      PROVE  /\ requests' \in [Slots -> Running \cup {NoRequest}]
             /\ \A q \in Slots : requests'[q] # NoRequest =>
                  /\ requests'[q].at <= clock' /\ clock' <= requests'[q].at + MaxHandling
                  /\ requests'[q].at <= until'[requests'[q].version]
  <2>1. \A q \in Slots : requests'[q] = IF q = s THEN NoRequest ELSE requests[q]
    BY <1>8 DEF ApiInv, ApiTypeOK
  <2>2. QED BY <1>8, <2>1 DEF ApiInv, ApiTypeOK, FreshInv
<1>9. ASSUME NEW s \in Slots, Answer(s) PROVE ApiInv'
  <2> DEFINE r == requests[s]
             e == [known |-> TRUE, version |-> r.version, expiry |-> clock + Ttl[r.page]]
  <2>1. /\ r.pc = "read" /\ UNCHANGED <<clock, visitors, version, allowed, until>>
        /\ cache' = [cache EXCEPT ![r.page] = e] /\ requests' = [requests EXCEPT ![s] = NoRequest]
    BY <1>9 DEF Answer
  <2>2. r \in Running /\ r # NoRequest
    BY <2>1 DEF NoRequest, ApiInv, ApiTypeOK
  <2>3. r.page \in Pages /\ r.version \in Versions /\ r.at \in Nat /\ Ttl[r.page] \in Nat
    BY <1>0, <2>2, ApiParams DEF Running
  <2>4. r.at <= clock /\ clock <= r.at + MaxHandling /\ r.at <= until[r.version] /\ until[r.version] \in Nat
    BY <1>0, <2>2, <2>3 DEF ApiInv, FreshInv, ApiTypeOK
  <2> HIDE DEF r
  <2>5. e \in C /\ e.version = r.version /\ e.expiry = clock + Ttl[r.page]
    BY <1>0, <2>3
  <2> HIDE DEF e
  <2>6. cache' \in [Pages -> C] /\ \A p \in Pages : cache'[p] = IF p = r.page THEN e ELSE cache[p]
    BY <2>1, <2>3, <2>5 DEF ApiInv, ApiTypeOK
  <2>7. e.expiry <= clock + Ttl[r.page] /\ e.expiry <= until[e.version] + MaxHandling + Ttl[r.page]
    BY <1>0, <2>3, <2>4, <2>5, ApiParams, SMTT(30)
  <2>8. \A p \in Pages : cache'[p].known =>
            /\ cache'[p].expiry <= clock + Ttl[p]
            /\ cache'[p].expiry <= until[cache'[p].version] + MaxHandling + Ttl[p]
    BY <2>6, <2>7 DEF ApiInv, FreshInv
  <2>9. FreshInv'
    BY <1>8, <2>1, <2>8 DEF ApiInv, FreshInv
  <2>10. QED BY <1>2, <1>8, <2>1, <2>6, <2>9 DEF ApiInv, ApiTypeOK
<1>10. ASSUME NEW s \in Slots, HandlerFails(s) PROVE ApiInv'
  <2>1. /\ requests' = [requests EXCEPT ![s] = NoRequest]
        /\ UNCHANGED <<clock, visitors, cache, version, allowed, until>>
    BY <1>10 DEF HandlerFails
  <2>2. FreshInv'
    BY <1>8, <2>1 DEF ApiInv, FreshInv
  <2>3. QED BY <1>2, <1>8, <2>1, <2>2 DEF ApiInv, ApiTypeOK
<1>11. CASE Cleanup
  <2>1. /\ visitors' = [a \in Addrs |-> IF visitors[a].seen + IdleTTL < clock THEN NoVisitor ELSE visitors[a]]
        /\ UNCHANGED <<clock, cache, version, requests, allowed, until>>
    BY <1>11 DEF Cleanup
  <2>2. NoVisitor \in V /\ ~NoVisitor.known
    BY <1>0 DEF NoVisitor
  <2>3. visitors' \in [Addrs -> V]
    BY <2>1, <2>2 DEF ApiInv, ApiTypeOK
  <2>4. ASSUME NEW a \in Addrs PROVE AtHand(a)' = AtHand(a)
    <3>1. CASE visitors'[a] = visitors[a]
      BY <2>1, <3>1 DEF AtHand
    <3>2. CASE ~visitors[a].known /\ visitors'[a] = NoVisitor
      BY <2>2, <3>2 DEF AtHand
    <3>3. CASE visitors[a].known /\ visitors[a].seen + IdleTTL < clock /\ visitors'[a] = NoVisitor
      <4>1. visitors[a].last = visitors[a].seen /\ visitors[a].last \in Nat /\ visitors[a].tokens \in Nat
        BY <1>0, <3>3 DEF ApiInv, ApiTypeOK, BucketInv
      <4>2. clock - visitors[a].last \in Nat /\ IdleTTL <= clock - visitors[a].last
        BY <1>0, <3>3, <4>1, ApiParams, SMTT(30)
      <4>3. IdleTTL * Rate <= Rate * (clock - visitors[a].last) /\ Rate * (clock - visitors[a].last) \in Nat
        BY <4>2, ApiParams, GainGrows, Gained
      <4>4. IdleTTL * Rate \in Nat
        BY ApiParams
      <4>5. Burst <= visitors[a].tokens + Rate * (clock - visitors[a].last)
        BY <4>1, <4>3, <4>4, ApiParams
      <4>6. AtHand(a) = Burst
        BY <3>3, <4>1, <4>3, <4>5, ApiParams DEF AtHand, AtMost
      <4>7. QED BY <2>2, <3>3, <4>6 DEF AtHand
    <3>4. QED BY <2>1, <3>1, <3>2, <3>3
  <2>5. BucketInv'
    BY <2>1, <2>2, <2>4 DEF ApiInv, BucketInv
  <2>6. QED BY <1>3, <2>1, <2>3, <2>5 DEF ApiInv, ApiTypeOK
<1>12. CASE Janitor
  <2>1. /\ cache' = [p \in Pages |-> IF clock > cache[p].expiry THEN NoEntry ELSE cache[p]]
        /\ UNCHANGED <<clock, visitors, version, requests, allowed, until>>
    BY <1>12 DEF Janitor
  <2>2. NoEntry \in C /\ ~NoEntry.known
    BY <1>0 DEF NoEntry
  <2>3. cache' \in [Pages -> C] /\ \A p \in Pages : cache'[p].known => cache'[p] = cache[p]
    BY <2>1, <2>2 DEF ApiInv, ApiTypeOK
  <2>4. FreshInv'
    BY <2>1, <2>3 DEF ApiInv, FreshInv
  <2>5. QED BY <1>2, <2>1, <2>3, <2>4 DEF ApiInv, ApiTypeOK
<1>13. CASE StoreWrite
  <2>1. /\ version < MaxWrites /\ version' = version + 1 /\ until' = [until EXCEPT ![version] = clock]
        /\ UNCHANGED <<clock, visitors, cache, requests, allowed>>
    BY <1>13 DEF StoreWrite
  <2>2. version' \in Versions /\ until' \in [Versions -> Times]
        /\ \A v \in Versions : until'[v] = IF v = version THEN clock ELSE until[v]
    BY <1>0, <2>1 DEF ApiInv, ApiTypeOK
  <2>3. \A v \in Versions : v >= version' => until'[v] = MaxTime
    BY <1>0, <2>1, <2>2 DEF ApiInv, FreshInv
  <2>4. ASSUME NEW s \in Slots, requests[s] # NoRequest
        PROVE  requests[s].at <= until'[requests[s].version]
    <3>1. requests[s].version \in Versions
      BY <2>4 DEF ApiInv, ApiTypeOK, Running
    <3>2. QED BY <2>2, <2>4, <3>1 DEF ApiInv, FreshInv
  <2>5. ASSUME NEW p \in Pages, cache[p].known
        PROVE  cache[p].expiry <= until'[cache[p].version] + MaxHandling + Ttl[p]
    <3>1. cache[p].version \in Versions /\ cache[p].expiry \in Nat /\ Ttl[p] \in Nat
      BY ApiParams DEF ApiInv, ApiTypeOK
    <3>2. cache[p].expiry <= clock + Ttl[p] /\ cache[p].expiry <= until[cache[p].version] + MaxHandling + Ttl[p]
      BY <2>5 DEF ApiInv, FreshInv
    <3>3. until'[cache[p].version] \in {clock, until[cache[p].version]}
      BY <2>2, <3>1
    <3>4. QED BY <1>0, <3>1, <3>2, <3>3, ApiParams
  <2>6. FreshInv'
    BY <2>1, <2>3, <2>4, <2>5 DEF ApiInv, FreshInv
  <2>7. QED BY <1>2, <2>1, <2>2, <2>6 DEF ApiInv, ApiTypeOK
<1>14. CASE ClockTick
  <2>1. /\ clock < MaxTime /\ clock' = clock + 1
        /\ \A s \in Slots : requests[s].pc # "free" => clock < requests[s].at + MaxHandling
        /\ UNCHANGED <<visitors, cache, version, requests, allowed, until>>
    BY <1>14 DEF ClockTick
  <2>2. clock' \in Times
    BY <1>0, <2>1
  <2>3. FreshInv'
    <3>1. ASSUME NEW s \in Slots, requests[s] # NoRequest
          PROVE  requests[s].at <= clock + 1 /\ clock + 1 <= requests[s].at + MaxHandling
      <4>1. requests[s] \in Running
        BY <3>1 DEF ApiInv, ApiTypeOK
      <4>2. requests[s].pc # "free" /\ requests[s].at \in Nat /\ requests[s].at <= clock
        BY <1>0, <3>1, <4>1 DEF Running, ApiInv, FreshInv
      <4>3. QED BY <1>0, <2>1, <4>2, ApiParams
    <3>2. ASSUME NEW p \in Pages, cache[p].known PROVE cache[p].expiry <= clock + 1 + Ttl[p]
      <4>1. cache[p].expiry \in Nat /\ Ttl[p] \in Nat /\ cache[p].expiry <= clock + Ttl[p]
        BY <3>2, ApiParams DEF ApiInv, ApiTypeOK, FreshInv
      <4>2. QED BY <1>0, <4>1
    <3>3. QED BY <2>1, <3>1, <3>2 DEF ApiInv, FreshInv
  <2>4. ASSUME NEW a \in Addrs PROVE AtHand(a)' \in Nat /\ AtHand(a)' <= Burst /\ AtHand(a)' <= AtHand(a) + Rate
    <3>1. CASE ~visitors[a].known
      BY <2>1, <3>1, ApiParams DEF AtHand
    <3>2. CASE visitors[a].known
      <4> DEFINE n == clock - visitors[a].last
      <4>0. visitors[a].last \in Nat /\ visitors[a].last <= clock /\ visitors[a].tokens \in Nat
        BY <1>0, <3>2 DEF ApiInv, ApiTypeOK, BucketInv
      <4>1. n \in Nat /\ visitors[a].tokens \in Nat /\ clock + 1 - visitors[a].last = n + 1
        BY <1>0, <4>0
      <4>2. Rate * n \in Nat /\ Rate * (n + 1) = Rate * n + Rate
        BY <4>1, ApiParams, Gained
      <4> DEFINE old == Rate * n
                 new == Rate * (clock' - visitors'[a].last)
      <4>3. AtHand(a) = AtMost(visitors[a].tokens + old, Burst)
        BY <3>2 DEF AtHand
      <4>4. AtHand(a)' = AtMost(visitors'[a].tokens + new, Burst)
        BY <2>1, <3>2 DEF AtHand
      <4>5. visitors'[a].tokens = visitors[a].tokens
        BY <2>1
      <4>6. old \in Nat /\ new = old + Rate
        <5>1. clock' = clock + 1 /\ visitors'[a].last = visitors[a].last
          BY <2>1
        <5>2. clock' - visitors'[a].last = n + 1
          BY <1>0, <4>0, <5>1
        <5> HIDE DEF n
        <5>3. new = Rate * (n + 1)
          BY <5>2
        <5>4. QED BY <4>2, <5>3
      <4> HIDE DEF old, new
      <4>7. QED BY <4>0, <4>3, <4>4, <4>5, <4>6, ApiParams DEF AtMost
    <3>3. QED BY <3>1, <3>2
  <2>5. ASSUME NEW a \in Addrs, NEW t \in Times
        PROVE  IF t <= clock' THEN allowed'[a][t] + AtHand(a)' <= Burst + Rate * (clock' - t)
                              ELSE allowed'[a][t] = 0
    <3>0. t \in Nat /\ allowed[a][t] \in Nat /\ AtHand(a) \in Nat /\ Rate \in Nat /\ Burst \in Nat
      <4>1. t \in Nat /\ allowed[a][t] \in Nat
        BY <1>0 DEF ApiInv, ApiTypeOK
      <4>2. AtHand(a) \in 0..Burst
        BY AtHandFacts
      <4>3. QED BY <4>1, <4>2, ApiParams
    <3>1. CASE t <= clock
      <4>1. allowed[a][t] + AtHand(a) <= Burst + Rate * (clock - t)
        BY <3>1 DEF ApiInv, BucketInv
      <4>2. clock - t \in Nat /\ clock' - t = (clock - t) + 1
        BY <1>0, <2>1, <3>0, <3>1
      <4>3. Rate * (clock - t) \in Nat /\ Rate * (clock' - t) = Rate * (clock - t) + Rate
        BY <3>0, <4>2, Gained
      <4>4. QED BY <1>0, <2>1, <2>4, <3>0, <3>1, <4>1, <4>3
    <3>2. CASE t = clock + 1
      <4>1. allowed[a][t] = 0
        BY <1>0, <3>2 DEF ApiInv, BucketInv
      <4>2. Rate * (clock' - t) = 0
        BY <1>0, <2>1, <3>0, <3>2
      <4>3. QED BY <1>0, <2>1, <2>4, <3>0, <3>2, <4>1, <4>2
    <3>3. CASE t > clock + 1
      BY <1>0, <2>1, <3>0, <3>3 DEF ApiInv, BucketInv
    <3>4. QED BY <1>0, <3>0, <3>1, <3>2, <3>3
  <2>6. \A a \in Addrs : visitors'[a].known => visitors'[a].last = visitors'[a].seen /\ visitors'[a].last <= clock'
    <3>1. \A a \in Addrs : visitors[a].last \in Nat
      BY <1>0 DEF ApiInv, ApiTypeOK
    <3>2. QED BY <1>0, <2>1, <3>1 DEF ApiInv, BucketInv
  <2>7. BucketInv'
    BY <2>5, <2>6 DEF BucketInv
  <2>8. QED BY <2>1, <2>2, <2>3, <2>7 DEF ApiInv, ApiTypeOK
<1>15. QED
  BY <1>1, <1>4, <1>5, <1>6, <1>7, <1>9, <1>10, <1>11, <1>12, <1>13, <1>14 DEF ApiNext

\* However an address spreads its requests, and although its bucket is forgotten
\* and made anew, full, no window that ends now let through more than a bucket
\* holds and gains in it (ratelimit.go allow and cleanupLoop).
THEOREM BurstBoundedHolds == ApiSpec => []BurstBounded
<1>1. ASSUME ApiInv PROVE BurstBounded
  <2>1. SUFFICES ASSUME NEW a \in Addrs, NEW t \in 0..clock
                 PROVE  allowed[a][t] <= Burst + Rate * (clock - t)
    BY DEF BurstBounded
  <2>2. t \in Times /\ t <= clock /\ clock - t \in Nat
    BY <1>1, ApiParams DEF ApiInv, ApiTypeOK, Times
  <2>3. allowed[a][t] + AtHand(a) <= Burst + Rate * (clock - t)
    BY <1>1, <2>2 DEF ApiInv, BucketInv
  <2>4. allowed[a][t] \in Nat /\ AtHand(a) \in Nat /\ Rate * (clock - t) \in Nat
    BY <1>1, <2>2, AtHandFacts, ApiParams, Gained DEF ApiInv, ApiTypeOK
  <2>5. QED BY <2>3, <2>4, ApiParams
<1>2. QED BY <1>1, InitApi, StepApi, PTL DEF ApiSpec

\* A page served from the cache was true of the stores at most its time to live and
\* one handler ago, whichever of several handlers stored it last (cache.go).
THEOREM PageFreshHolds == ApiSpec => []PageFresh
<1>1. ASSUME ApiInv PROVE PageFresh
  <2>1. SUFFICES ASSUME NEW p \in Pages, Fresh(p)
                 PROVE  until[cache[p].version] + Ttl[p] + MaxHandling >= clock
    BY DEF PageFresh
  <2>2. clock <= cache[p].expiry /\ cache[p].expiry <= until[cache[p].version] + MaxHandling + Ttl[p]
    BY <1>1, <2>1 DEF Fresh, ApiInv, FreshInv
  <2>3. clock \in Nat /\ cache[p].expiry \in Nat /\ until[cache[p].version] \in Nat /\ Ttl[p] \in Nat
    BY <1>1, ApiParams DEF ApiInv, ApiTypeOK, Times
  <2>4. QED BY <2>2, <2>3, ApiParams
<1>2. QED BY <1>1, InitApi, StepApi, PTL DEF ApiSpec

-------------------------------------------------------------------------------
(* UriFetch: a stored row is what one fetch ended with.                        *)

JobShape(j) == DOMAIN j = {"pc", "caller", "uri", "tries", "cancelled", "outcome"}

\* What is about to be written is what a fetch of that URI ended with, unless the
\* fetch was cancelled.
Fetched(j) == j.pc = "write" /\ ~j.cancelled /\ j.uri \in Uris => j.outcome \in got[j.uri]

FetchInv ==
    /\ job = [w \in Workers |-> job[w]] /\ row = [u \in Uris |-> row[u]] /\ got = [u \in Uris |-> got[u]]
    /\ \A w \in Workers : job[w] # Idle => JobShape(job[w]) /\ Fetched(job[w])
    /\ RowIsAnAnswer

\* No job and no row yet.
LEMMA InitFetch == FetchInit => FetchInv
BY DEF FetchInit, FetchInv, RowIsAnAnswer

\* One worker goes on, what fetches ended with is kept and no row is written.
LEMMA WorkerStep ==
    ASSUME FetchInv, NEW w \in Workers, NEW j, job' = [job EXCEPT ![w] = j],
           j # Idle => JobShape(j), UNCHANGED row,
           got' = [u \in Uris |-> got'[u]], \A u \in Uris : got[u] \subseteq got'[u],
           j # Idle /\ j.pc = "write" /\ ~j.cancelled /\ j.uri \in Uris => j.outcome \in got'[j.uri]
    PROVE  FetchInv'
<1>1. job' = [v \in Workers |-> job'[v]] /\ \A v \in Workers : job'[v] = IF v = w THEN j ELSE job[v]
  BY DEF FetchInv
<1>2. RowIsAnAnswer'
  BY DEF FetchInv, RowIsAnAnswer
<1>3. ASSUME NEW v \in Workers, job'[v] # Idle
      PROVE  /\ JobShape(job'[v])
             /\ job'[v].pc = "write" /\ ~job'[v].cancelled /\ job'[v].uri \in Uris =>
                    job'[v].outcome \in got'[job'[v].uri]
  <2>1. CASE v = w
    BY <1>1, <1>3, <2>1
  <2>2. CASE v # w
    BY <1>1, <1>3, <2>2 DEF FetchInv, Fetched
  <2>3. QED BY <2>1, <2>2
<1>4. QED BY <1>1, <1>2, <1>3 DEF FetchInv, Fetched, JobShape

\* Every step of a fetch keeps FetchInv.
LEMMA StepFetch ==
    ASSUME FetchInv, [FetchNext]_fetchVars
    PROVE  FetchInv'
<1>0. Idle.pc = "idle"
  BY DEF Idle
<1>1. CASE UNCHANGED <<job, row, got>>
  BY <1>1 DEF FetchInv, JobShape, Fetched, RowIsAnAnswer
<1>2. ASSUME NEW w \in Workers, TakeMessage(w) PROVE FetchInv'
  <2>1. PICK m \in BagToSet(fetchQueue) :
          /\ job' = [job EXCEPT ![w] = [pc |-> IF Parsed(m[2]) = "get" THEN "get" ELSE "write",
                                        caller |-> m[1], uri |-> m[2], tries |-> 1,
                                        cancelled |-> FALSE, outcome |-> Parsed(m[2])]]
          /\ got' = [got EXCEPT ![m[2]] = IF Parsed(m[2]) = "get" THEN got[m[2]] ELSE got[m[2]] \cup {Parsed(m[2])}]
    BY <1>2 DEF TakeMessage
  <2> DEFINE found == Parsed(m[2])
             j == [pc |-> IF found = "get" THEN "get" ELSE "write", caller |-> m[1], uri |-> m[2],
                   tries |-> 1, cancelled |-> FALSE, outcome |-> found]
  <2>2. JobShape(j) /\ j.pc = (IF found = "get" THEN "get" ELSE "write") /\ j.uri = m[2] /\ j.outcome = found
    BY DEF JobShape
  <2>3. /\ got' = [u \in Uris |-> got'[u]] /\ \A u \in Uris : got[u] \subseteq got'[u]
        /\ found # "get" /\ m[2] \in Uris => found \in got'[m[2]]
    BY <2>1 DEF FetchInv
  <2>4. UNCHANGED row
    BY <1>2 DEF TakeMessage
  <2>5. job' = [job EXCEPT ![w] = j]
    BY <2>1
  <2> HIDE DEF j, found
  <2>6. QED BY <2>2, <2>3, <2>4, <2>5, WorkerStep
<1>3. ASSUME NEW w \in Workers, job[w] # Idle, NEW j, job' = [job EXCEPT ![w] = j], JobShape(j),
             j.cancelled \/ j.pc # "write" \/ (j.uri = job[w].uri /\ j.pc = job[w].pc
                                              /\ j.cancelled = job[w].cancelled /\ j.outcome = job[w].outcome),
             UNCHANGED <<row, got>>
      PROVE  FetchInv'
  <2>1. j.pc = "write" /\ ~j.cancelled /\ j.uri \in Uris => j.outcome \in got'[j.uri]
    BY <1>3 DEF FetchInv, Fetched
  <2>2. got' = [u \in Uris |-> got'[u]] /\ \A u \in Uris : got[u] \subseteq got'[u]
    BY <1>3 DEF FetchInv
  <2>3. QED BY <1>3, <2>1, <2>2, WorkerStep
<1>4. ASSUME NEW w \in Workers, Cancel(w) PROVE FetchInv'
  <2> DEFINE j == [job[w] EXCEPT !.cancelled = TRUE]
  <2>1. job[w] # Idle /\ job' = [job EXCEPT ![w] = j] /\ UNCHANGED <<row, got>>
    BY <1>4 DEF Cancel
  <2>2. JobShape(job[w])
    BY <2>1 DEF FetchInv
  <2>3. JobShape(j) /\ j.cancelled
    BY <2>2 DEF JobShape
  <2> HIDE DEF j
  <2>4. QED BY <1>3, <2>1, <2>3
<1>5. ASSUME NEW w \in Workers, Get(w) PROVE FetchInv'
  <2> DEFINE answer == site[job[w].uri].answer
             ends == Final(answer) \/ Exhausted(job[w].tries)
             j == [job[w] EXCEPT !.pc = IF ends THEN "write" ELSE "backoff", !.outcome = answer]
  <2>1. /\ job[w].pc = "get" /\ ~job[w].cancelled /\ UNCHANGED row
        /\ job' = [job EXCEPT ![w] = j]
        /\ got' = [got EXCEPT ![job[w].uri] = IF ends THEN got[job[w].uri] \cup {answer} ELSE got[job[w].uri]]
    BY <1>5 DEF Get
  <2>2. JobShape(job[w])
    BY <1>0, <2>1 DEF FetchInv
  <2>3. JobShape(j) /\ j.pc = (IF ends THEN "write" ELSE "backoff") /\ j.outcome = answer /\ j.uri = job[w].uri
    BY <2>2 DEF JobShape
  <2> HIDE DEF j, ends, answer
  <2>4. /\ got' = [u \in Uris |-> got'[u]] /\ \A u \in Uris : got[u] \subseteq got'[u]
        /\ ends /\ job[w].uri \in Uris => answer \in got'[job[w].uri]
    BY <2>1 DEF FetchInv
  <2>5. QED BY <2>1, <2>3, <2>4, WorkerStep
<1>6. ASSUME NEW w \in Workers, Backoff(w) PROVE FetchInv'
  <2> DEFINE j == [job[w] EXCEPT !.pc = "get", !.tries = job[w].tries + 1]
  <2>1. job[w].pc = "backoff" /\ job' = [job EXCEPT ![w] = j] /\ UNCHANGED <<row, got>>
    BY <1>6 DEF Backoff
  <2>2. job[w] # Idle /\ JobShape(job[w])
    BY <1>0, <2>1 DEF FetchInv
  <2>3. JobShape(j) /\ j.pc = "get"
    BY <2>2 DEF JobShape
  <2> HIDE DEF j
  <2>4. QED BY <1>3, <2>1, <2>2, <2>3
<1>7. ASSUME NEW w \in Workers, Interrupted(w) PROVE FetchInv'
  <2> DEFINE j == [job[w] EXCEPT !.pc = "write", !.outcome = "cancelled"]
  <2>1. job[w].pc # "idle" /\ job[w].cancelled /\ job' = [job EXCEPT ![w] = j] /\ UNCHANGED <<row, got>>
    BY <1>7 DEF Interrupted
  <2>2. job[w] # Idle /\ JobShape(job[w])
    BY <1>0, <2>1 DEF FetchInv
  <2>3. JobShape(j) /\ j.cancelled
    BY <2>1, <2>2 DEF JobShape
  <2> HIDE DEF j
  <2>4. QED BY <1>3, <2>1, <2>2, <2>3
<1>8. ASSUME NEW w \in Workers, job' = [job EXCEPT ![w] = Idle], UNCHANGED got, RowIsAnAnswer',
             row' = [u \in Uris |-> row'[u]]
      PROVE  FetchInv'
  <2>1. \A v \in Workers : job'[v] # Idle => job'[v] = job[v]
    BY <1>8 DEF FetchInv
  <2>2. job' = [v \in Workers |-> job'[v]]
    BY <1>8 DEF FetchInv
  <2>3. QED BY <1>8, <2>1, <2>2 DEF FetchInv, Fetched, JobShape
<1>9. ASSUME NEW w \in Workers, WriteRow(w) PROVE FetchInv'
  <2>1. /\ job[w].pc = "write" /\ ~job[w].cancelled /\ UNCHANGED got
        /\ row' = [row EXCEPT ![job[w].uri] = Stored(job[w].outcome)]
        /\ job' = [job EXCEPT ![w] = Idle]
    BY <1>9 DEF WriteRow
  <2>2. job[w].uri \in Uris => job[w].outcome \in got[job[w].uri]
    BY <1>0, <2>1 DEF FetchInv, Fetched
  <2>3. row' = [u \in Uris |-> row'[u]]
    BY <2>1 DEF FetchInv
  <2>4. RowIsAnAnswer'
    BY <2>1, <2>2 DEF FetchInv, RowIsAnAnswer
  <2>5. QED BY <1>8, <2>1, <2>3, <2>4
<1>10. ASSUME NEW w \in Workers, WriteLost(w) PROVE FetchInv'
  BY <1>8, <1>10 DEF WriteLost, FetchInv, RowIsAnAnswer
<1>11. QED
  BY <1>1, <1>2, <1>4, <1>5, <1>6, <1>7, <1>9, <1>10 DEF FetchNext, Ask, Change, fetchVars

\* A row is whole and is what one fetch of its URI ended with, whichever of the three
\* callers wrote it and whenever their contexts were cancelled (offchain/repo.go).
THEOREM RowIsAnAnswerHolds == FetchSpec => []RowIsAnAnswer
<1>1. FetchInv => RowIsAnAnswer
  BY DEF FetchInv
<1>2. QED BY <1>1, InitFetch, StepFetch, PTL DEF FetchSpec

-------------------------------------------------------------------------------
(* ResetTool: what is there after a reset is one replay of the events.         *)

ResetTypeOK ==
    /\ up \subseteq ComposeServices /\ gen \in Nat /\ contracts \subseteq ChainIDs
    /\ rawLogs \in [ChainIDs -> Nat] /\ events \in [ChainIDs -> Nat] /\ uriFetched \in [ChainIDs -> Nat]
    /\ checkpoint \in [ChainIDs -> Nat] /\ applied \in [ChainIDs -> Nat]
    /\ derivedRows \in [ChainIDs -> SUBSET Nat]
    /\ counts \in [ChainIDs \X (1..MaxEvents) -> Nat]
    /\ DOMAIN tool = {"pc", "runs", "flags", "chains", "left", "target"}
    /\ tool.flags \subseteq Options /\ tool.left \subseteq Collections
    /\ tool.chains \subseteq ChainIDs /\ tool.target \in [ChainIDs -> Nat]

\* What is derived is a replay of the events up to the checkpoint, and of the event
\* whose checkpoint is still to be saved.
Replayed ==
    \A c \in ChainIDs :
        /\ applied[c] # 0 => applied[c] = checkpoint[c] + 1
        /\ derivedRows[c] = 1..(IF applied[c] = 0 THEN checkpoint[c] ELSE applied[c])
        /\ \A e \in 1..MaxEvents : counts[<<c, e>>] = IF e \in derivedRows[c] THEN 1 ELSE 0

Restarted == {"others", "wait", "indexer", "done"}

\* Phase by phase: while the tool drops nothing runs and nothing is under way or in a
\* queue, what is dropped stays so, and from then on there is one replay.
ResetInv ==
    /\ ResetTypeOK
    /\ \A c \in ChainIDs : uriFetched[c] <= events[c] /\ events[c] <= rawLogs[c] /\ rawLogs[c] <= MaxEvents
    /\ ~stale /\ \A m \in messages : m[3] = gen
    /\ tool.pc \in {"queues", "drop", "driver"} => up = {} /\ \A c \in ChainIDs : applied[c] = 0
    /\ tool.pc = "drop" =>
          /\ messages = {}
          /\ "rows" \notin tool.left => \A c \in ChainIDs : derivedRows[c] = {}
          /\ "counts" \notin tool.left => \A x \in ChainIDs \X (1..MaxEvents) : counts[x] = 0
    /\ tool.pc \in {"driver"} \cup Restarted => Replayed
    /\ tool.pc \in {"stop", "queues", "drop", "driver", "others", "wait"} => \A c \in ChainIDs : tool.target[c] = 0
    /\ tool.pc \in Restarted => \A c \in tool.chains : 1..tool.target[c] \subseteq derivedRows[c]

\* The driver runs on an empty database.
LEMMA InitReset == ResetInit => ResetInv
<1> SUFFICES ASSUME ResetInit PROVE ResetInv
  OBVIOUS
<1>1. ResetTypeOK
  BY DEF ResetInit, ResetTypeOK, NoTool
<1>2. tool.pc = "idle" /\ ~stale /\ messages = {}
  BY DEF ResetInit, NoTool
<1>3. \A c \in ChainIDs : uriFetched[c] <= events[c] /\ events[c] <= rawLogs[c] /\ rawLogs[c] <= MaxEvents
  BY ResetAssumption DEF ResetInit
<1>4. QED BY <1>1, <1>2, <1>3 DEF ResetInv, Restarted

\* A step of the system around the tool while nothing of the replay changes.
LEMMA ResetQuiet ==
    ASSUME ResetInv, ResetTypeOK', UNCHANGED <<tool, up, gen, applied, checkpoint, derivedRows, counts>>, ~stale',
           \A c \in ChainIDs : uriFetched'[c] <= events'[c] /\ events'[c] <= rawLogs'[c] /\ rawLogs'[c] <= MaxEvents,
           messages' \subseteq messages
    PROVE  ResetInv'
BY DEF ResetInv, Replayed

\* Every step of the tool and of the services beside it keeps ResetInv.
LEMMA StepReset ==
    ASSUME "no-stop-indexer" \notin Options, ResetInv, [ResetNext]_resetVars
    PROVE  ResetInv'
<1> USE DEF derived
<1>0. MaxEvents \in Nat
  BY ResetAssumption
<1>1. CASE UNCHANGED resetVars
  BY <1>1 DEF resetVars, ResetInv, ResetTypeOK, Replayed
<1>2. ASSUME NEW c \in ChainIDs, AddContract(c) PROVE ResetInv'
  <2>1. ResetTypeOK'
    BY <1>2 DEF AddContract, ResetInv, ResetTypeOK
  <2>2. QED BY <1>2, <2>1, ResetQuiet DEF AddContract, ResetInv
<1>3. ASSUME NEW c \in ChainIDs, Index(c) PROVE ResetInv'
  <2>1. rawLogs[c] < MaxEvents /\ rawLogs' = [rawLogs EXCEPT ![c] = rawLogs[c] + 1]
        /\ UNCHANGED <<up, contracts, events, uriFetched, checkpoint, applied, derivedRows, counts, messages, gen, stale, tool>>
    BY <1>3 DEF Index
  <2>2. ResetTypeOK'
    BY <2>1 DEF ResetInv, ResetTypeOK
  <2>3. \A d \in ChainIDs : uriFetched'[d] <= events'[d] /\ events'[d] <= rawLogs'[d] /\ rawLogs'[d] <= MaxEvents
    BY <1>0, <2>1 DEF ResetInv, ResetTypeOK
  <2>4. ~stale' /\ messages' \subseteq messages
    BY <2>1 DEF ResetInv
  <2>5. QED BY <2>1, <2>2, <2>3, <2>4, ResetQuiet
<1>20. ASSUME NEW c \in ChainIDs, StoreEvent(c) PROVE ResetInv'
  <2>1. events[c] < rawLogs[c] /\ events' = [events EXCEPT ![c] = events[c] + 1]
        /\ UNCHANGED <<up, contracts, rawLogs, uriFetched, checkpoint, applied, derivedRows, counts, messages, gen, stale, tool>>
    BY <1>20 DEF StoreEvent
  <2>2. ResetTypeOK'
    BY <2>1 DEF ResetInv, ResetTypeOK
  <2>3. \A d \in ChainIDs : uriFetched'[d] <= events'[d] /\ events'[d] <= rawLogs'[d] /\ rawLogs'[d] <= MaxEvents
    BY <1>0, <2>1 DEF ResetInv, ResetTypeOK
  <2>4. ~stale' /\ messages' \subseteq messages
    BY <2>1 DEF ResetInv
  <2>5. QED BY <2>1, <2>2, <2>3, <2>4, ResetQuiet
<1>4. ASSUME NEW c \in ChainIDs, ResolveUri(c) PROVE ResetInv'
  <2>1. uriFetched[c] < events[c] /\ uriFetched' = [uriFetched EXCEPT ![c] = uriFetched[c] + 1]
        /\ UNCHANGED <<up, contracts, rawLogs, events, checkpoint, applied, derivedRows, counts, messages, gen, stale, tool>>
    BY <1>4 DEF ResolveUri
  <2>2. ResetTypeOK'
    BY <2>1 DEF ResetInv, ResetTypeOK
  <2>3. \A d \in ChainIDs : uriFetched'[d] <= events'[d] /\ events'[d] <= rawLogs'[d] /\ rawLogs'[d] <= MaxEvents
    BY <1>0, <2>1 DEF ResetInv, ResetTypeOK
  <2>4. ~stale' /\ messages' \subseteq messages
    BY <2>1 DEF ResetInv
  <2>5. QED BY <2>1, <2>2, <2>3, <2>4, ResetQuiet
<1>5. CASE Consume
  <2>1. PICK m \in messages : messages' = messages \ {m} /\ stale' = (stale \/ m[3] < gen)
    BY <1>5 DEF Consume
  <2>2. ~(m[3] < gen)
    BY DEF ResetInv, ResetTypeOK
  <2>3. ~stale'
    BY <2>1, <2>2 DEF ResetInv
  <2>4. ResetTypeOK'
    BY <1>5 DEF Consume, ResetInv, ResetTypeOK
  <2>5. QED BY <1>5, <2>1, <2>3, <2>4, ResetQuiet DEF Consume, ResetInv
<1>6. ASSUME NEW c \in ChainIDs, Apply(c) PROVE ResetInv'
  <2> DEFINE e == checkpoint[c] + 1
  <2>1. /\ "trustrank-worker" \in up /\ applied[c] = 0 /\ checkpoint[c] < uriFetched[c]
        /\ applied' = [applied EXCEPT ![c] = e]
        /\ derivedRows' = [derivedRows EXCEPT ![c] = derivedRows[c] \cup {e}]
        /\ counts' = [counts EXCEPT ![<<c, e>>] = counts[<<c, e>>] + 1]
        /\ messages' = messages \cup {<<c, e, gen>>}
        /\ UNCHANGED <<up, contracts, rawLogs, events, uriFetched, checkpoint, gen, stale, tool>>
    BY <1>6 DEF Apply
  <2>2. e \in 1..MaxEvents /\ checkpoint[c] \in Nat
    BY <1>0, <2>1 DEF ResetInv, ResetTypeOK
  <2> HIDE DEF e
  <2>3. <<c, e>> \in ChainIDs \X (1..MaxEvents)
    BY <2>2
  <2>4. ResetTypeOK'
    BY <2>1, <2>2, <2>3 DEF ResetInv, ResetTypeOK
  <2>5. \A m \in messages' : m[3] = gen
    BY <2>1 DEF ResetInv
  <2>6. tool.pc \notin {"queues", "drop", "driver"}
    BY <2>1 DEF ResetInv
  <2>7. \A d \in ChainIDs : derivedRows[d] \subseteq derivedRows'[d]
    BY <2>1 DEF ResetInv, ResetTypeOK
  <2>8. ASSUME Replayed PROVE Replayed'
    <3>1. derivedRows[c] = 1..checkpoint[c] /\ e = checkpoint[c] + 1
      BY <2>1, <2>8 DEF Replayed, e
    <3>2. e \notin derivedRows[c] /\ derivedRows'[c] = 1..e /\ e # 0
      <4>1. derivedRows'[c] = derivedRows[c] \cup {e}
        BY <2>1 DEF ResetInv, ResetTypeOK
      <4>2. QED BY <2>2, <3>1, <4>1
    <3>3. applied'[c] = e /\ \A d \in ChainIDs : d # c => applied'[d] = applied[d] /\ derivedRows'[d] = derivedRows[d]
      BY <2>1 DEF ResetInv, ResetTypeOK
    <3>4. \A d \in ChainIDs, f \in 1..MaxEvents :
            counts'[<<d, f>>] = IF d = c /\ f = e THEN counts[<<d, f>>] + 1 ELSE counts[<<d, f>>]
      BY <2>1, <2>3 DEF ResetInv, ResetTypeOK
    <3>5. \A f \in 1..MaxEvents : counts'[<<c, f>>] = IF f \in derivedRows'[c] THEN 1 ELSE 0
      <4>1. \A f \in 1..MaxEvents : counts[<<c, f>>] = IF f \in derivedRows[c] THEN 1 ELSE 0
        BY <2>8 DEF Replayed
      <4>2. derivedRows'[c] = derivedRows[c] \cup {e}
        BY <2>1 DEF ResetInv, ResetTypeOK
      <4>3. counts'[<<c, e>>] = 1 /\ e \in derivedRows'[c]
        <5>1. counts[<<c, e>>] = 0 /\ counts'[<<c, e>>] = counts[<<c, e>>] + 1
          BY <2>2, <3>2, <3>4, <4>1
        <5>2. QED BY <4>2, <5>1
      <4>4. \A f \in 1..MaxEvents : f # e => counts'[<<c, f>>] = counts[<<c, f>>] /\ (f \in derivedRows'[c] <=> f \in derivedRows[c])
        BY <3>4, <4>2
      <4>5. QED BY <4>1, <4>3, <4>4
    <3>6. ASSUME NEW d \in ChainIDs, d # c
          PROVE  /\ applied'[d] # 0 => applied'[d] = checkpoint'[d] + 1
                 /\ derivedRows'[d] = 1..(IF applied'[d] = 0 THEN checkpoint'[d] ELSE applied'[d])
                 /\ \A f \in 1..MaxEvents : counts'[<<d, f>>] = IF f \in derivedRows'[d] THEN 1 ELSE 0
      BY <2>1, <2>8, <3>3, <3>4, <3>6 DEF Replayed
    <3>7. QED BY <2>1, <3>1, <3>2, <3>3, <3>5, <3>6 DEF Replayed
  <2>9. QED BY <2>1, <2>4, <2>5, <2>6, <2>7, <2>8 DEF ResetInv
<1>7. ASSUME NEW c \in ChainIDs, SaveCheckpoint(c) PROVE ResetInv'
  <2>1. /\ "trustrank-worker" \in up /\ applied[c] # 0
        /\ checkpoint' = [checkpoint EXCEPT ![c] = applied[c]] /\ applied' = [applied EXCEPT ![c] = 0]
        /\ UNCHANGED <<up, contracts, rawLogs, events, uriFetched, derivedRows, counts, messages, gen, stale, tool>>
    BY <1>7 DEF SaveCheckpoint
  <2>2. ResetTypeOK'
    BY <2>1 DEF ResetInv, ResetTypeOK
  <2>3. /\ checkpoint'[c] = applied[c] /\ applied'[c] = 0
        /\ \A d \in ChainIDs : d # c => checkpoint'[d] = checkpoint[d] /\ applied'[d] = applied[d]
    BY <2>1 DEF ResetInv, ResetTypeOK
  <2>4. Replayed => Replayed'
    BY <2>1, <2>3 DEF Replayed
  <2>5. QED BY <2>1, <2>2, <2>4 DEF ResetInv
<1>8. CASE Collect
  <2>1. PICK flags \in SUBSET Options :
          tool' = [NoTool EXCEPT !.pc = "stop", !.runs = tool.runs + 1, !.flags = flags,
                                 !.chains = contracts \cup {c \in ChainIDs : checkpoint[c] # 0}]
    BY <1>8, Zenon DEF Collect
  <2>2. /\ tool'.pc = "stop" /\ tool'.flags = flags /\ tool'.left = {}
        /\ tool'.chains = contracts \cup {c \in ChainIDs : checkpoint[c] # 0}
        /\ tool'.target = [c \in ChainIDs |-> 0] /\ DOMAIN tool' = DOMAIN NoTool
        /\ DOMAIN NoTool = {"pc", "runs", "flags", "chains", "left", "target"}
    BY <2>1 DEF NoTool
  <2>3. UNCHANGED <<up, contracts, rawLogs, events, uriFetched, checkpoint, applied, derivedRows, counts, messages, gen, stale>>
    BY <1>8 DEF Collect
  <2>4. tool'.target \in [ChainIDs -> Nat] /\ tool'.chains \subseteq ChainIDs /\ \A c \in ChainIDs : tool'.target[c] = 0
    BY <2>2 DEF ResetInv, ResetTypeOK
  <2>5. ResetTypeOK'
    BY <2>2, <2>3, <2>4 DEF ResetInv, ResetTypeOK
  <2>6. QED BY <2>2, <2>3, <2>4, <2>5, SMTT(30) DEF ResetInv, Restarted
\* The steps of a run of the tool move it from phase to phase.
<1>9. CASE StopWorkers
  <2>1. ~Flag("no-stop-indexer")
    BY DEF ResetInv, ResetTypeOK, Flag
  <2>2. /\ tool.pc = "stop" /\ up' = {} /\ applied' = [c \in ChainIDs |-> 0]
        /\ tool' = [tool EXCEPT !.pc = "queues"]
        /\ UNCHANGED <<contracts, rawLogs, events, uriFetched, checkpoint, derivedRows, counts, messages, gen, stale>>
    <3>1. up \ Stopped = {} /\ "trustrank-worker" \in Stopped
      BY DEF ResetInv, ResetTypeOK, Stopped, ComposeServices
    <3>2. QED BY <1>9, <2>1, <3>1 DEF StopWorkers, At, Goto
  <2>3. /\ tool'.pc = "queues" /\ tool'.target = tool.target /\ tool'.chains = tool.chains
        /\ tool'.flags = tool.flags /\ tool'.left = tool.left /\ DOMAIN tool' = DOMAIN tool
    BY <2>2 DEF ResetInv, ResetTypeOK
  <2>4. ResetTypeOK'
    BY <2>2, <2>3 DEF ResetInv, ResetTypeOK
  <2>5. QED BY <2>2, <2>3, <2>4 DEF ResetInv, Restarted
<1>10. CASE DeleteQueues
  <2>1. /\ tool.pc = "queues" /\ messages' = {} /\ tool' = [tool EXCEPT !.pc = "drop", !.left = Collections]
        /\ UNCHANGED <<up, contracts, rawLogs, events, uriFetched, checkpoint, applied, derivedRows, counts, gen, stale>>
    BY <1>10 DEF DeleteQueues, At
  <2>2. /\ tool'.pc = "drop" /\ tool'.target = tool.target /\ tool'.chains = tool.chains
        /\ tool'.flags = tool.flags /\ tool'.left = Collections /\ DOMAIN tool' = DOMAIN tool
    BY <2>1 DEF ResetInv, ResetTypeOK
  <2>3. ResetTypeOK'
    BY <2>1, <2>2 DEF ResetInv, ResetTypeOK
  <2>4. QED BY <2>1, <2>2, <2>3 DEF ResetInv, Restarted, Collections
<1>11. CASE Drop
  <2>1. PICK coll \in tool.left :
          /\ tool.pc = "drop" /\ tool' = [tool EXCEPT !.left = tool.left \ {coll}]
          /\ derivedRows' = IF coll = "rows" THEN [c \in ChainIDs |-> {}] ELSE derivedRows
          /\ counts' = IF coll = "counts" THEN [x \in DOMAIN counts |-> 0] ELSE counts
    BY <1>11 DEF Drop, At
  <2>2. /\ gen' \in {gen, gen + 1}
        /\ UNCHANGED <<up, contracts, rawLogs, events, uriFetched, checkpoint, applied, messages, stale>>
    BY <1>11 DEF Drop
  <2>3. /\ tool'.pc = "drop" /\ tool'.target = tool.target /\ tool'.chains = tool.chains
        /\ tool'.flags = tool.flags /\ tool'.left = tool.left \ {coll} /\ DOMAIN tool' = DOMAIN tool
    BY <2>1 DEF ResetInv, ResetTypeOK
  <2>4. /\ derivedRows' \in [ChainIDs -> SUBSET Nat] /\ counts' \in [ChainIDs \X (1..MaxEvents) -> Nat]
        /\ coll = "rows" => \A c \in ChainIDs : derivedRows'[c] = {}
        /\ coll # "rows" => derivedRows' = derivedRows
        /\ coll = "counts" => \A x \in ChainIDs \X (1..MaxEvents) : counts'[x] = 0
        /\ coll # "counts" => counts' = counts
    BY <2>1 DEF ResetInv, ResetTypeOK
  <2>5. ResetTypeOK'
    BY <2>1, <2>2, <2>3, <2>4 DEF ResetInv, ResetTypeOK
  <2>6. messages = {} /\ \A m \in messages' : m[3] = gen'
    BY <2>1, <2>2 DEF ResetInv
  <2>7. /\ "rows" \notin tool'.left => \A c \in ChainIDs : derivedRows'[c] = {}
        /\ "counts" \notin tool'.left => \A x \in ChainIDs \X (1..MaxEvents) : counts'[x] = 0
    BY <2>1, <2>3, <2>4 DEF ResetInv
  <2>8. QED BY <2>1, <2>2, <2>3, <2>5, <2>6, <2>7 DEF ResetInv, Restarted
<1>12. CASE DeleteCheckpoints
  <2>1. /\ tool.pc = "drop" /\ tool.left = {} /\ checkpoint' = [c \in ChainIDs |-> 0]
        /\ UNCHANGED <<up, contracts, rawLogs, events, uriFetched, applied, derivedRows, counts, messages, gen, stale>>
    BY <1>12 DEF DeleteCheckpoints, At
  <2>2. PICK pc \in {"indexer", "driver"} : tool' = [tool EXCEPT !.pc = pc]
    BY <1>12 DEF DeleteCheckpoints, Goto
  <2>3. /\ tool'.pc = pc /\ tool'.target = tool.target /\ tool'.chains = tool.chains
        /\ tool'.flags = tool.flags /\ tool'.left = tool.left /\ DOMAIN tool' = DOMAIN tool
    BY <2>2 DEF ResetInv, ResetTypeOK
  <2>4. ResetTypeOK'
    BY <2>1, <2>3 DEF ResetInv, ResetTypeOK
  <2>5. Replayed'
    <3>1. /\ \A c \in ChainIDs : applied[c] = 0 /\ derivedRows[c] = {}
          /\ \A c \in ChainIDs, e \in 1..MaxEvents : counts[<<c, e>>] = 0
      BY <2>1 DEF ResetInv
    <3>2. 1..0 = {}
      OBVIOUS
    <3>3. QED BY <2>1, <3>1, <3>2 DEF Replayed
  <2>6. \A c \in ChainIDs : tool.target[c] = 0 /\ 1..0 = {}
    BY <2>1 DEF ResetInv
  <2>7. QED BY <2>1, <2>3, <2>4, <2>5, <2>6 DEF ResetInv, ResetTypeOK, Restarted
<1>13. ASSUME NEW pc \in {"others", "wait", "done", "failed"}, tool' = [tool EXCEPT !.pc = pc],
              UNCHANGED <<contracts, rawLogs, events, uriFetched, checkpoint, applied, derivedRows, counts, messages, gen, stale>>,
              up' \subseteq ComposeServices,
              \/ tool.pc = "driver" /\ pc = "others"
              \/ tool.pc = "others" /\ pc = "wait"
              \/ tool.pc = "indexer" /\ pc = "done"
              \/ pc = "failed"
       PROVE  ResetInv'
  <2>1. /\ tool'.pc = pc /\ tool'.target = tool.target /\ tool'.chains = tool.chains
        /\ tool'.flags = tool.flags /\ tool'.left = tool.left /\ DOMAIN tool' = DOMAIN tool
    BY <1>13 DEF ResetInv, ResetTypeOK
  <2>2. ResetTypeOK'
    BY <1>13, <2>1 DEF ResetInv, ResetTypeOK
  <2>3. tool.pc = "driver" => \A c \in tool.chains : 1..tool.target[c] \subseteq derivedRows[c]
    <3>1. 1..0 = {}
      OBVIOUS
    <3>2. QED BY <3>1 DEF ResetInv, ResetTypeOK
  <2>4. Replayed => Replayed'
    BY <1>13 DEF Replayed
  <2>5. QED BY <1>13, <2>1, <2>2, <2>3, <2>4 DEF ResetInv, Restarted
<1>14. CASE StartDriver \/ StartOthers \/ StartIndexer \/ ToolFails
  <2> USE DEF At, Goto
  <2>1. ASSUME UNCHANGED <<contracts, rawLogs, events, uriFetched, checkpoint, applied, derivedRows, counts, messages, gen, stale>>,
               up' \subseteq ComposeServices,
               \E pc \in {"others", "wait", "done", "failed"} :
                  /\ tool' = [tool EXCEPT !.pc = pc]
                  /\ \/ tool.pc = "driver" /\ pc = "others"
                     \/ tool.pc = "others" /\ pc = "wait"
                     \/ tool.pc = "indexer" /\ pc = "done"
                     \/ pc = "failed"
        PROVE  ResetInv'
    BY <1>13, <2>1
  <2>2. up \subseteq ComposeServices
    BY DEF ResetInv, ResetTypeOK
  <2>3. CASE StartDriver
    BY <2>1, <2>2, <2>3 DEF StartDriver, ComposeServices
  <2>4. CASE StartOthers
    BY <2>1, <2>2, <2>4 DEF StartOthers, ComposeServices
  <2>5. CASE StartIndexer
    BY <2>1, <2>2, <2>5 DEF StartIndexer, ComposeServices
  <2>6. CASE ToolFails
    BY <2>1, <2>2, <2>6 DEF ToolFails
  <2>7. QED BY <1>14, <2>3, <2>4, <2>5, <2>6
<1>15. CASE CaughtUp
  <2>1. /\ tool.pc = "wait" /\ tool' = [tool EXCEPT !.pc = "indexer", !.target = uriFetched]
        /\ \A c \in tool.chains : uriFetched[c] = 0 \/ (checkpoint[c] # 0 /\ checkpoint[c] >= uriFetched[c])
        /\ UNCHANGED <<up, contracts, rawLogs, events, uriFetched, checkpoint, applied, derivedRows, counts, messages, gen, stale>>
    BY <1>15 DEF CaughtUp, At
  <2>2. /\ tool'.pc = "indexer" /\ tool'.target = uriFetched /\ tool'.chains = tool.chains
        /\ tool'.flags = tool.flags /\ tool'.left = tool.left /\ DOMAIN tool' = DOMAIN tool
    BY <2>1 DEF ResetInv, ResetTypeOK
  <2>3. ResetTypeOK'
    BY <2>1, <2>2 DEF ResetInv, ResetTypeOK
  <2>4. Replayed /\ Replayed'
    BY <2>1 DEF ResetInv, Replayed, Restarted
  <2>5. ASSUME NEW c \in tool.chains PROVE 1..uriFetched[c] \subseteq derivedRows[c]
    <3>1. c \in ChainIDs /\ uriFetched[c] \in Nat /\ checkpoint[c] \in Nat /\ applied[c] \in Nat
      BY DEF ResetInv, ResetTypeOK
    <3>2. derivedRows[c] = 1..(IF applied[c] = 0 THEN checkpoint[c] ELSE applied[c])
          /\ (applied[c] # 0 => applied[c] = checkpoint[c] + 1)
      BY <2>4, <3>1 DEF Replayed
    <3>3. uriFetched[c] = 0 \/ checkpoint[c] >= uriFetched[c]
      BY <2>1
    <3>4. QED BY <3>1, <3>2, <3>3
  <2>6. QED BY <2>1, <2>2, <2>3, <2>4, <2>5 DEF ResetInv, Restarted
<1>16. QED
  BY <1>1, <1>2, <1>3, <1>4, <1>5, <1>6, <1>7, <1>8, <1>9, <1>10, <1>11, <1>12, <1>14, <1>15, <1>20 DEF ResetNext, ToolStep

\* Whenever the driver runs again after a reset, what is derived is one replay of the
\* events, however many earlier resets failed half way and wherever the driver was
\* stopped, as long as the operator lets the tool stop the services (main.go).
THEOREM FreshReplayHolds ==
    ASSUME "no-stop-indexer" \notin Options
    PROVE  ResetSpec => []FreshReplay
<1>1. ResetInv => FreshReplay
  BY DEF ResetInv, FreshReplay, Restarted, Replayed
<1>2. ResetInv /\ [ResetNext]_resetVars => ResetInv'
  BY StepReset
<1>3. QED BY <1>1, <1>2, InitReset, PTL DEF ResetSpec

-------------------------------------------------------------------------------
(* ReadSide: pages and ranks. Where the sort is a strict total order R of the    *)
(* documents S, the n-th document is the one that n - 1 others precede.          *)

\* The documents in front of y and its place; an order that decides every pair; a
\* sequence that no pair contradicts.
Ahead(S, R, y) == {x \in S : x # y /\ <<x, y>> \in R}
Position(S, R, y) == Cardinality(Ahead(S, R, y)) + 1
Total(S, R) == \A x, y \in S : x # y => (<<x, y>> \in R <=> <<y, x>> \notin R)
Sorted(s, R) == \A i, j \in DOMAIN s : i < j => <<s[j], s[i]>> \notin R

\* A sequence of all of S, each once.
LEMMA SequenceOfAll ==
    ASSUME NEW S, IsFiniteSet(S), NEW s \in SetToSeqs(S)
    PROVE  /\ Cardinality(S) \in Nat /\ s \in Seq(S) /\ Len(s) = Cardinality(S)
           /\ \A i, j \in DOMAIN s : s[i] = s[j] => i = j
           /\ \A x \in S : \E i \in DOMAIN s : s[i] = x
<1> DEFINE n == Cardinality(S)
<1>1. n \in Nat
  BY FS_CardinalityType
<1>2. s \in [1..n -> S] /\ \A i, j \in 1..n : i # j => s[i] # s[j]
  BY DEF SetToSeqs
<1>3. IsFiniteSet(1..n) /\ Cardinality(1..n) = n
  BY <1>1, FS_Interval
<1>4. s \in Injection(1..n, S)
  BY <1>2 DEF Injection, IsInjective
<1>5. s \in Surjection(1..n, S)
  BY <1>3, <1>4, FS_Injection
<1>6. s \in Seq(S) /\ Len(s) = n /\ DOMAIN s = 1..n
  BY <1>1, <1>2
<1>7. QED BY <1>1, <1>2, <1>5, <1>6 DEF Surjection

\* The rank of a document in the order is what it was.
LEMMA RankIsPosition ==
    ASSUME NEW S, IsFiniteSet(S), NEW R, Total(S, R), NEW s \in SetToSeqs(S), Sorted(s, R),
           NEW i \in DOMAIN s
    PROVE  Position(S, R, s[i]) = i
<1> DEFINE f == [m \in 1..(i - 1) |-> s[m]]
           T == Ahead(S, R, s[i])
<1>1. /\ s \in Seq(S) /\ DOMAIN s = 1..Len(s) /\ Len(s) \in Nat
      /\ \A k, m \in DOMAIN s : s[k] = s[m] => k = m
      /\ \A x \in S : \E k \in DOMAIN s : s[k] = x
  BY SequenceOfAll
<1>2. i \in Nat /\ i - 1 \in Nat /\ \A m \in 1..(i - 1) : m \in DOMAIN s /\ m < i /\ s[m] \in S
  BY <1>1
<1>3. \A m \in 1..(i - 1) : f[m] \in T
  <2>1. TAKE m \in 1..(i - 1)
  <2>2. s[m] # s[i] /\ <<s[i], s[m]>> \notin R /\ s[m] \in S /\ s[i] \in S
    BY <1>1, <1>2 DEF Sorted
  <2>3. <<s[m], s[i]>> \in R
    BY <2>2 DEF Total
  <2>4. QED BY <2>2, <2>3 DEF Ahead
<1>4. \A x \in T : \E m \in 1..(i - 1) : f[m] = x
  <2>1. TAKE x \in T
  <2>2. x \in S /\ x # s[i] /\ <<x, s[i]>> \in R
    BY DEF Ahead
  <2>3. PICK k \in DOMAIN s : s[k] = x
    BY <1>1, <2>2
  <2>4. k # i /\ ~(i < k)
    BY <2>2, <2>3 DEF Sorted
  <2>5. k \in 1..(i - 1)
    BY <1>1, <1>2, <2>4
  <2>6. QED BY <2>3, <2>5
<1>5. f \in Bijection(1..(i - 1), T)
  <2>1. f \in Injection(1..(i - 1), T)
    BY <1>1, <1>2, <1>3 DEF Injection, IsInjective
  <2>2. f \in Surjection(1..(i - 1), T)
    BY <1>3, <1>4 DEF Surjection
  <2>3. QED BY <2>1, <2>2 DEF Bijection
<1>6. Cardinality(T) = i - 1
  <2> HIDE DEF f, T
  <2>1. ExistsBijection(1..(i - 1), T)
    BY <1>5 DEF ExistsBijection
  <2>2. QED BY <1>2, <2>1, FS_CountingElements
<1>7. QED BY <1>2, <1>6 DEF Position

\* A document never moves forward while others are only added.
LEMMA PositionGrows ==
    ASSUME NEW S, NEW T, S \subseteq T, IsFiniteSet(T), NEW R, NEW x
    PROVE  /\ Position(S, R, x) \in Nat /\ Position(T, R, x) \in Nat
           /\ 1 <= Position(S, R, x) /\ Position(S, R, x) <= Position(T, R, x)
<1>1. Ahead(T, R, x) \in SUBSET T /\ Ahead(S, R, x) \in SUBSET Ahead(T, R, x)
  BY DEF Ahead
<1>2. IsFiniteSet(Ahead(T, R, x))
  BY <1>1, FS_Subset
<1>3. /\ IsFiniteSet(Ahead(S, R, x))
      /\ Cardinality(Ahead(S, R, x)) <= Cardinality(Ahead(T, R, x))
  BY <1>1, <1>2, FS_Subset
<1>4. Cardinality(Ahead(S, R, x)) \in Nat /\ Cardinality(Ahead(T, R, x)) \in Nat
  BY <1>2, <1>3, FS_CardinalityType
<1>5. QED BY <1>3, <1>4 DEF Position

-------------------------------------------------------------------------------
\* What is seen is the first documents of the order, in that order.
FirstOf(seen, n, S, R) ==
    /\ Len(seen) = Lesser(n, Cardinality(S))
    /\ \A i \in DOMAIN seen : seen[i] \in S /\ Position(S, R, seen[i]) = i

\* A page shows the documents of the ranks after skip; a short one is the last.
LEMMA OnePage ==
    ASSUME NEW S, S \subseteq Nat, IsFiniteSet(S), NEW R, Total(S, R),
           NEW order \in SetToSeqs(S), Sorted(order, R),
           NEW skip \in Nat, NEW seen \in Seq(Nat), Limit \in Nat \ {0}
    PROVE  LET docs == SubSeq(order, skip + 1, Lesser(skip + Limit, Len(order))) IN
           /\ seen \o docs \in Seq(Nat) /\ Range(seen) \subseteq Range(seen \o docs)
           /\ \A x \in S : Position(S, R, x) \in (skip + 1)..(skip + Limit) => x \in Range(seen \o docs)
           /\ Len(docs) < Limit => \A x \in S : Position(S, R, x) <= skip + Limit
           /\ FirstOf(seen, skip, S, R) => FirstOf(seen \o docs, skip + Limit, S, R)
<1> DEFINE hi == Lesser(skip + Limit, Len(order))
           docs == SubSeq(order, skip + 1, hi)
           all == seen \o docs
<1>1. /\ order \in Seq(S) /\ Len(order) = Cardinality(S) /\ Len(order) \in Nat
      /\ \A x \in S : \E i \in DOMAIN order : order[i] = x
  BY SequenceOfAll
<1>2. hi \in Nat /\ hi <= Len(order) /\ hi <= skip + Limit /\ (hi = Len(order) \/ hi = skip + Limit)
  BY <1>1 DEF Lesser
<1>3. /\ docs \in Seq(Nat) /\ Len(docs) = IF skip + 1 <= hi THEN hi - skip ELSE 0
      /\ \A k \in 1..Len(docs) : docs[k] = order[skip + k] /\ skip + k \in DOMAIN order
  <2>1. order \in Seq(Nat) /\ DOMAIN order = 1..Len(order)
    <3>1. order = [i \in 1..Len(order) |-> order[i]] /\ \A i \in 1..Len(order) : order[i] \in S
      BY <1>1
    <3>2. \A i \in 1..Len(order) : order[i] \in Nat
      BY <3>1
    <3>3. QED BY <1>1, <3>1, <3>2
  <2> HIDE DEF hi
  <2>2. Len(docs) = IF skip + 1 <= hi THEN hi - skip ELSE 0
    BY <1>1, <1>2, <2>1
  <2>3. \A k \in 1..Len(docs) : docs[k] = order[skip + k] /\ skip + k \in DOMAIN order
    BY <1>1, <1>2, <2>1, <2>2
  <2>4. docs = [k \in 1..Len(docs) |-> docs[k]]
    BY <1>1, <1>2, <2>1, <2>2
  <2> HIDE DEF docs
  <2>5. \A k \in 1..Len(docs) : docs[k] \in Nat
    <3>1. \A i \in DOMAIN order : order[i] \in Nat
      BY <2>1
    <3>2. QED BY <2>3, <3>1
  <2>6. Len(docs) \in Nat
    BY <1>2, <2>2
  <2>7. QED BY <2>2, <2>3, <2>4, <2>5, <2>6, SMTT(30)
<1> HIDE DEF hi, docs
<1>4. /\ all \in Seq(Nat) /\ Len(all) = Len(seen) + Len(docs)
      /\ \A k \in 1..Len(seen) : all[k] = seen[k]
      /\ \A k \in 1..Len(docs) : all[Len(seen) + k] = docs[k]
  BY <1>3
<1>5. Len(seen) \in Nat /\ Len(docs) \in Nat /\ DOMAIN seen = 1..Len(seen) /\ DOMAIN docs = 1..Len(docs)
  BY <1>3
<1> HIDE DEF all
<1>6. DOMAIN all = 1..(Len(seen) + Len(docs))
  BY <1>4, <1>5
<1>7. Range(seen) \subseteq Range(all) /\ Range(docs) \subseteq Range(all)
  <2>1. \A k \in DOMAIN seen : k \in DOMAIN all /\ all[k] = seen[k]
    BY <1>4, <1>5, <1>6
  <2>2. \A k \in DOMAIN docs : Len(seen) + k \in DOMAIN all /\ all[Len(seen) + k] = docs[k]
    BY <1>4, <1>5, <1>6
  <2>3. QED BY <2>1, <2>2 DEF Range
<1>8. \A x \in S : \E i \in 1..Len(order) : order[i] = x /\ Position(S, R, x) = i
  BY <1>1, RankIsPosition
<1>9. ASSUME NEW x \in S, Position(S, R, x) \in (skip + 1)..(skip + Limit) PROVE x \in Range(all)
  <2>1. PICK i \in 1..Len(order) : order[i] = x /\ i \in (skip + 1)..(skip + Limit)
    BY <1>8, <1>9
  <2>2. i <= hi
    BY <1>1, <1>2, <2>1
  <2>3. i - skip \in 1..Len(docs) /\ skip + (i - skip) = i
    BY <1>2, <1>3, <2>1, <2>2
  <2>4. docs[i - skip] = x
    BY <1>3, <2>1, <2>3
  <2>5. x \in Range(docs)
    BY <1>5, <2>3, <2>4 DEF Range
  <2>6. QED BY <1>7, <2>5
<1>10. ASSUME Len(docs) < Limit, NEW x \in S PROVE Position(S, R, x) <= skip + Limit
  <2>1. Len(order) <= skip + Limit
    BY <1>1, <1>2, <1>3, <1>10
  <2>2. QED BY <1>1, <1>8, <2>1
<1>11. ASSUME FirstOf(seen, skip, S, R) PROVE FirstOf(all, skip + Limit, S, R)
  <2>1. Len(seen) = Lesser(skip, Len(order)) /\ \A i \in DOMAIN seen : seen[i] \in S /\ Position(S, R, seen[i]) = i
    BY <1>1, <1>11 DEF FirstOf
  <2>2. Len(all) = Lesser(skip + Limit, Len(order))
    BY <1>1, <1>3, <1>4, <2>1 DEF Lesser, hi
  <2>3. Len(docs) > 0 => Len(seen) = skip
    BY <1>1, <1>2, <1>3, <2>1 DEF Lesser
  <2>4. \A k \in 1..Len(docs) : /\ Len(seen) + k = skip + k /\ skip + k \in DOMAIN order
                                /\ all[Len(seen) + k] = order[skip + k]
    <3>1. TAKE k \in 1..Len(docs)
    <3>2. Len(docs) > 0
      BY <1>5
    <3>3. all[Len(seen) + k] = docs[k] /\ docs[k] = order[skip + k] /\ skip + k \in DOMAIN order
      BY <1>3, <1>4
    <3>4. QED BY <2>3, <3>2, <3>3
  <2>5. \A i \in DOMAIN order : order[i] \in S /\ Position(S, R, order[i]) = i
    BY <1>1, RankIsPosition
  <2>6. \A i \in DOMAIN all : \/ i \in DOMAIN seen
                              \/ \E k \in 1..Len(docs) : i = Len(seen) + k
    <3>1. TAKE i \in DOMAIN all
    <3>2. CASE i > Len(seen)
      <4>1. i - Len(seen) \in 1..Len(docs) /\ i = Len(seen) + (i - Len(seen))
        BY <1>5, <1>6, <3>2
      <4>2. QED BY <4>1
    <3>3. QED BY <1>5, <1>6, <3>2
  <2>7. \A i \in DOMAIN all : all[i] \in S /\ Position(S, R, all[i]) = i
    <3>1. TAKE i \in DOMAIN all
    <3>2. CASE i \in DOMAIN seen
      BY <1>4, <1>5, <2>1, <3>2
    <3>3. ASSUME NEW k \in 1..Len(docs), i = Len(seen) + k
          PROVE  all[i] \in S /\ Position(S, R, all[i]) = i
      <4>1. i = skip + k /\ skip + k \in DOMAIN order /\ all[i] = order[skip + k]
        BY <2>4, <3>3
      <4>2. QED BY <2>5, <4>1
    <3>4. QED BY <2>6, <3>2, <3>3
  <2>8. QED BY <1>1, <2>2, <2>7 DEF FirstOf
<1>12. QED BY <1>4, <1>7, <1>9, <1>10, <1>11 DEF all, docs, hi

\* A finite set of numbers has a largest one.
LEMMA FiniteHasMax ==
    ASSUME NEW S, S \subseteq Nat, IsFiniteSet(S), S # {}
    PROVE  Max(S) \in S /\ \A y \in S : Max(S) >= y
<1>1. PICK n \in Nat : ExistsSurjection(1..n, S)
  BY FS_NatSurjection
<1>2. PICK f \in [1..n -> S] : \A x \in S : \E i \in 1..n : f[i] = x
  BY <1>1 DEF ExistsSurjection, Surjection
<1>3. \A i \in 1..n : f[i] \in Nat
  BY <1>2
<1> DEFINE P == {k \in Nat : k \in 1..n => \E i \in 1..k : \A j \in 1..k : f[i] >= f[j]}
<1>4. 0 \in P
  OBVIOUS
<1>5. ASSUME NEW k \in Nat, k \in P PROVE k + 1 \in P
  <2>1. SUFFICES ASSUME k + 1 \in 1..n PROVE \E i \in 1..(k + 1) : \A j \in 1..(k + 1) : f[i] >= f[j]
    OBVIOUS
  <2>2. CASE k = 0
    BY <1>3, <2>1, <2>2
  <2>3. CASE k # 0
    <3>1. PICK i \in 1..k : \A j \in 1..k : f[i] >= f[j]
      BY <1>5, <2>1, <2>3
    <3>2. CASE f[i] >= f[k + 1]
      <4>1. i \in 1..(k + 1) /\ \A j \in 1..(k + 1) : f[i] >= f[j]
        BY <3>1, <3>2
      <4>2. QED BY <4>1
    <3>3. CASE ~(f[i] >= f[k + 1])
      <4>1. \A j \in 1..(k + 1) : f[k + 1] >= f[j]
        BY <1>3, <2>1, <3>1, <3>3
      <4>2. k + 1 \in 1..(k + 1)
        OBVIOUS
      <4>3. QED BY <4>1, <4>2
    <3>4. QED BY <3>2, <3>3
  <2>4. QED BY <2>2, <2>3
<1>6. n \in P
  <2> HIDE DEF P
  <2>1. QED BY <1>4, <1>5, NatSetInduction
<1>7. n # 0 /\ n \in 1..n
  <2>1. PICK y \in S : TRUE
    OBVIOUS
  <2>2. PICK i \in 1..n : f[i] = y
    BY <1>2
  <2>3. QED BY <2>2
<1>8. PICK i \in 1..n : \A j \in 1..n : f[i] >= f[j]
  BY <1>6, <1>7
<1>9. f[i] \in S /\ \A y \in S : f[i] >= y
  BY <1>2, <1>8
<1>10. QED BY <1>9 DEF Max

\* The documents of a list whose sort leaves no choice, and the order of the sort.
Paged == {"feedbacks", "penalties", "wallets"}
\* What the list shows, and which of two documents comes first.
Listed(list) ==
    CASE list.kind = "feedbacks" -> {i \in DOMAIN feedback : Matches(list, i)}
      [] list.kind = "penalties" -> {i \in DOMAIN feedback : list.mode # "fail" /\ feedback[i].revoked}
      [] list.kind = "wallets" -> {c \in Reviewers : Trusts(list, c) # {}}
Precedes(list) ==
    CASE list.kind = "feedbacks" -> {p \in Nat \X Nat : IF list.desc THEN p[1] > p[2] ELSE p[1] < p[2]}
      [] list.kind = "penalties" -> {p \in Nat \X Nat : p[1] > p[2]}
      [] list.kind = "wallets" -> {p \in Nat \X Nat : BetterWallet(list, p[1], p[2])}

\* What the stores hold that lists read.
StoreTypeOK ==
    /\ feedback \in Seq([client : Reviewers, category : {"quality", "others"}, revoked : BOOLEAN, at : Nat])
    /\ wallets \in [Reviewers \X Chains -> Nat]

\* The trusts of a wallet have a best one.
LEMMA BestTrust ==
    ASSUME StoreTypeOK, NEW list \in Lists, list.kind = "wallets",
           NEW c \in Reviewers, Trusts(list, c) # {}
    PROVE  Max(Trusts(list, c)) \in Nat
<1> DEFINE f == [ch \in list.chains |-> wallets[<<c, ch>>]]
           T == {wallets[<<c, ch>>] : ch \in list.chains}
<1>1. list.chains \subseteq Chains /\ IsFiniteSet(list.chains)
  BY ReadAssumption, FS_Subset
<1>2. \A ch \in list.chains : wallets[<<c, ch>>] \in Nat
  BY <1>1 DEF StoreTypeOK
<1>3. f \in Surjection(list.chains, T)
  BY DEF Surjection
<1>4. IsFiniteSet(T)
  <2> HIDE DEF f, T
  <2>1. QED BY <1>1, <1>3, FS_Surjection
<1>5. Trusts(list, c) \in SUBSET T /\ Trusts(list, c) \subseteq Nat
  BY <1>2 DEF Trusts
<1>6. IsFiniteSet(Trusts(list, c))
  <2> HIDE DEF f, T
  <2>1. QED BY <1>4, <1>5, FS_Subset
<1>7. QED BY <1>5, <1>6, FiniteHasMax

\* Every order that is returned is one of the listed documents, sorted.
LEMMA ListIsSorted ==
    ASSUME StoreTypeOK, NEW list \in Lists, list.kind \in Paged
    PROVE  /\ Listed(list) \subseteq Nat /\ IsFiniteSet(Listed(list)) /\ Total(Listed(list), Precedes(list))
           /\ \A s \in ListOrders(list) : s \in SetToSeqs(Listed(list)) /\ Sorted(s, Precedes(list))
<1>1. DOMAIN feedback \subseteq Nat /\ IsFiniteSet(DOMAIN feedback)
  <2>1. DOMAIN feedback = 1..Len(feedback) /\ Len(feedback) \in Nat
    BY DEF StoreTypeOK
  <2>2. QED BY <2>1, FS_Interval
<1>2. CASE list.kind = "feedbacks"
  <2>1. /\ Listed(list) = {i \in DOMAIN feedback : Matches(list, i)}
        /\ Precedes(list) = {p \in Nat \X Nat : IF list.desc THEN p[1] > p[2] ELSE p[1] < p[2]}
        /\ ListOrders(list) = FeedbackOrders(list)
    BY <1>2 DEF Listed, Precedes, ListOrders
  <2>2. Listed(list) \subseteq Nat /\ IsFiniteSet(Listed(list))
    BY <1>1, <2>1, FS_Subset
  <2>3. Total(Listed(list), Precedes(list))
    BY <2>1, <2>2 DEF Total
  <2>4. ASSUME NEW s \in ListOrders(list)
        PROVE  s \in SetToSeqs(Listed(list)) /\ Sorted(s, Precedes(list))
    <3>1. /\ s \in SetToSeqs(Listed(list))
          /\ \A i, j \in DOMAIN s : i < j => ~(IF list.desc THEN s[j] > s[i] ELSE s[j] < s[i])
      BY <2>1, <2>4 DEF FeedbackOrders, Orders
    <3>2. QED BY <2>1, <3>1 DEF Sorted
  <2>5. QED BY <2>2, <2>3, <2>4
<1>3. CASE list.kind = "penalties"
  <2>1. /\ Listed(list) = {i \in DOMAIN feedback : list.mode # "fail" /\ feedback[i].revoked}
        /\ Precedes(list) = {p \in Nat \X Nat : p[1] > p[2]}
        /\ ListOrders(list) = PenaltyOrders(list)
    BY <1>3 DEF Listed, Precedes, ListOrders
  <2>2. Listed(list) \subseteq Nat /\ IsFiniteSet(Listed(list))
    BY <1>1, <2>1, FS_Subset
  <2>3. Total(Listed(list), Precedes(list))
    BY <2>1, <2>2 DEF Total
  <2>4. ASSUME NEW s \in ListOrders(list)
        PROVE  s \in SetToSeqs(Listed(list)) /\ Sorted(s, Precedes(list))
    <3>1. /\ s \in SetToSeqs(Listed(list))
          /\ \A i, j \in DOMAIN s : i < j => ~(s[j] > s[i])
      BY <2>1, <2>4 DEF PenaltyOrders, Orders
    <3>2. QED BY <2>1, <3>1 DEF Sorted
  <2>5. QED BY <2>2, <2>3, <2>4
<1>4. CASE list.kind = "wallets"
  <2>1. /\ Listed(list) = {c \in Reviewers : Trusts(list, c) # {}}
        /\ Precedes(list) = {p \in Nat \X Nat : BetterWallet(list, p[1], p[2])}
        /\ ListOrders(list) = WalletOrders(list)
    BY <1>4 DEF Listed, Precedes, ListOrders
  <2>2. Listed(list) \subseteq Nat /\ IsFiniteSet(Listed(list))
    BY <2>1, ReadAssumption, FS_Subset
  <2>3. \A c \in Listed(list) : Max(Trusts(list, c)) \in Nat
    BY <1>4, <2>1, BestTrust
  <2>4. ASSUME NEW c \in Listed(list), NEW d \in Listed(list), c # d
        PROVE  BetterWallet(list, c, d) <=> ~BetterWallet(list, d, c)
    BY <2>2, <2>3, <2>4 DEF BetterWallet
  <2>5. Total(Listed(list), Precedes(list))
    BY <2>1, <2>2, <2>4 DEF Total
  <2>6. ASSUME NEW s \in ListOrders(list)
        PROVE  s \in SetToSeqs(Listed(list)) /\ Sorted(s, Precedes(list))
    <3>1. /\ s \in SetToSeqs(Listed(list))
          /\ \A i, j \in DOMAIN s : i < j => ~BetterWallet(list, s[j], s[i])
      BY <2>1, <2>6 DEF WalletOrders, Orders
    <3>2. QED BY <2>1, <3>1 DEF Sorted
  <2>7. QED BY <2>2, <2>5, <2>6
<1>5. QED BY <1>2, <1>3, <1>4 DEF Paged

-------------------------------------------------------------------------------
(* ReadSide: the reader.                                                         *)

\* What was there at the beginning still is, and has been seen as far as the reader
\* got, whatever moved: documents only move away from the beginning.
Reached ==
    /\ reader.base \subseteq Listed(reader.list)
    /\ \A x \in reader.base :
          Position(Listed(reader.list), Precedes(reader.list), x) <= SkipOf(reader.page)
            => x \in Range(reader.seen)

\* A reader that reads, and one that has come to the end.
Reading == /\ Growing(reader.list) \/ reader.quiet => Reached
           /\ reader.quiet => FirstOf(reader.seen, SkipOf(reader.page),
                                      Listed(reader.list), Precedes(reader.list))
Ended == /\ Growing(reader.list) \/ reader.quiet => reader.base \subseteq Range(reader.seen)
         /\ reader.quiet => IsInjective(reader.seen)

\* What a reader has is of the shape its place in the reading gives it.
ReaderInv ==
    /\ reader.list \in Lists /\ reader.pc \in {"idle", "reading", "end"}
    /\ reader.pc = "idle" => reader = [pc |-> "idle", list |-> reader.list]
    /\ reader.pc # "idle" =>
          /\ reader = [pc |-> reader.pc, list |-> reader.list, page |-> reader.page,
                       seen |-> reader.seen, quiet |-> reader.quiet, base |-> reader.base]
          /\ reader.page \in Nat \ {0} /\ reader.quiet \in BOOLEAN
          /\ reader.list.kind \in Paged => reader.seen \in Seq(Nat)
          /\ reader.list.kind \in Paged /\ reader.pc = "reading" => Reading
          /\ reader.list.kind \in Paged /\ reader.pc = "end" => Ended

\* A page further.
LEMMA SkipStep ==
    ASSUME NEW page \in Nat \ {0}
    PROVE  SkipOf(page) \in Nat /\ SkipOf(page + 1) = SkipOf(page) + Limit /\ SkipOf(1) = 0
<1>1. Limit \in Nat
  BY ReadAssumption
<1>2. /\ SkipOf(page) = (page - 1) * Limit /\ SkipOf(page + 1) = page * Limit
      /\ SkipOf(1) = 0 * Limit
  BY DEF SkipOf
<1>3. (page - 1) * Limit \in Nat
  BY <1>1
<1>4. page * Limit = (page - 1) * Limit + Limit
  BY <1>1
<1>5. QED BY <1>1, <1>2, <1>3, <1>4

\* Rows are appended and revoked for good: a growing list only grows.
LEMMA ListGrows ==
    ASSUME StoreTypeOK, StoreTypeOK', Len(feedback) <= Len(feedback'),
           \A i \in DOMAIN feedback : feedback[i].revoked => feedback'[i].revoked,
           NEW list \in Lists, Growing(list)
    PROVE  /\ Listed(list) \subseteq Listed(list)' /\ IsFiniteSet(Listed(list)')
           /\ Precedes(list)' = Precedes(list)
<1>1. DOMAIN feedback \subseteq DOMAIN feedback' /\ IsFiniteSet(DOMAIN feedback')
  <2>1. /\ DOMAIN feedback = 1..Len(feedback) /\ Len(feedback) \in Nat
        /\ DOMAIN feedback' = 1..Len(feedback') /\ Len(feedback') \in Nat
    BY DEF StoreTypeOK
  <2>2. QED BY <2>1, FS_Interval
<1>0. Listed(list)' \subseteq DOMAIN feedback' => IsFiniteSet(Listed(list)')
  BY <1>1, FS_Subset
<1>2. CASE list.kind = "penalties"
  BY <1>0, <1>1, <1>2 DEF Listed, Precedes
<1>3. CASE list.kind = "feedbacks" /\ list.category = "" /\ list.status \in {"", "revoked"}
  <2>1. \A i \in DOMAIN feedback : Matches(list, i) => Matches(list, i)'
    BY <1>1, <1>3, Zenon DEF Matches
  <2>2. QED BY <1>0, <1>1, <1>3, <2>1, Zenon DEF Listed, Precedes
<1>4. QED BY <1>2, <1>3, Zenon DEF Growing

\* A write while the list is read.
LEMMA ReaderDisturbed ==
    ASSUME ReaderInv, StoreTypeOK, StoreTypeOK', Disturb, Len(feedback) <= Len(feedback'),
           \A i \in DOMAIN feedback : feedback[i].revoked => feedback'[i].revoked
    PROVE  ReaderInv'
<1>1. CASE reader.pc = "idle"
  BY <1>1 DEF Disturb, ReaderInv
<1>2. CASE reader.pc # "idle"
  <2>1. /\ reader'.pc = reader.pc /\ reader'.list = reader.list /\ reader'.page = reader.page
        /\ reader'.seen = reader.seen /\ reader'.quiet = FALSE /\ reader'.base = reader.base
        /\ reader' = [pc |-> reader'.pc, list |-> reader'.list, page |-> reader'.page,
                       seen |-> reader'.seen, quiet |-> reader'.quiet, base |-> reader'.base]
    BY <1>2 DEF Disturb, ReaderInv
  <2>2. ASSUME reader.list.kind \in Paged, reader.pc = "reading", Growing(reader.list) PROVE Reached'
    <3> DEFINE S == Listed(reader.list)
               R == Precedes(reader.list)
    <3>1. Reached /\ reader.list \in Lists
      BY <1>2, <2>2 DEF ReaderInv, Reading
    <3>2. \A list \in Lists : Growing(list) =>
             /\ Listed(list) \subseteq Listed(list)' /\ IsFiniteSet(Listed(list)')
             /\ Precedes(list)' = Precedes(list)
      BY ListGrows
    <3>3. S \subseteq Listed(reader.list)' /\ Precedes(reader.list)' = R
      BY <2>1, <2>2, <3>1, <3>2
    <3>4. IsFiniteSet(Listed(reader.list)')
      BY <2>1, <2>2, <3>1, <3>2
    <3>5. ASSUME NEW x PROVE Position(S, R, x) <= Position(Listed(reader.list)', R, x)
                             /\ Position(S, R, x) \in Nat /\ Position(Listed(reader.list)', R, x) \in Nat
      <4> HIDE DEF S, R
      <4> QED BY <3>3, <3>4, PositionGrows
    <3>6. SkipOf(reader.page)' = SkipOf(reader.page) /\ SkipOf(reader.page) \in Nat
      BY <1>2, <2>1, SkipStep DEF ReaderInv, SkipOf
    <3>7. QED BY <2>1, <3>1, <3>3, <3>5, <3>6 DEF Reached
  <2>3. reader.list.kind \in Paged /\ reader.pc = "reading" => Reading'
    BY <2>1, <2>2, Zenon DEF Reading, Growing
  <2>4. reader.list.kind \in Paged /\ reader.pc = "end" => Ended'
    BY <1>2, <2>1, Zenon DEF ReaderInv, Ended, Growing
  <2>5. QED BY <1>2, <2>1, <2>3, <2>4 DEF ReaderInv
<1>3. QED BY <1>1, <1>2

\* The first page begins at the beginning.
LEMMA StepOpen ==
    ASSUME ReaderInv, StoreTypeOK, Open
    PROVE  ReaderInv'
<1>1. /\ reader.pc = "idle" /\ reader.list \in Lists
      /\ reader' = [pc |-> "reading", list |-> reader.list, page |-> 1, seen |-> <<>>, quiet |-> TRUE,
                    base |-> UNION {Range(s) : s \in ListOrders(reader.list)}]
      /\ UNCHANGED <<feedback, wallets, scoreStats, scores, stars, writes>>
  BY DEF Open, ReaderInv
<1>2. /\ reader'.pc = "reading" /\ reader'.list = reader.list /\ reader'.page = 1
      /\ reader'.seen = <<>> /\ reader'.quiet = TRUE
      /\ reader'.base = UNION {Range(s) : s \in ListOrders(reader.list)}
  BY <1>1
<1>3. ASSUME reader.list.kind \in Paged PROVE Reading'
  <2> DEFINE S == Listed(reader.list)
             R == Precedes(reader.list)
  <2>1. /\ IsFiniteSet(S)
        /\ \A s \in ListOrders(reader.list) : s \in SetToSeqs(S)
    BY <1>1, <1>3, ListIsSorted
  <2>2. Listed(reader.list)' = S /\ Precedes(reader.list)' = R
    <3>1. \A list \in Lists : Listed(list)' = Listed(list) /\ Precedes(list)' = Precedes(list)
      BY <1>1 DEF Listed, Precedes, Matches, Trusts, BetterWallet
    <3>2. QED BY <1>1, <1>2, <3>1
  <2>3. reader'.base \subseteq S
    <3>1. \A s \in ListOrders(reader.list) : Range(s) \subseteq S
      BY <2>1, SequenceOfAll DEF Range
    <3>2. QED BY <1>2, <3>1
  <2>4. SkipOf(reader.page)' = 0
    BY <1>2, SkipStep DEF SkipOf
  <2>5. \A x : Position(S, R, x) \in Nat /\ 1 <= Position(S, R, x)
    <3> HIDE DEF S, R
    <3> QED BY <2>1, PositionGrows
  <2>6. Reached'
    BY <1>2, <2>2, <2>3, <2>4, <2>5 DEF Reached
  <2>7. FirstOf(<<>>, 0, S, R)
    <3>1. Cardinality(S) \in Nat /\ Len(<<>>) = 0 /\ DOMAIN <<>> = {}
      BY <2>1, FS_CardinalityType
    <3>2. QED BY <3>1 DEF FirstOf, Lesser
  <2>8. QED BY <1>2, <2>2, <2>4, <2>6, <2>7 DEF Reading
<1>4. QED BY <1>1, <1>2, <1>3 DEF ReaderInv

\* A page shows what stands between the rank of its first row and that of its last.
LEMMA StepPage ==
    ASSUME ReaderInv, StoreTypeOK, NextPage
    PROVE  ReaderInv'
<1> DEFINE S == Listed(reader.list)
           R == Precedes(reader.list)
           skip == SkipOf(reader.page)
<1>1. /\ reader.pc = "reading" /\ reader.list \in Lists /\ reader.page \in Nat \ {0} /\ reader.quiet \in BOOLEAN
      /\ UNCHANGED <<feedback, wallets, scoreStats, scores, stars, writes>>
  BY SMTT(30) DEF NextPage, ReaderInv
<1>2. PICK order \in ListOrders(reader.list) :
         LET docs == SubSeq(order, skip + 1, Lesser(skip + Limit, Len(order)))
         IN  reader' = [reader EXCEPT
                 !.page = @ + 1,
                 !.pc = IF Len(docs) < Limit THEN "end" ELSE @,
                 !.seen = @ \o IF reader.list.kind = "agents"
                               THEN SelectSeq(docs, LAMBDA a : Shown(reader.list, a)) ELSE docs]
  BY Zenon DEF NextPage
<1> DEFINE docs == SubSeq(order, skip + 1, Lesser(skip + Limit, Len(order)))
<1>3. /\ reader'.pc = (IF Len(docs) < Limit THEN "end" ELSE "reading") /\ reader'.list = reader.list
      /\ reader'.page = reader.page + 1 /\ reader'.quiet = reader.quiet /\ reader'.base = reader.base
      /\ reader.list.kind # "agents" => reader'.seen = reader.seen \o docs
      /\ reader' = [pc |-> reader'.pc, list |-> reader'.list, page |-> reader'.page,
                    seen |-> reader'.seen, quiet |-> reader'.quiet, base |-> reader'.base]
  <2> HIDE DEF skip
  <2>1. /\ reader.pc = "reading"
        /\ reader = [pc |-> reader.pc, list |-> reader.list, page |-> reader.page,
                     seen |-> reader.seen, quiet |-> reader.quiet, base |-> reader.base]
    BY <1>1 DEF ReaderInv
  <2> HIDE DEF docs
  <2>2. reader' = [reader EXCEPT
                 !.page = @ + 1,
                 !.pc = IF Len(docs) < Limit THEN "end" ELSE @,
                 !.seen = @ \o IF reader.list.kind = "agents"
                               THEN SelectSeq(docs, LAMBDA a : Shown(reader.list, a)) ELSE docs]
    BY <1>2 DEF docs
  <2>3. QED BY <2>1, <2>2
<1>4. CASE reader.list.kind \notin Paged
  <2>1. reader'.pc \in {"reading", "end"} /\ reader'.page \in Nat \ {0}
    <3> HIDE DEF docs
    <3>1. QED BY <1>1, <1>3
  <2> HIDE DEF docs
  <2>2. QED BY <1>1, <1>3, <1>4, <2>1 DEF ReaderInv
<1>5. CASE reader.list.kind \in Paged
  <2>1. /\ S \subseteq Nat /\ IsFiniteSet(S) /\ Total(S, R)
        /\ order \in SetToSeqs(S) /\ Sorted(order, R)
    BY <1>1, <1>5, ListIsSorted
  <2>2. reader.seen \in Seq(Nat) /\ Reading
    BY <1>1, <1>5 DEF ReaderInv
  <2>3. /\ skip \in Nat /\ SkipOf(reader.page)' = skip + Limit /\ Limit \in Nat \ {0}
    BY <1>1, <1>3, SkipStep, ReadAssumption DEF SkipOf
  <2>4. /\ reader'.seen = reader.seen \o docs
        /\ Listed(reader.list)' = S /\ Precedes(reader.list)' = R
    <3>1. \A list \in Lists : Listed(list)' = Listed(list) /\ Precedes(list)' = Precedes(list)
      BY <1>1 DEF Listed, Precedes, Matches, Trusts, BetterWallet
    <3>2. QED BY <1>1, <1>3, <1>5, <3>1 DEF Paged
  <2> DEFINE seen == reader.seen
  <2>5. /\ seen \o docs \in Seq(Nat) /\ Range(seen) \subseteq Range(seen \o docs)
        /\ \A x \in S : Position(S, R, x) \in (skip + 1)..(skip + Limit) => x \in Range(seen \o docs)
        /\ Len(docs) < Limit => \A x \in S : Position(S, R, x) <= skip + Limit
        /\ FirstOf(seen, skip, S, R) => FirstOf(seen \o docs, skip + Limit, S, R)
    <3> HIDE DEF S, R, skip
    <3>1. seen \in Seq(Nat)
      BY <2>2
    <3> HIDE DEF seen
    <3>2. QED BY <2>1, <2>3, <3>1, OnePage DEF docs
  <2> HIDE DEF docs
  <2>6. \A x \in S : Position(S, R, x) \in Nat
    <3> HIDE DEF S, R
    <3> QED BY <2>1, PositionGrows
  <2>7. Growing(reader.list) \/ reader.quiet => Reached'
    <3>1. SUFFICES ASSUME Reached PROVE Reached'
      BY <2>2 DEF Reading
    <3>2. ASSUME NEW x \in reader.base, Position(S, R, x) <= skip + Limit PROVE x \in Range(seen \o docs)
      <4>1. x \in S /\ (Position(S, R, x) <= skip => x \in Range(seen))
        BY <3>1 DEF Reached
      <4>2. CASE Position(S, R, x) <= skip
        BY <2>5, <4>1, <4>2
      <4>3. CASE ~(Position(S, R, x) <= skip)
        <5>1. Position(S, R, x) \in (skip + 1)..(skip + Limit)
          BY <2>3, <2>6, <3>2, <4>1, <4>3
        <5>2. QED BY <2>5, <4>1, <5>1
      <4>4. QED BY <4>2, <4>3
    <3>3. QED BY <1>3, <2>3, <2>4, <3>1, <3>2 DEF Reached
  <2>8. Reading'
    BY <1>3, <2>2, <2>3, <2>4, <2>5, <2>7 DEF Reading
  <2>9. ASSUME Len(docs) < Limit PROVE Ended'
    <3>1. ASSUME Reached' PROVE reader.base \subseteq Range(reader'.seen)
      <4>1. reader.base \subseteq S
        BY <1>3, <2>4, <3>1 DEF Reached
      <4>2. \A x \in reader.base : Position(S, R, x) <= skip + Limit
        BY <2>5, <2>9, <4>1
      <4>3. QED BY <1>3, <2>3, <2>4, <3>1, <4>2 DEF Reached
    <3>2. ASSUME FirstOf(reader'.seen, skip + Limit, S, R) PROVE IsInjective(reader'.seen)
      BY <3>2 DEF FirstOf, IsInjective
    <3>3. QED BY <1>3, <2>3, <2>4, <2>8, <3>1, <3>2 DEF Ended, Reading
  <2>10. reader'.seen \in Seq(Nat) /\ reader'.page \in Nat \ {0}
    BY <1>1, <1>3, <2>4, <2>5
  <2>11. QED BY <1>1, <1>3, <2>8, <2>9, <2>10 DEF ReaderInv
<1>6. QED BY <1>4, <1>5

\* The inductive invariant of the lists.
ReadInv == StoreTypeOK /\ ReaderInv

\* Whatever leaves the reader and what lists read alone keeps ReadInv.
LEMMA ReaderUntouched ==
    ASSUME ReadInv, UNCHANGED <<feedback, wallets, reader>>
    PROVE  ReadInv'
<1>1. StoreTypeOK'
  BY DEF ReadInv, StoreTypeOK
<1>2. \A list : Listed(list)' = Listed(list) /\ Precedes(list)' = Precedes(list)
  BY DEF Listed, Precedes, Matches, Trusts, BetterWallet
<1>3. Listed(reader.list)' = Listed(reader.list) /\ Precedes(reader.list)' = Precedes(reader.list)
  BY <1>2
<1>4. Reading' = Reading /\ Ended' = Ended
  BY <1>3 DEF Reading, Ended, Reached, SkipOf
<1>5. QED BY <1>1, <1>4 DEF ReadInv, ReaderInv

\* One row changes.
LEMMA RowChanged ==
    ASSUME StoreTypeOK, NEW i \in DOMAIN feedback
    PROVE  LET Rows == Seq([client : Reviewers, category : {"quality", "others"}, revoked : BOOLEAN, at : Nat]) IN
           [feedback EXCEPT ![i].revoked = TRUE] \in Rows /\ [feedback EXCEPT ![i].category = "quality"] \in Rows
<1> DEFINE Row == [client : Reviewers, category : {"quality", "others"}, revoked : BOOLEAN, at : Nat]
<1>0. feedback \in Seq(Row)
  BY DEF StoreTypeOK
<1>1. feedback[i] \in Row
  <2> HIDE DEF Row
  <2> QED BY <1>0
<1>2. [feedback[i] EXCEPT !.revoked = TRUE] \in Row /\ [feedback[i] EXCEPT !.category = "quality"] \in Row
  BY <1>1
<1> HIDE DEF Row
<1>3. \A r \in Row : [feedback EXCEPT ![i] = r] \in Seq(Row)
  BY <1>0
<1>4. QED BY <1>2, <1>3 DEF Row

\* Every step of the lists, the reader and the rising stars keeps ReadInv.
LEMMA StepRead ==
    ASSUME ReadInv, [ReadNext]_readVars
    PROVE  ReadInv'
<1>1. ASSUME Disturb, UNCHANGED feedback, StoreTypeOK' PROVE ReadInv'
  <2>1. Len(feedback) \in Nat
    BY DEF ReadInv, StoreTypeOK
  <2>2. QED BY <1>1, <2>1, ReaderDisturbed DEF ReadInv
<1>2. CASE NewFeedback
  <2>1. PICK c \in Reviewers, category \in {"quality", "others"}, at \in Nat :
           feedback' = Append(feedback, [client |-> c, category |-> category, revoked |-> FALSE, at |-> at])
    <3>1. feedback # <<>> => Last(feedback).at \in Nat
      <4> DEFINE Row == [client : Reviewers, category : {"quality", "others"}, revoked : BOOLEAN, at : Nat]
      <4>0. feedback \in Seq(Row)
        BY DEF ReadInv, StoreTypeOK
      <4> HIDE DEF Row
      <4>1. feedback # <<>> => Len(feedback) \in DOMAIN feedback
        BY <4>0
      <4>2. \A i \in DOMAIN feedback : feedback[i].at \in Nat
        <5>1. \A i \in DOMAIN feedback : feedback[i] \in Row
          BY <4>0
        <5>2. QED BY <5>1 DEF Row
      <4>3. QED BY <4>1, <4>2 DEF Last
    <3>2. PICK c \in Reviewers, category \in {"quality", "others"},
               at \in IF feedback = <<>> THEN {0} ELSE {Last(feedback).at, Last(feedback).at + 1} :
             feedback' = Append(feedback, [client |-> c, category |-> category, revoked |-> FALSE, at |-> at])
      BY <1>2 DEF NewFeedback
    <3>3. at \in Nat
      BY <3>1, <3>2
    <3>4. QED BY <3>2, <3>3
  <2>2. StoreTypeOK'
    BY <1>2, <2>1 DEF NewFeedback, ReadInv, StoreTypeOK
  <2>3. /\ Len(feedback) <= Len(feedback')
        /\ \A i \in DOMAIN feedback : feedback[i].revoked => feedback'[i].revoked
    BY <2>1 DEF ReadInv, StoreTypeOK
  <2>4. QED BY <1>2, <2>2, <2>3, ReaderDisturbed DEF NewFeedback, ReadInv
<1>3. CASE RevokeRow
  <2>1. PICK i \in DOMAIN feedback : feedback' = [feedback EXCEPT ![i].revoked = TRUE]
    BY <1>3 DEF RevokeRow
  <2>2. StoreTypeOK'
    BY <1>3, <2>1, RowChanged DEF RevokeRow, ReadInv, StoreTypeOK
  <2>3. /\ Len(feedback) <= Len(feedback')
        /\ \A j \in DOMAIN feedback : feedback[j].revoked => feedback'[j].revoked
    BY <2>1 DEF ReadInv, StoreTypeOK
  <2>4. QED BY <1>3, <2>2, <2>3, ReaderDisturbed DEF RevokeRow, ReadInv
<1>4. CASE Decide
  <2>1. PICK i \in DOMAIN feedback : feedback' = [feedback EXCEPT ![i].category = "quality"]
    BY <1>4 DEF Decide
  <2>2. StoreTypeOK'
    BY <1>4, <2>1, RowChanged DEF Decide, ReadInv, StoreTypeOK
  <2>3. /\ Len(feedback) <= Len(feedback')
        /\ \A j \in DOMAIN feedback : feedback[j].revoked => feedback'[j].revoked
    BY <2>1 DEF ReadInv, StoreTypeOK
  <2>4. QED BY <1>4, <2>2, <2>3, ReaderDisturbed DEF Decide, ReadInv
<1>5. CASE RateWallet
  <2>1. StoreTypeOK'
    BY <1>5, ReadAssumption DEF RateWallet, ReadInv, StoreTypeOK
  <2>2. QED BY <1>1, <1>5, <2>1 DEF RateWallet
<1>6. CASE Rescore \/ CopyScore
  <2>1. StoreTypeOK'
    BY <1>6 DEF Rescore, CopyScore, ReadInv, StoreTypeOK
  <2>2. QED BY <1>1, <1>6, <2>1 DEF Rescore, CopyScore
<1>7. CASE Open
  <2>1. StoreTypeOK'
    BY <1>7 DEF Open, ReadInv, StoreTypeOK
  <2>2. QED BY <1>7, <2>1, StepOpen DEF ReadInv
<1>8. CASE NextPage
  <2>1. StoreTypeOK'
    BY <1>8, SMTT(30) DEF NextPage, ReadInv, StoreTypeOK
  <2>2. QED BY <1>8, <2>1, StepPage DEF ReadInv
<1>9. CASE AskStars \/ ReadChain \/ MergeStars \/ UNCHANGED readVars
  BY <1>9, ReaderUntouched, Zenon DEF AskStars, ReadChain, MergeStars, readVars
<1>10. QED BY <1>2, <1>3, <1>4, <1>5, <1>6, <1>7, <1>8, <1>9 DEF ReadNext

\* Nothing is stored and no list is open.
LEMMA InitRead == ReadInit => ReadInv
BY DEF ReadInit, ReadInv, StoreTypeOK, ReaderInv

\* Whoever reads a list that only grows to its end has seen every row that was in it
\* at the beginning, whatever was given, revoked or graded between the pages; of any
\* list with a last sort key, while it is not written, each row exactly once
\* (feedback/queries.go, wallet repo_ranking.go, dto/request.go).
THEOREM PagesLoseNothingHolds == ReadSpec => []PagesLoseNothing
<1>1. ReadInv => PagesLoseNothing
  BY DEF ReadInv, ReaderInv, Ended, PagesLoseNothing, Paged, SeenIds
<1>2. ReadInv /\ [ReadNext]_readVars => ReadInv'
  BY StepRead
<1>3. QED BY <1>1, <1>2, InitRead, PTL DEF ReadSpec

-------------------------------------------------------------------------------
(* ReadSide: the rising stars.                                                   *)

\* A row as it is read, and the agents of a chain.
StarRow == [id : Agents, delta : Nat]
OfChain(c) == {a \in Agents : ChainOf[a] = c}

\* The delta as it is stored, and as a row shows it.
StoredDelta(a) == scoreStats[a].delta
RoundedDelta(a) == Round2(scoreStats[a].delta)

\* What was read of a chain is the top of it: in the order of the stored deltas, and
\* whoever was left out has no larger one, and is left out only when as many rows
\* were read as the answer may have.
TopOfChain(top, c) ==
    /\ top \in Seq(StarRow) /\ Len(top) <= Stars
    /\ \A i \in DOMAIN top : top[i].id \in OfChain(c) /\ top[i].delta = RoundedDelta(top[i].id)
    /\ \A i, j \in DOMAIN top : top[i].id = top[j].id => i = j
    /\ \A i, j \in DOMAIN top : i < j => StoredDelta(top[j].id) <= StoredDelta(top[i].id)
    /\ \A a \in OfChain(c) :
          \/ \E i \in DOMAIN top : top[i].id = a
          \/ Len(top) = Stars /\ \A i \in DOMAIN top : StoredDelta(a) <= StoredDelta(top[i].id)

\* The inductive invariant of the stars: chains read while no score was written are
\* at their top.
StarsInv ==
    /\ scoreStats \in [Agents -> [score : Nat, delta : Nat]]
    /\ stars.pc \in {"idle", "reading", "done"}
    /\ stars.pc = "idle" => stars = [pc |-> "idle"]
    /\ stars.pc # "idle" =>
          /\ stars = [pc |-> stars.pc, read |-> stars.read, left |-> stars.left,
                      quiet |-> stars.quiet, rows |-> stars.rows]
          /\ stars.left \subseteq Chains /\ DOMAIN stars.read = Chains /\ stars.quiet \in BOOLEAN
          /\ stars.read = [c \in Chains |-> stars.read[c]]
    /\ stars.pc = "reading" /\ stars.quiet => \A c \in Chains \ stars.left : TopOfChain(stars.read[c], c)
    /\ StarsAreBest

\* Division by one number keeps the order.
LEMMA QuotientsInOrder ==
    ASSUME NEW m \in Nat, NEW n \in Nat, NEW k \in Nat \ {0}, m <= n
    PROVE  m \div k <= n \div k
<1> DEFINE p == m \div k
           q == n \div k
<1>1. p \in Int /\ q \in Int /\ k * p <= m /\ n < k * (q + 1)
  BY SMTT(60)
<1> HIDE DEF p, q
<1>2. SUFFICES ASSUME p > q PROVE FALSE
  BY <1>1 DEF p, q
<1>3. p >= q + 1
  BY <1>1, <1>2
<1>4. k * p >= k * (q + 1)
  BY <1>1, <1>3, SMTT(60)
<1>5. k * p \in Int /\ k * (q + 1) \in Int
  BY <1>1
<1>6. QED BY <1>1, <1>4, <1>5

\* So does rounding.
LEMMA RoundedInOrder ==
    ASSUME NEW m \in Nat, NEW n \in Nat, m <= n
    PROVE  Round2(m) \in Nat /\ Round2(n) \in Nat /\ Round2(m) <= Round2(n)
<1>0. Cent \in Nat \ {0}
  BY ReadAssumption
<1>1. Cent \div 2 \in Nat
  BY <1>0
<1>2. \A p \in Nat, q \in Nat \ {0} : p \div q \in Nat
  BY SMTT(60)
<1> DEFINE h == Cent \div 2
<1>3. m + h \in Nat /\ n + h \in Nat /\ m + h <= n + h
  BY <1>1
<1> HIDE DEF h
<1>4. (m + h) \div Cent <= (n + h) \div Cent
  BY <1>0, <1>3, QuotientsInOrder
<1>5. QED BY <1>0, <1>2, <1>3, <1>4 DEF Round2, h

\* What is stored and shown of the agents: numbers, in one order.
LEMMA DeltaFacts ==
    ASSUME scoreStats \in [Agents -> [score : Nat, delta : Nat]], NEW a \in Agents
    PROVE  /\ StoredDelta(a) \in Nat /\ RoundedDelta(a) \in Nat
           /\ \A b \in Agents : StoredDelta(a) <= StoredDelta(b) => RoundedDelta(a) <= RoundedDelta(b)
<1>1. \A b \in Agents : StoredDelta(b) \in Nat
  BY DEF StoredDelta
<1>2. RoundedDelta(a) \in Nat
  BY <1>1, RoundedInOrder DEF RoundedDelta, StoredDelta
<1>3. ASSUME NEW b \in Agents, StoredDelta(a) <= StoredDelta(b) PROVE RoundedDelta(a) <= RoundedDelta(b)
  BY <1>1, <1>3, RoundedInOrder DEF RoundedDelta, StoredDelta
<1>4. QED BY <1>1, <1>2, <1>3

\* The rows of one chain are the top of it.
LEMMA ReadIsTop ==
    ASSUME scoreStats \in [Agents -> [score : Nat, delta : Nat]], NEW c \in Chains,
           NEW order \in DeltaOrders(c)
    PROVE  LET top == SubSeq(order, 1, Lesser(ChainLimit(Chains), Len(order))) IN
           TopOfChain([i \in 1..Len(top) |-> [id |-> top[i], delta |-> Round2(scoreStats[top[i]].delta)]], c)
<1> DEFINE n == Lesser(Stars, Len(order))
           top == SubSeq(order, 1, n)
           topRows == [i \in 1..Len(top) |-> [id |-> top[i], delta |-> RoundedDelta(top[i])]]
<1>1. /\ order \in SetToSeqs(OfChain(c))
      /\ \A i, j \in DOMAIN order : i < j => ~(StoredDelta(order[j]) > StoredDelta(order[i]))
  BY DEF DeltaOrders, Orders, OfChain, StoredDelta
<1>2. OfChain(c) \subseteq Agents /\ IsFiniteSet(OfChain(c))
  BY ReadAssumption, FS_Subset DEF OfChain
<1>3. /\ order \in Seq(OfChain(c)) /\ DOMAIN order = 1..Len(order) /\ Len(order) \in Nat
      /\ \A i, j \in DOMAIN order : order[i] = order[j] => i = j
      /\ \A a \in OfChain(c) : \E i \in DOMAIN order : order[i] = a
  BY <1>1, <1>2, SequenceOfAll
<1>0. \A i : i \in DOMAIN order <=> i \in Nat /\ 1 <= i /\ i <= Len(order)
  BY <1>3
<1>4. /\ n \in Nat /\ n <= Len(order) /\ n <= Stars /\ (n = Len(order) \/ n = Stars)
  BY <1>3, ReadAssumption, SMTT(30) DEF Lesser
<1>5. Len(top) = n /\ \A i \in 1..n : top[i] = order[i]
  <2> HIDE DEF n
  <2>1. order \in Seq(OfChain(c)) /\ n \in Nat /\ n <= Len(order)
    BY <1>3, <1>4, Zenon
  <2>2. Len(top) = IF 1 <= n THEN n - 1 + 1 ELSE 0
    BY <2>1
  <2>3. \A i \in 1..(n - 1 + 1) : top[i] = order[1 + i - 1]
    BY <2>1
  <2>4. QED BY <2>1, <2>2, <2>3
<1> HIDE DEF n, top
<1>6. \A i \in 1..n : /\ i \in DOMAIN order /\ order[i] \in OfChain(c) /\ order[i] \in Agents
                       /\ StoredDelta(order[i]) \in Nat /\ RoundedDelta(order[i]) \in Nat
                       /\ topRows[i] = [id |-> order[i], delta |-> RoundedDelta(order[i])]
  <2>1. TAKE i \in 1..n
  <2>2. i \in DOMAIN order
    <3>1. Len(order) \in Nat
      BY <1>3
    <3>2. QED BY <1>0, <1>4, <3>1
  <2>3. order[i] \in OfChain(c) /\ order[i] \in Agents
    BY <1>2, <1>3, <2>2
  <2>4. topRows[i] = [id |-> order[i], delta |-> RoundedDelta(order[i])]
    BY <1>5
  <2>5. QED BY <2>2, <2>3, <2>4, DeltaFacts
<1>7. /\ topRows \in Seq(StarRow) /\ Len(topRows) = n /\ DOMAIN topRows = 1..n
  <2>1. topRows = [i \in 1..n |-> topRows[i]] /\ \A i \in 1..n : topRows[i] \in StarRow
    BY <1>5, <1>6 DEF StarRow
  <2> HIDE DEF topRows
  <2>2. QED BY <1>4, <2>1
<1> HIDE DEF topRows
<1>8. ASSUME NEW a \in OfChain(c), ~\E i \in DOMAIN topRows : topRows[i].id = a
      PROVE  n = Stars /\ \A i \in DOMAIN topRows : StoredDelta(a) <= StoredDelta(topRows[i].id)
  <2>1. PICK k \in DOMAIN order : order[k] = a
    BY <1>3
  <2>2. k > n /\ k \in Nat
    <3>1. k \in Nat /\ n \in Nat /\ 1 <= k
      BY <1>0, <1>4, <2>1
    <3>2. ASSUME k \in 1..n PROVE topRows[k].id = a
      <4>1. topRows[k] = [id |-> order[k], delta |-> RoundedDelta(order[k])]
        BY <1>6, <3>2
      <4>2. QED BY <2>1, <4>1
    <3>3. QED BY <1>7, <1>8, <3>1, <3>2
  <2>3. n = Stars
    <3>1. k <= Len(order) /\ Len(order) \in Nat
      BY <1>3, <2>1
    <3>2. QED BY <1>4, <2>2, <3>1
  <2>4. ASSUME NEW i \in DOMAIN topRows PROVE StoredDelta(a) <= StoredDelta(topRows[i].id)
    <3>1. i \in DOMAIN order /\ i < k /\ topRows[i].id = order[i]
      <4>1. i \in 1..n
        BY <1>7
      <4>2. topRows[i] = [id |-> order[i], delta |-> RoundedDelta(order[i])] /\ i \in DOMAIN order
        BY <1>6, <4>1
      <4>3. i < k
        BY <1>4, <2>2, <4>1
      <4>4. QED BY <4>2, <4>3
    <3>2. ~(StoredDelta(a) > StoredDelta(order[i]))
      BY <1>1, <2>1, <3>1
    <3>3. StoredDelta(a) \in Nat /\ StoredDelta(order[i]) \in Nat
      BY <1>2, <1>6, <1>7, DeltaFacts
    <3>4. QED BY <3>1, <3>2, <3>3
  <2>5. QED BY <2>3, <2>4
<1>9. TopOfChain(topRows, c)
  <2>1. Len(topRows) <= Stars
    BY <1>4, <1>7
  <2>2. \A i \in DOMAIN topRows : topRows[i].id \in OfChain(c) /\ topRows[i].delta = RoundedDelta(topRows[i].id)
    BY <1>6, <1>7
  <2>3. \A i, j \in DOMAIN topRows : topRows[i].id = topRows[j].id => i = j
    BY <1>3, <1>6, <1>7
  <2>4. ASSUME NEW i \in DOMAIN topRows, NEW j \in DOMAIN topRows, i < j
        PROVE  StoredDelta(topRows[j].id) <= StoredDelta(topRows[i].id)
    <3>1. /\ i \in DOMAIN order /\ topRows[i].id = order[i] /\ StoredDelta(order[i]) \in Nat
          /\ j \in DOMAIN order /\ topRows[j].id = order[j] /\ StoredDelta(order[j]) \in Nat
      BY <1>6, <1>7
    <3>2. ~(StoredDelta(order[j]) > StoredDelta(order[i]))
      BY <1>1, <2>4, <3>1
    <3>3. QED BY <3>1, <3>2
  <2>5. QED BY <1>7, <1>8, <2>1, <2>2, <2>3, <2>4 DEF TopOfChain
<1>10. QED BY <1>9 DEF ChainLimit, n, top, topRows, RoundedDelta

\* Rows of a chain are no rows of another.
LEMMA StarsAreAgents ==
    ASSUME stars.read = [c \in Chains |-> stars.read[c]],
           \A c \in Chains : TopOfChain(stars.read[c], c)
    PROVE  /\ IsFiniteSet(AllStars)
           /\ \A x \in AllStars : x[1] \in Chains /\ x[2] \in DOMAIN stars.read[x[1]] /\ x = <<x[1], x[2]>>
           /\ \A c \in Chains : \A i \in DOMAIN stars.read[c] : <<c, i>> \in AllStars
           /\ \A x, y \in AllStars : stars.read[x[1]][x[2]].id = stars.read[y[1]][y[2]].id => x = y
<1>1. \A x : x \in AllStars <=> \E c \in Chains : x \in {c} \X DOMAIN stars.read[c]
  BY DEF AllStars
<1>2. \A x \in AllStars : x[1] \in Chains /\ x[2] \in DOMAIN stars.read[x[1]] /\ x = <<x[1], x[2]>>
  BY <1>1
<1>3. \A c \in Chains : \A i \in DOMAIN stars.read[c] : <<c, i>> \in AllStars
  BY <1>1
<1>4. ASSUME NEW c \in Chains PROVE DOMAIN stars.read[c] \subseteq 1..Stars
  <2>1. stars.read[c] \in Seq(StarRow) /\ Len(stars.read[c]) <= Stars
    BY DEF TopOfChain
  <2>2. Stars \in Nat
    BY ReadAssumption
  <2>3. QED BY <2>1, <2>2
<1>5. AllStars \in SUBSET (Chains \X (1..Stars))
  BY <1>2, <1>4
<1>6. IsFiniteSet(Chains \X (1..Stars))
  <2>1. IsFiniteSet(1..Stars) /\ IsFiniteSet(Chains)
    BY ReadAssumption, FS_Interval
  <2>2. QED BY <2>1, FS_Product
<1>7. ASSUME NEW x \in AllStars, NEW y \in AllStars,
             stars.read[x[1]][x[2]].id = stars.read[y[1]][y[2]].id
      PROVE  x = y
  <2>1. /\ x[1] \in Chains /\ x[2] \in DOMAIN stars.read[x[1]] /\ x = <<x[1], x[2]>>
        /\ y[1] \in Chains /\ y[2] \in DOMAIN stars.read[y[1]] /\ y = <<y[1], y[2]>>
    BY <1>2
  <2>2. TopOfChain(stars.read[x[1]], x[1]) /\ TopOfChain(stars.read[y[1]], y[1])
    BY <2>1, SMTT(30)
  <2>3. /\ stars.read[x[1]][x[2]].id \in OfChain(x[1])
        /\ stars.read[y[1]][y[2]].id \in OfChain(y[1])
    BY <2>1, <2>2 DEF TopOfChain
  <2>4. x[1] = y[1]
    BY <1>7, <2>3 DEF OfChain
  <2>5. x[2] = y[2]
    <3>1. \A i, j \in DOMAIN stars.read[x[1]] : stars.read[x[1]][i].id = stars.read[x[1]][j].id => i = j
      BY <2>2, Zenon DEF TopOfChain
    <3>2. x[2] \in DOMAIN stars.read[x[1]] /\ y[2] \in DOMAIN stars.read[x[1]]
      BY <2>1, <2>4
    <3>3. stars.read[x[1]][x[2]].id = stars.read[x[1]][y[2]].id
      BY <1>7, <2>4
    <3>4. QED BY <3>1, <3>2, <3>3
  <2>6. QED BY <2>1, <2>4, <2>5
<1>8. IsFiniteSet(AllStars)
  BY <1>5, <1>6, FS_Subset
<1>9. QED BY <1>2, <1>3, <1>7, <1>8

\* As many as were read of a chain that has more are as many as the answer may have;
\* otherwise every agent was read.
LEMMA StarsSuffice ==
    ASSUME stars.read = [c \in Chains |-> stars.read[c]],
           \A c \in Chains : TopOfChain(stars.read[c], c)
    PROVE  Lesser(Stars, Cardinality(AllStars)) = Lesser(Stars, Cardinality(Agents))
<1> DEFINE f == [x \in AllStars |-> stars.read[x[1]][x[2]].id]
<1>1. /\ IsFiniteSet(AllStars)
      /\ \A x \in AllStars : x[1] \in Chains /\ x[2] \in DOMAIN stars.read[x[1]]
      /\ \A c \in Chains : \A i \in DOMAIN stars.read[c] : <<c, i>> \in AllStars
      /\ \A x, y \in AllStars : stars.read[x[1]][x[2]].id = stars.read[y[1]][y[2]].id => x = y
  BY StarsAreAgents
<1>2. IsFiniteSet(Agents) /\ Stars \in Nat
  BY ReadAssumption
<1>3. \A x \in AllStars : f[x] \in Agents
  <2>1. TAKE x \in AllStars
  <2>2. TopOfChain(stars.read[x[1]], x[1]) /\ x[2] \in DOMAIN stars.read[x[1]]
    BY <1>1
  <2>3. stars.read[x[1]][x[2]].id \in OfChain(x[1])
    BY <2>2 DEF TopOfChain
  <2>4. QED BY <2>3 DEF OfChain
<1>4. f \in Injection(AllStars, Agents)
  BY <1>1, <1>3 DEF Injection, IsInjective
<1>5. /\ Cardinality(AllStars) <= Cardinality(Agents)
      /\ f \in Surjection(AllStars, Agents) => Cardinality(AllStars) = Cardinality(Agents)
      /\ Cardinality(AllStars) \in Nat /\ Cardinality(Agents) \in Nat
  <2> HIDE DEF f
  <2>1. QED BY <1>1, <1>2, <1>4, FS_Injection, FS_CardinalityType
<1>6. CASE \A a \in Agents : \E x \in AllStars : f[x] = a
  <2>1. f \in Surjection(AllStars, Agents)
    BY <1>3, <1>6 DEF Surjection
  <2>2. QED BY <1>5, <2>1
<1>7. CASE ~\A a \in Agents : \E x \in AllStars : f[x] = a
  <2>1. PICK a \in Agents : ~\E x \in AllStars : f[x] = a
    BY <1>7
  <2>2. ChainOf[a] \in Chains /\ a \in OfChain(ChainOf[a])
    BY ReadAssumption DEF OfChain
  <2> DEFINE c == ChainOf[a]
             top == stars.read[c]
  <2>3. TopOfChain(top, c)
    BY <2>2
  <2>4. \A i \in DOMAIN top : top[i].id # a
    <3>1. TAKE i \in DOMAIN top
    <3>2. <<c, i>> \in AllStars
      BY <1>1, <2>2
    <3>3. f[<<c, i>>] = top[i].id
      BY <3>2
    <3>4. QED BY <2>1, <3>2, <3>3
  <2>5. DOMAIN top = 1..Stars
    <3>1. top \in Seq(StarRow) /\ Len(top) = Stars
      BY <2>2, <2>3, <2>4 DEF TopOfChain
    <3>2. QED BY <3>1
  <2> DEFINE g == [i \in 1..Stars |-> <<c, i>>]
  <2>6. g \in Injection(1..Stars, AllStars)
    <3>1. \A i \in 1..Stars : <<c, i>> \in AllStars
      BY <1>1, <2>2, <2>5
    <3>2. QED BY <3>1 DEF Injection, IsInjective
  <2>7. Cardinality(1..Stars) = Stars
    BY <1>2, FS_Interval
  <2>8. Cardinality(1..Stars) <= Cardinality(AllStars)
    <3> HIDE DEF g
    <3>1. QED BY <1>1, <2>6, FS_Injection
  <2>9. QED BY <1>2, <1>5, <2>7, <2>8 DEF Lesser
<1>8. QED BY <1>6, <1>7

\* The numbers up to n.
LEMMA CountUpTo == \A n \in Nat : IsFiniteSet(1..n) /\ Cardinality(1..n) = n
<1>1. ASSUME NEW n \in Nat PROVE IsFiniteSet(1..n) /\ Cardinality(1..n) = n
  BY FS_Interval
<1>2. QED BY <1>1

\* A function on 1..n is a sequence of length n.
LEMMA FunctionIsSequence ==
    ASSUME NEW S, NEW n \in Nat, NEW f, f = [i \in 1..n |-> f[i]], \A i \in 1..n : f[i] \in S
    PROVE  f \in Seq(S) /\ Len(f) = n /\ DOMAIN f = 1..n
<1>1. f \in [1..n -> S]
  OBVIOUS
<1>2. QED BY <1>1

\* Merged, sorted and cut, what is shown is the best of all agents.
LEMMA MergedIsBest ==
    ASSUME scoreStats \in [Agents -> [score : Nat, delta : Nat]],
           stars.read = [c \in Chains |-> stars.read[c]],
           \A c \in Chains : TopOfChain(stars.read[c], c),
           NEW best \in StarOrders,
           NEW topRows, topRows = [n \in 1..Lesser(Stars, Len(best)) |-> topRows[n]],
           \A n \in 1..Lesser(Stars, Len(best)) : topRows[n] = stars.read[best[n][1]][best[n][2]]
    PROVE  LET shown == {topRows[i].id : i \in DOMAIN topRows} IN
           /\ Cardinality(shown) = Len(topRows) /\ Len(topRows) = Lesser(Stars, Cardinality(Agents))
           /\ \A i, j \in DOMAIN topRows : i < j => topRows[i].delta >= topRows[j].delta
           /\ \A a \in Agents \ shown, i \in DOMAIN topRows :
                 /\ RoundedDelta(a) <= topRows[i].delta
                 /\ ChainOf[a] = ChainOf[topRows[i].id] => StoredDelta(a) <= StoredDelta(topRows[i].id)
<1> DEFINE m == Lesser(Stars, Len(best))
           shown == {topRows[i].id : i \in DOMAIN topRows}
<1>1. /\ best \in SetToSeqs(AllStars)
      /\ \A i, j \in DOMAIN best : i < j =>
            /\ ~(DeltaOf(best[j]) > DeltaOf(best[i]))
            /\ ~(DeltaOf(best[j]) = DeltaOf(best[i]) /\ best[j][1] = best[i][1] /\ best[j][2] < best[i][2])
  BY DEF StarOrders, Orders
<1>2. /\ IsFiniteSet(AllStars)
      /\ \A x \in AllStars : x[1] \in Chains /\ x[2] \in DOMAIN stars.read[x[1]] /\ x = <<x[1], x[2]>>
      /\ \A c \in Chains : \A i \in DOMAIN stars.read[c] : <<c, i>> \in AllStars
      /\ \A x, y \in AllStars : stars.read[x[1]][x[2]].id = stars.read[y[1]][y[2]].id => x = y
  BY StarsAreAgents
<1>3. /\ best \in Seq(AllStars) /\ Len(best) = Cardinality(AllStars) /\ Len(best) \in Nat
      /\ \A i, j \in DOMAIN best : best[i] = best[j] => i = j
      /\ \A x \in AllStars : \E i \in DOMAIN best : best[i] = x
  BY <1>1, <1>2, SequenceOfAll
<1>4. \A i : i \in DOMAIN best <=> i \in Nat /\ 1 <= i /\ i <= Len(best)
  BY <1>3
<1>5. m \in Nat /\ m <= Len(best) /\ m <= Stars /\ (m = Len(best) \/ m = Stars) /\ Stars \in Nat
  BY <1>3, ReadAssumption DEF Lesser
<1>6. /\ topRows = [n \in 1..m |-> topRows[n]]
      /\ \A n \in 1..m : topRows[n] = stars.read[best[n][1]][best[n][2]]
  OBVIOUS
<1> HIDE DEF m
<1>8. ASSUME NEW x \in AllStars
      PROVE  /\ stars.read[x[1]][x[2]] \in StarRow
             /\ stars.read[x[1]][x[2]].id \in Agents
             /\ DeltaOf(x) = RoundedDelta(stars.read[x[1]][x[2]].id) /\ DeltaOf(x) \in Nat
  <2>1. TopOfChain(stars.read[x[1]], x[1]) /\ x[2] \in DOMAIN stars.read[x[1]]
    BY <1>2, ZenonT(40)
  <2>2. /\ stars.read[x[1]][x[2]].id \in OfChain(x[1])
        /\ stars.read[x[1]][x[2]].delta = RoundedDelta(stars.read[x[1]][x[2]].id)
    BY <2>1, Zenon DEF TopOfChain
  <2>3. stars.read[x[1]][x[2]].id \in Agents
    BY <2>2, ZenonT(40) DEF OfChain
  <2>4. RoundedDelta(stars.read[x[1]][x[2]].id) \in Nat
    BY <2>3, DeltaFacts
  <2>5. stars.read[x[1]][x[2]] \in StarRow
    <3>1. stars.read[x[1]] \in Seq(StarRow)
      BY <2>1, SMTT(30) DEF TopOfChain
    <3>2. QED BY <2>1, <3>1, SMTT(30)
  <2>6. QED BY <2>2, <2>3, <2>4, <2>5, Zenon DEF DeltaOf
<1>9. \A n \in DOMAIN best : best[n] \in AllStars /\ DeltaOf(best[n]) \in Nat
  <2>1. \A n \in DOMAIN best : best[n] \in AllStars
    BY <1>3
  <2>2. QED BY <1>8, <2>1
<1>10. \A n \in 1..m : /\ n \in DOMAIN best /\ n \in Nat
                        /\ topRows[n] = stars.read[best[n][1]][best[n][2]]
                        /\ topRows[n].delta = DeltaOf(best[n]) /\ DeltaOf(best[n]) \in Nat
  <2>1. TAKE n \in 1..m
  <2>2. n \in DOMAIN best
    BY <1>3, <1>4, <1>5
  <2>3. topRows[n] = stars.read[best[n][1]][best[n][2]]
    BY <1>6
  <2>4. DeltaOf(best[n]) \in Nat
    BY <1>9, <2>2
  <2>5. topRows[n].delta = DeltaOf(best[n])
    BY <2>3 DEF DeltaOf
  <2>6. n \in Nat
    BY <1>5
  <2>7. QED BY <2>2, <2>3, <2>4, <2>5, <2>6
<1>7. DOMAIN topRows = 1..m /\ Len(topRows) = m
  <2>1. \A n \in 1..m : topRows[n] \in StarRow
    <3>1. TAKE n \in 1..m
    <3>2. best[n] \in AllStars /\ topRows[n] = stars.read[best[n][1]][best[n][2]]
      BY <1>9, <1>10
    <3>3. QED BY <1>8, <3>2, Zenon
  <2>2. topRows = [n \in 1..m |-> topRows[n]]
    BY <1>6
  <2>3. QED BY <1>5, <2>1, <2>2, FunctionIsSequence
<1>11. \A i, j \in 1..m : topRows[i].id = topRows[j].id => i = j
  <2>1. TAKE i, j \in 1..m
  <2>2. best[i] \in AllStars /\ best[j] \in AllStars /\ i \in DOMAIN best /\ j \in DOMAIN best
    BY <1>9, <1>10
  <2>3. topRows[i].id = topRows[j].id => best[i] = best[j]
    <3>1. topRows[i] = stars.read[best[i][1]][best[i][2]] /\ topRows[j] = stars.read[best[j][1]][best[j][2]]
      BY <1>10
    <3>2. \A x, y \in AllStars : stars.read[x[1]][x[2]].id = stars.read[y[1]][y[2]].id => x = y
      BY <1>2
    <3>3. QED BY <2>2, <3>1, <3>2, SMTT(30)
  <2>4. QED BY <1>3, <2>2, <2>3
<1>12. Cardinality(shown) = Len(topRows)
  <2> DEFINE f == [n \in 1..m |-> topRows[n].id]
  <2>1. f \in Bijection(1..m, shown)
    <3>1. f \in [1..m -> shown] /\ \A x \in shown : \E n \in 1..m : f[n] = x
      BY <1>7, ZenonT(40)
    <3>2. \A i, j \in 1..m : f[i] = f[j] => i = j
      BY <1>11
    <3> HIDE DEF f, shown
    <3>3. f \in Injection(1..m, shown)
      BY <3>1, <3>2 DEF Injection, IsInjective
    <3>4. f \in Surjection(1..m, shown)
      BY <3>1 DEF Surjection
    <3>5. QED BY <3>3, <3>4 DEF Bijection
  <2> HIDE DEF f, shown
  <2>2. QED BY <1>5, <1>7, <2>1, FS_CountingElements DEF ExistsBijection
<1>13. Len(topRows) = Lesser(Stars, Cardinality(Agents))
  BY <1>3, <1>7, StarsSuffice DEF m
<1>14. ASSUME NEW i \in 1..m, NEW j \in 1..m, i < j PROVE topRows[i].delta >= topRows[j].delta
  <2>1. ~(DeltaOf(best[j]) > DeltaOf(best[i]))
    BY <1>1, <1>10, <1>14
  <2>2. topRows[i].delta = DeltaOf(best[i]) /\ topRows[j].delta = DeltaOf(best[j])
    BY <1>10
  <2>3. DeltaOf(best[i]) \in Nat /\ DeltaOf(best[j]) \in Nat
    BY <1>10
  <2> DEFINE di == DeltaOf(best[i])
             dj == DeltaOf(best[j])
  <2>4. di \in Nat /\ dj \in Nat /\ ~(dj > di)
    BY <2>1, <2>3
  <2> HIDE DEF di, dj
  <2>5. di >= dj
    BY <2>4
  <2>6. QED BY <2>2, <2>5 DEF di, dj
<1>15. ASSUME NEW a \in Agents, a \notin shown, NEW n \in 1..m PROVE RoundedDelta(a) <= topRows[n].delta
  <2>1. RoundedDelta(a) \in Nat /\ n \in DOMAIN best /\ topRows[n].delta = DeltaOf(best[n]) /\ DeltaOf(best[n]) \in Nat
    BY <1>10, DeltaFacts
  \* It was read of its chain, and stands behind those that are shown.
  <2>2. ASSUME NEW x \in AllStars, stars.read[x[1]][x[2]].id = a
        PROVE  RoundedDelta(a) <= topRows[n].delta
    <3>1. PICK k \in DOMAIN best : best[k] = x
      BY <1>3
    <3>2. k \notin 1..m
      <4>1. k \in 1..m => topRows[k].id = a
        BY <1>10, <2>2, <3>1
      <4>2. QED BY <1>7, <1>15, <4>1
    <3>3. n < k
      BY <1>4, <1>5, <3>2
    <3>4. ~(DeltaOf(best[k]) > DeltaOf(best[n]))
      BY <1>1, <2>1, <3>3, SMTT(30)
    <3>5. DeltaOf(best[k]) = RoundedDelta(a)
      BY <1>8, <2>2, <3>1
    <3>6. QED BY <2>1, <3>4, <3>5
  \* It was not: as many of its chain as may be shown are no worse.
  <2>3. ASSUME ~\E x \in AllStars : stars.read[x[1]][x[2]].id = a
        PROVE  RoundedDelta(a) <= topRows[n].delta
    <3> DEFINE c == ChainOf[a]
               top == stars.read[c]
    <3>1. c \in Chains /\ a \in OfChain(c)
      BY ReadAssumption DEF OfChain
    <3>2. TopOfChain(top, c)
      BY <3>1
    <3>3. \A i \in DOMAIN top : <<c, i>> \in AllStars /\ top[i].id # a
      <4>1. TAKE i \in DOMAIN top
      <4>2. <<c, i>> \in AllStars
        BY <1>2, <3>1
      <4>3. stars.read[<<c, i>>[1]][<<c, i>>[2]].id = top[i].id
        BY SMTT(30)
      <4>4. QED BY <2>3, <4>2, <4>3
    <3>4. Len(top) = Stars /\ top \in Seq(StarRow) /\ \A i \in DOMAIN top : RoundedDelta(a) <= top[i].delta
      <4>1. /\ Len(top) = Stars /\ top \in Seq(StarRow)
            /\ \A i \in DOMAIN top : /\ StoredDelta(a) <= StoredDelta(top[i].id) /\ top[i].id \in OfChain(c)
                                      /\ top[i].delta = RoundedDelta(top[i].id)
        BY <3>1, <3>2, <3>3 DEF TopOfChain
      <4>2. \A b \in OfChain(c) : StoredDelta(a) <= StoredDelta(b) => RoundedDelta(a) <= RoundedDelta(b)
        BY DeltaFacts DEF OfChain
      <4>3. QED BY <4>1, <4>2
    <3>5. DOMAIN top = 1..Stars
      BY <3>4
    <3>6. SUFFICES ASSUME RoundedDelta(a) > topRows[n].delta PROVE FALSE
      BY <2>1
    <3>7. \A i \in 1..Stars : \E k \in 1..(n - 1) : best[k] = <<c, i>>
      <4>1. TAKE i \in 1..Stars
      <4>2. <<c, i>> \in AllStars /\ DeltaOf(<<c, i>>) = top[i].delta /\ RoundedDelta(a) <= top[i].delta
        BY <3>3, <3>4, <3>5 DEF DeltaOf
      <4>3. PICK k \in DOMAIN best : best[k] = <<c, i>>
        BY <1>3, <4>2
      <4>4. DeltaOf(best[k]) > DeltaOf(best[n])
        <5>1. DeltaOf(best[k]) \in Nat
          BY <1>9
        <5>2. DeltaOf(best[k]) = top[i].delta /\ RoundedDelta(a) > DeltaOf(best[n])
          BY <2>1, <3>6, <4>2, <4>3
        <5>3. RoundedDelta(a) <= DeltaOf(best[k])
          BY <4>2, <5>2
        <5>4. QED BY <2>1, <5>1, <5>2, <5>3
      <4>5. ~(n < k) /\ n # k
        <5>1. n < k => ~(DeltaOf(best[k]) > DeltaOf(best[n]))
          BY <1>1, <2>1
        <5>2. DeltaOf(best[k]) \in Nat
          BY <1>9
        <5>3. QED BY <2>1, <4>4, <5>1, <5>2
      <4>6. k \in 1..(n - 1)
        BY <1>4, <1>5, <4>5
      <4>7. QED BY <4>3, <4>6
    <3> DEFINE g == [i \in 1..Stars |-> CHOOSE k \in 1..(n - 1) : best[k] = <<c, i>>]
    <3>8. \A i \in 1..Stars : g[i] \in 1..(n - 1) /\ best[g[i]] = <<c, i>>
      BY <3>7
    <3>9. g \in Injection(1..Stars, 1..(n - 1))
      <4>1. g \in [1..Stars -> 1..(n - 1)]
        <5>1. \A i \in 1..Stars : (CHOOSE k \in 1..(n - 1) : best[k] = <<c, i>>) \in 1..(n - 1)
          BY <3>7
        <5>2. QED BY <5>1
      <4>2. \A i, j \in 1..Stars : g[i] = g[j] => i = j
        <5> HIDE DEF g
        <5>1. TAKE i, j \in 1..Stars
        <5>2. g[i] = g[j] => <<c, i>> = <<c, j>>
          BY <3>8
        <5>3. QED BY <5>2
      <4> HIDE DEF g
      <4>3. QED BY <4>1, <4>2 DEF Injection, IsInjective
    <3>10. /\ IsFiniteSet(1..(n - 1)) /\ Cardinality(1..(n - 1)) = n - 1
           /\ Cardinality(1..Stars) = Stars
      <4>1. n - 1 \in Nat /\ Stars \in Nat
        BY <1>5
      <4>2. QED BY <4>1, CountUpTo
    <3>11. Stars <= n - 1
      <4> HIDE DEF g
      <4>1. Cardinality(1..Stars) <= Cardinality(1..(n - 1))
        BY <3>9, <3>10, FS_Injection
      <4>2. QED BY <3>10, <4>1
    <3>12. QED BY <1>5, <3>11
  <2>4. QED BY <2>2, <2>3
\* In one chain the rows stand in the order of the stored deltas: of rows with one
\* rounded delta the sort keeps that order, and what is cut is behind.
<1>16. ASSUME NEW a \in Agents, a \notin shown, NEW n \in 1..m, ChainOf[a] = ChainOf[topRows[n].id]
       PROVE  StoredDelta(a) <= StoredDelta(topRows[n].id)
  <2> DEFINE c == ChainOf[a]
             top == stars.read[c]
             i0 == best[n][2]
  <2>1. c \in Chains /\ a \in OfChain(c) /\ TopOfChain(top, c)
    BY ReadAssumption DEF OfChain
  <2>2. n \in DOMAIN best /\ best[n] \in AllStars /\ topRows[n] = stars.read[best[n][1]][best[n][2]]
    BY <1>9, <1>10, Zenon
  <2>3. best[n][1] = c /\ i0 \in DOMAIN top /\ best[n] = <<c, i0>> /\ topRows[n] = top[i0]
    <3>1. /\ best[n][1] \in Chains /\ i0 \in DOMAIN stars.read[best[n][1]]
          /\ best[n] = <<best[n][1], i0>> /\ TopOfChain(stars.read[best[n][1]], best[n][1])
      BY <1>2, <2>2, ZenonT(40)
    <3>2. topRows[n].id \in OfChain(best[n][1])
      BY <2>2, <3>1 DEF TopOfChain
    <3>3. ChainOf[topRows[n].id] = best[n][1]
      BY <3>2 DEF OfChain
    <3>4. QED BY <1>16, <2>2, <3>1, <3>3
  <2> HIDE DEF c, top, i0
  <2>4. CASE ~\E i \in DOMAIN top : top[i].id = a
    BY <2>1, <2>3, <2>4 DEF TopOfChain
  <2>5. ASSUME NEW i \in DOMAIN top, top[i].id = a PROVE StoredDelta(a) <= StoredDelta(topRows[n].id)
    <3>1. i \in Nat /\ i0 \in Nat /\ top[i0].id \in Agents /\ top[i].id \in Agents
      BY <2>1, <2>3 DEF TopOfChain, OfChain
    <3>2. i # i0
      BY <1>7, <1>16, <2>3, <2>5
    <3>3. CASE i0 < i
      BY <2>1, <2>3, <2>5, <3>3 DEF TopOfChain
    <3>4. CASE i < i0
      <4>1. <<c, i>> \in AllStars
        BY <1>2, <2>1 DEF top
      <4>2. PICK k \in DOMAIN best : best[k] = <<c, i>>
        BY <1>3, <4>1
      <4>3. n < k
        <5>1. k \in 1..m => topRows[k].id = a
          <6>1. k \in 1..m => topRows[k] = stars.read[best[k][1]][best[k][2]]
            BY <1>10
          <6>2. best[k][1] = c /\ best[k][2] = i
            BY <4>2
          <6>3. QED BY <2>5, <6>1, <6>2 DEF top
        <5>2. k \notin 1..m
          BY <1>7, <1>16, <5>1
        <5>3. QED BY <1>4, <1>5, <5>2
      <4>4. StoredDelta(top[i0].id) <= StoredDelta(top[i].id)
        BY <2>1, <2>3, <3>4 DEF TopOfChain
      <4>5. RoundedDelta(top[i0].id) <= RoundedDelta(top[i].id)
        BY <3>1, <4>4, DeltaFacts
      <4>6. DeltaOf(best[k]) = RoundedDelta(top[i].id) /\ DeltaOf(best[n]) = RoundedDelta(top[i0].id)
        <5>1. DeltaOf(<<c, i>>) = top[i].delta /\ DeltaOf(<<c, i0>>) = top[i0].delta
          BY DEF DeltaOf, top
        <5>2. top[i].delta = RoundedDelta(top[i].id) /\ top[i0].delta = RoundedDelta(top[i0].id)
          BY <2>1, <2>3 DEF TopOfChain
        <5>3. QED BY <2>3, <4>2, <5>1, <5>2
      <4>7. /\ ~(DeltaOf(best[k]) > DeltaOf(best[n]))
            /\ ~(DeltaOf(best[k]) = DeltaOf(best[n]) /\ best[k][1] = best[n][1] /\ best[k][2] < best[n][2])
        BY <1>1, <2>2, <4>3
      <4>8. best[k][1] = best[n][1] /\ best[k][2] < best[n][2]
        <5>1. best[k][1] = c /\ best[k][2] = i /\ best[n][1] = c /\ best[n][2] = i0
          BY <2>3, <4>2
        <5>2. QED BY <3>4, <5>1
      <4>9. RoundedDelta(top[i].id) \in Nat /\ RoundedDelta(top[i0].id) \in Nat
        BY <3>1, DeltaFacts
      <4>10. FALSE
        BY <4>5, <4>6, <4>7, <4>8, <4>9
      <4>11. QED BY <4>10
    <3>5. QED BY <3>1, <3>2, <3>3, <3>4
  <2>6. QED BY <2>4, <2>5
<1>17. QED BY <1>7, <1>12, <1>13, <1>14, <1>15, <1>16

\* A write while the stars are read: nothing is claimed of what is shown then.
LEMMA StarsDisturbed ==
    ASSUME StarsInv, Disturb, scoreStats' \in [Agents -> [score : Nat, delta : Nat]]
    PROVE  StarsInv'
<1>1. CASE stars.pc = "idle"
  BY <1>1 DEF StarsInv, Disturb, StarsAreBest
<1>2. CASE stars.pc # "idle"
  <2>1. /\ stars'.pc = stars.pc /\ stars'.read = stars.read /\ stars'.left = stars.left
        /\ stars'.quiet = FALSE /\ stars'.rows = stars.rows
        /\ stars' = [pc |-> stars'.pc, read |-> stars'.read, left |-> stars'.left,
                     quiet |-> stars'.quiet, rows |-> stars'.rows]
    BY <1>2 DEF StarsInv, Disturb
  <2>2. StarsAreBest'
    BY <2>1 DEF StarsAreBest
  <2>3. QED BY <1>2, <2>1, <2>2 DEF StarsInv
<1>3. QED BY <1>1, <1>2

\* Every step of the lists, the reader and the rising stars keeps StarsInv.
LEMMA StepStars ==
    ASSUME StarsInv, [ReadNext]_readVars
    PROVE  StarsInv'
<1>1. CASE NewFeedback \/ RevokeRow \/ Decide \/ RateWallet \/ CopyScore
  <2>1. Disturb /\ UNCHANGED scoreStats
    BY <1>1 DEF NewFeedback, RevokeRow, Decide, RateWallet, CopyScore
  <2>2. scoreStats' \in [Agents -> [score : Nat, delta : Nat]]
    BY <2>1 DEF StarsInv
  <2>3. QED BY <2>1, <2>2, StarsDisturbed
<1>2. CASE Rescore
  <2>1. PICK a \in Agents, s \in Levels, d \in Deltas : scoreStats' = [scoreStats EXCEPT ![a] = [score |-> s, delta |-> d]]
    BY <1>2 DEF Rescore
  <2>2. [score |-> s, delta |-> d] \in [score : Nat, delta : Nat]
    BY ReadAssumption
  <2>3. scoreStats' \in [Agents -> [score : Nat, delta : Nat]]
    BY <2>1, <2>2 DEF StarsInv
  <2>4. QED BY <1>2, <2>3, StarsDisturbed DEF Rescore
<1>3. CASE Open \/ NextPage \/ UNCHANGED readVars
  <2>1. UNCHANGED <<scoreStats, stars>>
    BY <1>3, Zenon DEF Open, NextPage, readVars
  <2>2. \A top, c : TopOfChain(top, c)' = TopOfChain(top, c)
    BY <2>1 DEF TopOfChain, StoredDelta, RoundedDelta
  <2>3. StarsAreBest'
    BY <2>1 DEF StarsInv, StarsAreBest
  <2>4. QED BY <2>1, <2>2, <2>3 DEF StarsInv
<1>4. CASE AskStars
  <2>1. /\ stars' = [pc |-> "reading", read |-> [c \in Chains |-> <<>>], left |-> Chains,
                     quiet |-> TRUE, rows |-> <<>>]
        /\ UNCHANGED scoreStats
    BY <1>4 DEF AskStars
  <2>2. /\ stars'.pc = "reading" /\ stars'.read = [c \in Chains |-> <<>>] /\ stars'.left = Chains
        /\ stars'.quiet = TRUE /\ stars'.rows = <<>>
    BY <2>1
  <2>3. stars'.read = [c \in Chains |-> stars'.read[c]] /\ DOMAIN stars'.read = Chains
    BY <2>2
  <2>4. StarsAreBest'
    BY <2>2 DEF StarsAreBest
  <2>5. Chains \ stars'.left = {}
    BY <2>2
  <2>6. QED BY <2>1, <2>2, <2>3, <2>4, <2>5 DEF StarsInv
<1>5. CASE ReadChain
  <2>1. stars.pc = "reading" /\ UNCHANGED scoreStats
    BY <1>5, SMTT(30) DEF ReadChain
  <2>2. PICK c \in stars.left : \E order \in DeltaOrders(c) :
           LET top == SubSeq(order, 1, Lesser(ChainLimit(Chains), Len(order))) IN
           stars' = [stars EXCEPT
               !.left = @ \ {c},
               !.read[c] = [i \in 1..Len(top) |-> [id |-> top[i], delta |-> Round2(scoreStats[top[i]].delta)]]]
    BY <1>5, Zenon DEF ReadChain
  <2>3. c \in Chains
    BY <2>1 DEF StarsInv
  <2>4. PICK topRows : /\ TopOfChain(topRows, c)
                    /\ stars' = [stars EXCEPT !.left = @ \ {c}, !.read[c] = topRows]
    <3>1. PICK order \in DeltaOrders(c) :
           LET top == SubSeq(order, 1, Lesser(ChainLimit(Chains), Len(order))) IN
           stars' = [stars EXCEPT
               !.left = @ \ {c},
               !.read[c] = [i \in 1..Len(top) |-> [id |-> top[i], delta |-> Round2(scoreStats[top[i]].delta)]]]
      BY <2>2, Zenon
    <3> DEFINE top == SubSeq(order, 1, Lesser(ChainLimit(Chains), Len(order)))
               read == [i \in 1..Len(top) |-> [id |-> top[i], delta |-> Round2(scoreStats[top[i]].delta)]]
    <3>2. TopOfChain(read, c)
      BY <2>3, ReadIsTop DEF StarsInv
    <3>3. stars' = [stars EXCEPT !.left = @ \ {c}, !.read[c] = read]
      BY <3>1
    <3> HIDE DEF read
    <3>4. QED BY <3>2, <3>3, ZenonT(40)
  <2>5. /\ stars'.pc = "reading" /\ stars'.left = stars.left \ {c} /\ stars'.quiet = stars.quiet
        /\ stars'.read = [stars.read EXCEPT ![c] = topRows] /\ stars'.rows = stars.rows
        /\ stars' = [pc |-> stars'.pc, read |-> stars'.read, left |-> stars'.left,
                     quiet |-> stars'.quiet, rows |-> stars'.rows]
    <3>1. stars = [pc |-> stars.pc, read |-> stars.read, left |-> stars.left,
                  quiet |-> stars.quiet, rows |-> stars.rows]
      BY <2>1 DEF StarsInv
    <3>2. QED BY <2>1, <2>4, <3>1
  <2>6. /\ DOMAIN stars'.read = Chains /\ stars'.read = [d \in Chains |-> stars'.read[d]]
        /\ \A d \in Chains : stars'.read[d] = IF d = c THEN topRows ELSE stars.read[d]
    BY <2>1, <2>3, <2>5 DEF StarsInv
  <2>7. \A top, d : TopOfChain(top, d)' = TopOfChain(top, d)
    BY <2>1 DEF TopOfChain, StoredDelta, RoundedDelta
  <2>8. stars.quiet => \A d \in Chains \ stars'.left : TopOfChain(stars'.read[d], d)
    BY <2>1, <2>4, <2>5, <2>6 DEF StarsInv
  <2>9. StarsAreBest'
    BY <2>5 DEF StarsAreBest
  <2>10. scoreStats' \in [Agents -> [score : Nat, delta : Nat]] /\ stars'.left \subseteq Chains /\ stars'.quiet \in BOOLEAN
    BY <2>1, <2>5 DEF StarsInv
  <2>11. QED BY <2>5, <2>6, <2>7, <2>8, <2>9, <2>10 DEF StarsInv
<1>6. CASE MergeStars
  <2>1. stars.pc = "reading" /\ stars.left = {} /\ UNCHANGED scoreStats
    BY <1>6, SMTT(30) DEF MergeStars
  <2>2. PICK best \in StarOrders :
           stars' = [stars EXCEPT !.pc = "done",
                         !.rows = [n \in 1..Lesser(Stars, Len(best)) |-> stars.read[best[n][1]][best[n][2]]]]
    BY <1>6, Zenon DEF MergeStars
  <2> DEFINE topRows == [n \in 1..Lesser(Stars, Len(best)) |-> stars.read[best[n][1]][best[n][2]]]
  <2>3. /\ stars'.pc = "done" /\ stars'.left = stars.left /\ stars'.quiet = stars.quiet
        /\ stars'.read = stars.read /\ stars'.rows = topRows
        /\ stars' = [pc |-> stars'.pc, read |-> stars'.read, left |-> stars'.left,
                     quiet |-> stars'.quiet, rows |-> stars'.rows]
    <3>1. stars = [pc |-> stars.pc, read |-> stars.read, left |-> stars.left,
                  quiet |-> stars.quiet, rows |-> stars.rows]
      BY <2>1 DEF StarsInv
    <3>2. stars' = [stars EXCEPT !.pc = "done", !.rows = topRows]
      BY <2>2
    <3> HIDE DEF topRows
    <3>3. QED BY <3>1, <3>2
  <2> HIDE DEF topRows
  <2>4. ASSUME stars.quiet
        PROVE  LET shown == {topRows[i].id : i \in DOMAIN topRows} IN
               /\ Cardinality(shown) = Len(topRows) /\ Len(topRows) = Lesser(Stars, Cardinality(Agents))
               /\ \A i, j \in DOMAIN topRows : i < j => topRows[i].delta >= topRows[j].delta
               /\ \A a \in Agents \ shown, i \in DOMAIN topRows :
                     /\ RoundedDelta(a) <= topRows[i].delta
                     /\ ChainOf[a] = ChainOf[topRows[i].id] => StoredDelta(a) <= StoredDelta(topRows[i].id)
    <3>1. /\ scoreStats \in [Agents -> [score : Nat, delta : Nat]]
          /\ stars.read = [c \in Chains |-> stars.read[c]]
          /\ \A c \in Chains : TopOfChain(stars.read[c], c)
      BY <2>1, <2>4 DEF StarsInv
    <3>2. /\ topRows = [n \in 1..Lesser(Stars, Len(best)) |-> topRows[n]]
          /\ \A n \in 1..Lesser(Stars, Len(best)) : topRows[n] = stars.read[best[n][1]][best[n][2]]
      BY DEF topRows
    <3>3. QED BY <3>1, <3>2, MergedIsBest
  <2>5. StarsAreBest'
    BY <2>1, <2>3, <2>4 DEF StarsAreBest, StoredDelta, RoundedDelta
  <2>6. QED BY <2>1, <2>3, <2>5 DEF StarsInv
<1>7. QED BY <1>1, <1>2, <1>3, <1>4, <1>5, <1>6 DEF ReadNext

\* No request is under way.
LEMMA InitStars == ReadInit => StarsInv
BY DEF ReadInit, StarsInv, StarsAreBest

\* The rising stars merged from several chains are as good as one list, to the
\* hundredth their deltas are rounded to and within one chain as they are stored,
\* unless a score was written between the queries (leaderboard.go: RisingStarsMulti).
THEOREM StarsAreBestHolds == ReadSpec => []StarsAreBest
<1>1. StarsInv => StarsAreBest
  BY DEF StarsInv
<1>2. StarsInv /\ [ReadNext]_readVars => StarsInv'
  BY StepStars
<1>3. QED BY <1>1, <1>2, InitStars, PTL DEF ReadSpec

-------------------------------------------------------------------------------
(* ScoreReplay: the recursive functions of the formulas. Each is what its        *)
(* equation says, and so is known step by step.                                  *)

\* The equations of Halved, Doubled and TotalOf.
HalvedBy(h, x, k) == h = [n \in 0..k |-> IF n = 0 THEN x ELSE h[n - 1] \div 2]
DoubledBy(d, x, k) == d = [n \in 0..k |-> IF n = 0 THEN x ELSE 2 * d[n - 1]]
TotalledBy(t, f, k) == t = [n \in 0..k |-> IF n = 0 THEN 0 ELSE t[n - 1] + f[n]]

\* Halved has the function it is defined by.
LEMMA HalvedHasFunction ==
    ASSUME NEW x, NEW k \in Nat
    PROVE  \E h : HalvedBy(h, x, k) /\ Halved(x, k) = h[k]
<1> DEFINE P == {m \in Nat : \E h : HalvedBy(h, x, m)}
<1>1. 0 \in P
  <2>1. HalvedBy([n \in 0..0 |-> x], x, 0)
    BY DEF HalvedBy
  <2>2. QED BY <2>1
<1>2. ASSUME NEW m \in Nat, m \in P
      PROVE  m + 1 \in P
  <2>1. PICK h : HalvedBy(h, x, m)
    BY <1>2
  <2>2. HalvedBy([n \in 0..m + 1 |-> IF n = 0 THEN x ELSE h[n - 1] \div 2], x, m + 1)
    BY <2>1 DEF HalvedBy
  <2>3. QED BY <2>2
<1>3. k \in P
  <2> HIDE DEF P
  <2>1. \A m \in Nat : m \in P
    BY <1>1, <1>2, NatSetInduction
  <2> QED BY <2>1
<1>4. QED BY <1>3 DEF Halved, HalvedBy

\* Halved, one step after another.
LEMMA HalvedSteps ==
    ASSUME NEW x
    PROVE  /\ Halved(x, 0) = x
           /\ \A k \in Nat : Halved(x, k + 1) = Halved(x, k) \div 2
<1>1. Halved(x, 0) = x
  BY HalvedHasFunction DEF HalvedBy
<1>2. ASSUME NEW k \in Nat
      PROVE  Halved(x, k + 1) = Halved(x, k) \div 2
  <2>1. PICK g : HalvedBy(g, x, k) /\ Halved(x, k) = g[k]
    BY HalvedHasFunction
  <2>2. PICK h : HalvedBy(h, x, k + 1) /\ Halved(x, k + 1) = h[k + 1]
    BY HalvedHasFunction
  <2> DEFINE P == {n \in Nat : n <= k => g[n] = h[n]}
  <2>3. 0 \in P
    BY <2>1, <2>2 DEF HalvedBy
  <2>4. ASSUME NEW n \in Nat, n \in P
        PROVE  n + 1 \in P
    <3>1. ASSUME n + 1 <= k
          PROVE  g[n + 1] = h[n + 1]
      <4>1. g[n] = h[n]
        BY <2>4, <3>1
      <4>2. g[n + 1] = g[n] \div 2
        BY <2>1, <3>1 DEF HalvedBy
      <4>3. h[n + 1] = h[n] \div 2
        BY <2>2, <3>1 DEF HalvedBy
      <4>4. QED BY <4>1, <4>2, <4>3
    <3>2. QED BY <3>1
  <2>5. g[k] = h[k]
    <3>1. k \in P
      <4> HIDE DEF P
      <4>1. \A n \in Nat : n \in P
        BY <2>3, <2>4, NatSetInduction
      <4> QED BY <4>1
    <3>2. QED BY <3>1
  <2>6. h[k + 1] = h[k] \div 2
    BY <2>2 DEF HalvedBy
  <2>7. QED BY <2>1, <2>2, <2>5, <2>6
<1>3. QED BY <1>1, <1>2

\* Doubled has the function it is defined by.
LEMMA DoubledHasFunction ==
    ASSUME NEW x, NEW k \in Nat
    PROVE  \E h : DoubledBy(h, x, k) /\ Doubled(x, k) = h[k]
<1> DEFINE P == {m \in Nat : \E h : DoubledBy(h, x, m)}
<1>1. 0 \in P
  <2>1. DoubledBy([n \in 0..0 |-> x], x, 0)
    BY DEF DoubledBy
  <2>2. QED BY <2>1
<1>2. ASSUME NEW m \in Nat, m \in P
      PROVE  m + 1 \in P
  <2>1. PICK h : DoubledBy(h, x, m)
    BY <1>2
  <2>2. DoubledBy([n \in 0..m + 1 |-> IF n = 0 THEN x ELSE 2 * h[n - 1]], x, m + 1)
    BY <2>1 DEF DoubledBy
  <2>3. QED BY <2>2
<1>3. k \in P
  <2> HIDE DEF P
  <2>1. \A m \in Nat : m \in P
    BY <1>1, <1>2, NatSetInduction
  <2> QED BY <2>1
<1>4. QED BY <1>3 DEF Doubled, DoubledBy

\* Doubled, one step after another.
LEMMA DoubledSteps ==
    ASSUME NEW x
    PROVE  /\ Doubled(x, 0) = x
           /\ \A k \in Nat : Doubled(x, k + 1) = 2 * Doubled(x, k)
<1>1. Doubled(x, 0) = x
  BY DoubledHasFunction DEF DoubledBy
<1>2. ASSUME NEW k \in Nat
      PROVE  Doubled(x, k + 1) = 2 * Doubled(x, k)
  <2>1. PICK g : DoubledBy(g, x, k) /\ Doubled(x, k) = g[k]
    BY DoubledHasFunction
  <2>2. PICK h : DoubledBy(h, x, k + 1) /\ Doubled(x, k + 1) = h[k + 1]
    BY DoubledHasFunction
  <2> DEFINE P == {n \in Nat : n <= k => g[n] = h[n]}
  <2>3. 0 \in P
    BY <2>1, <2>2 DEF DoubledBy
  <2>4. ASSUME NEW n \in Nat, n \in P
        PROVE  n + 1 \in P
    <3>1. ASSUME n + 1 <= k
          PROVE  g[n + 1] = h[n + 1]
      <4>1. g[n] = h[n]
        BY <2>4, <3>1
      <4>2. g[n + 1] = 2 * g[n]
        BY <2>1, <3>1 DEF DoubledBy
      <4>3. h[n + 1] = 2 * h[n]
        BY <2>2, <3>1 DEF DoubledBy
      <4>4. QED BY <4>1, <4>2, <4>3
    <3>2. QED BY <3>1
  <2>5. g[k] = h[k]
    <3>1. k \in P
      <4> HIDE DEF P
      <4>1. \A n \in Nat : n \in P
        BY <2>3, <2>4, NatSetInduction
      <4> QED BY <4>1
    <3>2. QED BY <3>1
  <2>6. h[k + 1] = 2 * h[k]
    BY <2>2 DEF DoubledBy
  <2>7. QED BY <2>1, <2>2, <2>5, <2>6
<1>3. QED BY <1>1, <1>2

\* TotalOf has the function it is defined by.
LEMMA TotalHasFunction ==
    ASSUME NEW f, NEW k \in Nat
    PROVE  \E h : TotalledBy(h, f, k) /\ TotalOf(f, k) = h[k]
<1> DEFINE P == {m \in Nat : \E h : TotalledBy(h, f, m)}
<1>1. 0 \in P
  <2>1. TotalledBy([n \in 0..0 |-> 0], f, 0)
    BY DEF TotalledBy
  <2>2. QED BY <2>1
<1>2. ASSUME NEW m \in Nat, m \in P
      PROVE  m + 1 \in P
  <2>1. PICK h : TotalledBy(h, f, m)
    BY <1>2
  <2>2. TotalledBy([n \in 0..m + 1 |-> IF n = 0 THEN 0 ELSE h[n - 1] + f[n]], f, m + 1)
    BY <2>1 DEF TotalledBy
  <2>3. QED BY <2>2
<1>3. k \in P
  <2> HIDE DEF P
  <2>1. \A m \in Nat : m \in P
    BY <1>1, <1>2, NatSetInduction
  <2> QED BY <2>1
<1>4. QED BY <1>3 DEF TotalOf, TotalledBy

\* TotalOf, one step after another.
LEMMA TotalSteps ==
    ASSUME NEW f
    PROVE  /\ TotalOf(f, 0) = 0
           /\ \A k \in Nat : TotalOf(f, k + 1) = TotalOf(f, k) + f[k + 1]
<1>1. TotalOf(f, 0) = 0
  BY TotalHasFunction DEF TotalledBy
<1>2. ASSUME NEW k \in Nat
      PROVE  TotalOf(f, k + 1) = TotalOf(f, k) + f[k + 1]
  <2>1. PICK g : TotalledBy(g, f, k) /\ TotalOf(f, k) = g[k]
    BY TotalHasFunction
  <2>2. PICK h : TotalledBy(h, f, k + 1) /\ TotalOf(f, k + 1) = h[k + 1]
    BY TotalHasFunction
  <2> DEFINE P == {n \in Nat : n <= k => g[n] = h[n]}
  <2>3. 0 \in P
    BY <2>1, <2>2 DEF TotalledBy
  <2>4. ASSUME NEW n \in Nat, n \in P
        PROVE  n + 1 \in P
    <3>1. ASSUME n + 1 <= k
          PROVE  g[n + 1] = h[n + 1]
      <4>1. g[n] = h[n]
        BY <2>4, <3>1
      <4>2. g[n + 1] = g[n] + f[n + 1]
        BY <2>1, <3>1 DEF TotalledBy
      <4>3. h[n + 1] = h[n] + f[n + 1]
        BY <2>2, <3>1 DEF TotalledBy
      <4>4. QED BY <4>1, <4>2, <4>3
    <3>2. QED BY <3>1
  <2>5. g[k] = h[k]
    <3>1. k \in P
      <4> HIDE DEF P
      <4>1. \A n \in Nat : n \in P
        BY <2>3, <2>4, NatSetInduction
      <4> QED BY <4>1
    <3>2. QED BY <3>1
  <2>6. h[k + 1] = h[k] + f[k + 1]
    BY <2>2 DEF TotalledBy
  <2>7. QED BY <2>1, <2>2, <2>5, <2>6
<1>3. QED BY <1>1, <1>2

\* Half a natural number is one, and half of nothing is nothing.
LEMMA HalvedNat ==
    ASSUME NEW x \in Nat, NEW k \in Nat
    PROVE  Halved(x, k) \in Nat /\ Halved(0, k) = 0
<1> DEFINE P == {n \in Nat : Halved(x, n) \in Nat /\ Halved(0, n) = 0}
<1>1. 0 \in P
  BY HalvedSteps
<1>2. ASSUME NEW n \in Nat, n \in P
      PROVE  n + 1 \in P
  <2>1. Halved(x, n + 1) = Halved(x, n) \div 2 /\ Halved(0, n + 1) = Halved(0, n) \div 2
    BY HalvedSteps
  <2>2. QED BY <1>2, <2>1
<1>3. k \in P
  <2> HIDE DEF P
  <2>1. \A n \in Nat : n \in P
    BY <1>1, <1>2, NatSetInduction
  <2> QED BY <2>1
<1>4. QED BY <1>3

\* What is halved j + k times is halved j times and then k times.
LEMMA HalvedTwice ==
    ASSUME NEW x \in Nat, NEW j \in Nat, NEW k \in Nat
    PROVE  Halved(Halved(x, j), k) = Halved(x, j + k)
<1> DEFINE P == {n \in Nat : Halved(Halved(x, j), n) = Halved(x, j + n)}
<1>1. 0 \in P
  BY HalvedSteps
<1>2. ASSUME NEW n \in Nat, n \in P
      PROVE  n + 1 \in P
  <2>1. Halved(Halved(x, j), n + 1) = Halved(Halved(x, j), n) \div 2
    BY HalvedSteps
  <2>2. j + n \in Nat /\ j + (n + 1) = (j + n) + 1
    OBVIOUS
  <2>3. Halved(x, (j + n) + 1) = Halved(x, j + n) \div 2
    BY <2>2, HalvedSteps
  <2>4. QED BY <1>2, <2>1, <2>2, <2>3
<1>3. k \in P
  <2> HIDE DEF P
  <2>1. \A n \in Nat : n \in P
    BY <1>1, <1>2, NatSetInduction
  <2> QED BY <2>1
<1>4. QED BY <1>3

\* The halves of two are no more than the half of both, nor than the half of more.
LEMMA HalvedSum ==
    ASSUME NEW x \in Nat, NEW y \in Nat, NEW k \in Nat
    PROVE  Halved(x, k) + Halved(y, k) <= Halved(x + y, k)
<1> DEFINE P == {n \in Nat : Halved(x, n) + Halved(y, n) <= Halved(x + y, n)}
<1>1. 0 \in P
  BY HalvedSteps
<1>2. ASSUME NEW n \in Nat, n \in P
      PROVE  n + 1 \in P
  <2>1. Halved(x, n + 1) = Halved(x, n) \div 2 /\ Halved(y, n + 1) = Halved(y, n) \div 2
    BY HalvedSteps
  <2>2. Halved(x + y, n + 1) = Halved(x + y, n) \div 2
    BY HalvedSteps
  <2>3. Halved(x, n) \in Nat /\ Halved(y, n) \in Nat /\ Halved(x + y, n) \in Nat
    <3>1. x + y \in Nat
      OBVIOUS
    <3>2. QED BY <3>1, HalvedNat
  <2>4. \A p, q, r \in Nat : p + q <= r => (p \div 2) + (q \div 2) <= r \div 2
    OBVIOUS
  <2>5. QED BY <1>2, <2>1, <2>2, <2>3, <2>4
<1>3. k \in P
  <2> HIDE DEF P
  <2>1. \A n \in Nat : n \in P
    BY <1>1, <1>2, NatSetInduction
  <2> QED BY <2>1
<1>4. QED BY <1>3

\* The half of more is no less.
LEMMA HalvedGrows ==
    ASSUME NEW x \in Nat, NEW y \in Nat, NEW k \in Nat, x <= y
    PROVE  Halved(x, k) <= Halved(y, k)
<1>1. y - x \in Nat /\ x + (y - x) = y
  OBVIOUS
<1>2. Halved(x, k) + Halved(y - x, k) <= Halved(y, k)
  BY <1>1, HalvedSum
<1>3. Halved(x, k) \in Nat /\ Halved(y - x, k) \in Nat /\ Halved(y, k) \in Nat
  BY <1>1, HalvedNat
<1>4. QED BY <1>2, <1>3

\* Doubling is of both parts of a sum, and what is doubled more often is no less.
LEMMA DoubledFacts ==
    ASSUME NEW x \in Nat, NEW y \in Nat, NEW j \in Nat, NEW k \in Nat
    PROVE  /\ Doubled(x, k) \in Nat
           /\ Doubled(x + y, k) = Doubled(x, k) + Doubled(y, k)
           /\ Doubled(x, j) <= Doubled(x, j + k)
<1> DEFINE P == {n \in Nat : /\ Doubled(x, n) \in Nat /\ Doubled(y, n) \in Nat
                             /\ Doubled(x + y, n) = Doubled(x, n) + Doubled(y, n)}
           Q == {n \in Nat : Doubled(x, j) <= Doubled(x, j + n)}
<1>1. 0 \in P
  BY DoubledSteps
<1>2. ASSUME NEW n \in Nat, n \in P
      PROVE  n + 1 \in P
  <2>1. Doubled(x, n + 1) = 2 * Doubled(x, n) /\ Doubled(y, n + 1) = 2 * Doubled(y, n)
    BY DoubledSteps
  <2>2. Doubled(x + y, n + 1) = 2 * Doubled(x + y, n)
    BY DoubledSteps
  <2>3. QED BY <1>2, <2>1, <2>2
<1>3. \A n \in Nat : n \in P
  <2> HIDE DEF P
  <2> QED BY <1>1, <1>2, NatSetInduction
<1>4. 0 \in Q
  BY <1>3
<1>5. ASSUME NEW n \in Nat, n \in Q
      PROVE  n + 1 \in Q
  <2>1. j + n \in Nat /\ j + (n + 1) = (j + n) + 1
    OBVIOUS
  <2>2. Doubled(x, (j + n) + 1) = 2 * Doubled(x, j + n)
    BY <2>1, DoubledSteps
  <2>3. Doubled(x, j + n) \in Nat /\ Doubled(x, j) \in Nat
    BY <1>3, <2>1
  <2>4. QED BY <1>5, <2>1, <2>2, <2>3
<1>6. k \in Q
  <2> HIDE DEF P, Q
  <2>1. \A n \in Nat : n \in Q
    BY <1>4, <1>5, NatSetInduction
  <2> QED BY <2>1
<1>7. QED BY <1>3, <1>6

\* A mass halved and doubled again is no more.
LEMMA DoubledBack ==
    ASSUME NEW x \in Nat, NEW j \in Nat, NEW k \in Nat
    PROVE  Doubled(Halved(x, k), j + k) <= Doubled(x, j)
<1> DEFINE P == {n \in Nat : Doubled(Halved(x, n), j + n) <= Doubled(x, j)}
<1>1. ASSUME NEW p \in Nat, NEW q \in Nat, NEW n \in Nat, p <= q
      PROVE  Doubled(p, n) <= Doubled(q, n)
  <2>1. q - p \in Nat /\ p + (q - p) = q
    BY <1>1
  <2>2. Doubled(q, n) = Doubled(p, n) + Doubled(q - p, n)
    BY <2>1, DoubledFacts
  <2>3. Doubled(p, n) \in Nat /\ Doubled(q - p, n) \in Nat
    BY <2>1, DoubledFacts
  <2>4. QED BY <2>2, <2>3
<1>2. 0 \in P
  <2>1. Halved(x, 0) = x /\ Doubled(x, j) \in Nat /\ j + 0 = j
    BY HalvedSteps, DoubledFacts
  <2>2. QED BY <2>1
<1>3. ASSUME NEW n \in Nat, n \in P
      PROVE  n + 1 \in P
  <2> DEFINE h == Halved(x, n)
             m == j + n
  <2>1. h \in Nat /\ h \div 2 \in Nat /\ (h \div 2) + (h \div 2) <= h /\ m \in Nat
    <3>1. h \in Nat
      BY HalvedNat
    <3> HIDE DEF h
    <3>2. QED BY <3>1
  <2>2. Halved(x, n + 1) = h \div 2 /\ j + (n + 1) = m + 1
    <3>1. Halved(x, n + 1) = h \div 2
      BY HalvedSteps
    <3>2. j + (n + 1) = m + 1
      OBVIOUS
    <3>3. QED BY <3>1, <3>2
  <2>3. Doubled(h, m) <= Doubled(x, j)
    BY <1>3
  <2> HIDE DEF h, m
  <2>4. Doubled(h \div 2, m + 1) = 2 * Doubled(h \div 2, m)
    BY <2>1, DoubledSteps
  <2>5. Doubled((h \div 2) + (h \div 2), m) = Doubled(h \div 2, m) + Doubled(h \div 2, m)
    BY <2>1, DoubledFacts
  <2>6. Doubled((h \div 2) + (h \div 2), m) <= Doubled(h, m)
    BY <1>1, <2>1
  <2>7. Doubled(h \div 2, m) \in Nat /\ Doubled(h, m) \in Nat /\ Doubled(x, j) \in Nat
    BY <2>1, DoubledFacts
  <2>8. Doubled(h \div 2, m + 1) <= Doubled(x, j)
    <3> DEFINE d == Doubled(h \div 2, m)
    <3>1. Doubled(h \div 2, m + 1) = d + d
      BY <2>4, <2>7
    <3>2. QED BY <2>3, <2>5, <2>6, <2>7, <3>1
  <2>9. QED BY <2>2, <2>8
<1>4. k \in P
  <2> HIDE DEF P
  <2>1. \A n \in Nat : n \in P
    BY <1>2, <1>3, NatSetInduction
  <2> QED BY <2>1
<1>5. QED BY <1>4

\* A total of natural numbers is one, and no term is left out of it.
LEMMA TotalNat ==
    ASSUME NEW f, NEW n \in Nat, \A i \in 1..n : f[i] \in Nat
    PROVE  TotalOf(f, n) \in Nat
<1> DEFINE P == {m \in Nat : m <= n => TotalOf(f, m) \in Nat}
<1>1. 0 \in P
  BY TotalSteps
<1>2. ASSUME NEW m \in Nat, m \in P
      PROVE  m + 1 \in P
  <2>1. TotalOf(f, m + 1) = TotalOf(f, m) + f[m + 1]
    BY TotalSteps
  <2>2. QED BY <1>2, <2>1
<1>3. n \in P
  <2> HIDE DEF P
  <2>1. \A m \in Nat : m \in P
    BY <1>1, <1>2, NatSetInduction
  <2> QED BY <2>1
<1>4. QED BY <1>3

\* Where one term of g is at most d more than that of f and the others are no more, so
\* is the total of g.
LEMMA TotalLess ==
    ASSUME NEW f, NEW g, NEW n \in Nat, NEW j \in 1..n, NEW d \in Int,
           \A i \in 1..n : f[i] \in Nat /\ g[i] \in Nat,
           g[j] <= f[j] + d,
           \A i \in 1..n : i # j => g[i] <= f[i]
    PROVE  TotalOf(g, n) <= TotalOf(f, n) + d
<1> DEFINE P == {m \in Nat : m <= n => TotalOf(g, m) <= TotalOf(f, m) + (IF j <= m THEN d ELSE 0)}
<1>1. 0 \in P
  BY TotalSteps
<1>2. ASSUME NEW m \in Nat, m \in P
      PROVE  m + 1 \in P
  <2>1. SUFFICES ASSUME m + 1 <= n
                 PROVE  TotalOf(g, m + 1) <= TotalOf(f, m + 1) + (IF j <= m + 1 THEN d ELSE 0)
    OBVIOUS
  <2>2. TotalOf(f, m + 1) = TotalOf(f, m) + f[m + 1] /\ TotalOf(g, m + 1) = TotalOf(g, m) + g[m + 1]
    BY TotalSteps
  <2>3. TotalOf(f, m) \in Nat /\ TotalOf(g, m) \in Nat
    <3>1. \A i \in 1..m : f[i] \in Nat /\ g[i] \in Nat
      BY <2>1
    <3>2. QED BY <3>1, TotalNat
  <2>4. f[m + 1] \in Nat /\ g[m + 1] \in Nat
    BY <2>1
  <2>5. TotalOf(g, m) <= TotalOf(f, m) + (IF j <= m THEN d ELSE 0)
    BY <1>2, <2>1
  <2>6. CASE j = m + 1
    BY <2>2, <2>3, <2>4, <2>5, <2>6
  <2>7. CASE j # m + 1
    <3>1. g[m + 1] <= f[m + 1]
      BY <2>1, <2>7
    <3>2. j <= m <=> j <= m + 1
      BY <2>7
    <3>3. QED BY <2>2, <2>3, <2>4, <2>5, <3>1, <3>2
  <2>8. QED BY <2>6, <2>7
<1>3. n \in P
  <2> HIDE DEF P
  <2>1. \A m \in Nat : m \in P
    BY <1>1, <1>2, NatSetInduction
  <2> QED BY <2>1
<1>4. QED BY <1>3

\* Term by term no more, in total no more.
LEMMA TotalGrows ==
    ASSUME NEW f, NEW g, NEW n \in Nat,
           \A i \in 1..n : f[i] \in Nat /\ g[i] \in Nat /\ g[i] <= f[i]
    PROVE  TotalOf(g, n) <= TotalOf(f, n)
<1>1. CASE n = 0
  BY <1>1, TotalSteps
<1>2. CASE n # 0
  <2>1. n \in 1..n
    BY <1>2
  <2>2. \A i \in 1..n : f[i] \in Nat /\ g[i] \in Nat
    OBVIOUS
  <2>3. g[n] <= f[n] + 0
    BY <2>1
  <2>4. TotalOf(g, n) <= TotalOf(f, n) + 0
    BY <2>1, <2>2, <2>3, TotalLess
  <2>5. TotalOf(f, n) \in Nat /\ TotalOf(g, n) \in Nat
    BY TotalNat
  <2>6. QED BY <2>4, <2>5
<1>3. QED BY <1>1, <1>2

\* Halving every term leaves no more than halving the total.
LEMMA TotalHalved ==
    ASSUME NEW f, NEW g, NEW n \in Nat, NEW k \in Nat,
           \A i \in 1..n : f[i] \in Nat /\ g[i] = Halved(f[i], k)
    PROVE  TotalOf(g, n) <= Halved(TotalOf(f, n), k)
<1> DEFINE P == {m \in Nat : m <= n => TotalOf(g, m) <= Halved(TotalOf(f, m), k)}
<1>1. 0 \in P
  <2>1. TotalOf(g, 0) = 0 /\ TotalOf(f, 0) = 0 /\ Halved(0, k) = 0
    BY TotalSteps, HalvedNat
  <2>2. QED BY <2>1
<1>2. ASSUME NEW m \in Nat, m \in P
      PROVE  m + 1 \in P
  <2>1. SUFFICES ASSUME m + 1 <= n
                 PROVE  TotalOf(g, m + 1) <= Halved(TotalOf(f, m + 1), k)
    OBVIOUS
  <2>2. TotalOf(f, m + 1) = TotalOf(f, m) + f[m + 1] /\ TotalOf(g, m + 1) = TotalOf(g, m) + g[m + 1]
    BY TotalSteps
  <2>3. f[m + 1] \in Nat /\ g[m + 1] = Halved(f[m + 1], k)
    BY <2>1
  <2>4. TotalOf(f, m) \in Nat
    <3>1. \A i \in 1..m : f[i] \in Nat
      BY <2>1
    <3>2. QED BY <3>1, TotalNat
  <2>5. TotalOf(g, m) \in Nat
    <3>1. \A i \in 1..m : g[i] \in Nat
      <4>1. \A i \in 1..m : f[i] \in Nat /\ g[i] = Halved(f[i], k)
        BY <2>1
      <4>2. QED BY <4>1, HalvedNat
    <3>2. QED BY <3>1, TotalNat
  <2>6. TotalOf(g, m) <= Halved(TotalOf(f, m), k)
    BY <1>2, <2>1
  <2>7. Halved(TotalOf(f, m), k) + Halved(f[m + 1], k) <= Halved(TotalOf(f, m) + f[m + 1], k)
    BY <2>3, <2>4, HalvedSum
  <2>8. Halved(TotalOf(f, m), k) \in Nat /\ g[m + 1] \in Nat
    BY <2>3, <2>4, HalvedNat
  <2>9. Halved(TotalOf(f, m + 1), k) \in Nat
    <3>1. TotalOf(f, m) + f[m + 1] \in Nat
      BY <2>3, <2>4
    <3>2. QED BY <2>2, <3>1, HalvedNat
  <2>10. QED BY <2>2, <2>3, <2>5, <2>6, <2>7, <2>8, <2>9
<1>3. n \in P
  <2> HIDE DEF P
  <2>1. \A m \in Nat : m \in P
    BY <1>1, <1>2, NatSetInduction
  <2> QED BY <2>1
<1>4. QED BY <1>3

-------------------------------------------------------------------------------
(* ScoreReplay: what the formulas return.                                       *)

\* The values of a row's fields, and of the trusts of its reviewers.
Grades == {"self", "missing_fields", "junk", "valid"}
Signals == [reasoning : 0..1, attachment : 0..1, breakdown : 0..1, payment : 0..1, confidence : 0..1]
Cats == {k.cat : k \in Kinds} \cup {"quality", "junk"}
Values == {k.value : k \in Kinds}
Endpoints == {k.endpoint : k \in Kinds}
Rows == [id : Nat, at : Nat, revoked : BOOLEAN, verdict : Grades \cup {""}, client : Clients, cat : Cats,
         value : Values, v : 0..10, self : BOOLEAN, signals : Signals, endpoint : Endpoints]
TrustMaps == [Clients -> 0..100]

\* The weight of a row is a natural number, and its grade is one of the four.
LEMMA WeightNat ==
    ASSUME NEW r \in Rows, NEW trusts \in TrustMaps
    PROVE  Weight(r, trusts[r.client]) \in Nat /\ GradeOf(r) \in Grades
<1>1. r.signals \in Signals /\ r.client \in Clients /\ r.self \in BOOLEAN
  BY Zenon DEF Rows
<1>2. Quality(r.signals) \in 0..100
  BY <1>1 DEF Quality, Clip, Signals
<1>3. BaseWeight(r.signals) \in Nat
  BY <1>2 DEF BaseWeight
<1>4. trusts[r.client] \in 0..100
  BY <1>1 DEF TrustMaps
<1>5. TrustMult(trusts[r.client]) \in Nat
  BY <1>4 DEF TrustMult
<1>6. BaseWeight(r.signals) * TrustMult(trusts[r.client]) \in Nat
  BY <1>3, <1>5
<1>7. GradeOf(r) \in Grades
  BY DEF GradeOf, Grades
<1>8. QED BY <1>6, <1>7 DEF Weight

\* A streak stays a natural number.
LEMMA StreakNat ==
    ASSUME NEW n \in Nat, NEW v \in 0..10
    PROVE  Streak(n, v) \in Nat
<1>1. CASE n = 0
  BY <1>1 DEF Streak, DecayConsecutiveFails
<1>2. CASE n # 0
  <2>1. (2 * n + 3) \div 6 \in Nat /\ (2 * n + 3) \div 6 <= n
    BY <1>2
  <2>2. QED BY <1>2, <2>1 DEF Streak, DecayConsecutiveFails
<1>3. QED BY <1>1, <1>2

\* A reputation is a number.
LEMMA ReputationInt ==
    ASSUME NEW m, m.a \in Nat, m.b \in Nat, NEW n \in Nat
    PROVE  Reputation(m, n) \in Int
<1>1. Clip(n, 0, 6) \in 0..6
  BY DEF Clip
<1>2. \A i \in 1..7 : <<100, 90, 77, 65, 55, 47, 40>>[i] \in Nat
  OBVIOUS
<1>3. Reliability(n) \in Nat
  BY <1>1, <1>2 DEF Reliability
<1>4. 10 * (300 * Unit + m.b) \in Nat \ {0}
  BY UnitAssumption
<1>5. m.a * Reliability(n) \in Nat
  BY <1>3
<1>6. \A p \in Nat, q \in Nat \ {0} : p \div q \in Int
  OBVIOUS
<1>7. QED BY <1>4, <1>5, <1>6 DEF Reputation

\* An adoption is a number.
LEMMA AdoptionInt ==
    ASSUME NEW n \in Nat
    PROVE  Adoption(n) \in Int
<1>1. Clip(n, 0, 5) \in 0..5
  BY DEF Clip
<1>2. \A i \in 1..6 : <<0, 38, 61, 77, 89, 100>>[i] \in Nat
  OBVIOUS
<1>3. QED BY <1>1, <1>2 DEF Adoption

\* The points of a set of checks are a number.
LEMMA ShareInt ==
    ASSUME NEW checks, IsFiniteSet(checks), NEW points \in Nat
    PROVE  Share(checks, points) \in Int
<1>1. CASE checks = {}
  BY <1>1 DEF Share
<1>2. CASE checks # {}
  <2> DEFINE healthy == {c \in checks : Healthy(c.name, c.status)}
  <2>1. Cardinality(checks) \in Nat \ {0}
    BY <1>2, FS_CardinalityType, FS_EmptySet
  <2>2. Cardinality(healthy) \in Nat
    <3>1. healthy \subseteq checks
      OBVIOUS
    <3> HIDE DEF healthy
    <3>2. QED BY <3>1, FS_Subset, FS_CardinalityType
  <2>3. points * Cardinality(healthy) \in Nat
    <3> HIDE DEF healthy
    <3> QED BY <2>2
  <2>4. \A p \in Nat, q \in Nat \ {0} : p \div q \in Int
    OBVIOUS
  <2>5. (points * Cardinality(healthy)) \div Cardinality(checks) \in Int
    BY <2>1, <2>3, <2>4
  <2>6. QED BY <1>2, <2>5 DEF Share
<1>3. QED BY <1>1, <1>2

\* Five things are finitely many.
LEMMA FiveFinite ==
    ASSUME NEW a, NEW b, NEW c, NEW d, NEW e
    PROVE  IsFiniteSet({a, b, c, d, e})
<1>1. IsFiniteSet({} \cup {a})
  BY FS_EmptySet, FS_AddElement
<1>2. IsFiniteSet(({} \cup {a}) \cup {b})
  BY <1>1, FS_AddElement
<1>3. IsFiniteSet((({} \cup {a}) \cup {b}) \cup {c})
  BY <1>2, FS_AddElement
<1>4. IsFiniteSet(((({} \cup {a}) \cup {b}) \cup {c}) \cup {d})
  BY <1>3, FS_AddElement
<1>5. IsFiniteSet((((({} \cup {a}) \cup {b}) \cup {c}) \cup {d}) \cup {e})
  BY <1>4, FS_AddElement
<1>6. {a, b, c, d, e} = (((({} \cup {a}) \cup {b}) \cup {c}) \cup {d}) \cup {e}
  OBVIOUS
<1>7. QED BY <1>5, <1>6

\* The services and compliance of the agent are numbers.
LEMMA StaticInt == ServicesNow \in Int /\ ComplianceNow \in Int
<1>1. IsFiniteSet(ServiceChecks)
  <2>1. Len(Services) \in Nat
    BY ParamsAssumption
  <2>2. IsFiniteSet(1..Len(Services))
    BY <2>1, FS_Interval
  <2> DEFINE f == [i \in 1..Len(Services) |-> [place |-> i, name |-> Names[i], status |-> Statuses[i]]]
  <2>3. f \in Surjection(1..Len(Services), ServiceChecks)
    BY DEF Surjection, ServiceChecks
  <2>4. QED
    <3> HIDE DEF f
    <3> QED BY <2>2, <2>3, FS_Surjection
<1>2. ServicesNow \in Int
  <2> DEFINE important == {c \in ServiceChecks : c.name \in Important}
             other == {c \in ServiceChecks : c.name \notin Important}
  <2>1. important \subseteq ServiceChecks /\ other \subseteq ServiceChecks
    OBVIOUS
  <2>2. Share(important, 80) \in Int /\ Share(other, 20) \in Int
    <3> HIDE DEF important, other
    <3> QED BY <1>1, <2>1, FS_Subset, ShareInt
  <2>3. QED BY <2>2 DEF ServicesNow, ServicesScore
<1>3. ComplianceNow \in Int
  <2>1. IsFiniteSet(Tier1) /\ IsFiniteSet(Tier2)
    BY FiveFinite DEF Tier1, Tier2
  <2>2. Cardinality(Card \cap Tier1) \in Nat /\ Cardinality(Card \cap Tier2) \in Nat
    BY <2>1, FS_Intersection, FS_CardinalityType
  <2>3. QED BY <2>2 DEF ComplianceNow, ComplianceScore
<1>4. QED BY <1>2, <1>3

\* A component of a composite.
Parts == [score : Int, weight : Nat, present : BOOLEAN]

\* A blend of components is a score of 0..100.
LEMMA RenormRange ==
    ASSUME NEW components \in Seq(Parts)
    PROVE  CompositeRenorm(components) \in 0..100
<1> DEFINE n == Len(components)
           weight == [i \in 1..n |-> IF components[i].present THEN components[i].weight ELSE 0]
           total == TotalOf(weight, n)
           scored == [i \in 1..n |-> weight[i] * Clip(components[i].score, 0, 100)]
           weighted == TotalOf(scored, n)
<1>1. n \in Nat /\ \A i \in 1..n : components[i] \in Parts
  OBVIOUS
<1>2. \A i \in 1..n : weight[i] \in Nat /\ scored[i] \in Nat
  <2> SUFFICES ASSUME NEW i \in 1..n
               PROVE  weight[i] \in Nat /\ scored[i] \in Nat
    OBVIOUS
  <2>1. components[i].weight \in Nat /\ components[i].score \in Int /\ components[i].present \in BOOLEAN
    BY <1>1 DEF Parts
  <2>2. weight[i] \in Nat /\ Clip(components[i].score, 0, 100) \in Nat
    BY <2>1 DEF Clip
  <2>3. scored[i] = weight[i] * Clip(components[i].score, 0, 100)
    OBVIOUS
  <2> HIDE DEF weight, scored
  <2>4. \A p \in Nat, q \in Nat : p * q \in Nat
    OBVIOUS
  <2>5. QED BY <2>2, <2>3, <2>4
<1>3. total \in Nat /\ weighted \in Nat
  <2> HIDE DEF n, weight, scored
  <2> QED BY <1>1, <1>2, TotalNat
<1>4. CompositeRenorm(components) = IF total = 0 THEN 0 ELSE Clip(weighted \div total, 0, 100)
  BY DEF CompositeRenorm
<1> HIDE DEF total, weighted
<1>5. total # 0 => weighted \div total \in Int
  BY <1>3
<1>6. \A x \in Int : Clip(x, 0, 100) \in 0..100
  BY DEF Clip
<1>7. CASE total = 0
  BY <1>4, <1>7
<1>8. CASE total # 0
  <2>1. Clip(weighted \div total, 0, 100) \in 0..100
    BY <1>5, <1>6, <1>8
  <2>2. QED BY <1>4, <1>8, <2>1
<1>9. QED BY <1>7, <1>8

\* The trust of a wallet is one too.
LEMMA WalletTrustRange ==
    ASSUME NEW reviewer \in Int, NEW owned \in Int, NEW owns \in BOOLEAN
    PROVE  WalletTrust(reviewer, 0, owned, FALSE, owns) \in 0..100
<1> DEFINE parts == <<Component(reviewer, 35, TRUE), Component(0, 25, FALSE), Component(owned, 40, owns)>>
<1>1. parts \in Seq(Parts)
  <2>1. Component(reviewer, 35, TRUE) \in Parts /\ Component(0, 25, FALSE) \in Parts
        /\ Component(owned, 40, owns) \in Parts
    BY DEF Parts, Component
  <2>2. \A x, y, z \in Parts : <<x, y, z>> \in Seq(Parts)
    OBVIOUS
  <2>3. QED BY <2>1, <2>2
<1>2. CompositeRenorm(parts) \in 0..100
  <2> HIDE DEF parts
  <2> QED BY <1>1, RenormRange
<1>3. QED BY <1>2 DEF WalletTrust

\* So are the scores of an agent, with its publisher and without.
LEMMA CompositeRange ==
    ASSUME NEW rep \in Int, NEW adoption \in Int, NEW services \in Int, NEW publisher \in Int,
           NEW compliance \in Int, NEW rated \in BOOLEAN, NEW published \in BOOLEAN
    PROVE  /\ CompositeRenorm(CompositeParts(rep, adoption, services, publisher, compliance, rated, published))
              \in 0..100
           /\ AgentDirectReputation(rep, adoption, services, compliance, rated) \in 0..100
<1> DEFINE basics == Basics(rep, adoption, services, compliance, rated)
<1>1. basics \in Seq(Parts)
  <2>1. Component(rep, 40, rated) \in Parts /\ Component(adoption, 15, TRUE) \in Parts
        /\ Component(services, 15, TRUE) \in Parts /\ Component(compliance, 10, TRUE) \in Parts
    BY DEF Parts, Component
  <2>2. \A w, x, y, z \in Parts : <<w, x, y, z>> \in Seq(Parts)
    OBVIOUS
  <2>3. QED BY <2>1, <2>2 DEF Basics
<1>2. Component(publisher, 20, published) \in Parts
  BY DEF Parts, Component
<1> HIDE DEF basics
<1>3. Append(basics, Component(publisher, 20, published)) \in Seq(Parts)
  BY <1>1, <1>2
<1>4. CompositeRenorm(basics) \in 0..100
      /\ CompositeRenorm(Append(basics, Component(publisher, 20, published))) \in 0..100
  BY <1>1, <1>3, RenormRange
<1>5. QED BY <1>4 DEF CompositeParts, AgentDirectReputation, basics

-------------------------------------------------------------------------------
(* ScoreReplay: the accumulators of a replay, and the snapshots on the way.     *)

\* Snapshots, service accumulators and accumulators of a replay.
Snaps == [a : Nat, b : Nat, fails : Nat]
Svcs == [a : Nat, b : Nat, last : Nat, fails : Nat, total : Nat]
Accs == [a : Nat, b : Nat, last : Nat, at : Nat, fails : Nat, tasks : Nat, snaps : Seq(Snaps),
         users : SUBSET Clients, stale : SUBSET Nat, valid : [Clients -> Nat], junk : [Clients -> Nat],
         services : [1..Len(Services) -> Svcs]]

\* How long after the last decay t is, and what a snapshot at t holds.
Behind(acc, t) == IF acc.last >= t THEN 0 ELSE t - acc.last
SnapOf(acc, t) == [a |-> Halved(acc.a, Behind(acc, t)), b |-> Halved(acc.b, Behind(acc, t)), fails |-> acc.fails]
\* y is x decayed, at most to t, and has seen the same rows.
Aged(x, y, t) ==
    /\ y.last >= x.last /\ (y.last = x.last \/ y.last <= t)
    /\ y.a = Halved(x.a, y.last - x.last) /\ y.b = Halved(x.b, y.last - x.last)
    /\ y.fails = x.fails /\ y.at = x.at /\ y.tasks = x.tasks /\ y.users = x.users
    /\ y.stale = x.stale /\ y.valid = x.valid /\ y.junk = x.junk /\ y.services = x.services

\* A decay to t ages the accumulator to t, or leaves it.
LEMMA DecayFacts ==
    ASSUME NEW x \in Accs, NEW t \in Int
    PROVE  /\ DecayTo(x, t) \in Accs /\ Aged(x, DecayTo(x, t), t)
           /\ DecayTo(x, t).last = x.last + Behind(x, t) /\ Behind(x, t) \in Nat
           /\ DecayTo(x, t).snaps = x.snaps
           /\ SnapOf(x, t) \in Snaps
           /\ SnapOf(x, t) = [a |-> DecayTo(x, t).a, b |-> DecayTo(x, t).b, fails |-> DecayTo(x, t).fails]
<1>1. x.a \in Nat /\ x.b \in Nat /\ x.last \in Nat /\ x.fails \in Nat
  BY DEF Accs
<1>2. Behind(x, t) \in Nat
  BY <1>1 DEF Behind
<1>3. Halved(x.a, Behind(x, t)) \in Nat /\ Halved(x.b, Behind(x, t)) \in Nat
  BY <1>1, <1>2, HalvedNat
<1>4. SnapOf(x, t) \in Snaps
  BY <1>1, <1>3 DEF SnapOf, Snaps
<1>5. CASE x.last >= t
  <2>1. DecayTo(x, t) = x /\ Behind(x, t) = 0
    BY <1>5 DEF DecayTo, Behind
  <2>2. Halved(x.a, 0) = x.a /\ Halved(x.b, 0) = x.b /\ x.last - x.last = 0 /\ x.last + 0 = x.last
    BY <1>1, HalvedSteps
  <2>3. Aged(x, x, t)
    BY <1>1, <2>2 DEF Aged
  <2>4. QED BY <1>2, <1>4, <2>1, <2>2, <2>3 DEF SnapOf
<1>6. CASE ~(x.last >= t)
  <2> DEFINE a == Halved(x.a, t - x.last)
             b == Halved(x.b, t - x.last)
             d == [x EXCEPT !.a = a, !.b = b, !.last = t]
  <2>1. Behind(x, t) = t - x.last /\ x.last + (t - x.last) = t /\ t \in Nat /\ ~(t <= x.last) /\ t >= x.last
    BY <1>1, <1>6 DEF Behind
  <2>2. DecayTo(x, t) = d
    BY <1>6, <2>1 DEF DecayTo, DecayMass
  <2>3. a \in Nat /\ b \in Nat
    BY <1>3, <2>1
  <2>4. SnapOf(x, t) = [a |-> a, b |-> b, fails |-> x.fails]
    BY <2>1 DEF SnapOf
  <2> HIDE DEF a, b
  <2>5. /\ d \in Accs
        /\ d.a = a /\ d.b = b /\ d.last = t /\ d.snaps = x.snaps
        /\ d.fails = x.fails /\ d.at = x.at /\ d.tasks = x.tasks /\ d.users = x.users
        /\ d.stale = x.stale /\ d.valid = x.valid /\ d.junk = x.junk /\ d.services = x.services
    BY <2>1, <2>3 DEF Accs
  <2> HIDE DEF d
  <2>6. d.a = Halved(x.a, d.last - x.last) /\ d.b = Halved(x.b, d.last - x.last)
    BY <2>5 DEF a, b
  <2>7. d.last >= x.last /\ d.last <= t
    BY <2>1, <2>5
  <2>8. Aged(x, d, t)
    BY <2>5, <2>6, <2>7 DEF Aged
  <2>9. QED BY <1>2, <1>4, <2>1, <2>2, <2>4, <2>5, <2>8
<1>7. QED BY <1>5, <1>6

\* What is aged keeps its snapshots from then on, and may age again.
LEMMA AgedFacts ==
    ASSUME NEW x \in Accs, NEW y \in Accs, NEW z \in Accs, NEW t \in Int, NEW u \in Int,
           Aged(x, y, t), t <= u
    PROVE  /\ SnapOf(y, u) = SnapOf(x, u)
           /\ y.last + Behind(y, u) = x.last + Behind(x, u)
           /\ Aged(x, y, u)
           /\ Aged(y, z, u) => Aged(x, z, u)
           /\ Aged(x, x, u)
<1>1. x.a \in Nat /\ x.b \in Nat /\ x.last \in Nat /\ y.last \in Nat /\ z.last \in Nat
  BY DEF Accs
<1>2. /\ y.last >= x.last /\ (y.last = x.last \/ y.last <= t)
      /\ y.a = Halved(x.a, y.last - x.last) /\ y.b = Halved(x.b, y.last - x.last)
      /\ y.fails = x.fails
  BY DEF Aged
<1>3. Behind(x, u) \in Nat /\ Behind(y, u) \in Nat
  BY <1>1 DEF Behind
<1>4. (y.last - x.last) + Behind(y, u) = Behind(x, u) /\ y.last - x.last \in Nat
  BY <1>1, <1>2 DEF Behind
<1>5. Halved(y.a, Behind(y, u)) = Halved(x.a, Behind(x, u)) /\ Halved(y.b, Behind(y, u)) = Halved(x.b, Behind(x, u))
  <2> DEFINE p == y.last - x.last
             q == Behind(y, u)
  <2>1. p \in Nat /\ q \in Nat /\ Behind(x, u) = p + q /\ y.a = Halved(x.a, p) /\ y.b = Halved(x.b, p)
    BY <1>2, <1>3, <1>4
  <2> HIDE DEF p
  <2>2. Halved(Halved(x.a, p), q) = Halved(x.a, p + q) /\ Halved(Halved(x.b, p), q) = Halved(x.b, p + q)
    <3>1. \A n \in Nat : Halved(Halved(n, p), q) = Halved(n, p + q)
      <4> HIDE DEF q
      <4>1. p \in Nat /\ q \in Nat
        BY <2>1
      <4>2. QED BY <4>1, HalvedTwice, Zenon
    <3>2. QED BY <1>1, <3>1
  <2>3. QED BY <2>1, <2>2
<1>6. SnapOf(y, u) = SnapOf(x, u)
  BY <1>2, <1>5 DEF SnapOf
<1>7. Aged(x, y, u)
  <2>1. y.last = x.last \/ y.last <= u
    BY <1>1, <1>2
  <2>2. QED BY <2>1 DEF Aged
<1>8. ASSUME Aged(y, z, u)
      PROVE  Aged(x, z, u)
  <2>1. /\ z.last >= y.last /\ (z.last = y.last \/ z.last <= u)
        /\ z.a = Halved(y.a, z.last - y.last) /\ z.b = Halved(y.b, z.last - y.last)
    BY <1>8 DEF Aged
  <2>2. z.last - y.last \in Nat /\ (y.last - x.last) + (z.last - y.last) = z.last - x.last
    BY <1>1, <2>1
  <2>3. z.a = Halved(x.a, z.last - x.last) /\ z.b = Halved(x.b, z.last - x.last)
    <3> DEFINE p == y.last - x.last
               q == z.last - y.last
    <3>1. p \in Nat /\ q \in Nat /\ z.last - x.last = p + q /\ y.a = Halved(x.a, p) /\ y.b = Halved(x.b, p)
          /\ z.a = Halved(y.a, q) /\ z.b = Halved(y.b, q)
      BY <1>2, <1>4, <2>1, <2>2
    <3> HIDE DEF p, q
    <3>2. Halved(Halved(x.a, p), q) = Halved(x.a, p + q) /\ Halved(Halved(x.b, p), q) = Halved(x.b, p + q)
      <4>1. p \in Nat /\ q \in Nat
        BY <3>1
      <4>2. \A n \in Nat : Halved(Halved(n, p), q) = Halved(n, p + q)
        BY <4>1, HalvedTwice, Zenon
      <4>3. QED BY <1>1, <4>2
    <3>3. QED BY <3>1, <3>2
  <2>4. z.last >= x.last /\ (z.last = x.last \/ z.last <= u)
    BY <1>1, <1>2, <2>1
  <2>5. QED BY <1>8, <2>3, <2>4 DEF Aged
<1>9. Aged(x, x, u)
  <2>1. Halved(x.a, 0) = x.a /\ Halved(x.b, 0) = x.b /\ x.last - x.last = 0 /\ x.last >= x.last
    BY <1>1, HalvedSteps
  <2>2. QED BY <2>1 DEF Aged
<1>10. y.last + Behind(y, u) = x.last + Behind(x, u)
  BY <1>1, <1>3, <1>4
<1>11. QED BY <1>6, <1>7, <1>8, <1>9, <1>10

\* A window opens with the snapshot of its time.
LEMMA WindowFacts ==
    ASSUME NEW x \in Accs, NEW at \in Int, NEW t \in Int, NEW i \in 1..Len(Windows)
    PROVE  LET y == OpenWindow(x, at, i, t)
               opens == i > Len(x.snaps) /\ at - Windows[i] < t
           IN  /\ y \in Accs /\ at - Windows[i] \in Int
               /\ ~opens => y = x
               /\ opens => y.snaps = Append(x.snaps, SnapOf(x, at - Windows[i])) /\ Aged(x, y, at - Windows[i])
<1> DEFINE y == OpenWindow(x, at, i, t)
           u == at - Windows[i]
           opens == i > Len(x.snaps) /\ at - Windows[i] < t
           d == DecayTo(x, u)
           s == SnapOf(x, u)
<1>1. Windows[i] \in Nat
  BY ParamsAssumption
<1>2. u \in Int
  BY <1>1
<1>3. CASE ~opens
  BY <1>2, <1>3 DEF OpenWindow, OpensBefore
<1>4. CASE opens
  <2>1. y = TakeSnapshot(x, u)
    BY <1>4 DEF OpenWindow, OpensBefore
  <2>2. d \in Accs /\ Aged(x, d, u) /\ d.snaps = x.snaps /\ s \in Snaps
    <3> HIDE DEF u
    <3> QED BY <1>2, DecayFacts
  <2>3. s = [a |-> d.a, b |-> d.b, fails |-> d.fails]
    <3> HIDE DEF u
    <3> QED BY <1>2, DecayFacts
  <2>4. y = [d EXCEPT !.snaps = Append(@, s)]
    BY <2>1, <2>3 DEF TakeSnapshot
  <2> HIDE DEF y, d, s
  <2>5. Append(d.snaps, s) \in Seq(Snaps)
    BY <2>2 DEF Accs
  <2> DEFINE q == Append(d.snaps, s)
  <2>6. y = [d EXCEPT !.snaps = q]
    BY <2>4
  <2>7. q \in Seq(Snaps)
    BY <2>5
  <2> HIDE DEF q
  <2>8. /\ y \in Accs /\ y.snaps = q /\ y.last = d.last /\ y.a = d.a /\ y.b = d.b /\ y.fails = d.fails
        /\ y.at = d.at /\ y.tasks = d.tasks /\ y.users = d.users
        /\ y.stale = d.stale /\ y.valid = d.valid /\ y.junk = d.junk /\ y.services = d.services
    BY <2>2, <2>6, <2>7 DEF Accs
  <2>9. Aged(x, y, u)
    BY <2>2, <2>8 DEF Aged
  <2>10. y.snaps = Append(x.snaps, s)
    BY <2>2, <2>8 DEF q
  <2>11. QED BY <1>2, <1>4, <2>8, <2>9, <2>10 DEF s, y
<1>5. QED BY <1>3, <1>4

\* y is x with the snapshots of the first m windows that open before t: the windows
\* that had none get theirs from x at the time they open.
Opened(x, y, at, t, m) ==
    /\ Aged(x, y, t - 1)
    /\ \A i \in m + 1..Len(Windows) : Aged(x, y, at - Windows[i])
    /\ Len(y.snaps) >= Len(x.snaps) /\ (Len(y.snaps) <= Len(x.snaps) \/ Len(y.snaps) <= m)
    /\ \A i \in 1..Len(x.snaps) : y.snaps[i] = x.snaps[i]
    /\ \A i \in 1..m : i <= Len(y.snaps) <=> (i <= Len(x.snaps) \/ at - Windows[i] < t)
    /\ \A i \in 1..m : i > Len(x.snaps) /\ at - Windows[i] < t => y.snaps[i] = SnapOf(x, at - Windows[i])

\* The next window, whether it opens or not.
LEMMA OpenNext ==
    ASSUME NEW x \in Accs, NEW y \in Accs, NEW at \in Int, NEW t \in Int, NEW m \in Nat,
           m + 1 <= Len(Windows), Opened(x, y, at, t, m)
    PROVE  OpenWindow(y, at, m + 1, t) \in Accs /\ Opened(x, OpenWindow(y, at, m + 1, t), at, t, m + 1)
<1> DEFINE z == OpenWindow(y, at, m + 1, t)
           u == at - Windows[m + 1]
           opens == m + 1 > Len(y.snaps) /\ u < t
<1>1. m + 1 \in 1..Len(Windows)
  BY ParamsAssumption
<1>2. z \in Accs /\ u \in Int /\ (~opens => z = y)
      /\ (opens => z.snaps = Append(y.snaps, SnapOf(y, u)) /\ Aged(y, z, u))
  BY <1>1, WindowFacts
<1>3. x.snaps \in Seq(Snaps) /\ y.snaps \in Seq(Snaps) /\ z.snaps \in Seq(Snaps)
  BY <1>2 DEF Accs
<1>4. \A i, j \in 1..Len(Windows) : i <= j => at - Windows[i] <= at - Windows[j] /\ at - Windows[i] \in Int
  <2>1. \A i \in 1..Len(Windows) : Windows[i] \in Nat
    BY ParamsAssumption
  <2>2. \A i, j \in 1..Len(Windows) : i <= j => Windows[i] >= Windows[j]
    BY ParamsAssumption
  <2>3. QED BY <2>1, <2>2
<1>5. Len(x.snaps) \in Nat /\ Len(y.snaps) \in Nat
  BY <1>3
<1> HIDE DEF z
<1>6. CASE ~opens
  <2>1. z = y
    BY <1>2, <1>6
  <2>2. \A i \in m + 2..Len(Windows) : Aged(x, y, at - Windows[i])
    BY DEF Opened
  <2>3. m + 1 <= Len(y.snaps) <=> (m + 1 <= Len(x.snaps) \/ u < t)
    BY <1>5, <1>6 DEF Opened
  <2>4. \A i \in 1..m + 1 : i \in 1..m \/ i = m + 1
    OBVIOUS
  <2>5. \A i \in 1..m + 1 : i <= Len(y.snaps) <=> (i <= Len(x.snaps) \/ at - Windows[i] < t)
    BY <2>3, <2>4 DEF Opened
  <2>6. \A i \in 1..m + 1 : i > Len(x.snaps) /\ at - Windows[i] < t => y.snaps[i] = SnapOf(x, at - Windows[i])
    <3>1. ~(m + 1 > Len(x.snaps) /\ u < t)
      BY <1>5, <1>6 DEF Opened
    <3>2. QED BY <2>4, <3>1 DEF Opened
  <2>7. Opened(x, y, at, t, m + 1)
    BY <1>5, <2>2, <2>5, <2>6 DEF Opened
  <2>8. QED BY <1>2, <2>1, <2>7 DEF z
<1>7. CASE opens
  <2>1. z.snaps = Append(y.snaps, SnapOf(y, u)) /\ Aged(y, z, u)
    BY <1>2, <1>7
  <2>2. \A i \in 1..m : at - Windows[i] < t
    <3>1. \A i \in 1..m : i \in 1..Len(Windows) /\ m + 1 \in 1..Len(Windows) /\ i <= m + 1
      BY <1>1
    <3>2. \A i \in 1..m : at - Windows[i] <= u /\ at - Windows[i] \in Int
      BY <1>4, <3>1
    <3>3. QED BY <1>2, <1>7, <3>2
  <2>3. Len(y.snaps) = m
    <3>1. m # 0 => m \in 1..m
      OBVIOUS
    <3>2. m <= Len(y.snaps)
      BY <1>5, <2>2, <3>1 DEF Opened
    <3>3. QED BY <1>5, <1>7, <3>2
  <2>4. Aged(x, y, u)
    BY <1>1 DEF Opened
  <2>5. SnapOf(y, u) = SnapOf(x, u) /\ Aged(x, z, u)
    <3>1. u <= u
      BY <1>2
    <3> HIDE DEF u
    <3>2. QED BY <1>2, <2>1, <2>4, <3>1, AgedFacts
  <2>6. \A w \in Int : u <= w => Aged(x, z, w)
    <3> HIDE DEF u
    <3>1. QED BY <1>2, <2>5, AgedFacts
  <2>7. Aged(x, z, t - 1) /\ \A i \in (m + 1) + 1..Len(Windows) : Aged(x, z, at - Windows[i])
    <3>1. u <= t - 1 /\ t - 1 \in Int
      BY <1>2, <1>7
    <3>2. \A i \in (m + 1) + 1..Len(Windows) : u <= at - Windows[i] /\ at - Windows[i] \in Int
      BY <1>1, <1>4
    <3> HIDE DEF u
    <3>3. QED BY <2>6, <3>1, <3>2
  <2>8. Len(z.snaps) = m + 1 /\ z.snaps[m + 1] = SnapOf(x, u) /\ \A i \in 1..m : z.snaps[i] = y.snaps[i]
    <3> HIDE DEF u
    <3> QED BY <1>3, <2>1, <2>3, <2>5
  <2>9. Len(x.snaps) <= m /\ \A i \in 1..Len(x.snaps) : z.snaps[i] = x.snaps[i]
    <3>1. Len(x.snaps) <= m
      BY <1>5, <2>3 DEF Opened
    <3>2. \A i \in 1..Len(x.snaps) : i \in 1..m
      BY <1>5, <3>1
    <3>3. QED BY <2>8, <3>1, <3>2 DEF Opened
  <2>10. \A i \in 1..m + 1 : i <= Len(z.snaps) /\ at - Windows[i] < t
    BY <1>7, <2>2, <2>8
  <2>11. \A i \in 1..m + 1 : i > Len(x.snaps) => z.snaps[i] = SnapOf(x, at - Windows[i])
    <3>1. \A i \in 1..m : i > Len(x.snaps) => y.snaps[i] = SnapOf(x, at - Windows[i])
      BY <2>2 DEF Opened
    <3>2. \A i \in 1..m + 1 : i \in 1..m \/ i = m + 1
      OBVIOUS
    <3>3. QED BY <2>8, <3>1, <3>2
  <2>12. Opened(x, z, at, t, m + 1)
    BY <1>5, <2>7, <2>8, <2>9, <2>10, <2>11 DEF Opened
  <2>13. QED BY <1>2, <2>12 DEF z
<1>8. QED BY <1>6, <1>7

\* The equation of SnapshotsBefore.
TakenBy(g, x, at, t, m) == g = [i \in 0..m |-> IF i = 0 THEN x ELSE OpenWindow(g[i - 1], at, i, t)]

\* All the windows that open before t.
LEMMA SnapshotsFacts ==
    ASSUME NEW x \in Accs, NEW at \in Int, NEW t \in Int
    PROVE  /\ SnapshotsBefore(x, at, t) \in Accs
           /\ Opened(x, SnapshotsBefore(x, at, t), at, t, Len(Windows))
<1> DEFINE n == Len(Windows)
           P == {m \in Nat : \E g : TakenBy(g, x, at, t, m)}
<1>1. n \in Nat
  BY ParamsAssumption
<1>2. 0 \in P
  <2>1. TakenBy([i \in 0..0 |-> x], x, at, t, 0)
    BY DEF TakenBy
  <2>2. QED BY <2>1
<1>3. ASSUME NEW m \in Nat, m \in P
      PROVE  m + 1 \in P
  <2>1. PICK h : TakenBy(h, x, at, t, m)
    BY <1>3
  <2>2. TakenBy([i \in 0..m + 1 |-> IF i = 0 THEN x ELSE OpenWindow(h[i - 1], at, i, t)], x, at, t, m + 1)
    BY <2>1 DEF TakenBy
  <2>3. QED BY <2>2
<1>4. \E g : TakenBy(g, x, at, t, n)
  <2>1. n \in P
    <3> HIDE DEF P, n
    <3>1. \A m \in Nat : m \in P
      BY <1>2, <1>3, NatSetInduction
    <3>2. QED BY <1>1, <3>1
  <2>2. QED BY <2>1
<1>5. PICK g : TakenBy(g, x, at, t, n) /\ SnapshotsBefore(x, at, t) = g[n]
  BY <1>4 DEF SnapshotsBefore, TakenBy
<1> DEFINE Q == {m \in Nat : m <= n => g[m] \in Accs /\ Opened(x, g[m], at, t, m)}
<1>6. 0 \in Q
  <2>1. g[0] = x
    BY <1>1, <1>5 DEF TakenBy
  <2>2. \A u \in Int : Aged(x, x, u)
    <3>1. x.a \in Nat /\ x.b \in Nat /\ x.last \in Nat
      BY DEF Accs
    <3>2. Halved(x.a, 0) = x.a /\ Halved(x.b, 0) = x.b /\ x.last - x.last = 0 /\ x.last >= x.last
      BY <3>1, HalvedSteps
    <3>3. QED BY <3>2 DEF Aged
  <2>3. \A i \in 1..n : at - Windows[i] \in Int
    BY ParamsAssumption
  <2>4. Len(x.snaps) \in Nat
    BY DEF Accs
  <2>5. Opened(x, x, at, t, 0)
    BY <2>2, <2>3, <2>4 DEF Opened
  <2>6. QED BY <2>1, <2>5
<1>7. ASSUME NEW m \in Nat, m \in Q
      PROVE  m + 1 \in Q
  <2>1. SUFFICES ASSUME m + 1 <= n
                 PROVE  g[m + 1] \in Accs /\ Opened(x, g[m + 1], at, t, m + 1)
    OBVIOUS
  <2>2. g[m + 1] = OpenWindow(g[m], at, m + 1, t)
    BY <1>1, <1>5, <2>1 DEF TakenBy
  <2>3. g[m] \in Accs /\ Opened(x, g[m], at, t, m)
    BY <1>1, <1>7, <2>1
  <2>4. QED BY <2>1, <2>2, <2>3, OpenNext
<1>8. n \in Q
  <2> HIDE DEF Q, n
  <2>1. \A m \in Nat : m \in Q
    BY <1>6, <1>7, NatSetInduction
  <2>2. QED BY <1>1, <2>1
<1>9. QED BY <1>1, <1>5, <1>8

-------------------------------------------------------------------------------
(* ScoreReplay: what a replay does with one row.                                *)

\* The rows whose mass a replay adds.
Counts(r) == ~r.revoked /\ r.cat # "others" /\ Scorable(r)
WeightOf(r, trusts) == Weight(r, trusts[r.client])

\* Nothing the score is made of has changed.
SameMass(x, y) == /\ y.a = x.a /\ y.b = x.b /\ y.last = x.last /\ y.at = x.at /\ y.fails = x.fails
                  /\ y.tasks = x.tasks /\ y.snaps = x.snaps /\ y.services = x.services
\* The windows that open before t have a snapshot of x, if they had none.
Snapped(x, y, at, t) ==
    /\ Len(y.snaps) >= Len(x.snaps)
    /\ \A i \in 1..Len(x.snaps) : y.snaps[i] = x.snaps[i]
    /\ \A i \in 1..Len(Windows) : i <= Len(y.snaps) <=> (i <= Len(x.snaps) \/ at - Windows[i] < t)
    /\ \A i \in 1..Len(Windows) : i > Len(x.snaps) /\ at - Windows[i] < t
                                  => y.snaps[i] = SnapOf(x, at - Windows[i])
\* y is x with the mass of r, of weight w.
Scored(x, y, r, w, at) ==
    /\ y.a = Halved(x.a, Behind(x, r.at)) + w * r.v * Unit /\ y.b = Halved(x.b, Behind(x, r.at)) + w * Unit
    /\ y.last = x.last + Behind(x, r.at) /\ y.at = r.at /\ y.fails = Streak(x.fails, r.v) /\ y.tasks = x.tasks + 1
    /\ y.services = [i \in 1..Len(Services) |-> IF i \in CreditedTo[r.endpoint]
                                                THEN ServiceStep(x.services[i], r, w) ELSE x.services[i]]
    /\ Snapped(x, y, at, r.at)

\* A service keeps its type.
LEMMA ServiceType ==
    ASSUME NEW svc \in Svcs, NEW r \in Rows, NEW w \in Nat
    PROVE  LET y == ServiceStep(svc, r, w)
               k == IF r.at <= svc.last THEN 0 ELSE r.at - svc.last
           IN  /\ y \in Svcs /\ k \in Nat /\ y.last = r.at /\ y.total = svc.total + 1
               /\ y.b = Halved(svc.b, k) + w * Unit
<1> DEFINE k == IF r.at <= svc.last THEN 0 ELSE r.at - svc.last
           a == Halved(svc.a, k)
           b == Halved(svc.b, k)
           m == w * r.v * Unit
           n == w * Unit
           y == ServiceStep(svc, r, w)
<1>1. svc.a \in Nat /\ svc.b \in Nat /\ svc.last \in Nat /\ svc.fails \in Nat /\ svc.total \in Nat
      /\ r.at \in Nat /\ r.v \in 0..10
  BY Zenon DEF Svcs, Rows
<1>2. k \in Nat
  BY <1>1
<1>3. a \in Nat /\ b \in Nat /\ Halved(svc.a, 0) = svc.a /\ Halved(svc.b, 0) = svc.b
  <2> HIDE DEF k
  <2> QED BY <1>1, <1>2, HalvedNat, HalvedSteps
<1>4. DecayMass([a |-> svc.a, b |-> svc.b], svc.last, r.at) = [a |-> a, b |-> b]
  BY <1>3 DEF DecayMass
<1>5. m \in Nat /\ n \in Nat
  <2>1. r.v \in Nat /\ Unit \in Nat
    BY <1>1, UnitAssumption
  <2>2. \A p, q \in Nat : p * q \in Nat
    OBVIOUS
  <2>3. QED BY <2>1, <2>2
<1> HIDE DEF a, b
<1>6. y = [a |-> a + m, b |-> b + n, last |-> r.at, fails |-> Streak(svc.fails, r.v), total |-> svc.total + 1]
  BY <1>4 DEF ServiceStep, ApplyFeedbackToMass, AddMass
<1>7. Streak(svc.fails, r.v) \in Nat
  BY <1>1, StreakNat
<1> HIDE DEF y, k, m, n
<1>8. y \in Svcs /\ y.last = r.at /\ y.total = svc.total + 1 /\ y.b = b + n
  BY <1>1, <1>3, <1>5, <1>6, <1>7 DEF Svcs
<1>9. QED BY <1>2, <1>8 DEF k, y, b, n

\* A scored row.
LEMMA ScoreRowFacts ==
    ASSUME NEW x \in Accs, NEW r \in Rows, NEW at \in Int, NEW trusts \in TrustMaps
    PROVE  /\ ScoreRow(x, r, at, trusts) \in Accs
           /\ Scored(x, ScoreRow(x, r, at, trusts), r, WeightOf(r, trusts), at)
           /\ ScoreRow(x, r, at, trusts).stale = x.stale
<1> DEFINE w == WeightOf(r, trusts)
           s == SnapshotsBefore(x, at, r.at)
           d == DecayTo(s, r.at)
           m == w * r.v * Unit
           n == w * Unit
           q == [i \in 1..Len(Services) |-> IF i \in CreditedTo[r.endpoint]
                                            THEN ServiceStep(x.services[i], r, w) ELSE x.services[i]]
           f == Streak(x.fails, r.v)
           y == ScoreRow(x, r, at, trusts)
<1>1. r.at \in Nat /\ r.at \in Int /\ r.v \in 0..10 /\ r.v \in Nat
  <2>1. r.at \in Nat /\ r.v \in 0..10
    BY Zenon DEF Rows
  <2>2. QED BY <2>1
<1>2. w \in Nat
  BY WeightNat DEF WeightOf
<1>3. m \in Nat /\ n \in Nat
  <2> HIDE DEF w
  <2>1. Unit \in Nat
    BY UnitAssumption
  <2>2. \A i, j \in Nat : i * j \in Nat
    OBVIOUS
  <2>3. QED BY <1>1, <1>2, <2>1, <2>2
<1>4. s \in Accs /\ Opened(x, s, at, r.at, Len(Windows))
  BY <1>1, SnapshotsFacts
<1>5. Aged(x, s, r.at - 1) /\ r.at - 1 \in Int /\ r.at - 1 <= r.at
  BY <1>1, <1>4 DEF Opened
<1> HIDE DEF s
<1>6. d \in Accs /\ Aged(s, d, r.at) /\ d.last = s.last + Behind(s, r.at) /\ d.snaps = s.snaps
  BY <1>1, <1>4, DecayFacts
<1>7. Aged(x, d, r.at) /\ d.last = x.last + Behind(x, r.at) /\ Behind(x, r.at) \in Nat
  <2> HIDE DEF d
  <2>1. Aged(x, d, r.at) /\ s.last + Behind(s, r.at) = x.last + Behind(x, r.at)
    BY <1>1, <1>4, <1>5, <1>6, AgedFacts
  <2>2. QED BY <1>1, <1>6, <2>1, DecayFacts
<1> HIDE DEF d
<1>8. x.last \in Nat /\ x.fails \in Nat /\ x.tasks \in Nat /\ x.services \in [1..Len(Services) -> Svcs]
  BY DEF Accs
<1>9. /\ d.a = Halved(x.a, Behind(x, r.at)) /\ d.b = Halved(x.b, Behind(x, r.at))
      /\ d.fails = x.fails /\ d.tasks = x.tasks /\ d.services = x.services /\ d.stale = x.stale
  <2>1. d.last - x.last = Behind(x, r.at)
    BY <1>7, <1>8
  <2>2. QED BY <1>7, <2>1 DEF Aged
<1>10. y = [d EXCEPT !.a = d.a + m, !.b = d.b + n, !.at = r.at, !.tasks = d.tasks + 1, !.fails = f, !.services = q]
  <2>1. DOMAIN d.services = 1..Len(Services)
    BY <1>8, <1>9
  <2>2. y = [d EXCEPT !.a = d.a + m, !.b = d.b + n, !.at = r.at, !.tasks = @ + 1, !.fails = Streak(@, r.v),
                      !.services = [i \in DOMAIN @ |-> IF i \in CreditedTo[r.endpoint]
                                                       THEN ServiceStep(@[i], r, w) ELSE @[i]]]
    BY DEF ScoreRow, AddMass, s, d, WeightOf
  <2>3. QED BY <1>6, <1>9, <2>1, <2>2 DEF Accs
<1>11. q \in [1..Len(Services) -> Svcs]
  <2> HIDE DEF w
  <2>1. \A i \in 1..Len(Services) : x.services[i] \in Svcs /\ ServiceStep(x.services[i], r, w) \in Svcs
    BY <1>2, <1>8, ServiceType
  <2>2. QED BY <2>1
<1>12. f \in Nat
  BY <1>1, <1>8, StreakNat
<1>13. d.a \in Nat /\ d.b \in Nat /\ d.tasks \in Nat
  BY <1>6 DEF Accs
<1> HIDE DEF w, m, n, q, f, y
<1>14. /\ y \in Accs
       /\ y.a = d.a + m /\ y.b = d.b + n /\ y.last = d.last /\ y.at = r.at /\ y.fails = f /\ y.tasks = d.tasks + 1
       /\ y.services = q /\ y.snaps = d.snaps /\ y.stale = d.stale
  <2>1. d.a + m \in Nat /\ d.b + n \in Nat /\ d.tasks + 1 \in Nat
    BY <1>3, <1>13
  <2>2. QED BY <1>1, <1>6, <1>10, <1>11, <1>12, <2>1 DEF Accs
<1>15. Snapped(x, y, at, r.at)
  BY <1>4, <1>6, <1>14 DEF Opened, Snapped
<1>16. Scored(x, y, r, w, at)
  BY <1>7, <1>9, <1>14, <1>15 DEF Scored, m, n, q, f
<1>17. QED BY <1>9, <1>14, <1>16 DEF y, w

\* A graded row has its verdict in the list of what to store; no mass changes.
LEMMA GradeFacts ==
    ASSUME NEW x \in Accs, NEW r \in Rows, NEW at \in Int
    PROVE  LET u == UserStep(x, r, at)
               y == GradeStep(u, r)
           IN  /\ u \in Accs /\ SameMass(x, u) /\ u.stale = x.stale
               /\ y \in Accs /\ SameMass(x, y) /\ x.stale \subseteq y.stale
               /\ r.verdict # GradeOf(r) => r.id \in y.stale
<1> DEFINE u == UserStep(x, r, at)
           y == GradeStep(u, r)
<1>1. r.id \in Nat /\ r.client \in Clients
  BY Zenon DEF Rows
<1>2. u \in Accs /\ SameMass(x, u) /\ u.stale = x.stale
  <2> DEFINE more == x.users \cup {r.client}
             v == [x EXCEPT !.users = more]
  <2>1. more \in SUBSET Clients
    BY <1>1 DEF Accs
  <2> HIDE DEF more
  <2>2. v \in Accs /\ SameMass(x, v) /\ v.stale = x.stale
    BY <2>1 DEF Accs, SameMass
  <2>3. x \in Accs /\ SameMass(x, x)
    BY DEF SameMass
  <2>4. u = v \/ u = x
    BY DEF UserStep, more
  <2> HIDE DEF u, v
  <2>5. QED BY <2>2, <2>3, <2>4
<1> HIDE DEF u
<1>3. y \in Accs /\ SameMass(u, y) /\ u.stale \subseteq y.stale /\ (r.verdict # GradeOf(r) => r.id \in y.stale)
  <2> DEFINE late == IF r.verdict # GradeOf(r) THEN u.stale \cup {r.id} ELSE u.stale
             valid == [u.valid EXCEPT ![r.client] = IF Gated(r) THEN @ ELSE @ + 1]
             junk == [u.junk EXCEPT ![r.client] = IF Gated(r) THEN @ + 1 ELSE @]
  <2>1. u.stale \in SUBSET Nat /\ u.valid \in [Clients -> Nat] /\ u.junk \in [Clients -> Nat]
    BY <1>2 DEF Accs
  <2>2. late \in SUBSET Nat /\ u.stale \subseteq late /\ (r.verdict # GradeOf(r) => r.id \in late)
    BY <1>1, <2>1
  <2>3. valid \in [Clients -> Nat] /\ junk \in [Clients -> Nat]
    BY <1>1, <2>1
  <2>4. y = [u EXCEPT !.stale = late, !.valid = valid, !.junk = junk]
    BY <1>2 DEF GradeStep, Accs
  <2> HIDE DEF late, valid, junk, y
  <2>5. y \in Accs /\ SameMass(u, y) /\ y.stale = late
    BY <1>2, <2>2, <2>3, <2>4 DEF Accs, SameMass
  <2>6. QED BY <2>2, <2>5
<1> HIDE DEF y
<1>4. SameMass(x, y)
  BY <1>2, <1>3 DEF SameMass
<1>5. QED BY <1>2, <1>3, <1>4 DEF u, y

\* One row of a replay: the mass of what counts, and the grade of what has one.
LEMMA RowFacts ==
    ASSUME NEW x \in Accs, NEW r \in Rows, NEW at \in Int, NEW trusts \in TrustMaps
    PROVE  LET y == ReplayRow(x, r, at, trusts)
           IN  /\ y \in Accs
               /\ ~Counts(r) => SameMass(x, y)
               /\ Counts(r) => Scored(x, y, r, WeightOf(r, trusts), at)
               /\ x.stale \subseteq y.stale
               /\ ~r.revoked /\ r.cat # "others" /\ r.verdict # GradeOf(r) => r.id \in y.stale
<1> DEFINE u == UserStep(x, r, at)
           g == GradeStep(u, r)
           y == ReplayRow(x, r, at, trusts)
           Right == /\ y \in Accs
                    /\ ~Counts(r) => SameMass(x, y)
                    /\ Counts(r) => Scored(x, y, r, WeightOf(r, trusts), at)
                    /\ x.stale \subseteq y.stale
                    /\ ~r.revoked /\ r.cat # "others" /\ r.verdict # GradeOf(r) => r.id \in y.stale
<1>1. /\ u \in Accs /\ SameMass(x, u) /\ u.stale = x.stale
      /\ g \in Accs /\ SameMass(x, g) /\ x.stale \subseteq g.stale
      /\ r.verdict # GradeOf(r) => r.id \in g.stale
  BY GradeFacts
<1>2. r.revoked \in BOOLEAN
  BY Zenon DEF Rows
<1>3. /\ r.revoked => y = x
      /\ ~r.revoked /\ r.cat = "others" => y = u
      /\ ~r.revoked /\ r.cat # "others" => y = IF Scorable(r) THEN ScoreRow(g, r, at, trusts) ELSE g
  BY <1>2 DEF ReplayRow
<1> HIDE DEF u, g, y
<1>4. ASSUME r.revoked
      PROVE  Right
  BY <1>3, <1>4 DEF SameMass, Counts
<1>5. ASSUME ~r.revoked /\ r.cat = "others"
      PROVE  Right
  BY <1>1, <1>3, <1>5 DEF Counts
<1>6. ASSUME ~r.revoked /\ r.cat # "others" /\ ~Scorable(r)
      PROVE  Right
  BY <1>1, <1>3, <1>6 DEF Counts
<1>7. ASSUME ~r.revoked /\ r.cat # "others" /\ Scorable(r)
      PROVE  Right
  <2>1. y \in Accs /\ Scored(g, y, r, WeightOf(r, trusts), at) /\ y.stale = g.stale
    BY <1>1, <1>3, <1>7, ScoreRowFacts
  <2>2. Behind(g, r.at) = Behind(x, r.at) /\ \A t : SnapOf(g, t) = SnapOf(x, t)
    BY <1>1 DEF SameMass, Behind, SnapOf
  <2>3. Scored(x, y, r, WeightOf(r, trusts), at)
    <3>1. Snapped(x, y, at, r.at)
      BY <1>1, <2>1, <2>2 DEF Scored, Snapped, SameMass
    <3>2. g.a = x.a /\ g.b = x.b /\ g.last = x.last /\ g.fails = x.fails /\ g.tasks = x.tasks /\ g.services = x.services
      BY <1>1 DEF SameMass
    <3>3. QED BY <2>1, <2>2, <3>1, <3>2 DEF Scored
  <2>4. QED BY <1>1, <1>7, <2>1, <2>3 DEF Counts
<1>8. QED BY <1>2, <1>4, <1>5, <1>6, <1>7 DEF y

-------------------------------------------------------------------------------
(* ScoreReplay: the snapshots of a replay, and the earlier replays they stand    *)
(* for.                                                                         *)

\* The equation of RowsReplayed.
ReplayedBy(f, history, at, trusts, m) ==
    f = [n \in 0..m |-> IF n = 0 THEN Start ELSE ReplayRow(f[n - 1], history[n], at, trusts)]

\* The accumulator that nothing was added to.
LEMMA StartType == Start \in Accs
<1>1. NoService \in Svcs
  BY DEF NoService, Svcs
<1>2. /\ [i \in 1..Len(Services) |-> NoService] \in [1..Len(Services) -> Svcs]
      /\ [c \in Clients |-> 0] \in [Clients -> Nat]
      /\ <<>> \in Seq(Snaps)
  BY <1>1
<1>3. QED BY <1>2 DEF Start, Accs

\* A replay goes row after row, and each accumulator is well typed.
LEMMA ReplayedFacts ==
    ASSUME NEW history \in Seq(Rows), NEW at \in Int, NEW trusts \in TrustMaps
    PROVE  LET acc == RowsReplayed(history, at, trusts)
           IN  /\ acc[0] = Start
               /\ \A n \in 0..Len(history) : acc[n] \in Accs
               /\ \A n \in 0..Len(history) - 1 : acc[n + 1] = ReplayRow(acc[n], history[n + 1], at, trusts)
<1> DEFINE acc == RowsReplayed(history, at, trusts)
           P == {m \in Nat : \E f : ReplayedBy(f, history, at, trusts, m)}
<1>1. 0 \in P
  <2>1. ReplayedBy([n \in 0..0 |-> Start], history, at, trusts, 0)
    BY DEF ReplayedBy
  <2>2. QED BY <2>1
<1>2. ASSUME NEW m \in Nat, m \in P
      PROVE  m + 1 \in P
  <2>1. PICK h : ReplayedBy(h, history, at, trusts, m)
    BY <1>2
  <2>2. ReplayedBy([n \in 0..m + 1 |-> IF n = 0 THEN Start ELSE ReplayRow(h[n - 1], history[n], at, trusts)],
                   history, at, trusts, m + 1)
    BY <2>1 DEF ReplayedBy
  <2>3. QED BY <2>2
<1>3. Len(history) \in P
  <2> HIDE DEF P
  <2>1. \A m \in Nat : m \in P
    BY <1>1, <1>2, NatSetInduction
  <2>2. QED BY <2>1
<1>4. ReplayedBy(acc, history, at, trusts, Len(history))
  BY <1>3 DEF RowsReplayed, ReplayedBy
<1> HIDE DEF acc
<1>5. acc[0] = Start
  BY <1>4 DEF ReplayedBy
<1>6. ASSUME NEW n \in 0..Len(history) - 1
      PROVE  acc[n + 1] = ReplayRow(acc[n], history[n + 1], at, trusts)
  <2>1. n + 1 \in 0..Len(history) /\ n + 1 # 0 /\ (n + 1) - 1 = n
    OBVIOUS
  <2>2. QED BY <1>4, <2>1 DEF ReplayedBy
<1> DEFINE Q == {n \in Nat : n <= Len(history) => acc[n] \in Accs}
<1>7. 0 \in Q
  BY <1>5, StartType
<1>8. ASSUME NEW n \in Nat, n \in Q
      PROVE  n + 1 \in Q
  <2>1. SUFFICES ASSUME n + 1 <= Len(history)
                 PROVE  acc[n + 1] \in Accs
    OBVIOUS
  <2>2. acc[n + 1] = ReplayRow(acc[n], history[n + 1], at, trusts) /\ acc[n] \in Accs /\ history[n + 1] \in Rows
    BY <1>6, <1>8, <2>1
  <2>3. QED BY <2>2, RowFacts
<1>9. \A n \in Nat : n \in Q
  <2> HIDE DEF Q
  <2> QED BY <1>7, <1>8, NatSetInduction
<1>10. \A n \in 0..Len(history) : acc[n] \in Accs
  BY <1>9
<1>11. QED BY <1>5, <1>6, <1>10 DEF acc

\* The mass and the streak of two accumulators are the same.
SameCore(x, y) == x.a = y.a /\ x.b = y.b /\ x.last = y.last /\ x.fails = y.fails

\* They stay the same by the same row, at whatever time the replay is made; and they
\* are all a snapshot is made of.
LEMMA CoreFacts ==
    ASSUME NEW x \in Accs, NEW y \in Accs, NEW r \in Rows, NEW at \in Int, NEW to \in Int, NEW trusts \in TrustMaps,
           SameCore(x, y)
    PROVE  /\ SameCore(ReplayRow(x, r, at, trusts), ReplayRow(y, r, to, trusts))
           /\ \A t \in Int : SnapOf(x, t) = SnapOf(y, t)
<1> DEFINE p == ReplayRow(x, r, at, trusts)
           q == ReplayRow(y, r, to, trusts)
<1>1. /\ ~Counts(r) => SameMass(x, p) /\ SameMass(y, q)
      /\ Counts(r) => Scored(x, p, r, WeightOf(r, trusts), at) /\ Scored(y, q, r, WeightOf(r, trusts), to)
  BY RowFacts
<1> HIDE DEF p, q
<1>2. \A t : Behind(x, t) = Behind(y, t)
  BY DEF SameCore, Behind
<1>3. ASSUME Counts(r)
      PROVE  SameCore(p, q)
  BY <1>1, <1>2, <1>3 DEF Scored, SameCore
<1>4. ASSUME ~Counts(r)
      PROVE  SameCore(p, q)
  BY <1>1, <1>4 DEF SameMass, SameCore
<1>5. \A t \in Int : SnapOf(x, t) = SnapOf(y, t)
  BY <1>2 DEF SameCore, SnapOf
<1>6. QED BY <1>3, <1>4, <1>5 DEF p, q

\* The end of a replay: the remaining windows, and the mass decayed to its time.
LEMMA ReplayEnds ==
    ASSUME NEW history \in Seq(Rows), NEW at \in Int, NEW trusts \in TrustMaps
    PROVE  LET x == RowsReplayed(history, at, trusts)[Len(history)]
               y == Replay(history, at, trusts)
           IN  /\ x \in Accs /\ y \in Accs /\ Aged(x, y, at) /\ Snapped(x, y, at, at + 1)
               /\ y.last = x.last + Behind(x, at)
               /\ SnapOf(x, at) = [a |-> y.a, b |-> y.b, fails |-> y.fails]
<1> DEFINE x == RowsReplayed(history, at, trusts)[Len(history)]
           s == SnapshotsBefore(x, at, at + 1)
           y == DecayTo(s, at)
<1>1. x \in Accs
  BY ReplayedFacts
<1>2. Replay(history, at, trusts) = y
  BY DEF Replay
<1> HIDE DEF x
<1>3. at + 1 \in Int /\ (at + 1) - 1 = at /\ at <= at
  OBVIOUS
<1>4. s \in Accs /\ Opened(x, s, at, at + 1, Len(Windows))
  BY <1>1, <1>3, SnapshotsFacts
<1>5. Aged(x, s, at)
  BY <1>3, <1>4 DEF Opened
<1> HIDE DEF s
<1>6. y \in Accs /\ Aged(s, y, at) /\ y.snaps = s.snaps /\ y.last = s.last + Behind(s, at)
      /\ SnapOf(s, at) = [a |-> y.a, b |-> y.b, fails |-> y.fails]
  BY <1>4, DecayFacts
<1> HIDE DEF y
<1>7. SnapOf(s, at) = SnapOf(x, at) /\ s.last + Behind(s, at) = x.last + Behind(x, at) /\ Aged(x, y, at)
  BY <1>1, <1>3, <1>4, <1>5, <1>6, AgedFacts
<1>8. Snapped(x, y, at, at + 1)
  BY <1>4, <1>6 DEF Opened, Snapped
<1>9. QED BY <1>1, <1>2, <1>6, <1>7, <1>8 DEF x

\* Rows stand in the order of time.
InOrder(history) == \A i, j \in 1..Len(history) : i <= j => history[i].at <= history[j].at

\* Until a window opens, the accumulator is that of the rows given by then; once it
\* has a snapshot, that is what it was taken of.
LEMMA SnapshotOfPrefix ==
    ASSUME NEW history \in Seq(Rows), InOrder(history), NEW at \in Int, NEW trusts \in TrustMaps,
           NEW i \in 1..Len(Windows), NEW given \in 0..Len(history),
           \A n \in 1..Len(history) : n <= given <=> history[n].at <= at - Windows[i]
    PROVE  LET acc == RowsReplayed(history, at, trusts)
           IN  Replay(history, at, trusts).snaps[i] = SnapOf(acc[given], at - Windows[i])
<1> DEFINE acc == RowsReplayed(history, at, trusts)
           t == at - Windows[i]
           last == Len(history)
           upto(n) == IF n <= given THEN n ELSE given
           P == {n \in Nat : n <= last =>
                    /\ i <= Len(acc[n].snaps) => acc[n].snaps[i] = SnapOf(acc[given], t)
                    /\ i > Len(acc[n].snaps) => SameCore(acc[n], acc[upto(n)])}
<1>1. /\ acc[0] = Start
      /\ \A n \in 0..last : acc[n] \in Accs
      /\ \A n \in 0..last - 1 : acc[n + 1] = ReplayRow(acc[n], history[n + 1], at, trusts)
  BY ReplayedFacts
<1>2. t \in Int /\ last \in Nat
  <2>1. Windows[i] \in Nat
    BY ParamsAssumption
  <2>2. QED BY <2>1
<1>3. \A n \in 1..last : history[n] \in Rows /\ history[n].at \in Int
  <2>1. \A n \in 1..last : history[n] \in Rows
    OBVIOUS
  <2>2. \A r \in Rows : r.at \in Nat
    BY Zenon DEF Rows
  <2>3. QED BY <2>1, <2>2
<1> HIDE DEF acc
<1>4. 0 \in P
  <2>1. Len(acc[0].snaps) = 0 /\ upto(0) = 0
    BY <1>1 DEF Start
  <2>2. QED BY <2>1 DEF SameCore
<1>5. ASSUME NEW n \in Nat, n \in P
      PROVE  n + 1 \in P
  <2> DEFINE x == acc[n]
             y == acc[n + 1]
             r == history[n + 1]
  <2>1. SUFFICES ASSUME n + 1 <= last
                 PROVE  /\ i <= Len(y.snaps) => y.snaps[i] = SnapOf(acc[given], t)
                        /\ i > Len(y.snaps) => SameCore(y, acc[upto(n + 1)])
    OBVIOUS
  <2>2. n \in 0..last /\ n + 1 \in 0..last /\ n \in 0..last - 1 /\ n + 1 \in 1..last
    BY <2>1
  <2>3. x \in Accs /\ y \in Accs /\ r \in Rows /\ y = ReplayRow(x, r, at, trusts)
    BY <1>1, <1>3, <2>2
  <2>4. /\ i <= Len(x.snaps) => x.snaps[i] = SnapOf(acc[given], t)
        /\ i > Len(x.snaps) => SameCore(x, acc[upto(n)])
    BY <1>5, <2>2
  <2>5. (~Counts(r) => SameMass(x, y)) /\ (Counts(r) => Snapped(x, y, at, r.at))
    <3> HIDE DEF x, y, r
    <3> QED BY <2>3, RowFacts DEF Scored
  <2>6. Len(x.snaps) \in Nat /\ Len(y.snaps) \in Nat
    <3> HIDE DEF x, y, r
    <3>1. x.snaps \in Seq(Snaps) /\ y.snaps \in Seq(Snaps)
      BY <2>3 DEF Accs
    <3>2. QED BY <3>1
  <2>7. n + 1 <= given => upto(n + 1) = n + 1
    OBVIOUS
  <2>8. given <= n => upto(n + 1) = given /\ upto(n) = given
    OBVIOUS
  <2>9. (n + 1 <= given <=> r.at <= t) /\ r.at \in Int
    BY <1>3, <2>2
  <2> HIDE DEF x, y, r, upto, t
  <2>10. ASSUME ~Counts(r)
         PROVE  /\ i <= Len(y.snaps) => y.snaps[i] = SnapOf(acc[given], t)
                /\ i > Len(y.snaps) => SameCore(y, acc[upto(n + 1)])
    <3>1. y.snaps = x.snaps /\ SameCore(y, x)
      BY <2>5, <2>10 DEF SameMass, SameCore
    <3>2. ASSUME i > Len(x.snaps)
          PROVE  SameCore(y, acc[upto(n + 1)])
      <4>1. CASE n + 1 <= given
        BY <2>7, <4>1 DEF SameCore, y
      <4>2. CASE ~(n + 1 <= given)
        <5>1. upto(n) = given /\ upto(n + 1) = given
          BY <2>8, <4>2
        <5>2. SameCore(x, acc[given])
          BY <2>4, <3>2, <5>1
        <5>3. QED BY <3>1, <5>1, <5>2 DEF SameCore
      <4>3. QED BY <4>1, <4>2
    <3>3. QED BY <2>4, <3>1, <3>2
  <2>11. ASSUME Counts(r)
         PROVE  /\ i <= Len(y.snaps) => y.snaps[i] = SnapOf(acc[given], t)
                /\ i > Len(y.snaps) => SameCore(y, acc[upto(n + 1)])
    <3>1. /\ Len(y.snaps) >= Len(x.snaps)
          /\ i <= Len(x.snaps) => y.snaps[i] = x.snaps[i]
          /\ i <= Len(y.snaps) <=> (i <= Len(x.snaps) \/ t < r.at)
          /\ i > Len(x.snaps) /\ t < r.at => y.snaps[i] = SnapOf(x, t)
      BY <2>5, <2>6, <2>11 DEF Snapped, t
    <3>2. CASE i <= Len(x.snaps)
      BY <2>4, <2>6, <3>1, <3>2
    <3>3. CASE i > Len(x.snaps) /\ t < r.at
      <4>1. upto(n) = given
        BY <1>2, <2>8, <2>9, <3>3
      <4>2. given \in 0..last /\ acc[given] \in Accs
        BY <1>1
      <4>3. SnapOf(x, t) = SnapOf(acc[given], t)
        BY <2>4, <3>3, <4>1 DEF SameCore, SnapOf, Behind
      <4>4. QED BY <2>6, <3>1, <3>3, <4>3
    <3>4. CASE i > Len(x.snaps) /\ ~(t < r.at)
      <4>1. upto(n + 1) = n + 1
        BY <1>2, <2>7, <2>9, <3>4
      <4>2. SameCore(y, acc[upto(n + 1)])
        BY <4>1 DEF SameCore, y
      <4>3. QED BY <2>6, <3>1, <3>4, <4>2
    <3>5. QED BY <2>6, <3>2, <3>3, <3>4
  <2>12. QED BY <2>10, <2>11
<1>6. last \in P
  <2> HIDE DEF P, last
  <2>1. \A n \in Nat : n \in P
    BY <1>4, <1>5, NatSetInduction
  <2>2. QED BY <1>2, <2>1
<1> DEFINE x == acc[last]
           y == Replay(history, at, trusts)
<1>7. x \in Accs /\ Snapped(x, y, at, at + 1)
  BY ReplayEnds DEF acc
<1>8. /\ i <= Len(x.snaps) => x.snaps[i] = SnapOf(acc[given], t)
      /\ i > Len(x.snaps) => SameCore(x, acc[given])
  <2>1. upto(last) = given
    OBVIOUS
  <2>2. QED BY <1>2, <1>6, <2>1
<1>9. t < at + 1
  <2>1. Windows[i] \in Nat
    BY ParamsAssumption
  <2>2. QED BY <2>1
<1>10. Len(x.snaps) \in Nat
  BY <1>7, SMTT(30) DEF Accs
<1>11. /\ i <= Len(x.snaps) => y.snaps[i] = x.snaps[i]
       /\ i > Len(x.snaps) => y.snaps[i] = SnapOf(x, t)
  BY <1>7, <1>9, <1>10, SMTT(30) DEF Snapped
<1>12. i > Len(x.snaps) => SnapOf(x, t) = SnapOf(acc[given], t)
  BY <1>8 DEF SameCore, SnapOf, Behind
<1> HIDE DEF x, y, t
<1>13. y.snaps[i] = SnapOf(acc[given], t)
  BY <1>8, <1>10, <1>11, <1>12
<1>14. QED BY <1>13 DEF acc, y, t

\* A snapshot on the way is what a replay of the rows given by then finds.
LEMMA SnapshotIsReplay ==
    ASSUME NEW history \in Seq(Rows), InOrder(history), NEW at \in Int, NEW trusts \in TrustMaps,
           NEW i \in 1..Len(Windows), NEW given \in 0..Len(history),
           \A n \in 1..Len(history) : n <= given <=> history[n].at <= at - Windows[i]
    PROVE  LET then == Replay(SubSeq(history, 1, given), at - Windows[i], trusts)
           IN  Replay(history, at, trusts).snaps[i] = [a |-> then.a, b |-> then.b, fails |-> then.fails]
<1> DEFINE t == at - Windows[i]
           early == SubSeq(history, 1, given)
           acc == RowsReplayed(history, at, trusts)
           was == RowsReplayed(early, t, trusts)
           P == {n \in Nat : n <= given => SameCore(acc[n], was[n])}
<1>1. t \in Int
  <2>1. Windows[i] \in Nat
    BY ParamsAssumption
  <2>2. QED BY <2>1
<1>2. early \in Seq(Rows) /\ Len(early) = given /\ \A n \in 1..given : early[n] = history[n] /\ history[n] \in Rows
  <2>1. \A n \in 1..given : n \in 1..Len(history)
    OBVIOUS
  <2>2. QED BY <2>1
<1> HIDE DEF t, early
<1>3. /\ acc[0] = Start
      /\ \A n \in 0..Len(history) : acc[n] \in Accs
      /\ \A n \in 0..Len(history) - 1 : acc[n + 1] = ReplayRow(acc[n], history[n + 1], at, trusts)
  BY ReplayedFacts
<1>4. /\ was[0] = Start
      /\ \A n \in 0..given : was[n] \in Accs
      /\ \A n \in 0..given - 1 : was[n + 1] = ReplayRow(was[n], early[n + 1], t, trusts)
  BY <1>1, <1>2, ReplayedFacts
<1> HIDE DEF acc, was
<1>5. 0 \in P
  BY <1>3, <1>4 DEF SameCore
<1>6. ASSUME NEW n \in Nat, n \in P
      PROVE  n + 1 \in P
  <2>1. SUFFICES ASSUME n + 1 <= given
                 PROVE  SameCore(acc[n + 1], was[n + 1])
    OBVIOUS
  <2>2. /\ n \in 0..Len(history) /\ n \in 0..Len(history) - 1
        /\ n \in 0..given /\ n \in 0..given - 1 /\ n + 1 \in 1..given
    BY <2>1
  <2> DEFINE r == history[n + 1]
  <2>3. r \in Rows /\ acc[n + 1] = ReplayRow(acc[n], r, at, trusts) /\ was[n + 1] = ReplayRow(was[n], r, t, trusts)
    BY <1>2, <1>3, <1>4, <2>2
  <2>4. acc[n] \in Accs /\ was[n] \in Accs /\ SameCore(acc[n], was[n])
    BY <1>3, <1>4, <1>6, <2>1, <2>2
  <2> HIDE DEF r
  <2>5. QED BY <1>1, <2>3, <2>4, CoreFacts
<1>7. SameCore(acc[given], was[given]) /\ acc[given] \in Accs /\ was[given] \in Accs
  <2>1. given \in P
    <3> HIDE DEF P
    <3>1. \A n \in Nat : n \in P
      BY <1>5, <1>6, NatSetInduction
    <3>2. QED BY <3>1
  <2>2. QED BY <1>3, <1>4, <2>1
<1>8. SnapOf(acc[given], t) = SnapOf(was[given], t)
  BY <1>7 DEF SameCore, SnapOf, Behind
<1> DEFINE then == Replay(early, t, trusts)
<1>9. SnapOf(was[given], t) = [a |-> then.a, b |-> then.b, fails |-> then.fails]
  BY <1>1, <1>2, ReplayEnds DEF was
<1>10. Replay(history, at, trusts).snaps[i] = SnapOf(acc[given], t)
  BY SnapshotOfPrefix DEF acc, t
<1>11. QED BY <1>8, <1>9, <1>10 DEF t, early

-------------------------------------------------------------------------------
(* ScoreReplay: the services share out no more than the agent has.              *)

\* What the services hold at time t, and how many rows they were credited; neither is
\* more than the whole.
SharesAt(x, t) == [j \in 1..Len(Services) |-> Halved(x.services[j].b, t - x.services[j].last)]
TasksOf(x) == [j \in 1..Len(Services) |-> x.services[j].total]
ServicesWithin(x) ==
    /\ \A j \in 1..Len(Services) : x.services[j].last <= x.last
    /\ TotalOf(SharesAt(x, x.last), Len(Services)) <= x.b
    /\ TotalOf(TasksOf(x), Len(Services)) <= x.tasks

\* Decayed together, they still do.
LEMMA AgedShares ==
    ASSUME NEW x \in Accs, ServicesWithin(x), NEW t \in Nat, t >= x.last
    PROVE  /\ t - x.last \in Nat
           /\ \A j \in 1..Len(Services) : /\ SharesAt(x, t)[j] \in Nat
                                          /\ x.services[j] \in Svcs /\ t - x.services[j].last \in Nat
           /\ TotalOf(SharesAt(x, t), Len(Services)) <= Halved(x.b, t - x.last)
<1> DEFINE n == Len(Services)
           k == t - x.last
           f == SharesAt(x, x.last)
           g == SharesAt(x, t)
<1>1. x.b \in Nat /\ x.last \in Nat /\ n \in Nat /\ k \in Nat
  <2>1. x.b \in Nat /\ x.last \in Nat
    BY DEF Accs
  <2>2. QED BY <2>1, ParamsAssumption
<1>2. \A j \in 1..n : /\ x.services[j] \in Svcs
                      /\ x.services[j].b \in Nat /\ x.last - x.services[j].last \in Nat
                      /\ t - x.services[j].last = (x.last - x.services[j].last) + k
                      /\ t - x.services[j].last \in Nat
  <2> SUFFICES ASSUME NEW j \in 1..n
               PROVE  /\ x.services[j] \in Svcs
                      /\ x.services[j].b \in Nat /\ x.last - x.services[j].last \in Nat
                      /\ t - x.services[j].last = (x.last - x.services[j].last) + k
                      /\ t - x.services[j].last \in Nat
    OBVIOUS
  <2> DEFINE svc == x.services[j]
  <2>1. svc \in Svcs
    BY DEF Accs
  <2>2. svc.last <= x.last
    BY DEF ServicesWithin
  <2> HIDE DEF svc
  <2>3. svc.b \in Nat /\ svc.last \in Nat
    BY <2>1 DEF Svcs
  <2>4. \A l \in Nat : l <= x.last => x.last - l \in Nat /\ t - l = (x.last - l) + k /\ t - l \in Nat
    BY <1>1
  <2>5. x.last - svc.last \in Nat /\ t - svc.last = (x.last - svc.last) + k /\ t - svc.last \in Nat
    <3> HIDE DEF k
    <3> QED BY <2>2, <2>3, <2>4
  <2> HIDE DEF k
  <2>6. QED BY <2>1, <2>3, <2>5 DEF svc
<1>3. ASSUME NEW j \in 1..n
      PROVE  f[j] \in Nat /\ g[j] = Halved(f[j], k) /\ g[j] \in Nat
  <2> DEFINE b == x.services[j].b
             p == x.last - x.services[j].last
  <2>1. b \in Nat /\ p \in Nat /\ t - x.services[j].last = p + k
    BY <1>2
  <2>2. f[j] = Halved(b, p) /\ g[j] = Halved(b, p + k)
    BY <2>1 DEF SharesAt
  <2> HIDE DEF b, p, k
  <2>3. Halved(Halved(b, p), k) = Halved(b, p + k)
    <3>1. b \in Nat /\ p \in Nat /\ k \in Nat
      BY <1>1, <2>1 DEF k
    <3>2. QED BY <3>1, HalvedTwice, Zenon
  <2>4. Halved(b, p) \in Nat
    BY <2>1, HalvedNat
  <2>5. Halved(Halved(b, p), k) \in Nat
    BY <1>1, <2>4, HalvedNat
  <2>6. QED BY <2>2, <2>3, <2>4, <2>5
<1>4. TotalOf(g, n) <= Halved(TotalOf(f, n), k)
  <2> HIDE DEF f, g, k, n
  <2> QED BY <1>1, <1>3, TotalHalved
<1>5. Halved(TotalOf(f, n), k) <= Halved(x.b, k)
  <2>1. TotalOf(f, n) <= x.b
    BY DEF ServicesWithin
  <2> HIDE DEF f, g, k, n
  <2>2. TotalOf(f, n) \in Nat
    BY <1>1, <1>3, TotalNat
  <2>3. QED BY <1>1, <2>1, <2>2, HalvedGrows
<1>6. TotalOf(g, n) \in Nat /\ Halved(TotalOf(f, n), k) \in Nat /\ Halved(x.b, k) \in Nat
  <2> HIDE DEF f, g, k, n
  <2>1. TotalOf(f, n) \in Nat /\ TotalOf(g, n) \in Nat
    BY <1>1, <1>3, TotalNat
  <2>2. QED BY <1>1, <2>1, HalvedNat
<1>7. TotalOf(g, n) <= Halved(x.b, k)
  <2> HIDE DEF f, g, k, n
  <2> QED BY <1>4, <1>5, <1>6
<1>8. QED BY <1>1, <1>2, <1>3, <1>7

\* A row goes to one service at most, with the weight it has in the agent.
LEMMA ScoredShares ==
    ASSUME NEW x \in Accs, NEW y \in Accs, NEW r \in Rows, NEW w \in Nat, NEW at,
           Scored(x, y, r, w, at), x.last <= r.at, ServicesWithin(x)
    PROVE  ServicesWithin(y)
<1> DEFINE n == Len(Services)
           t == r.at
           f == SharesAt(x, t)
           g == SharesAt(y, t)
           p == TasksOf(x)
           q == TasksOf(y)
           credited == CreditedTo[r.endpoint]
           m == w * Unit
<1>1. t \in Nat /\ r.endpoint \in Endpoints /\ x.last \in Nat
  <2>1. t \in Nat /\ r.endpoint \in Endpoints
    BY Zenon DEF Rows
  <2>2. x.last \in Nat
    BY DEF Accs
  <2>3. QED BY <2>1, <2>2
<1>2. /\ t - x.last \in Nat
      /\ \A j \in 1..n : f[j] \in Nat /\ x.services[j] \in Svcs /\ t - x.services[j].last \in Nat
      /\ TotalOf(f, n) <= Halved(x.b, t - x.last)
  <2> HIDE DEF t
  <2> QED BY <1>1, AgedShares DEF t
<1>3. \A i, j \in credited : i = j
  BY <1>1 DEF CreditedTo, Credited, Endpoints
<1>4. m \in Nat
  <2>1. Unit \in Nat
    BY UnitAssumption
  <2>2. QED BY <2>1
<1>5. y.last = t /\ y.b = Halved(x.b, t - x.last) + m /\ y.tasks = x.tasks + 1
  <2>1. Behind(x, r.at) = t - x.last
    BY <1>1 DEF Behind
  <2>2. QED BY <1>1, <2>1 DEF Scored
<1>6. \A j \in 1..n : y.services[j] = IF j \in credited THEN ServiceStep(x.services[j], r, w) ELSE x.services[j]
  BY DEF Scored
<1>7. ASSUME NEW j \in 1..n
      PROVE  /\ y.services[j].last <= t /\ g[j] \in Nat /\ p[j] \in Nat /\ q[j] \in Nat
             /\ g[j] <= f[j] + (IF j \in credited THEN m ELSE 0)
             /\ q[j] <= p[j] + (IF j \in credited THEN 1 ELSE 0)
  <2> DEFINE svc == x.services[j]
             new == y.services[j]
  <2>1. svc \in Svcs /\ t - svc.last \in Nat
    BY <1>2
  <2>2. f[j] = Halved(svc.b, t - svc.last) /\ g[j] = Halved(new.b, t - new.last)
        /\ p[j] = svc.total /\ q[j] = new.total
    BY DEF SharesAt, TasksOf
  <2>3. new = IF j \in credited THEN ServiceStep(svc, r, w) ELSE svc
    BY <1>6
  <2> HIDE DEF svc, new, f, g, p, q, credited
  <2>4. svc.b \in Nat /\ svc.last \in Nat /\ svc.total \in Nat
    BY <2>1 DEF Svcs
  <2>5. CASE j \notin credited
    <3>1. f[j] \in Nat
      BY <1>2
    <3>2. new = svc
      BY <2>3, <2>5
    <3>3. svc.last <= t
      BY <1>1, <2>1, <2>4
    <3>4. g[j] = f[j] /\ q[j] = p[j] /\ p[j] \in Nat
      BY <2>2, <2>4, <3>2
    <3>5. g[j] <= f[j] + 0 /\ q[j] <= p[j] + 0
      BY <3>1, <3>4
    <3>6. QED BY <2>5, <3>1, <3>2, <3>3, <3>4, <3>5 DEF new
  <2>6. CASE j \in credited
    <3>1. /\ new.last = t /\ new.total = svc.total + 1
          /\ new.b = Halved(svc.b, IF t <= svc.last THEN 0 ELSE t - svc.last) + m
      BY <2>1, <2>3, <2>6, ServiceType
    <3>2. (IF t <= svc.last THEN 0 ELSE t - svc.last) = t - svc.last
      BY <1>1, <2>1, <2>4
    <3>3. new.b = f[j] + m /\ f[j] \in Nat
      BY <1>2, <2>2, <3>1, <3>2
    <3>4. g[j] = new.b
      <4>1. t - new.last = 0
        BY <1>1, <3>1
      <4>2. Halved(new.b, 0) = new.b
        BY HalvedSteps
      <4>3. QED BY <2>2, <4>1, <4>2
    <3> HIDE DEF m, t
    <3>5. new.last <= t
      BY <1>1, <3>1
    <3>6. g[j] = f[j] + m /\ g[j] \in Nat
      BY <1>4, <3>3, <3>4
    <3>7. q[j] = p[j] + 1 /\ p[j] \in Nat /\ q[j] \in Nat
      BY <2>2, <2>4, <3>1
    <3>8. QED BY <2>6, <3>3, <3>5, <3>6, <3>7 DEF new
  <2>7. QED BY <2>5, <2>6
<1>8. n \in Nat
  BY ParamsAssumption
<1>9. TotalOf(g, n) <= TotalOf(f, n) + m /\ TotalOf(q, n) <= TotalOf(p, n) + 1
  <2> HIDE DEF f, g, p, q, m, n, credited
  <2>1. \A j \in 1..n : f[j] \in Nat /\ g[j] \in Nat /\ p[j] \in Nat /\ q[j] \in Nat
    BY <1>2, <1>7
  <2>2. CASE \E j \in 1..n : j \in credited
    <3>1. PICK j \in 1..n : j \in credited
      BY <2>2
    <3>2. g[j] <= f[j] + m /\ q[j] <= p[j] + 1
      BY <1>7, <3>1
    <3>3. \A i \in 1..n : i # j => g[i] <= f[i] /\ q[i] <= p[i]
      <4> SUFFICES ASSUME NEW i \in 1..n, i # j
                   PROVE  g[i] <= f[i] /\ q[i] <= p[i]
        OBVIOUS
      <4>1. i \notin credited
        BY <1>3, <3>1
      <4>2. g[i] <= f[i] + 0 /\ q[i] <= p[i] + 0
        BY <1>7, <4>1
      <4>3. QED BY <2>1, <4>2
    <3>4. TotalOf(g, n) <= TotalOf(f, n) + m
      BY <1>4, <1>8, <2>1, <3>2, <3>3, TotalLess
    <3>5. TotalOf(q, n) <= TotalOf(p, n) + 1
      BY <1>8, <2>1, <3>2, <3>3, TotalLess
    <3>6. QED BY <3>4, <3>5
  <2>3. CASE ~ \E j \in 1..n : j \in credited
    <3>1. \A i \in 1..n : g[i] <= f[i] /\ q[i] <= p[i]
      <4> SUFFICES ASSUME NEW i \in 1..n
                   PROVE  g[i] <= f[i] /\ q[i] <= p[i]
        OBVIOUS
      <4>1. g[i] <= f[i] + 0 /\ q[i] <= p[i] + 0
        BY <1>7, <2>3
      <4>2. QED BY <2>1, <4>1
    <3>2. TotalOf(g, n) <= TotalOf(f, n) /\ TotalOf(q, n) <= TotalOf(p, n)
      BY <1>8, <2>1, <3>1, TotalGrows
    <3>3. TotalOf(g, n) \in Nat /\ TotalOf(f, n) \in Nat /\ TotalOf(p, n) \in Nat /\ TotalOf(q, n) \in Nat
      BY <1>8, <2>1, TotalNat
    <3>4. QED BY <1>4, <3>2, <3>3
  <2>4. QED BY <2>2, <2>3
<1>10. TotalOf(g, n) <= y.b /\ TotalOf(q, n) <= y.tasks
  <2>1. TotalOf(p, n) <= x.tasks /\ x.tasks \in Nat /\ x.b \in Nat
    BY DEF ServicesWithin, Accs
  <2> HIDE DEF f, g, p, q, m, n, credited, t
  <2>2. TotalOf(g, n) \in Nat /\ TotalOf(f, n) \in Nat /\ TotalOf(p, n) \in Nat /\ TotalOf(q, n) \in Nat
    BY <1>2, <1>7, <1>8, TotalNat
  <2>3. Halved(x.b, t - x.last) \in Nat
    BY <1>2, <2>1, HalvedNat
  <2>4. QED BY <1>2, <1>4, <1>5, <1>9, <2>1, <2>2, <2>3
<1>11. QED BY <1>5, <1>7, <1>10 DEF ServicesWithin

-------------------------------------------------------------------------------
(* ScoreReplay: the mass of a replay is within what its rows are worth.         *)

\* A row adds at most its worth.
LEMMA ScoredMass ==
    ASSUME NEW x \in Accs, NEW y \in Accs, NEW r \in Rows, NEW w \in Nat, NEW at,
           Scored(x, y, r, w, at), x.last <= r.at
    PROVE  /\ w * r.v * Unit \in Nat /\ w * Unit \in Nat /\ y.last = r.at /\ y.at = r.at
           /\ Doubled(y.a, y.last) <= Doubled(x.a, x.last) + Doubled(w * r.v * Unit, r.at)
           /\ Doubled(y.b, y.last) <= Doubled(x.b, x.last) + Doubled(w * Unit, r.at)
<1> DEFINE k == r.at - x.last
           m == w * r.v * Unit
           n == w * Unit
           t == r.at
<1>1. x.a \in Nat /\ x.b \in Nat /\ x.last \in Nat /\ t \in Nat /\ r.v \in Nat
  <2>1. x.a \in Nat /\ x.b \in Nat /\ x.last \in Nat
    BY DEF Accs
  <2>2. t \in Nat /\ r.v \in 0..10
    BY Zenon DEF Rows
  <2>3. QED BY <2>1, <2>2
<1>2. m \in Nat /\ n \in Nat
  <2>1. Unit \in Nat
    BY UnitAssumption
  <2>2. \A p, q \in Nat : p * q \in Nat
    OBVIOUS
  <2>3. QED BY <1>1, <2>1, <2>2
<1>3. k \in Nat /\ Behind(x, r.at) = k /\ x.last + k = t
  BY <1>1 DEF Behind
<1>4. y.a = Halved(x.a, k) + m /\ y.b = Halved(x.b, k) + n /\ y.last = t /\ y.at = t
  BY <1>3 DEF Scored
<1> HIDE DEF k, m, n, t
<1>5. ASSUME NEW p \in Nat, NEW q \in Nat
      PROVE  Doubled(Halved(p, k) + q, t) <= Doubled(p, x.last) + Doubled(q, t)
  <2>1. Halved(p, k) \in Nat
    BY <1>3, HalvedNat
  <2> DEFINE h == Halved(p, k)
  <2>2. Doubled(h, x.last + k) <= Doubled(p, x.last)
    BY <1>1, <1>3, DoubledBack
  <2> HIDE DEF h
  <2>3. Doubled(h + q, t) = Doubled(h, t) + Doubled(q, t)
    BY <1>1, <2>1, DoubledFacts DEF h
  <2>4. Doubled(h, t) \in Nat /\ Doubled(q, t) \in Nat /\ Doubled(p, x.last) \in Nat
    BY <1>1, <2>1, DoubledFacts DEF h
  <2>5. Doubled(h, t) <= Doubled(p, x.last)
    BY <1>3, <2>2
  <2>6. Doubled(h + q, t) <= Doubled(p, x.last) + Doubled(q, t)
    BY <2>3, <2>4, <2>5
  <2>7. QED BY <2>6 DEF h
<1>6. /\ Doubled(Halved(x.a, k) + m, t) <= Doubled(x.a, x.last) + Doubled(m, t)
      /\ Doubled(Halved(x.b, k) + n, t) <= Doubled(x.b, x.last) + Doubled(n, t)
  BY <1>1, <1>2, <1>5
<1>7. QED BY <1>2, <1>4, <1>6 DEF m, n, t

\* What the rows of a history are worth, value and weight.
Worth(history, trusts) ==
    [i \in 1..Len(history) |-> IF Counts(history[i])
                               THEN Doubled(WeightOf(history[i], trusts) * history[i].v * Unit, history[i].at) ELSE 0]
Weights(history, trusts) ==
    [i \in 1..Len(history) |-> IF Counts(history[i])
                               THEN Doubled(WeightOf(history[i], trusts) * Unit, history[i].at) ELSE 0]
\* Both are natural numbers, row by row and in total.
LEMMA WorthNat ==
    ASSUME NEW history \in Seq(Rows), NEW trusts \in TrustMaps, NEW n \in 0..Len(history)
    PROVE  /\ \A i \in 1..n : Worth(history, trusts)[i] \in Nat /\ Weights(history, trusts)[i] \in Nat
           /\ TotalOf(Worth(history, trusts), n) \in Nat /\ TotalOf(Weights(history, trusts), n) \in Nat
<1> DEFINE f == Worth(history, trusts)
           g == Weights(history, trusts)
<1>1. ASSUME NEW i \in 1..n
      PROVE  f[i] \in Nat /\ g[i] \in Nat
  <2> DEFINE h == history[i]
             m == WeightOf(h, trusts)
  <2>1. i \in 1..Len(history) /\ h \in Rows
    OBVIOUS
  <2>2. /\ f[i] = IF Counts(h) THEN Doubled(m * h.v * Unit, h.at) ELSE 0
        /\ g[i] = IF Counts(h) THEN Doubled(m * Unit, h.at) ELSE 0
    BY <2>1 DEF Worth, Weights
  <2> HIDE DEF h
  <2>3. m \in Nat /\ h.at \in Nat
    BY <2>1, WeightNat, Zenon DEF WeightOf, Rows
  <2>4. h.v \in 0..10
    BY <2>1, Zenon DEF Rows
  <2>5. h.v \in Nat /\ Unit \in Nat
    BY <2>4, UnitAssumption
  <2> HIDE DEF m, f, g
  <2>6. \A p, q \in Nat : p * q \in Nat
    OBVIOUS
  <2>7. m * h.v * Unit \in Nat /\ m * Unit \in Nat
    BY <2>3, <2>5, <2>6
  <2>8. Doubled(m * h.v * Unit, h.at) \in Nat /\ Doubled(m * Unit, h.at) \in Nat
    BY <2>3, <2>7, DoubledFacts
  <2>9. QED BY <2>2, <2>8
<1> HIDE DEF f, g
<1>2. TotalOf(f, n) \in Nat /\ TotalOf(g, n) \in Nat
  BY <1>1, TotalNat
<1>3. QED BY <1>1, <1>2 DEF f, g

\* The rows a replay has to grade.
Ungraded(r) == ~r.revoked /\ r.cat # "others" /\ r.verdict # GradeOf(r)

\* What holds of an accumulator after n rows.
Fair(x, n, history, at, trusts) ==
    /\ x.last <= at /\ \A m \in n + 1..Len(history) : x.last <= history[m].at
    /\ x.at <= x.last
    /\ ServicesWithin(x)
    /\ Doubled(x.a, x.last) <= TotalOf(Worth(history, trusts), n)
    /\ Doubled(x.b, x.last) <= TotalOf(Weights(history, trusts), n)
    /\ \A m \in 1..n : Ungraded(history[m]) => history[m].id \in x.stale

\* It holds after the next one.
LEMMA FairNext ==
    ASSUME NEW history \in Seq(Rows), InOrder(history), NEW at \in Nat, NEW trusts \in TrustMaps,
           \A i \in 1..Len(history) : history[i].at <= at,
           NEW n \in Nat, n + 1 <= Len(history), NEW x \in Accs, Fair(x, n, history, at, trusts)
    PROVE  Fair(ReplayRow(x, history[n + 1], at, trusts), n + 1, history, at, trusts)
<1> DEFINE r == history[n + 1]
           w == WeightOf(r, trusts)
           y == ReplayRow(x, r, at, trusts)
           f == Worth(history, trusts)
           g == Weights(history, trusts)
<1>1. n + 1 \in 1..Len(history) /\ r \in Rows /\ w \in Nat
  <2>1. n + 1 \in 1..Len(history) /\ r \in Rows
    OBVIOUS
  <2> HIDE DEF r
  <2>2. w \in Nat
    BY <2>1, WeightNat DEF WeightOf
  <2>3. QED BY <2>1, <2>2
<1>2. /\ y \in Accs
      /\ ~Counts(r) => SameMass(x, y)
      /\ Counts(r) => Scored(x, y, r, w, at)
      /\ x.stale \subseteq y.stale
      /\ Ungraded(r) => r.id \in y.stale
  <2> HIDE DEF r
  <2>1. at \in Int
    OBVIOUS
  <2>2. /\ y \in Accs
        /\ ~Counts(r) => SameMass(x, y)
        /\ Counts(r) => Scored(x, y, r, w, at)
        /\ x.stale \subseteq y.stale
        /\ ~r.revoked /\ r.cat # "others" /\ r.verdict # GradeOf(r) => r.id \in y.stale
    BY <1>1, <2>1, RowFacts
  <2>3. QED BY <2>2 DEF Ungraded
<1>3. /\ f[n + 1] = IF Counts(r) THEN Doubled(w * r.v * Unit, r.at) ELSE 0
      /\ g[n + 1] = IF Counts(r) THEN Doubled(w * Unit, r.at) ELSE 0
      /\ TotalOf(f, n + 1) = TotalOf(f, n) + f[n + 1] /\ TotalOf(g, n + 1) = TotalOf(g, n) + g[n + 1]
  <2>1. TotalOf(f, n + 1) = TotalOf(f, n) + f[n + 1] /\ TotalOf(g, n + 1) = TotalOf(g, n) + g[n + 1]
    BY TotalSteps
  <2>2. /\ f[n + 1] = IF Counts(r) THEN Doubled(w * r.v * Unit, r.at) ELSE 0
        /\ g[n + 1] = IF Counts(r) THEN Doubled(w * Unit, r.at) ELSE 0
    BY <1>1 DEF Worth, Weights
  <2>3. QED BY <2>1, <2>2
<1>4. x.last <= r.at /\ r.at <= at /\ r.at \in Nat /\ \A m \in n + 2..Len(history) : r.at <= history[m].at
  <2>1. n + 1 \in n + 1..Len(history)
    BY <1>1
  <2>2. x.last <= r.at
    BY <2>1 DEF Fair
  <2>3. r.at \in Nat
    BY <1>1, Zenon DEF Rows
  <2>4. r.at <= at
    BY <1>1
  <2>5. \A m \in n + 2..Len(history) : r.at <= history[m].at
    BY <1>1 DEF InOrder
  <2>6. QED BY <2>2, <2>3, <2>4, <2>5
<1>5. \A m \in 1..n + 1 : Ungraded(history[m]) => history[m].id \in y.stale
  <2>1. \A m \in 1..n + 1 : m \in 1..n \/ m = n + 1
    OBVIOUS
  <2>2. \A m \in 1..n : Ungraded(history[m]) => history[m].id \in x.stale
    BY DEF Fair
  <2> HIDE DEF y
  <2>3. QED BY <1>2, <2>1, <2>2
<1>6. ServicesWithin(x) /\ x.at <= x.last
      /\ Doubled(x.a, x.last) <= TotalOf(f, n) /\ Doubled(x.b, x.last) <= TotalOf(g, n)
  BY DEF Fair
<1>7. x.a \in Nat /\ x.b \in Nat /\ x.last \in Nat /\ y.a \in Nat /\ y.b \in Nat /\ y.last \in Nat
  <2> HIDE DEF y
  <2>1. x.a \in Nat /\ x.b \in Nat /\ x.last \in Nat
    BY DEF Accs
  <2>2. y.a \in Nat /\ y.b \in Nat /\ y.last \in Nat
    BY <1>2 DEF Accs
  <2>3. QED BY <2>1, <2>2
<1>8. TotalOf(f, n) \in Nat /\ TotalOf(g, n) \in Nat
  BY <1>1, WorthNat
<1> HIDE DEF y, r, w, f, g
<1>9. CASE Counts(r)
  <2>1. Scored(x, y, r, w, at)
    BY <1>2, <1>9
  <2>2. /\ y.last = r.at /\ y.at = r.at /\ w * r.v * Unit \in Nat /\ w * Unit \in Nat
        /\ Doubled(y.a, y.last) <= Doubled(x.a, x.last) + Doubled(w * r.v * Unit, r.at)
        /\ Doubled(y.b, y.last) <= Doubled(x.b, x.last) + Doubled(w * Unit, r.at)
    BY <1>1, <1>2, <1>4, <2>1, ScoredMass
  <2>3. ServicesWithin(y)
    BY <1>1, <1>2, <1>4, <1>6, <2>1, ScoredShares
  <2>4. /\ Doubled(x.a, x.last) \in Nat /\ Doubled(x.b, x.last) \in Nat
        /\ Doubled(y.a, y.last) \in Nat /\ Doubled(y.b, y.last) \in Nat
        /\ Doubled(w * r.v * Unit, r.at) \in Nat /\ Doubled(w * Unit, r.at) \in Nat
    BY <1>4, <1>7, <2>2, DoubledFacts, ZenonT(40)
  <2>5. f[n + 1] = Doubled(w * r.v * Unit, r.at) /\ g[n + 1] = Doubled(w * Unit, r.at)
    BY <1>3, <1>9
  <2>6. Doubled(y.a, y.last) <= TotalOf(f, n + 1)
    BY <1>3, <1>6, <1>8, <2>2, <2>4, <2>5, SMTT(30)
  <2>7. Doubled(y.b, y.last) <= TotalOf(g, n + 1)
    BY <1>3, <1>6, <1>8, <2>2, <2>4, <2>5, SMTT(30)
  <2>8. \A m \in (n + 1) + 1..Len(history) : y.last <= history[m].at
    BY <1>4, <2>2
  <2>9. y.last <= at /\ y.at <= y.last
    BY <1>4, <2>2
  <2>10. QED BY <1>5, <2>3, <2>6, <2>7, <2>8, <2>9 DEF Fair, y, f, g, r
<1>10. CASE ~Counts(r)
  <2>1. y.a = x.a /\ y.b = x.b /\ y.last = x.last /\ y.at = x.at /\ y.tasks = x.tasks /\ y.services = x.services
    BY <1>2, <1>10 DEF SameMass
  <2>2. f[n + 1] = 0 /\ g[n + 1] = 0
    BY <1>3, <1>10
  <2>3. ServicesWithin(y)
    BY <1>6, <2>1 DEF ServicesWithin, SharesAt, TasksOf
  <2>4. Doubled(y.a, y.last) <= TotalOf(f, n + 1) /\ Doubled(y.b, y.last) <= TotalOf(g, n + 1)
    BY <1>3, <1>6, <1>8, <2>1, <2>2
  <2>5. \A m \in (n + 1) + 1..Len(history) : y.last <= history[m].at
    BY <2>1 DEF Fair
  <2>6. y.last <= at /\ y.at <= y.last
    BY <1>6, <2>1 DEF Fair
  <2>7. QED BY <1>5, <2>3, <2>4, <2>5, <2>6 DEF Fair, y, f, g, r
<1>11. QED BY <1>9, <1>10

\* What a replay holds at its end, decayed to its time: a mass that its rows are worth,
\* services that are within it, and every verdict that is missing.
LEMMA ReplayIsFair ==
    ASSUME NEW history \in Seq(Rows), InOrder(history), NEW at \in Nat, NEW trusts \in TrustMaps,
           \A i \in 1..Len(history) : history[i].at <= at
    PROVE  LET y == Replay(history, at, trusts)
           IN  /\ y \in Accs /\ y.at <= at
               /\ Doubled(y.a, y.at) <= TotalOf(Worth(history, trusts), Len(history))
               /\ Doubled(y.b, y.at) <= TotalOf(Weights(history, trusts), Len(history))
               /\ \A i \in 1..Len(history) : Ungraded(history[i]) => history[i].id \in y.stale
               /\ \A j \in 1..Len(Services) : at - y.services[j].last \in Nat /\ y.services[j] \in Svcs
               /\ TotalOf(SharesAt(y, at), Len(Services)) <= y.b
               /\ TotalOf(TasksOf(y), Len(Services)) <= y.tasks
<1> DEFINE acc == RowsReplayed(history, at, trusts)
           n == Len(history)
           y == Replay(history, at, trusts)
           f == Worth(history, trusts)
           g == Weights(history, trusts)
           P == {m \in Nat : m <= n => Fair(acc[m], m, history, at, trusts)}
<1>1. /\ acc[0] = Start
      /\ \A m \in 0..n : acc[m] \in Accs
      /\ \A m \in 0..n - 1 : acc[m + 1] = ReplayRow(acc[m], history[m + 1], at, trusts)
  BY ReplayedFacts
<1> HIDE DEF acc
<1>2. 0 \in P
  <2> DEFINE none == [i \in 1..Len(Services) |-> 0]
  <2>1. /\ Start.a = 0 /\ Start.b = 0 /\ Start.last = 0 /\ Start.at = 0 /\ Start.tasks = 0
        /\ Start.services = [i \in 1..Len(Services) |-> NoService]
    BY DEF Start
  <2>2. \A m \in 1..Len(history) : 0 <= history[m].at
    <3>1. \A m \in 1..Len(history) : history[m] \in Rows
      OBVIOUS
    <3>2. \A r \in Rows : r.at \in Nat
      BY Zenon DEF Rows
    <3>3. QED BY <3>1, <3>2
  <2>3. \A j \in 1..Len(Services) : Start.services[j] = NoService /\ NoService.last = 0 /\ NoService.b = 0
                                    /\ NoService.total = 0
    BY <2>1 DEF NoService
  <2>4. SharesAt(Start, 0) = none /\ TasksOf(Start) = none
    <3>1. Halved(0, 0) = 0 /\ 0 - 0 = 0
      BY HalvedSteps
    <3>2. QED BY <2>3, <3>1 DEF SharesAt, TasksOf
  <2>5. TotalOf(none, Len(Services)) = 0
    <3>1. Len(Services) \in Nat
      BY ParamsAssumption
    <3> DEFINE Q == {k \in Nat : k <= Len(Services) => TotalOf(none, k) = 0}
    <3>2. 0 \in Q
      BY TotalSteps
    <3>3. ASSUME NEW k \in Nat, k \in Q
          PROVE  k + 1 \in Q
      <4>1. TotalOf(none, k + 1) = TotalOf(none, k) + none[k + 1]
        BY TotalSteps
      <4>2. QED BY <3>1, <3>3, <4>1
    <3>4. \A k \in Nat : k \in Q
      <4> HIDE DEF Q
      <4> QED BY <3>2, <3>3, NatSetInduction
    <3>5. QED BY <3>1, <3>4
  <2>6. ServicesWithin(Start)
    BY <2>1, <2>3, <2>4, <2>5, SMTT(30) DEF ServicesWithin
  <2>7. Doubled(0, 0) = 0 /\ TotalOf(f, 0) = 0 /\ TotalOf(g, 0) = 0
    BY DoubledSteps, TotalSteps
  <2>8. Fair(Start, 0, history, at, trusts)
    BY <2>1, <2>2, <2>6, <2>7 DEF Fair
  <2>9. QED BY <1>1, <2>8
<1>3. ASSUME NEW m \in Nat, m \in P
      PROVE  m + 1 \in P
  <2>1. SUFFICES ASSUME m + 1 <= n
                 PROVE  Fair(acc[m + 1], m + 1, history, at, trusts)
    OBVIOUS
  <2>2. acc[m] \in Accs /\ acc[m + 1] = ReplayRow(acc[m], history[m + 1], at, trusts)
    BY <1>1, <2>1
  <2>3. Fair(acc[m], m, history, at, trusts)
    BY <1>3, <2>1
  <2>4. QED BY <2>1, <2>2, <2>3, FairNext
<1> DEFINE x == acc[n]
<1>4. Fair(x, n, history, at, trusts)
  <2>1. n \in P
    <3> HIDE DEF P, n
    <3>1. \A m \in Nat : m \in P
      BY <1>2, <1>3, NatSetInduction
    <3>2. n \in Nat
      BY DEF n
    <3>3. QED BY <3>1, <3>2
  <2>2. QED BY <2>1
<1>5. at \in Int
  OBVIOUS
<1>6. x \in Accs /\ y \in Accs /\ Aged(x, y, at) /\ y.last = x.last + Behind(x, at)
  BY <1>5, ReplayEnds DEF acc
<1> HIDE DEF x, y, f, g
<1>7. x.last \in Nat /\ x.a \in Nat /\ x.b \in Nat /\ x.at \in Nat /\ y.a \in Nat /\ y.b \in Nat
  BY <1>6 DEF Accs
<1>8. x.last <= at /\ x.at <= x.last /\ ServicesWithin(x)
      /\ Doubled(x.a, x.last) <= TotalOf(f, n) /\ Doubled(x.b, x.last) <= TotalOf(g, n)
  BY <1>4 DEF Fair, f, g
<1>9. y.last = at /\ y.at = x.at
  <2>1. Behind(x, at) = at - x.last
    BY <1>7, <1>8 DEF Behind
  <2>2. QED BY <1>6, <1>7, <2>1 DEF Aged
<1>10. y.a = Halved(x.a, at - x.last) /\ y.b = Halved(x.b, at - x.last) /\ y.services = x.services
       /\ y.tasks = x.tasks /\ y.stale = x.stale
  BY <1>6, <1>9 DEF Aged
<1>11. ASSUME NEW p \in Nat, NEW total, Doubled(p, x.last) <= total, total \in Nat
       PROVE  Doubled(Halved(p, at - x.last), x.at) <= total
  <2> DEFINE k == at - x.last
             h == Halved(p, k)
  <2>1. k \in Nat /\ x.last + k = at /\ at - x.at \in Nat /\ x.at + (at - x.at) = at
    BY <1>7, <1>8, SMTT(30)
  <2>2. h \in Nat
    BY <2>1, HalvedNat
  <2>3. Doubled(h, at) <= Doubled(p, x.last)
    <3>1. Doubled(h, x.last + k) <= Doubled(p, x.last)
      BY <1>7, <2>1, DoubledBack
    <3>2. QED BY <2>1, <3>1
  <2> HIDE DEF h, k
  <2>4. Doubled(h, x.at) <= Doubled(h, at) /\ Doubled(h, x.at) \in Nat /\ Doubled(h, at) \in Nat
    <3>1. Doubled(h, x.at) <= Doubled(h, x.at + (at - x.at))
      <4> DEFINE j == at - x.at
      <4>1. j \in Nat
        BY <2>1
      <4> HIDE DEF j
      <4>2. Doubled(h, x.at) <= Doubled(h, x.at + j)
        BY <1>7, <2>2, <4>1, DoubledFacts
      <4>3. QED BY <4>2 DEF j
    <3>2. Doubled(h, x.at) \in Nat /\ Doubled(h, at) \in Nat
      BY <1>7, <2>2, DoubledFacts
    <3>3. QED BY <2>1, <3>1, <3>2
  <2>5. Doubled(p, x.last) \in Nat
    BY <1>7, DoubledFacts
  <2>6. Doubled(h, x.at) <= total
    BY <1>11, <2>3, <2>4, <2>5
  <2>7. QED BY <2>6 DEF h, k
<1>12. TotalOf(f, n) \in Nat /\ TotalOf(g, n) \in Nat
  BY WorthNat DEF f, g
<1>13. Doubled(y.a, y.at) <= TotalOf(f, n) /\ Doubled(y.b, y.at) <= TotalOf(g, n)
  BY <1>7, <1>8, <1>9, <1>10, <1>11, <1>12
<1>14. /\ \A j \in 1..Len(Services) : at - x.services[j].last \in Nat /\ x.services[j] \in Svcs
       /\ TotalOf(SharesAt(x, at), Len(Services)) <= Halved(x.b, at - x.last)
  BY <1>6, <1>7, <1>8, AgedShares
<1>15. SharesAt(y, at) = SharesAt(x, at) /\ TasksOf(y) = TasksOf(x)
  BY <1>10 DEF SharesAt, TasksOf
<1>16. TotalOf(TasksOf(x), Len(Services)) <= x.tasks
  BY <1>8 DEF ServicesWithin
<1>17. \A i \in 1..n : Ungraded(history[i]) => history[i].id \in y.stale
  BY <1>4, <1>10 DEF Fair
<1>18. y.at <= at
  BY <1>7, <1>8, <1>9
<1>19. QED BY <1>6, <1>10, <1>13, <1>14, <1>15, <1>16, <1>17, <1>18 DEF y, f, g

-------------------------------------------------------------------------------
(* ScoreReplay: the stored mass is within what the rows in it are worth.        *)

\* Stored statistics, and what each counted row is worth, value and weight.
Stats == [stored : BOOLEAN, a : Nat, b : Nat, at : Nat, fails : Nat, tasks : Nat, adoption : Int, services : Int,
          publisher : Int, published : BOOLEAN, compliance : Int, composite : Int]
DueValue(rs, cs) == [i \in 1..Len(rs) |-> IF i \in DOMAIN cs THEN Doubled(cs[i] * rs[i].v * Unit, rs[i].at) ELSE 0]
DueWeight(rs, cs) == [i \in 1..Len(rs) |-> IF i \in DOMAIN cs THEN Doubled(cs[i] * 1 * Unit, rs[i].at) ELSE 0]
\* Rows are numbered and in order of time, and none is later than t.
RowsInOrder(rs, t) ==
    /\ rs \in Seq(Rows) /\ InOrder(rs)
    /\ \A i \in 1..Len(rs) : rs[i].id = i /\ rs[i].at <= t
\* Only graded rows are counted.
CountedRows(rs, cs) ==
    /\ DOMAIN cs \subseteq 1..Len(rs)
    /\ \A i \in DOMAIN cs : cs[i] \in Nat /\ rs[i].verdict # ""
\* The stored mass is within what the counted rows are worth.
StatsWithin(st, rs, cs) ==
    /\ Doubled(st.a, st.at) <= TotalOf(DueValue(rs, cs), Len(rs))
    /\ Doubled(st.b, st.at) <= TotalOf(DueWeight(rs, cs), Len(rs))

\* The inductive invariant.
ScoreInv ==
    /\ now \in Nat /\ trust \in TrustMaps
    /\ stats \in Stats /\ stats.at <= now
    /\ RowsInOrder(rows, now)
    /\ CountedRows(rows, counted)
    /\ StatsWithin(stats, rows, counted)

\* What is due is a natural number.
LEMMA DueNat ==
    ASSUME NEW rs \in Seq(Rows), NEW cs, CountedRows(rs, cs)
    PROVE  /\ \A i \in 1..Len(rs) : DueValue(rs, cs)[i] \in Nat /\ DueWeight(rs, cs)[i] \in Nat
           /\ \A i \in DOMAIN cs : cs[i] * rs[i].v * Unit \in Nat /\ cs[i] * 1 * Unit \in Nat
           /\ TotalOf(DueValue(rs, cs), Len(rs)) \in Nat /\ TotalOf(DueWeight(rs, cs), Len(rs)) \in Nat
<1> DEFINE f == DueValue(rs, cs)
           g == DueWeight(rs, cs)
<1>1. ASSUME NEW i \in DOMAIN cs
      PROVE  cs[i] * rs[i].v * Unit \in Nat /\ cs[i] * 1 * Unit \in Nat
  <2> DEFINE c == cs[i]
             r == rs[i]
  <2>1. c \in Nat /\ r \in Rows
    <3>1. c \in Nat /\ i \in 1..Len(rs)
      BY Zenon DEF CountedRows
    <3>2. r \in Rows
      BY <3>1
    <3>3. QED BY <3>1, <3>2
  <2> HIDE DEF c, r
  <2>2. r.v \in 0..10
    BY <2>1, Zenon DEF Rows
  <2>3. r.v \in Nat /\ Unit \in Nat /\ 1 \in Nat
    BY <2>2, UnitAssumption
  <2>4. \A p, q \in Nat : p * q \in Nat
    OBVIOUS
  <2>5. c * r.v * Unit \in Nat /\ c * 1 * Unit \in Nat
    BY <2>1, <2>3, <2>4
  <2>6. QED BY <2>5 DEF c, r
<1>2. ASSUME NEW i \in 1..Len(rs)
      PROVE  f[i] \in Nat /\ g[i] \in Nat
  <2>1. CASE i \in DOMAIN cs
    <3>1. f[i] = Doubled(cs[i] * rs[i].v * Unit, rs[i].at) /\ g[i] = Doubled(cs[i] * 1 * Unit, rs[i].at)
      BY <2>1 DEF DueValue, DueWeight
    <3>2. rs[i] \in Rows
      OBVIOUS
    <3>3. rs[i].at \in Nat
      BY <3>2, Zenon DEF Rows
    <3> DEFINE p == cs[i] * rs[i].v * Unit
               q == cs[i] * 1 * Unit
    <3>4. p \in Nat /\ q \in Nat
      BY <1>1, <2>1
    <3> HIDE DEF p, q
    <3>5. Doubled(p, rs[i].at) \in Nat /\ Doubled(q, rs[i].at) \in Nat
      BY <3>3, <3>4, DoubledFacts
    <3>6. QED BY <3>1, <3>5 DEF p, q
  <2>2. CASE i \notin DOMAIN cs
    BY <2>2 DEF DueValue, DueWeight
  <2>3. QED BY <2>1, <2>2
<1>3. Len(rs) \in Nat
  OBVIOUS
<1> HIDE DEF f, g
<1>4. TotalOf(f, Len(rs)) \in Nat /\ TotalOf(g, Len(rs)) \in Nat
  BY <1>2, <1>3, TotalNat
<1>5. QED BY <1>1, <1>2, <1>4 DEF f, g

\* Where the counted rows stay what they are, no less is due.
LEMMA DueStays ==
    ASSUME NEW rs \in Seq(Rows), NEW cs, CountedRows(rs, cs), NEW new \in Seq(Rows), CountedRows(new, cs),
           Len(new) = Len(rs) \/ Len(new) = Len(rs) + 1,
           \A i \in 1..Len(rs) : new[i].v = rs[i].v /\ new[i].at = rs[i].at,
           NEW st \in Stats, StatsWithin(st, rs, cs)
    PROVE  StatsWithin(st, new, cs)
<1> DEFINE n == Len(rs)
           f == DueValue(rs, cs)
           g == DueWeight(rs, cs)
           p == DueValue(new, cs)
           q == DueWeight(new, cs)
<1>1. n \in Nat
  OBVIOUS
<1>2. \A i \in 1..n : f[i] \in Nat /\ g[i] \in Nat /\ p[i] = f[i] /\ q[i] = g[i]
  <2>1. \A i \in 1..n : i \in 1..Len(new)
    OBVIOUS
  <2>2. \A i \in 1..n : p[i] = f[i] /\ q[i] = g[i]
    BY <2>1 DEF DueValue, DueWeight
  <2>3. QED BY <2>2, DueNat
<1>3. \A i \in 1..Len(new) : p[i] \in Nat /\ q[i] \in Nat
  BY DueNat
<1>4. st.a \in Nat /\ st.b \in Nat /\ st.at \in Nat
  BY DEF Stats
<1>5. Doubled(st.a, st.at) <= TotalOf(f, n) /\ Doubled(st.b, st.at) <= TotalOf(g, n)
  BY DEF StatsWithin
<1>6. TotalOf(f, n) <= TotalOf(p, n) /\ TotalOf(g, n) <= TotalOf(q, n)
      /\ TotalOf(f, n) \in Nat /\ TotalOf(g, n) \in Nat /\ TotalOf(p, n) \in Nat /\ TotalOf(q, n) \in Nat
  <2> HIDE DEF f, g, p, q, n
  <2>1. \A i \in 1..n : f[i] \in Nat /\ g[i] \in Nat /\ p[i] \in Nat /\ q[i] \in Nat /\ f[i] <= p[i] /\ g[i] <= q[i]
    BY <1>2
  <2>2. QED BY <1>1, <2>1, TotalGrows, TotalNat
<1>7. Doubled(st.a, st.at) \in Nat /\ Doubled(st.b, st.at) \in Nat
  BY <1>4, DoubledFacts
<1>8. TotalOf(p, Len(new)) >= TotalOf(p, n) /\ TotalOf(q, Len(new)) >= TotalOf(q, n)
      /\ TotalOf(p, Len(new)) \in Nat /\ TotalOf(q, Len(new)) \in Nat
  <2>1. CASE Len(new) = n
    BY <1>6, <2>1
  <2>2. CASE Len(new) = n + 1
    <3>1. TotalOf(p, n + 1) = TotalOf(p, n) + p[n + 1] /\ TotalOf(q, n + 1) = TotalOf(q, n) + q[n + 1]
      BY <1>1, TotalSteps
    <3>2. p[n + 1] \in Nat /\ q[n + 1] \in Nat
      BY <1>1, <1>3, <2>2
    <3> HIDE DEF p, q, n
    <3>3. QED BY <1>6, <2>2, <3>1, <3>2
  <2>3. QED BY <2>1, <2>2
<1> HIDE DEF f, g, p, q
<1>9. Doubled(st.a, st.at) <= TotalOf(p, Len(new)) /\ Doubled(st.b, st.at) <= TotalOf(q, Len(new))
  BY <1>5, <1>6, <1>7, <1>8
<1>10. QED BY <1>9 DEF StatsWithin, p, q

\* The row has been graded.
HasVerdict(r) == r.verdict # ""

\* A row that changes, but not in what its mass is made of.
LEMMA OneRowChanged ==
    ASSUME NEW rs, NEW t \in Nat, RowsInOrder(rs, t), NEW cs, CountedRows(rs, cs), NEW st \in Stats,
           StatsWithin(st, rs, cs), NEW i \in 1..Len(rs), NEW r \in Rows,
           r.id = rs[i].id, r.at = rs[i].at, r.v = rs[i].v, HasVerdict(r) \/ i \notin DOMAIN cs
    PROVE  LET new == [rs EXCEPT ![i] = r]
           IN  /\ RowsInOrder(new, t) /\ CountedRows(new, cs) /\ StatsWithin(st, new, cs)
               /\ Len(new) = Len(rs) /\ new[i] = r /\ \A j \in 1..Len(rs) : j # i => new[j] = rs[j]
<1> DEFINE new == [rs EXCEPT ![i] = r]
<1>1. rs \in Seq(Rows) /\ InOrder(rs) /\ \A j \in 1..Len(rs) : rs[j].id = j /\ rs[j].at <= t
  BY DEF RowsInOrder
<1>2. new \in Seq(Rows) /\ Len(new) = Len(rs) /\ new[i] = r /\ \A j \in 1..Len(rs) : j # i => new[j] = rs[j]
  <2>1. rs \in Seq(Rows)
    BY <1>1
  <2>2. QED BY <2>1
<1> HIDE DEF new
<1>3. \A j \in 1..Len(rs) : new[j].id = rs[j].id /\ new[j].at = rs[j].at /\ new[j].v = rs[j].v
  BY <1>2
<1>4. RowsInOrder(new, t)
  BY <1>1, <1>2, <1>3 DEF RowsInOrder, InOrder
<1>5. CountedRows(new, cs)
  BY <1>2, Zenon DEF CountedRows, HasVerdict
<1>6. StatsWithin(st, new, cs)
  BY <1>1, <1>2, <1>3, <1>5, DueStays
<1>7. QED BY <1>2, <1>4, <1>5, <1>6 DEF new

\* trustrank stores a row.
LEMMA StepGive ==
    ASSUME ScoreInv, NEW k \in Kinds, Give(k)
    PROVE  ScoreInv'
<1> DEFINE r == [id |-> Len(rows) + 1, at |-> now, revoked |-> FALSE, verdict |-> "",
                 client |-> k.client, cat |-> k.cat, value |-> k.value, v |-> k.v,
                 self |-> k.client = Owner, signals |-> k.signals, endpoint |-> k.endpoint]
           n == Len(rows)
<1>1. /\ now \in Nat /\ trust \in TrustMaps /\ stats \in Stats /\ stats.at <= now
      /\ rows \in Seq(Rows) /\ InOrder(rows) /\ \A i \in 1..n : rows[i].id = i /\ rows[i].at <= now
      /\ CountedRows(rows, counted) /\ StatsWithin(stats, rows, counted)
  BY DEF ScoreInv, RowsInOrder
<1>2. rows' = Append(rows, r) /\ now' = now /\ stats' = stats /\ trust' = trust /\ counted' = counted
  BY Zenon DEF Give
<1>3. n \in Nat /\ n + 1 \in Nat
  BY <1>1
<1>4. r \in Rows
  <2>1. k.client \in Clients /\ k.v \in 0..10 /\ k.signals \in Signals
    BY ParamsAssumption DEF Signals
  <2>2. k.cat \in Cats /\ k.value \in Values /\ k.endpoint \in Endpoints
    BY DEF Cats, Values, Endpoints
  <2>3. (k.client = Owner) \in BOOLEAN
    OBVIOUS
  <2>4. QED BY <1>1, <1>3, <2>1, <2>2, <2>3, Zenon DEF Rows
<1>5. r.id = n + 1 /\ r.at = now
  OBVIOUS
<1> HIDE DEF r
<1>6. rows' \in Seq(Rows) /\ Len(rows') = n + 1 /\ rows'[n + 1] = r /\ \A i \in 1..n : rows'[i] = rows[i]
  BY <1>1, <1>2, <1>4
<1>7. RowsInOrder(rows', now)
  <2>1. \A i \in 1..n + 1 : i \in 1..n \/ i = n + 1
    BY <1>3
  <2>2. \A i \in 1..n + 1 : rows'[i].id = i /\ rows'[i].at <= now
    BY <1>1, <1>5, <1>6, <2>1
  <2>3. ASSUME NEW i \in 1..n + 1, NEW j \in 1..n + 1, i <= j
        PROVE  rows'[i].at <= rows'[j].at
    <3>1. CASE j = n + 1
      BY <1>5, <1>6, <2>2, <3>1
    <3>2. CASE j # n + 1
      <4>1. i \in 1..n /\ j \in 1..n
        BY <1>3, <2>3, <3>2
      <4>2. QED BY <1>1, <1>6, <2>3, <4>1 DEF InOrder
    <3>3. QED BY <3>1, <3>2
  <2>4. InOrder(rows')
    BY <1>6, <2>3 DEF InOrder
  <2>5. QED BY <1>6, <2>2, <2>4 DEF RowsInOrder
<1>8. CountedRows(rows', counted)
  <2>1. DOMAIN counted \subseteq 1..n /\ \A i \in DOMAIN counted : counted[i] \in Nat /\ rows[i].verdict # ""
    BY <1>1, Zenon DEF CountedRows
  <2>2. 1..n \subseteq 1..Len(rows')
    BY <1>3, <1>6
  <2>3. \A i \in DOMAIN counted : rows'[i] = rows[i]
    BY <1>6, <2>1, Zenon
  <2>4. QED BY <2>1, <2>2, <2>3, Zenon DEF CountedRows
<1>9. StatsWithin(stats, rows', counted)
  BY <1>1, <1>6, <1>8, DueStays
<1>10. QED BY <1>1, <1>2, <1>7, <1>8, <1>9 DEF ScoreInv

\* A row is categorised or revoked.
LEMMA StepRow ==
    ASSUME ScoreInv, NEW i \in DOMAIN rows,
           Revoke(i) \/ \E cat \in {"quality", "junk"} : Resolve(i, cat)
    PROVE  ScoreInv'
<1>1. /\ now \in Nat /\ trust \in TrustMaps /\ stats \in Stats /\ stats.at <= now
      /\ RowsInOrder(rows, now) /\ rows \in Seq(Rows)
      /\ CountedRows(rows, counted) /\ StatsWithin(stats, rows, counted)
  BY DEF ScoreInv, RowsInOrder
<1>2. i \in 1..Len(rows) /\ rows[i] \in Rows
  BY <1>1
<1>3. now' = now /\ stats' = stats /\ trust' = trust /\ counted' = counted
  BY DEF Revoke, Resolve
<1>4. PICK r \in Rows : /\ rows' = [rows EXCEPT ![i] = r]
                        /\ r.id = rows[i].id /\ r.at = rows[i].at /\ r.v = rows[i].v /\ r.verdict = rows[i].verdict
  <2>1. CASE Revoke(i)
    <3> DEFINE r == [rows[i] EXCEPT !.revoked = TRUE]
    <3>1. r \in Rows /\ r.id = rows[i].id /\ r.at = rows[i].at /\ r.v = rows[i].v /\ r.verdict = rows[i].verdict
      BY <1>2, Zenon DEF Rows
    <3>2. rows' = [rows EXCEPT ![i] = r]
      BY <2>1 DEF Revoke
    <3> HIDE DEF r
    <3>3. QED BY <3>1, <3>2
  <2>2. CASE \E cat \in {"quality", "junk"} : Resolve(i, cat)
    <3>1. PICK cat \in {"quality", "junk"} : Resolve(i, cat)
      BY <2>2
    <3>2. cat \in Cats
      BY DEF Cats
    <3> DEFINE r == [rows[i] EXCEPT !.cat = cat]
    <3>3. r \in Rows /\ r.id = rows[i].id /\ r.at = rows[i].at /\ r.v = rows[i].v /\ r.verdict = rows[i].verdict
      BY <1>2, <3>2, Zenon DEF Rows
    <3>4. rows' = [rows EXCEPT ![i] = r]
      BY <3>1 DEF Resolve
    <3> HIDE DEF r
    <3>5. QED BY <3>3, <3>4
  <2>3. QED BY <2>1, <2>2
<1>5. HasVerdict(r) \/ i \notin DOMAIN counted
  BY <1>1, <1>4, Zenon DEF CountedRows, HasVerdict
<1>6. RowsInOrder(rows', now) /\ CountedRows(rows', counted) /\ StatsWithin(stats, rows', counted)
  BY <1>1, <1>2, <1>4, <1>5, OneRowChanged
<1>7. QED BY <1>1, <1>3, <1>6 DEF ScoreInv

\* feedback-grader grades a row, and adds its mass to what is stored.
LEMMA StepGrade ==
    ASSUME ScoreInv, NEW i \in DOMAIN rows, Grade(i)
    PROVE  ScoreInv'
<1> DEFINE r == rows[i]
           w == Weight(r, trust[r.client])
           g == [r EXCEPT !.verdict = GradeOf(r)]
           n == Len(rows)
<1>1. /\ now \in Nat /\ trust \in TrustMaps /\ stats \in Stats /\ stats.at <= now
      /\ RowsInOrder(rows, now) /\ rows \in Seq(Rows)
      /\ CountedRows(rows, counted) /\ StatsWithin(stats, rows, counted)
  BY DEF ScoreInv, RowsInOrder
<1>2. i \in 1..n /\ r \in Rows /\ n \in Nat
  BY <1>1
<1>3. r.at \in Nat /\ r.at <= now /\ r.v \in Nat /\ r.verdict = ""
  <2>1. r.at \in Nat /\ r.v \in 0..10
    BY <1>2, Zenon DEF Rows
  <2>2. r.at <= now
    BY <1>1, <1>2 DEF RowsInOrder
  <2>3. r.v \in Nat
    BY <2>1
  <2>4. r.verdict = ""
    BY Zenon DEF Grade
  <2>5. QED BY <2>1, <2>2, <2>3, <2>4, Zenon
<1>4. w \in Nat /\ GradeOf(r) \in Grades /\ GradeOf(r) # ""
  <2>1. w \in Nat /\ GradeOf(r) \in Grades
    BY <1>1, <1>2, WeightNat
  <2>2. QED BY <2>1, Zenon DEF Grades
<1>5. g \in Rows /\ g.id = r.id /\ g.at = r.at /\ g.v = r.v /\ g.verdict # ""
  <2>1. GradeOf(r) \in Grades \cup {""}
    BY <1>4, Zenon
  <2> DEFINE d == GradeOf(r)
  <2> HIDE DEF d, r
  <2>2. g \in Rows /\ g.id = r.id /\ g.at = r.at /\ g.v = r.v /\ g.verdict = d
    BY <1>2, <2>1, Zenon DEF Rows, d
  <2>3. QED BY <1>4, <2>2, Zenon DEF d
<1>6. i \notin DOMAIN counted
  BY <1>1, <1>3, Zenon DEF CountedRows
<1>7. now' = now /\ trust' = trust /\ rows' = [rows EXCEPT ![i] = g]
  BY Zenon DEF Grade
<1> HIDE DEF g
<1>8. /\ RowsInOrder(rows', now) /\ CountedRows(rows', counted) /\ StatsWithin(stats, rows', counted)
      /\ Len(rows') = n /\ rows'[i] = g
  <2>1. HasVerdict(g) \/ i \notin DOMAIN counted
    BY <1>6
  <2>2. i \in 1..Len(rows) /\ g \in Rows /\ g.id = rows[i].id /\ g.at = rows[i].at /\ g.v = rows[i].v
    BY <1>2, <1>5, Zenon
  <2>3. rows' = [rows EXCEPT ![i] = g]
    BY <1>7
  <2> HIDE DEF n, r, w
  <2>4. RowsInOrder(rows', now) /\ CountedRows(rows', counted) /\ StatsWithin(stats, rows', counted)
    BY <1>1, <2>1, <2>2, <2>3, OneRowChanged
  <2>5. Len(rows') = Len(rows) /\ rows'[i] = g
    BY <1>1, <2>2, <2>3
  <2>6. QED BY <2>4, <2>5 DEF n
<1>9. CASE ~(Scorable(r) /\ ~r.self)
  <2>1. stats' = stats /\ counted' = counted
    BY <1>9, Zenon DEF Grade
  <2>2. QED BY <1>1, <1>7, <1>8, <2>1 DEF ScoreInv
<1>10. CASE Scorable(r) /\ ~r.self
  <2>1. stats' = LiveStats(r) /\ counted' = [j \in DOMAIN counted \cup {i} |-> IF j = i THEN w ELSE counted[j]]
    BY <1>10, Zenon DEF Grade
  <2> DEFINE k == IF r.at <= stats.at THEN 0 ELSE r.at - stats.at
             a == Halved(stats.a, k) + w * r.v * Unit
             b == Halved(stats.b, k) + w * Unit
             composite == LiveStats(r).composite
  <2>2. stats.a \in Nat /\ stats.b \in Nat /\ stats.at \in Nat /\ stats.fails \in Nat /\ stats.adoption \in Int
        /\ stats.services \in Int /\ stats.publisher \in Int /\ stats.compliance \in Int
        /\ stats.published \in BOOLEAN
    BY <1>1 DEF Stats
  <2>3. w * r.v * Unit \in Nat /\ w * Unit \in Nat /\ w * 1 * Unit = w * Unit
    <3> HIDE DEF w, r
    <3>1. Unit \in Nat
      BY UnitAssumption
    <3>2. \A p, q \in Nat : p * q \in Nat
      OBVIOUS
    <3>3. w * 1 = w
      <4>1. \A p \in Nat : p * 1 = p
        OBVIOUS
      <4>2. QED BY <1>4, <4>1, Zenon
    <3>4. QED BY <1>3, <1>4, <3>1, <3>2, <3>3, Zenon
  <2>4. k \in Nat /\ (r.at <= stats.at => k = 0) /\ (~(r.at <= stats.at) => stats.at + k = r.at)
    <3>1. \A t, u \in Nat : ~(t <= u) => t - u \in Nat /\ u + (t - u) = t
      OBVIOUS
    <3>2. r.at \in Nat /\ stats.at \in Nat
      BY <1>3, <2>2, Zenon
    <3>3. QED BY <3>1, <3>2
  <2>5. Halved(stats.a, k) \in Nat /\ Halved(stats.b, k) \in Nat
        /\ Halved(stats.a, 0) = stats.a /\ Halved(stats.b, 0) = stats.b
    <3> HIDE DEF k
    <3> QED BY <2>2, <2>4, HalvedNat, HalvedSteps
  <2>6. LiveMass(r, w) = [a |-> a, b |-> b]
    <3>1. DecayMass([a |-> stats.a, b |-> stats.b], stats.at, r.at)
              = [a |-> Halved(stats.a, k), b |-> Halved(stats.b, k)]
      BY <2>5 DEF DecayMass
    <3> DEFINE p == Halved(stats.a, k)
               q == Halved(stats.b, k)
    <3> HIDE DEF p, q
    <3>2. AddMass([a |-> p, b |-> q], w, r.v) = [a |-> p + w * r.v * Unit, b |-> q + w * Unit]
      BY DEF AddMass
    <3>3. QED BY <3>1, <3>2 DEF LiveMass, ApplyFeedbackToMass, MassOf, p, q
  <2>7. a \in Nat /\ b \in Nat
    BY <2>3, <2>5
  <2> HIDE DEF a, b, k, w, r
  <2>8. composite \in Int /\ stats' = [stats EXCEPT !.stored = TRUE, !.a = a, !.b = b, !.at = r.at,
                                                    !.composite = composite]
    <3> DEFINE m == [a |-> a, b |-> b]
               rep == Reputation(m, stats.fails)
    <3>1. LiveStats(r) = [stats EXCEPT !.stored = TRUE, !.a = a, !.b = b, !.at = r.at,
              !.composite = CompositeRenorm(CompositeParts(rep, stats.adoption, stats.services,
                                stats.publisher, stats.compliance, b > 0, stats.published))]
      BY <2>6 DEF LiveStats, w
    <3>2. rep \in Int
      <4>1. m.a \in Nat /\ m.b \in Nat
        BY <2>7
      <4> HIDE DEF m
      <4>2. QED BY <2>2, <4>1, ReputationInt
    <3>3. (b > 0) \in BOOLEAN
      OBVIOUS
    <3> DEFINE c == CompositeRenorm(CompositeParts(rep, stats.adoption, stats.services,
                                stats.publisher, stats.compliance, b > 0, stats.published))
    <3>4. c \in 0..100
      <4> HIDE DEF rep
      <4> QED BY <2>2, <3>2, <3>3, CompositeRange, ZenonT(40)
    <3> HIDE DEF c, rep
    <3>5. composite = c
      BY <1>1, <3>1 DEF Stats, c
    <3>6. c \in Int
      BY <3>4
    <3>7. QED BY <2>1, <3>1, <3>5, <3>6 DEF c
  <2> HIDE DEF composite
  <2>9. stats' \in Stats /\ stats'.a = a /\ stats'.b = b /\ stats'.at = r.at
    BY <1>1, <1>3, <2>7, <2>8, Zenon DEF Stats
  <2>10. CountedRows(rows', counted')
    <3>1. DOMAIN counted' = DOMAIN counted \cup {i} /\ DOMAIN counted \subseteq 1..n
      BY <1>1, <2>1, Zenon DEF CountedRows
    <3>2. \A j \in DOMAIN counted' : counted'[j] \in Nat /\ rows'[j].verdict # ""
      BY <1>4, <1>5, <1>8, <2>1, Zenon DEF CountedRows
    <3>3. QED BY <1>2, <1>8, <3>1, <3>2, Zenon DEF CountedRows
  <2> DEFINE f == DueValue(rows', counted)
             h == DueWeight(rows', counted)
             p == DueValue(rows', counted')
             q == DueWeight(rows', counted')
             dv == Doubled(w * r.v * Unit, r.at)
             dw == Doubled(w * Unit, r.at)
  <2>11. rows' \in Seq(Rows)
    BY <1>8 DEF RowsInOrder
  <2>12. \A j \in 1..n : f[j] \in Nat /\ h[j] \in Nat /\ p[j] \in Nat /\ q[j] \in Nat
    BY <1>8, <2>10, <2>11, DueNat
  <2>13. TotalOf(f, n) \in Nat /\ TotalOf(h, n) \in Nat /\ TotalOf(p, n) \in Nat /\ TotalOf(q, n) \in Nat
    BY <1>8, <2>10, <2>11, DueNat
  <2>14. dv \in Nat /\ dw \in Nat
    <3> DEFINE mv == w * r.v * Unit
               mw == w * Unit
    <3>1. mv \in Nat /\ mw \in Nat
      BY <2>3
    <3> HIDE DEF mv, mw
    <3>2. Doubled(mv, r.at) \in Nat /\ Doubled(mw, r.at) \in Nat
      BY <1>3, <3>1, DoubledFacts, Zenon
    <3>3. QED BY <3>2 DEF mv, mw
  <2>15. f[i] = 0 /\ h[i] = 0 /\ p[i] = dv /\ q[i] = dw
    <3>1. f[i] = 0 /\ h[i] = 0
      BY <1>2, <1>6, <1>8 DEF DueValue, DueWeight
    <3>2. i \in DOMAIN counted' /\ counted'[i] = w /\ rows'[i].v = r.v /\ rows'[i].at = r.at
      BY <1>5, <1>8, <2>1, Zenon
    <3>3. p[i] = Doubled(w * r.v * Unit, r.at) /\ q[i] = Doubled(w * 1 * Unit, r.at)
      BY <1>2, <1>8, <3>2 DEF DueValue, DueWeight
    <3>4. QED BY <2>3, <3>1, <3>3
  <2>16. \A j \in 1..n : j # i => f[j] = p[j] /\ h[j] = q[j]
    <3> SUFFICES ASSUME NEW j \in 1..n, j # i
                 PROVE  f[j] = p[j] /\ h[j] = q[j]
      OBVIOUS
    <3>1. j \in DOMAIN counted' <=> j \in DOMAIN counted
      BY <2>1
    <3>2. j \in DOMAIN counted => counted'[j] = counted[j]
      BY <2>1
    <3>3. QED BY <1>8, <3>1, <3>2 DEF DueValue, DueWeight
  <2>17. TotalOf(f, n) + dv <= TotalOf(p, n) /\ TotalOf(h, n) + dw <= TotalOf(q, n)
    <3> HIDE DEF f, h, p, q, n, dv, dw
    <3>1. -dv \in Int /\ -dw \in Int
      BY <2>14
    <3>2. f[i] <= p[i] + (-dv) /\ h[i] <= q[i] + (-dw)
      BY <2>14, <2>15
    <3>3. \A j \in 1..n : j # i => f[j] <= p[j] /\ h[j] <= q[j]
      BY <2>12, <2>16
    <3>4. TotalOf(f, n) <= TotalOf(p, n) + (-dv)
      BY <1>2, <2>12, <3>1, <3>2, <3>3, TotalLess
    <3>5. TotalOf(h, n) <= TotalOf(q, n) + (-dw)
      BY <1>2, <2>12, <3>1, <3>2, <3>3, TotalLess
    <3>6. QED BY <2>13, <2>14, <3>4, <3>5
  <2>18. ASSUME NEW x \in Nat, NEW y \in Nat
         PROVE  Doubled(Halved(x, k) + y, r.at) <= Doubled(x, stats.at) + Doubled(y, r.at)
    <3> DEFINE s == Halved(x, k)
               t == r.at
    <3>1. s \in Nat /\ t \in Nat
      BY <1>3, <2>4, HalvedNat, Zenon
    <3>2. Doubled(s + y, t) = Doubled(s, t) + Doubled(y, t)
      <4> HIDE DEF s, t
      <4> QED BY <3>1, DoubledFacts
    <3>3. Doubled(s, t) \in Nat /\ Doubled(y, t) \in Nat /\ Doubled(x, stats.at) \in Nat
      <4> HIDE DEF s, t
      <4> QED BY <2>2, <3>1, DoubledFacts
    <3>4. Doubled(s, t) <= Doubled(x, stats.at)
      <4>1. CASE r.at <= stats.at
        <5> DEFINE j == stats.at - t
        <5>1. s = x /\ j \in Nat /\ t + j = stats.at
          <6>1. s = x
            BY <2>4, <4>1, HalvedSteps
          <6>2. \A t1, t2 \in Nat : t1 <= t2 => t2 - t1 \in Nat /\ t1 + (t2 - t1) = t2
            OBVIOUS
          <6>3. QED BY <2>2, <3>1, <4>1, <6>1, <6>2
        <5> HIDE DEF s, t, j
        <5>2. Doubled(x, t) <= Doubled(x, t + j)
          BY <3>1, <5>1, DoubledFacts
        <5>3. QED BY <5>1, <5>2
      <4>2. CASE ~(r.at <= stats.at)
        <5>1. stats.at + k = t
          BY <2>4, <4>2
        <5>2. Doubled(s, stats.at + k) <= Doubled(x, stats.at)
          BY <2>2, <2>4, DoubledBack
        <5>3. QED BY <5>1, <5>2
      <4>3. QED BY <4>1, <4>2
    <3> HIDE DEF s
    <3>5. Doubled(s + y, t) <= Doubled(x, stats.at) + Doubled(y, t)
      <4> HIDE DEF t
      <4> QED BY <3>2, <3>3, <3>4
    <3>6. QED BY <3>5 DEF s
  <2>19. Doubled(a, r.at) <= Doubled(stats.a, stats.at) + dv /\ Doubled(b, r.at) <= Doubled(stats.b, stats.at) + dw
    BY <2>2, <2>3, <2>18 DEF a, b
  <2>20. Doubled(stats.a, stats.at) <= TotalOf(f, n) /\ Doubled(stats.b, stats.at) <= TotalOf(h, n)
    BY <1>8 DEF StatsWithin
  <2>21. Doubled(stats.a, stats.at) \in Nat /\ Doubled(stats.b, stats.at) \in Nat
         /\ Doubled(a, r.at) \in Nat /\ Doubled(b, r.at) \in Nat
    BY <1>3, <2>2, <2>7, DoubledFacts, Zenon
  <2>22. Doubled(a, r.at) <= TotalOf(p, n) /\ Doubled(b, r.at) <= TotalOf(q, n)
    <3> HIDE DEF f, h, p, q, n, dv, dw
    <3> QED BY <2>13, <2>14, <2>17, <2>19, <2>20, <2>21
  <2>23. StatsWithin(stats', rows', counted')
    BY <1>8, <2>9, <2>22 DEF StatsWithin
  <2>24. stats'.at <= now'
    BY <1>3, <1>7, <2>9, Zenon
  <2>25. QED BY <1>1, <1>7, <1>8, <2>9, <2>10, <2>23, <2>24 DEF ScoreInv
<1>11. QED BY <1>9, <1>10

\* The trust a cycle gives a wallet is one.
LEMMA RatedRange ==
    ASSUME NEW c \in Clients, NEW acc \in Accs, NEW direct \in Int, trust \in TrustMaps
    PROVE  RatedTrust(c, acc, direct) \in 0..100
<1> DEFINE v == acc.valid[c]
           j == acc.junk[c]
           owns == c = Owner /\ acc.b > 0
<1>1. v \in Nat /\ j \in Nat
  BY DEF Accs
<1>2. trust[c] \in 0..100 /\ owns \in BOOLEAN
  BY DEF TrustMaps
<1>3. ReviewerReliability(v, j) \in Int
  <2> HIDE DEF v, j
  <2>1. 100 * (v + 1) \in Nat /\ v + j + 2 \in Nat \ {0}
    BY <1>1
  <2>2. \A p \in Nat, q \in Nat \ {0} : p \div q \in Int
    OBVIOUS
  <2>3. QED BY <2>1, <2>2 DEF ReviewerReliability
<1>4. WalletTrust(ReviewerReliability(v, j), 0, direct, FALSE, owns) \in 0..100
  <2> HIDE DEF v, j, owns
  <2> QED BY <1>2, <1>3, WalletTrustRange
<1>5. RatedTrust(c, acc, direct) = IF v + j = 0 /\ ~owns THEN trust[c]
                                   ELSE WalletTrust(ReviewerReliability(v, j), 0, direct, FALSE, owns)
  BY DEF RatedTrust
<1> HIDE DEF v, j, owns
<1>6. QED BY <1>2, <1>4, <1>5

\* score-refresh: statistics, grades, wallets.
LEMMA StepRefresh ==
    ASSUME ScoreInv, Refresh
    PROVE  ScoreInv'
<1> DEFINE acc == Replay(rows, now, trust)
           rep == Reputation(MassOf(acc), acc.fails)
           adoption == Adoption(Cardinality(acc.users))
           services == ServicesNow
           compliance == ComplianceNow
           direct == AgentDirectReputation(rep, adoption, services, compliance, acc.b > 0)
           composite == CompositeRenorm(CompositeParts(rep, adoption, services, trust[Owner], compliance,
                                                       acc.b > 0, TRUE))
           n == Len(rows)
           kept == {j \in DOMAIN rows : Scorable(rows[j]) /\ ~rows[j].revoked}
<1>1. /\ now \in Nat /\ trust \in TrustMaps
      /\ RowsInOrder(rows, now) /\ rows \in Seq(Rows) /\ InOrder(rows)
      /\ \A i \in 1..n : rows[i].at <= now /\ rows[i].id = i
  BY DEF ScoreInv, RowsInOrder
<1>2. n \in Nat /\ DOMAIN rows = 1..n /\ \A i \in 1..n : rows[i] \in Rows
  BY <1>1
<1>3. /\ acc \in Accs /\ acc.at <= now
      /\ Doubled(acc.a, acc.at) <= TotalOf(Worth(rows, trust), n)
      /\ Doubled(acc.b, acc.at) <= TotalOf(Weights(rows, trust), n)
      /\ \A i \in 1..n : Ungraded(rows[i]) => rows[i].id \in acc.stale
  BY <1>1, ReplayIsFair
<1>4. /\ stats' = [stored |-> TRUE, a |-> acc.a, b |-> acc.b, at |-> acc.at, fails |-> acc.fails,
                   tasks |-> acc.tasks, adoption |-> adoption, services |-> services,
                   publisher |-> trust[Owner], published |-> TRUE, compliance |-> compliance,
                   composite |-> composite]
      /\ rows' = [i \in DOMAIN rows |-> IF i \in acc.stale THEN [rows[i] EXCEPT !.verdict = GradeOf(rows[i])]
                                        ELSE rows[i]]
      /\ counted' = [i \in kept |-> Weight(rows[i], trust[rows[i].client])]
      /\ trust' = [c \in Clients |-> RatedTrust(c, acc, direct)]
      /\ now' = now
  BY DEF Refresh
<1> HIDE DEF acc
<1>5. acc.a \in Nat /\ acc.b \in Nat /\ acc.at \in Nat /\ acc.fails \in Nat /\ acc.tasks \in Nat
      /\ acc.users \in SUBSET Clients
  BY <1>3 DEF Accs
<1>6. rep \in Int
  <2>1. MassOf(acc).a \in Nat /\ MassOf(acc).b \in Nat
    BY <1>5 DEF MassOf
  <2>2. QED BY <1>5, <2>1, ReputationInt
<1>7. adoption \in Int
  <2>1. IsFiniteSet(Clients)
    BY ParamsAssumption
  <2>2. Cardinality(acc.users) \in Nat
    BY <1>5, <2>1, FS_Subset, FS_CardinalityType
  <2>3. QED BY <2>2, AdoptionInt
<1>8. services \in Int /\ compliance \in Int
  BY StaticInt
<1>9. trust[Owner] \in Int
  <2>1. Owner \in Clients
    BY ParamsAssumption
  <2>2. trust[Owner] \in 0..100
    BY <1>1, <2>1 DEF TrustMaps
  <2>3. QED BY <2>2
<1> HIDE DEF rep, adoption, services, compliance
<1>10. direct \in Int /\ composite \in Int
  <2>1. (acc.b > 0) \in BOOLEAN
    OBVIOUS
  <2>2. direct \in 0..100 /\ composite \in 0..100
    BY <1>6, <1>7, <1>8, <1>9, <2>1, CompositeRange, ZenonT(40)
  <2> HIDE DEF direct, composite
  <2>3. QED BY <2>2
<1> HIDE DEF direct, composite, kept
<1>11. stats' \in Stats /\ stats'.a = acc.a /\ stats'.b = acc.b /\ stats'.at = acc.at
  BY <1>4, <1>5, <1>7, <1>8, <1>9, <1>10 DEF Stats
<1>12. trust' \in TrustMaps
  <2>1. \A c \in Clients : RatedTrust(c, acc, direct) \in 0..100
    BY <1>1, <1>3, <1>10, RatedRange
  <2>2. QED BY <1>4, <2>1 DEF TrustMaps
<1>13. ASSUME NEW i \in 1..n
       PROVE  /\ rows'[i] \in Rows /\ rows'[i].id = rows[i].id /\ rows'[i].at = rows[i].at /\ rows'[i].v = rows[i].v
              /\ Counts(rows[i]) => rows'[i].verdict # ""
  <2> DEFINE r == rows[i]
             d == GradeOf(r)
             g == [r EXCEPT !.verdict = d]
  <2>1. r \in Rows /\ r.id = i
    BY <1>1, <1>2
  <2>2. rows'[i] = IF i \in acc.stale THEN g ELSE r
    BY <1>2, <1>4
  <2>3. d \in Grades /\ d # ""
    <3>1. d \in Grades
      BY <1>1, <2>1, WeightNat
    <3> HIDE DEF d
    <3>2. QED BY <3>1, Zenon DEF Grades
  <2> HIDE DEF d, r
  <2>4. g \in Rows /\ g.id = r.id /\ g.at = r.at /\ g.v = r.v /\ g.verdict = d
    BY <2>1, <2>3, Zenon DEF Rows
  <2>5. Counts(r) /\ i \notin acc.stale => r.verdict = d
    BY <1>3, <2>1 DEF Ungraded, Counts, r, d
  <2> HIDE DEF g
  <2>6. rows'[i] \in Rows /\ rows'[i].id = r.id /\ rows'[i].at = r.at /\ rows'[i].v = r.v
    BY <2>1, <2>2, <2>4
  <2>7. Counts(r) => rows'[i].verdict # ""
    BY <2>2, <2>3, <2>4, <2>5, Zenon
  <2>8. QED BY <2>6, <2>7, Zenon DEF r
<1>14. rows' \in Seq(Rows) /\ Len(rows') = n
  <2>1. DOMAIN rows' = 1..n /\ rows' = [i \in 1..n |-> rows'[i]]
    BY <1>2, <1>4
  <2>2. \A i \in 1..n : rows'[i] \in Rows
    BY <1>13, Zenon
  <2> DEFINE new == rows'
  <2>3. new = [i \in 1..n |-> new[i]] /\ \A i \in 1..n : new[i] \in Rows
    BY <2>1, <2>2
  <2> HIDE DEF new, n
  <2>4. new \in [1..n -> Rows]
    BY <2>3
  <2>5. new \in Seq(Rows) /\ Len(new) = n
    BY <1>2, <2>4
  <2>6. QED BY <2>5 DEF new
<1>15. RowsInOrder(rows', now)
  <2>1. \A i \in 1..n : rows'[i].id = i /\ rows'[i].at <= now
    BY <1>1, <1>13, Zenon
  <2>2. \A i, j \in 1..n : i <= j => rows'[i].at <= rows'[j].at
    BY <1>1, <1>13, Zenon DEF InOrder
  <2>3. QED BY <1>14, <2>1, <2>2 DEF RowsInOrder, InOrder
<1>16. kept \subseteq 1..n /\ \A i \in 1..n : i \in kept <=> Counts(rows[i])
  BY <1>2 DEF kept, Counts, Scorable
<1>17. \A i \in kept : counted'[i] = WeightOf(rows[i], trust) /\ counted'[i] \in Nat
  <2>1. \A i \in kept : rows[i] \in Rows
    BY <1>2, <1>16
  <2>2. \A i \in kept : Weight(rows[i], trust[rows[i].client]) \in Nat
    BY <1>1, <2>1, WeightNat
  <2>3. QED BY <1>4, <2>2 DEF WeightOf
<1>18. DOMAIN counted' = kept
  BY <1>4
<1>19. CountedRows(rows', counted')
  BY <1>13, <1>14, <1>16, <1>17, <1>18, Zenon DEF CountedRows
<1>20. ASSUME NEW i \in 1..n
       PROVE  DueValue(rows', counted')[i] = Worth(rows, trust)[i]
              /\ DueWeight(rows', counted')[i] = Weights(rows, trust)[i]
  <2>1. CASE i \in kept
    <3>1. counted'[i] = WeightOf(rows[i], trust) /\ WeightOf(rows[i], trust) \in Nat
      BY <1>17, <2>1
    <3>2. WeightOf(rows[i], trust) * 1 = WeightOf(rows[i], trust)
      BY <3>1
    <3>3. DueValue(rows', counted')[i] = Doubled(WeightOf(rows[i], trust) * rows[i].v * Unit, rows[i].at)
          /\ DueWeight(rows', counted')[i] = Doubled(WeightOf(rows[i], trust) * Unit, rows[i].at)
      BY <1>13, <1>14, <1>18, <2>1, <3>1, <3>2, Zenon DEF DueValue, DueWeight
    <3>4. Counts(rows[i])
      BY <1>16, <2>1
    <3>5. QED BY <3>3, <3>4 DEF Worth, Weights
  <2>2. CASE i \notin kept
    <3>1. ~Counts(rows[i])
      BY <1>16, <2>2
    <3>2. QED BY <1>14, <1>18, <2>2, <3>1 DEF DueValue, DueWeight, Worth, Weights
  <2>3. QED BY <2>1, <2>2
<1>21. StatsWithin(stats', rows', counted')
  <2> DEFINE f == Worth(rows, trust)
             g == Weights(rows, trust)
             p == DueValue(rows', counted')
             q == DueWeight(rows', counted')
  <2>1. \A i \in 1..n : f[i] \in Nat /\ g[i] \in Nat /\ p[i] = f[i] /\ q[i] = g[i]
    BY <1>1, <1>2, <1>20, WorthNat
  <2>2. TotalOf(f, n) \in Nat /\ TotalOf(g, n) \in Nat
    BY <1>1, <1>2, WorthNat
  <2> HIDE DEF f, g, p, q, n
  <2>3. \A i \in 1..n : f[i] \in Nat /\ g[i] \in Nat /\ p[i] \in Nat /\ q[i] \in Nat /\ f[i] <= p[i] /\ g[i] <= q[i]
    BY <2>1
  <2>4. TotalOf(f, n) <= TotalOf(p, n) /\ TotalOf(g, n) <= TotalOf(q, n)
        /\ TotalOf(p, n) \in Nat /\ TotalOf(q, n) \in Nat
    BY <1>2, <2>3, TotalGrows, TotalNat
  <2>5. Doubled(acc.a, acc.at) \in Nat /\ Doubled(acc.b, acc.at) \in Nat
    BY <1>5, DoubledFacts
  <2>6. Doubled(acc.a, acc.at) <= TotalOf(f, n) /\ Doubled(acc.b, acc.at) <= TotalOf(g, n)
    BY <1>3 DEF f, g
  <2>7. Doubled(acc.a, acc.at) <= TotalOf(p, n) /\ Doubled(acc.b, acc.at) <= TotalOf(q, n)
    BY <2>2, <2>4, <2>5, <2>6
  <2>8. QED BY <1>11, <1>14, <2>7 DEF StatsWithin, p, q
<1>22. QED BY <1>1, <1>3, <1>4, <1>11, <1>12, <1>15, <1>19, <1>21 DEF ScoreInv

\* Nothing is given or stored yet.
LEMMA InitScore == Init => ScoreInv
<1> SUFFICES ASSUME Init
             PROVE  ScoreInv
  OBVIOUS
<1>1. rows = <<>> /\ now = 0 /\ stats = NoStats /\ trust = [c \in Clients |-> Neutral] /\ counted = <<>>
  BY DEF Init
<1>2. trust \in TrustMaps
  BY <1>1 DEF TrustMaps, Neutral
<1>3. stats \in Stats /\ stats.at = 0 /\ stats.a = 0 /\ stats.b = 0
  BY <1>1 DEF Stats, NoStats
<1>4. RowsInOrder(rows, now)
  BY <1>1 DEF RowsInOrder, InOrder
<1>5. CountedRows(rows, counted)
  BY <1>1 DEF CountedRows
<1>6. StatsWithin(stats, rows, counted)
  <2>1. Len(rows) = 0
    BY <1>1
  <2>2. Doubled(0, 0) = 0 /\ TotalOf(DueValue(rows, counted), 0) = 0 /\ TotalOf(DueWeight(rows, counted), 0) = 0
    BY DoubledSteps, TotalSteps
  <2>3. QED BY <1>3, <2>1, <2>2 DEF StatsWithin
<1>7. QED BY <1>1, <1>2, <1>3, <1>4, <1>5, <1>6 DEF ScoreInv

\* Every step keeps the invariant.
LEMMA StepScore == ScoreInv /\ [Next]_vars => ScoreInv'
<1> SUFFICES ASSUME ScoreInv, [Next]_vars
             PROVE  ScoreInv'
  OBVIOUS
<1>1. CASE \E k \in Kinds : Give(k)
  BY <1>1, StepGive
<1>2. CASE \E i \in DOMAIN rows : Revoke(i) \/ \E cat \in {"quality", "junk"} : Resolve(i, cat)
  BY <1>2, StepRow
<1>3. CASE \E i \in DOMAIN rows : Grade(i)
  BY <1>3, StepGrade
<1>4. CASE Tick
  <2>1. now' = now + 1 /\ rows' = rows /\ stats' = stats /\ trust' = trust /\ counted' = counted
    BY <1>4 DEF Tick
  <2>2. /\ now \in Nat /\ trust \in TrustMaps /\ stats \in Stats /\ stats.at <= now
        /\ RowsInOrder(rows, now) /\ CountedRows(rows, counted) /\ StatsWithin(stats, rows, counted)
    BY DEF ScoreInv
  <2>3. stats.at \in Nat /\ rows \in Seq(Rows) /\ \A i \in 1..Len(rows) : rows[i].at \in Nat
    <3>1. stats.at \in Nat
      BY <2>2 DEF Stats
    <3>2. rows \in Seq(Rows)
      BY <2>2 DEF RowsInOrder
    <3>3. \A r \in Rows : r.at \in Nat
      BY Zenon DEF Rows
    <3>4. QED BY <3>1, <3>2, <3>3
  <2>4. now + 1 \in Nat /\ stats.at <= now + 1
    BY <2>2, <2>3
  <2>5. RowsInOrder(rows, now + 1)
    <3>1. \A i \in 1..Len(rows) : rows[i].at <= now
      BY <2>2 DEF RowsInOrder
    <3>2. \A i \in 1..Len(rows) : rows[i].at <= now + 1
      BY <2>2, <2>3, <3>1
    <3>3. QED BY <2>2, <3>2 DEF RowsInOrder
  <2>6. QED BY <2>1, <2>2, <2>4, <2>5 DEF ScoreInv
<1>5. CASE Refresh
  BY <1>5, StepRefresh
<1>6. CASE UNCHANGED vars
  <2>1. rows' = rows /\ now' = now /\ stats' = stats /\ trust' = trust /\ counted' = counted
    BY <1>6 DEF vars
  <2>2. QED BY <2>1 DEF ScoreInv
<1>7. QED BY <1>1, <1>2, <1>3, <1>4, <1>5, <1>6 DEF Next

\* The mass and the services of the invariant are those the score is read from.
LEMMA WithinIsNever == ScoreInv => LiveNeverOverstates
<1> SUFFICES ASSUME ScoreInv
             PROVE  LiveNeverOverstates
  OBVIOUS
<1> DEFINE live == DecayMass(MassOf(stats), stats.at, now)
           whole == Replay(rows, now, trust)
           Held(s) == DecayMass(MassOf(s), s.last, now).b
           n == Len(Services)
           values == [i \in DOMAIN rows |-> rows[i].v]
           ones == [i \in DOMAIN rows |-> 1]
<1>1. /\ now \in Nat /\ trust \in TrustMaps /\ stats \in Stats /\ stats.at <= now
      /\ rows \in Seq(Rows) /\ InOrder(rows) /\ \A i \in 1..Len(rows) : rows[i].at <= now
      /\ CountedRows(rows, counted) /\ StatsWithin(stats, rows, counted)
  BY DEF ScoreInv, RowsInOrder
<1>2. stats.a \in Nat /\ stats.b \in Nat /\ stats.at \in Nat
  BY <1>1 DEF Stats
<1>3. Due(values) = TotalOf(DueValue(rows, counted), Len(rows)) /\ Due(ones) = TotalOf(DueWeight(rows, counted), Len(rows))
  <2>1. DOMAIN rows = 1..Len(rows)
    BY <1>1
  <2>2. \A i \in 1..Len(rows) : values[i] = rows[i].v /\ ones[i] = 1
    BY <2>1
  <2> HIDE DEF values, ones
  <2>3. [i \in 1..Len(rows) |-> IF i \in DOMAIN counted THEN Doubled(counted[i] * values[i] * Unit, rows[i].at) ELSE 0]
            = DueValue(rows, counted)
    BY <2>2 DEF DueValue
  <2>4. [i \in 1..Len(rows) |-> IF i \in DOMAIN counted THEN Doubled(counted[i] * ones[i] * Unit, rows[i].at) ELSE 0]
            = DueWeight(rows, counted)
    BY <2>2 DEF DueWeight
  <2>5. QED BY <2>3, <2>4 DEF Due
<1>4. ASSUME NEW x \in Nat, NEW total \in Nat, Doubled(x, stats.at) <= total
      PROVE  Doubled(IF now <= stats.at THEN x ELSE Halved(x, now - stats.at), now) <= total
  <2> DEFINE k == now - stats.at
  <2>1. k \in Nat /\ stats.at + k = now /\ (now <= stats.at => k = 0)
    BY <1>1, <1>2
  <2>2. (IF now <= stats.at THEN x ELSE Halved(x, k)) = Halved(x, k)
    <3> HIDE DEF k
    <3> QED BY <2>1, HalvedSteps
  <2>3. Doubled(Halved(x, k), stats.at + k) <= Doubled(x, stats.at)
    <3> HIDE DEF k
    <3> QED BY <1>2, <2>1, DoubledBack
  <2> HIDE DEF k
  <2>4. Halved(x, k) \in Nat
    BY <2>1, HalvedNat
  <2>5. Doubled(Halved(x, k), now) \in Nat /\ Doubled(x, stats.at) \in Nat
    BY <1>1, <1>2, <2>4, DoubledFacts
  <2>6. Doubled(Halved(x, k), now) <= total
    BY <1>4, <2>1, <2>3, <2>5
  <2>7. QED BY <2>2, <2>6 DEF k
<1>5. /\ live.a = IF now <= stats.at THEN stats.a ELSE Halved(stats.a, now - stats.at)
      /\ live.b = IF now <= stats.at THEN stats.b ELSE Halved(stats.b, now - stats.at)
  BY DEF DecayMass, MassOf
<1>6. Doubled(live.a, now) <= Due(values) /\ Doubled(live.b, now) <= Due(ones)
  <2>1. TotalOf(DueValue(rows, counted), Len(rows)) \in Nat /\ TotalOf(DueWeight(rows, counted), Len(rows)) \in Nat
    BY <1>1, DueNat
  <2>2. Doubled(stats.a, stats.at) <= TotalOf(DueValue(rows, counted), Len(rows))
        /\ Doubled(stats.b, stats.at) <= TotalOf(DueWeight(rows, counted), Len(rows))
    BY <1>1 DEF StatsWithin
  <2> HIDE DEF live, values, ones
  <2>3. Doubled(live.a, now) <= TotalOf(DueValue(rows, counted), Len(rows))
    BY <1>2, <1>4, <1>5, <2>1, <2>2
  <2>4. Doubled(live.b, now) <= TotalOf(DueWeight(rows, counted), Len(rows))
    BY <1>2, <1>4, <1>5, <2>1, <2>2
  <2>5. QED BY <1>3, <2>3, <2>4
<1>7. /\ whole \in Accs
      /\ \A j \in 1..n : now - whole.services[j].last \in Nat /\ whole.services[j] \in Svcs
      /\ TotalOf(SharesAt(whole, now), n) <= whole.b
      /\ TotalOf(TasksOf(whole), n) <= whole.tasks
  BY <1>1, ReplayIsFair
<1> HIDE DEF whole
<1>8. [i \in 1..n |-> Held(whole.services[i])] = SharesAt(whole, now)
  <2>1. ASSUME NEW j \in 1..n
        PROVE  Held(whole.services[j]) = Halved(whole.services[j].b, now - whole.services[j].last)
    <3> DEFINE s == whole.services[j]
               k == now - s.last
    <3>1. s \in Svcs /\ k \in Nat
      BY <1>7
    <3>2. s.last \in Nat
      BY <3>1 DEF Svcs
    <3>3. now <= s.last => k = 0
      <4> HIDE DEF s
      <4> QED BY <1>1, <3>1, <3>2
    <3>4. Held(s) = IF now <= s.last THEN s.b ELSE Halved(s.b, k)
      BY DEF DecayMass, MassOf
    <3> HIDE DEF s, k, Held
    <3>5. Halved(s.b, 0) = s.b
      BY HalvedSteps
    <3>6. Held(s) = Halved(s.b, k)
      BY <3>3, <3>4, <3>5
    <3>7. QED BY <3>6 DEF s, k
  <2> HIDE DEF Held
  <2>2. QED BY <2>1 DEF SharesAt
<1>9. [i \in 1..n |-> whole.services[i].total] = TasksOf(whole)
  BY DEF TasksOf
<1>10. TotalOf([i \in 1..n |-> Held(whole.services[i])], n) <= whole.b
  <2> HIDE DEF Held
  <2> QED BY <1>7, <1>8
<1>11. TotalOf([i \in 1..n |-> whole.services[i].total], n) <= whole.tasks
  BY <1>7, <1>9
<1> HIDE DEF live, values, ones
<1>12. QED BY <1>6, <1>10, <1>11 DEF LiveNeverOverstates, live, whole, values, ones

\* Of the first m rows those given by time t are the first ones.
FirstOnes(history, t, m) == \E c \in 0..m : \A i \in 1..m : i <= c <=> history[i].at <= t

\* The rows given by a time are the first ones.
LEMMA GivenFirst ==
    ASSUME NEW history \in Seq(Rows), InOrder(history), NEW t \in Int
    PROVE  LET given == Cardinality({i \in DOMAIN history : history[i].at <= t})
           IN  /\ given \in 0..Len(history)
               /\ \A i \in 1..Len(history) : i <= given <=> history[i].at <= t
<1> DEFINE n == Len(history)
           P == {m \in Nat : m <= n => FirstOnes(history, t, m)}
<1>1. n \in Nat /\ \A i \in 1..n : history[i].at \in Nat
  <2>1. \A i \in 1..n : history[i] \in Rows
    OBVIOUS
  <2>2. \A r \in Rows : r.at \in Nat
    BY Zenon DEF Rows
  <2>3. n \in Nat
    OBVIOUS
  <2>4. QED BY <2>1, <2>2, <2>3
<1>2. \A i, j \in 1..n : i <= j => history[i].at <= history[j].at
  BY DEF InOrder
<1> HIDE DEF n
<1>3. 0 \in P
  <2>1. 0 \in 0..0 /\ \A i \in 1..0 : i <= 0 <=> history[i].at <= t
    OBVIOUS
  <2>2. QED BY <2>1 DEF FirstOnes
<1>4. ASSUME NEW m \in Nat, m \in P
      PROVE  m + 1 \in P
  <2>1. SUFFICES ASSUME m + 1 <= n
                 PROVE  FirstOnes(history, t, m + 1)
    OBVIOUS
  <2>2. PICK c \in 0..m : \A i \in 1..m : i <= c <=> history[i].at <= t
    BY <1>1, <1>4, <2>1 DEF FirstOnes
  <2>3. \A i \in 1..m + 1 : i \in 1..n /\ (i \in 1..m \/ i = m + 1)
    BY <1>1, <2>1
  <2>4. CASE history[m + 1].at <= t
    <3>1. \A i \in 1..m + 1 : history[i].at <= t
      <4> SUFFICES ASSUME NEW i \in 1..m + 1
                   PROVE  history[i].at <= t
        OBVIOUS
      <4>1. i \in 1..n /\ m + 1 \in 1..n /\ i <= m + 1
        BY <2>3
      <4>2. history[i].at <= history[m + 1].at
        BY <1>2, <4>1
      <4>3. QED BY <1>1, <2>4, <4>1, <4>2
    <3>2. m + 1 \in 0..m + 1 /\ \A i \in 1..m + 1 : i <= m + 1 <=> history[i].at <= t
      BY <3>1
    <3>3. QED BY <3>2 DEF FirstOnes
  <2>5. CASE ~(history[m + 1].at <= t)
    <3>1. c \in 0..m + 1 /\ \A i \in 1..m + 1 : i <= c <=> history[i].at <= t
      BY <2>2, <2>3, <2>5
    <3>2. QED BY <3>1 DEF FirstOnes
  <2>6. QED BY <2>4, <2>5
<1>5. PICK c \in 0..n : \A i \in 1..n : i <= c <=> history[i].at <= t
  <2>1. n \in P
    <3> HIDE DEF P
    <3>1. \A m \in Nat : m \in P
      BY <1>3, <1>4, NatSetInduction
    <3>2. QED BY <1>1, <3>1
  <2>2. QED BY <1>1, <2>1 DEF FirstOnes
<1>6. {i \in DOMAIN history : history[i].at <= t} = 1..c
  <2>1. DOMAIN history = 1..n
    BY DEF n
  <2>2. QED BY <1>1, <1>5, <2>1
<1>7. Cardinality(1..c) = c
  <2>1. c \in Nat
    BY <1>1, <1>5
  <2>2. Cardinality(1..c) = IF 1 > c THEN 0 ELSE c - 1 + 1
    BY <2>1, FS_Interval
  <2>3. QED BY <2>1, <2>2
<1>8. QED BY <1>5, <1>6, <1>7 DEF n

\* The snapshots of the replay the score is read from.
LEMMA SnapshotsAreReplays == ScoreInv => SnapshotsAreHistory
<1> SUFFICES ASSUME ScoreInv
             PROVE  SnapshotsAreHistory
  OBVIOUS
<1>1. now \in Nat /\ now \in Int /\ trust \in TrustMaps /\ rows \in Seq(Rows) /\ InOrder(rows)
  <2>1. now \in Nat /\ trust \in TrustMaps /\ rows \in Seq(Rows) /\ InOrder(rows)
    BY DEF ScoreInv, RowsInOrder
  <2>2. QED BY <2>1
<1>2. ASSUME NEW i \in 1..Len(Windows)
      PROVE  LET t == now - Windows[i]
                 then == Replay(GivenBy(t), t, trust)
             IN  Replay(rows, now, trust).snaps[i] = [a |-> then.a, b |-> then.b, fails |-> then.fails]
  <2> DEFINE t == now - Windows[i]
             given == Cardinality({j \in DOMAIN rows : rows[j].at <= t})
  <2>1. t \in Int
    <3>1. Windows[i] \in Nat
      BY ParamsAssumption
    <3>2. QED BY <1>1, <3>1
  <2>2. given \in 0..Len(rows) /\ \A j \in 1..Len(rows) : j <= given <=> rows[j].at <= t
    <3> HIDE DEF t
    <3> QED BY <1>1, <2>1, GivenFirst
  <2>3. GivenBy(t) = SubSeq(rows, 1, given)
    BY DEF GivenBy
  <2> HIDE DEF given
  <2>4. \A j \in 1..Len(rows) : j <= given <=> rows[j].at <= now - Windows[i]
    BY <2>2
  <2> DEFINE early == SubSeq(rows, 1, given)
             was == Replay(early, t, trust)
             snap == Replay(rows, now, trust).snaps[i]
  <2>5. snap = [a |-> was.a, b |-> was.b, fails |-> was.fails]
    BY <1>1, <2>2, <2>4, SnapshotIsReplay
  <2>6. early = GivenBy(t)
    BY <2>3
  <2> HIDE DEF early, t
  <2>7. was = Replay(GivenBy(t), t, trust)
    BY <2>6
  <2> HIDE DEF was
  <2>8. snap = [a |-> Replay(GivenBy(t), t, trust).a, b |-> Replay(GivenBy(t), t, trust).b,
                fails |-> Replay(GivenBy(t), t, trust).fails]
    BY <2>5, <2>7
  <2>9. QED BY <2>8 DEF t
<1>3. QED BY <1>2 DEF SnapshotsAreHistory

\* The score the API and the ranking read never overstates the evidence, and the
\* services of an agent share out no more than it has, however live increments, late
\* grades and replays follow each other (applyQuality, replay.go, MatchService).
THEOREM LiveNeverOverstatesHolds == Spec => []LiveNeverOverstates
<1>1. QED BY InitScore, StepScore, WithinIsNever, PTL DEF Spec

\* A snapshot taken on the way of the single pass is what a replay of the rows given by
\* then finds at that time (replay.go, the milestones strictly before an event).
THEOREM SnapshotsAreHistoryHolds == Spec => []SnapshotsAreHistory
<1>1. QED BY InitScore, StepScore, SnapshotsAreReplays, PTL DEF Spec

-------------------------------------------------------------------------------
(* Serving: a behaviour of the composition is one of every part.               *)

\* A behaviour of the composition is one of each of its parts.
LEMMA ServingPartsAsSpecified ==
    ServingSpec => Spec /\ HubSpec /\ ApiSpec /\ FetchSpec /\ ResetSpec /\ ReadSpec
<1>1. ServingInit => Init /\ HubInit /\ ApiInit /\ FetchInit /\ ResetInit /\ ReadInit
  BY DEF ServingInit
<1>2. [ServingNext]_servingVars =>
          /\ [Next]_vars /\ [HubNext]_hubVars /\ [ApiNext]_apiVars
          /\ [FetchNext]_fetchVars /\ [ResetNext]_resetVars /\ [ReadNext]_readVars
  BY DEF ServingNext, ScorePart, StreamPart, ApiPart, FetchPart, ResetPart, ReadPart, servingVars
<1>3. QED BY <1>1, <1>2, PTL DEF ServingSpec, Spec, HubSpec, ApiSpec, FetchSpec, ResetSpec, ReadSpec

\* What is proved of the parts holds of what serves.
COROLLARY ServingSafe ==
    ServingSpec => [](/\ NoPanic /\ StreamWithoutGap /\ BurstBounded /\ PageFresh /\ RowIsAnAnswer
                      /\ PagesLoseNothing /\ StarsAreBest /\ LiveNeverOverstates /\ SnapshotsAreHistory)
BY ServingPartsAsSpecified, NoPanicHolds, StreamWithoutGapHolds, BurstBoundedHolds, PageFreshHolds, RowIsAnAnswerHolds,
   PagesLoseNothingHolds, StarsAreBestHolds, LiveNeverOverstatesHolds, SnapshotsAreHistoryHolds, PTL

===============================================================================
