-------------------------- MODULE SupervisionProofs --------------------------
(***************************************************************************)
(* The gateway's configuration follows the control plane's and never goes  *)
(* back, for every bound on the changes and on the messages under way,     *)
(* every set of services and every history size.                           *)
(***************************************************************************)
EXTENDS Supervision, SequenceTheorems, TLAPS

\* Message i of the messages w brings part f of the configuration.
Brings(w, i, f) == f \in Touched(w[i])

\* The messages w bring a part in the order in which it changed: none brings an
\* older version than the one applied (c), or than an earlier message does, and
\* none a newer one than the one held (h).
Ordered(w, c, h) ==
    \A f \in Fields :
        /\ c[f] <= h[f]
        /\ \A i \in 1..Len(w) : Brings(w, i, f) =>
              /\ c[f] <= w[i].data[f] /\ w[i].data[f] <= h[f]
              /\ \A j \in (i + 1)..Len(w) : Brings(w, j, f) => w[i].data[f] <= w[j].data[f]

\* Of a part whose last change was not lost (m), the last message that brings it
\* brings the version that is held; if none does, that version was applied.
Complete(w, c, h, m) ==
    \A f \in Fields \ m :
        /\ (\A i \in 1..Len(w) : ~Brings(w, i, f)) => c[f] = h[f]
        /\ \A i \in 1..Len(w) :
              Brings(w, i, f) /\ (\A j \in (i + 1)..Len(w) : ~Brings(w, j, f))
                => w[i].data[f] = h[f]

InOrder == Ordered(wire, config, held)
LatestComes == Complete(wire, config, held, missed)

SupInv == TypeOK /\ InOrder /\ LatestComes

-----------------------------------------------------------------------------
\* The messages, and the versions in them.

NatVersions == [Fields -> Nat]

LEMMA TouchedType ==
    ASSUME NEW m \in Message
    PROVE  /\ Touched(m) \in SUBSET Fields
           /\ Touched(m) # {} => m.data \in NatVersions
  BY SupervisionConstants DEF Touched, Message, Versions, NatVersions

LEMMA MessagesType ==
    ASSUME NEW w \in Seq(Message)
    PROVE  /\ Len(w) \in Nat
           /\ \A i \in 1..Len(w), f \in Fields : Brings(w, i, f) => w[i].data[f] \in Nat
<1>1. Len(w) \in Nat /\ \A i \in 1..Len(w) : w[i] \in Message
  BY LenProperties, ElementOfSeq
<1>2. ASSUME NEW i \in 1..Len(w), NEW f \in Fields, Brings(w, i, f)
      PROVE  w[i].data[f] \in Nat
  BY <1>1, <1>2, TouchedType DEF Brings, NatVersions
<1> QED BY <1>1, <1>2

\* A message is sent: it brings what is then held, and nothing else has changed.
LEMMA SendingKeeps ==
    ASSUME NEW w \in Seq(Message), NEW c \in NatVersions, NEW h \in NatVersions, NEW miss,
           NEW h2 \in NatVersions, NEW m \in Message,
           \A f \in Fields : h[f] <= h2[f],
           \A f \in Fields \ Touched(m) : h2[f] = h[f],
           \A f \in Touched(m) : m.data[f] = h2[f],
           Ordered(w, c, h), Complete(w, c, h, miss)
    PROVE  /\ Ordered(Append(w, m), c, h2)
           /\ Complete(Append(w, m), c, h2, miss \ Touched(m))
<1> DEFINE n == Len(w)
           v == Append(w, m)
<1>1. /\ n \in Nat
      /\ \A i \in 1..n, f \in Fields : Brings(w, i, f) => w[i].data[f] \in Nat
  BY MessagesType
<1>2. /\ Len(v) = n + 1 /\ v[n + 1] = m
      /\ \A i \in 1..n : v[i] = w[i]
  BY AppendProperties
<1>3. /\ \A i \in 1..n, f \in Fields : Brings(v, i, f) <=> Brings(w, i, f)
      /\ \A f \in Fields : Brings(v, n + 1, f) <=> f \in Touched(m)
  BY <1>1, <1>2 DEF Brings
<1>4. /\ \A f \in Fields : c[f] \in Nat /\ h[f] \in Nat /\ h2[f] \in Nat
      /\ \A f \in Touched(m) : f \in Fields
  BY TouchedType DEF NatVersions
<1> HIDE DEF n, v
<1>5. ASSUME NEW f \in Fields PROVE c[f] <= h2[f]
  BY <1>4 DEF Ordered
<1>6. ASSUME NEW f \in Fields, NEW i \in 1..(n + 1), Brings(v, i, f)
      PROVE  /\ c[f] <= v[i].data[f] /\ v[i].data[f] <= h2[f]
             /\ \A j \in (i + 1)..(n + 1) : Brings(v, j, f) => v[i].data[f] <= v[j].data[f]
  <2>1. CASE i = n + 1
    BY <1>1, <1>2, <1>3, <1>4, <1>5, <1>6, <2>1
  <2>2. CASE i \in 1..n
    <3>1. Brings(w, i, f) /\ v[i] = w[i]
      BY <1>2, <1>3, <1>6, <2>2
    <3>2. /\ c[f] <= w[i].data[f] /\ w[i].data[f] <= h[f]
          /\ \A j \in (i + 1)..n : Brings(w, j, f) => w[i].data[f] <= w[j].data[f]
      BY <2>2, <3>1 DEF Ordered, n
    <3>3. w[i].data[f] \in Nat
      BY <1>1, <2>2, <3>1
    <3>4. ASSUME NEW j \in (i + 1)..(n + 1), Brings(v, j, f)
          PROVE  w[i].data[f] <= v[j].data[f]
      <4>1. CASE j = n + 1
        BY <1>2, <1>3, <1>4, <3>2, <3>3, <3>4, <4>1
      <4>2. CASE j \in 1..n
        BY <1>1, <1>2, <1>3, <3>2, <3>4, <4>2
      <4> QED BY <1>1, <2>2, <4>1, <4>2
    <3> QED BY <1>4, <3>1, <3>2, <3>3, <3>4
  <2> QED BY <1>1, <2>1, <2>2
<1>7. ASSUME NEW f \in Fields \ (miss \ Touched(m))
      PROVE  /\ (\A i \in 1..(n + 1) : ~Brings(v, i, f)) => c[f] = h2[f]
             /\ \A i \in 1..(n + 1) :
                   Brings(v, i, f) /\ (\A j \in (i + 1)..(n + 1) : ~Brings(v, j, f))
                     => v[i].data[f] = h2[f]
  <2>1. CASE f \in Touched(m)
    <3>1. Brings(v, n + 1, f) /\ n + 1 \in 1..(n + 1) /\ v[n + 1].data[f] = h2[f]
      BY <1>1, <1>2, <1>3, <2>1
    <3>2. \A i \in 1..n : n + 1 \in (i + 1)..(n + 1)
      BY <1>1
    <3>3. \A i \in 1..(n + 1) : i = n + 1 \/ i \in 1..n
      BY <1>1
    <3> QED BY <3>1, <3>2, <3>3
  <2>2. CASE f \notin Touched(m)
    <3>1. f \in Fields \ miss /\ h2[f] = h[f]
      BY <2>2
    <3>2. /\ (\A i \in 1..n : ~Brings(w, i, f)) => c[f] = h[f]
          /\ \A i \in 1..n : Brings(w, i, f) /\ (\A j \in (i + 1)..n : ~Brings(w, j, f))
                               => w[i].data[f] = h[f]
      BY <3>1 DEF Complete, n
    <3>3. /\ ~Brings(v, n + 1, f)
          /\ \A i \in 1..n : (Brings(v, i, f) <=> Brings(w, i, f)) /\ v[i] = w[i]
      BY <1>2, <1>3, <2>2
    <3>4. /\ \A i \in 1..(n + 1) : i = n + 1 \/ i \in 1..n
          /\ \A i \in 1..n : i \in 1..(n + 1)
          /\ \A i \in 1..n : \A j \in (i + 1)..n : j \in 1..n /\ j \in (i + 1)..(n + 1)
      BY <1>1
    <3> QED BY <3>1, <3>2, <3>3, <3>4
  <2> QED BY <2>1, <2>2
<1>8. Ordered(v, c, h2)
  BY <1>2, <1>5, <1>6 DEF Ordered
<1>9. Complete(v, c, h2, miss \ Touched(m))
  BY <1>2, <1>7 DEF Complete
<1> QED BY <1>8, <1>9 DEF v

\* A change is lost: nothing is sent of it, and its part is missed.
LEMMA LosingKeeps ==
    ASSUME NEW w \in Seq(Message), NEW c \in NatVersions, NEW h \in NatVersions, NEW miss,
           NEW h2 \in NatVersions, NEW lost,
           \A f \in Fields : h[f] <= h2[f],
           \A f \in Fields \ lost : h2[f] = h[f],
           Ordered(w, c, h), Complete(w, c, h, miss)
    PROVE  Ordered(w, c, h2) /\ Complete(w, c, h2, miss \cup lost)
<1>1. /\ Len(w) \in Nat
      /\ \A i \in 1..Len(w), f \in Fields : Brings(w, i, f) => w[i].data[f] \in Nat
  BY MessagesType
<1>2. \A f \in Fields : c[f] \in Nat /\ h[f] \in Nat /\ h2[f] \in Nat
  BY DEF NatVersions
<1>3. Ordered(w, c, h2)
  BY <1>1, <1>2 DEF Ordered
<1>4. Complete(w, c, h2, miss \cup lost)
  BY DEF Complete
<1> QED BY <1>3, <1>4

\* The connection dies: what was not received is missed.
LEMMA DyingKeeps ==
    ASSUME NEW w \in Seq(Message), NEW c, NEW h, NEW miss, NEW n \in 0..Len(w),
           Ordered(w, c, h), Complete(w, c, h, miss)
    PROVE  /\ SubSeq(w, 1, n) \in Seq(Message) /\ Len(SubSeq(w, 1, n)) = n
           /\ Ordered(SubSeq(w, 1, n), c, h)
           /\ Complete(SubSeq(w, 1, n), c, h, miss \cup TouchedBy(SubSeq(w, n + 1, Len(w))))
<1> DEFINE v == SubSeq(w, 1, n)
           z == SubSeq(w, n + 1, Len(w))
<1>1. Len(w) \in Nat /\ \A i \in 1..Len(w) : w[i] \in Message
  BY LenProperties, ElementOfSeq
<1>2. \A i \in 1..n : i \in 1..Len(w)
  BY <1>1
<1>3. v \in Seq(Message) /\ Len(v) = n /\ \A i \in 1..n : v[i] = w[i]
  BY <1>1, <1>2, SubSeqProperties
<1>4. /\ z \in Seq(Message) /\ Len(z) = Len(w) - n
      /\ \A i \in 1..(Len(w) - n) : z[i] = w[n + i]
  BY <1>1, SubSeqProperties
<1>5. DOMAIN z = 1..(Len(w) - n)
  BY <1>4, LenProperties
<1>6. ASSUME NEW f, NEW j \in (n + 1)..Len(w), Brings(w, j, f)
      PROVE  f \in TouchedBy(z)
  <2>1. j - n \in 1..(Len(w) - n) /\ n + (j - n) = j
    BY <1>1
  <2>2. z[j - n] = w[j]
    BY <1>4, <2>1
  <2> QED BY <1>5, <1>6, <2>1, <2>2 DEF TouchedBy, Brings
<1> HIDE DEF v, z
<1>7. \A i \in 1..n, f \in Fields : Brings(v, i, f) <=> Brings(w, i, f)
  BY <1>3 DEF Brings
<1>8. Ordered(v, c, h)
  <2>1. \A i \in 1..n : \A j \in (i + 1)..n : j \in 1..n /\ j \in (i + 1)..Len(w)
    BY <1>1
  <2> QED BY <1>2, <1>3, <1>7, <2>1 DEF Ordered
<1>9. Complete(v, c, h, miss \cup TouchedBy(z))
  <2> SUFFICES ASSUME NEW f \in Fields \ (miss \cup TouchedBy(z))
               PROVE  /\ (\A i \in 1..n : ~Brings(v, i, f)) => c[f] = h[f]
                      /\ \A i \in 1..n :
                            Brings(v, i, f) /\ (\A j \in (i + 1)..n : ~Brings(v, j, f))
                              => v[i].data[f] = h[f]
    BY <1>3 DEF Complete
  <2>1. \A j \in (n + 1)..Len(w) : ~Brings(w, j, f)
    BY <1>6
  <2>2. /\ (\A i \in 1..Len(w) : ~Brings(w, i, f)) => c[f] = h[f]
        /\ \A i \in 1..Len(w) :
              Brings(w, i, f) /\ (\A j \in (i + 1)..Len(w) : ~Brings(w, j, f))
                => w[i].data[f] = h[f]
    BY DEF Complete
  <2>3. /\ \A i \in 1..Len(w) : i \in 1..n \/ i \in (n + 1)..Len(w)
        /\ \A i \in 1..n : \A j \in (i + 1)..Len(w) :
              (j \in (i + 1)..n /\ j \in 1..n) \/ j \in (n + 1)..Len(w)
    BY <1>1
  <2> QED BY <1>2, <1>3, <1>7, <2>1, <2>2, <2>3
<1> QED BY <1>3, <1>8, <1>9 DEF v, z

\* The configuration c after message m
Applied(c, m) == [f \in Fields |-> IF f \in Touched(m) THEN m.data[f] ELSE c[f]]

\* The next message is applied: no part goes back.
LEMMA ApplyingKeeps ==
    ASSUME NEW w \in Seq(Message), w # <<>>, NEW c \in NatVersions, NEW h \in NatVersions,
           NEW miss, Ordered(w, c, h), Complete(w, c, h, miss)
    PROVE  /\ \A f \in Fields : c[f] <= Applied(c, Head(w))[f]
           /\ Ordered(Tail(w), Applied(c, Head(w)), h)
           /\ Complete(Tail(w), Applied(c, Head(w)), h, miss)
<1> DEFINE n == Len(w)
           v == Tail(w)
           c2 == Applied(c, Head(w))
<1>1. /\ n \in Nat /\ n # 0
      /\ \A i \in 1..n, f \in Fields : Brings(w, i, f) => w[i].data[f] \in Nat
  BY MessagesType, EmptySeq
<1>2. Len(v) = n - 1 /\ (\A i \in 1..(n - 1) : v[i] = w[i + 1]) /\ Head(w) = w[1]
  BY HeadTailProperties
<1>3. \A i \in 1..(n - 1), f \in Fields : Brings(v, i, f) <=> Brings(w, i + 1, f)
  BY <1>2 DEF Brings
<1>4. \A f \in Fields : /\ Brings(w, 1, f) => c2[f] = w[1].data[f]
                        /\ ~Brings(w, 1, f) => c2[f] = c[f]
  BY <1>2 DEF Brings, Applied
<1>5. \A f \in Fields : c[f] \in Nat /\ h[f] \in Nat
  BY DEF NatVersions
<1> HIDE DEF n, v, c2
<1>6. 1 \in 1..n /\ \A i \in 1..(n - 1) : i + 1 \in 1..n /\ i + 1 \in 2..n /\ i + 1 \in (1 + 1)..n
  BY <1>1
<1>7. ASSUME NEW f \in Fields
      PROVE  /\ c[f] <= h[f]
             /\ \A i \in 1..n : Brings(w, i, f) =>
                   /\ c[f] <= w[i].data[f] /\ w[i].data[f] <= h[f]
                   /\ \A j \in (i + 1)..n : Brings(w, j, f) => w[i].data[f] <= w[j].data[f]
  BY DEF Ordered, n
<1>8. ASSUME NEW f \in Fields PROVE c[f] <= c2[f] /\ c2[f] <= h[f]
  BY <1>4, <1>5, <1>6, <1>7
<1>9. Ordered(v, c2, h)
  <2> SUFFICES ASSUME NEW f \in Fields, NEW i \in 1..(n - 1), Brings(v, i, f)
               PROVE  /\ c2[f] <= v[i].data[f] /\ v[i].data[f] <= h[f]
                      /\ \A j \in (i + 1)..(n - 1) :
                            Brings(v, j, f) => v[i].data[f] <= v[j].data[f]
    BY <1>2, <1>8 DEF Ordered
  <2>1. Brings(w, i + 1, f) /\ v[i] = w[i + 1]
    BY <1>2, <1>3
  <2>2. c2[f] <= v[i].data[f] /\ v[i].data[f] <= h[f]
    BY <1>4, <1>6, <1>7, <2>1
  <2>3. ASSUME NEW j \in (i + 1)..(n - 1), Brings(v, j, f)
        PROVE  v[i].data[f] <= v[j].data[f]
    <3>1. j \in 1..(n - 1) /\ j + 1 \in ((i + 1) + 1)..n
      BY <1>1
    <3>2. Brings(w, j + 1, f) /\ v[j] = w[j + 1]
      BY <1>2, <1>3, <2>3, <3>1
    <3> QED BY <1>6, <1>7, <2>1, <3>1, <3>2
  <2> QED BY <2>2, <2>3
<1>10. Complete(v, c2, h, miss)
  <2> SUFFICES ASSUME NEW f \in Fields \ miss
               PROVE  /\ (\A i \in 1..(n - 1) : ~Brings(v, i, f)) => c2[f] = h[f]
                      /\ \A i \in 1..(n - 1) :
                            Brings(v, i, f) /\ (\A j \in (i + 1)..(n - 1) : ~Brings(v, j, f))
                              => v[i].data[f] = h[f]
    BY <1>2 DEF Complete
  <2>1. /\ (\A i \in 1..n : ~Brings(w, i, f)) => c[f] = h[f]
        /\ \A i \in 1..n : Brings(w, i, f) /\ (\A j \in (i + 1)..n : ~Brings(w, j, f))
                             => w[i].data[f] = h[f]
    BY DEF Complete, n
  <2>2. ASSUME NEW i \in 0..(n - 1), \A j \in (i + 1)..(n - 1) : ~Brings(v, j, f)
        PROVE  \A j \in (i + 2)..n : ~Brings(w, j, f)
    <3>1. TAKE j \in (i + 2)..n
    <3>2. j - 1 \in (i + 1)..(n - 1) /\ j - 1 \in 1..(n - 1) /\ (j - 1) + 1 = j
      BY <1>1
    <3> QED BY <1>3, <2>2, <3>2
  <2>3. ASSUME \A i \in 1..(n - 1) : ~Brings(v, i, f) PROVE c2[f] = h[f]
    <3>1. \A j \in 2..n : ~Brings(w, j, f)
      <4>1. 0 \in 0..(n - 1) /\ 0 + 1 = 1 /\ 0 + 2 = 2
        BY <1>1
      <4> QED BY <2>2, <2>3, <4>1
    <3>2. \A i \in 1..n : i = 1 \/ i \in 2..n
      BY <1>1
    <3> QED BY <1>4, <1>6, <2>1, <3>1, <3>2
  <2>4. ASSUME NEW i \in 1..(n - 1), Brings(v, i, f),
               \A j \in (i + 1)..(n - 1) : ~Brings(v, j, f)
        PROVE  v[i].data[f] = h[f]
    <3>1. i \in 0..(n - 1) /\ (i + 1) + 1 = i + 2
      BY <1>1
    <3>2. \A j \in ((i + 1) + 1)..n : ~Brings(w, j, f)
      BY <2>2, <2>4, <3>1
    <3> QED BY <1>2, <1>3, <1>6, <2>1, <2>4, <3>2
  <2> QED BY <2>3, <2>4
<1> QED BY <1>8, <1>9, <1>10 DEF v, c2

-----------------------------------------------------------------------------
\* The specification.

LEMMA StateTypes ==
    ASSUME TypeOK
    PROVE  held \in NatVersions /\ config \in NatVersions /\ wire \in Seq(Message)
  BY SupervisionConstants DEF TypeOK, Versions, NatVersions

LEMMA InitSup == Init => SupInv
<1> SUFFICES ASSUME Init PROVE SupInv
  OBVIOUS
<1>1. wire \in Seq(Message) /\ Len(wire) = 0
  BY EmptySeq DEF Init
<1>2. TypeOK
  <2>1. held \in Versions /\ config \in Versions /\ hist \in 0..MaxHistory
    BY SupervisionConstants DEF Init, Versions
  <2>2. token \in BOOLEAN /\ shuttingDown \in BOOLEAN
    BY Zenon DEF Init
  <2>3. task \in [Tasks -> {"run", "stopped"}] /\ reaped \subseteq Tasks /\ missed \subseteq Fields
    BY DEF Init
  <2> QED BY <1>1, <2>1, <2>2, <2>3, SupervisionConstants DEF Init, TypeOK
<1>3. \A f \in Fields : config[f] = held[f] /\ held[f] \in Nat
  BY DEF Init
<1>4. InOrder /\ LatestComes
  BY <1>1, <1>3 DEF InOrder, LatestComes, Ordered, Complete
<1> QED BY <1>2, <1>4 DEF SupInv

\* Steps of the services leave the client alone.
LEMMA ServiceStep ==
    ASSUME SupInv, NEW t \in Tasks, Ends(t) \/ Stops(t) \/ Reap(t) \/ Exit
    PROVE  SupInv' /\ config' = config
<1>1. client' = client
  BY DEF Ends, Stops, Reap, Exit
<1>2. InOrder' /\ LatestComes'
  BY <1>1 DEF client, SupInv, InOrder, LatestComes
<1>3. /\ task' \in [Tasks -> {"run", "stopped"}] /\ reaped' \subseteq Tasks
      /\ process' \in {"starting", "up", "panicked", "exited"}
  BY DEF SupInv, TypeOK, Ends, Stops, Reap, Exit, services
<1>4. token' \in BOOLEAN /\ shuttingDown' \in BOOLEAN
  BY Zenon DEF SupInv, TypeOK, Ends, Stops, Reap, Exit, services
<1>5. TypeOK'
  BY <1>1, <1>3, <1>4 DEF client, SupInv, TypeOK
<1> QED BY <1>1, <1>2, <1>5 DEF SupInv, client

\* What Sends does with a message that brings what is held.
LEMMA SendsKeeps ==
    ASSUME SupInv, NEW m \in Message, Sends(m), config' = config,
           held' \in NatVersions,
           \A f \in Fields : held[f] <= held'[f],
           \A f \in Fields \ Touched(m) : held'[f] = held[f],
           \A f \in Touched(m) : m.data[f] = held'[f]
    PROVE  /\ InOrder' /\ LatestComes'
           /\ wire' \in Seq(Message) /\ Len(wire') <= WireCap /\ missed' \subseteq Fields
<1>1. /\ held \in NatVersions /\ config \in NatVersions /\ wire \in Seq(Message)
      /\ Ordered(wire, config, held) /\ Complete(wire, config, held, missed)
      /\ Touched(m) \subseteq Fields /\ missed \subseteq Fields /\ Len(wire) <= WireCap
  BY StateTypes, TouchedType DEF SupInv, InOrder, LatestComes, TypeOK
<1>2. CASE Connected
  <2>1. wire' = Append(wire, m) /\ missed' = missed \ Touched(m) /\ Len(wire) < WireCap
    BY <1>2 DEF Sends
  <2>2. Ordered(wire', config', held') /\ Complete(wire', config', held', missed')
    BY <1>1, <2>1, SendingKeeps
  <2>3. wire' \in Seq(Message) /\ Len(wire') = Len(wire) + 1 /\ Len(wire) \in Nat
    BY <1>1, <2>1, AppendProperties, LenProperties
  <2> QED BY <1>1, <2>1, <2>2, <2>3, SupervisionConstants DEF InOrder, LatestComes
<1>3. CASE ~Connected
  <2>1. wire' = wire /\ missed' = missed \cup Touched(m)
    BY <1>3 DEF Sends
  <2>2. Ordered(wire', config', held') /\ Complete(wire', config', held', missed')
    BY <1>1, <2>1, LosingKeeps
  <2> QED BY <1>1, <2>1, <2>2 DEF InOrder, LatestComes
<1> QED BY <1>2, <1>3

\* The control plane's and the network's steps.
LEMMA NetworkStep ==
    ASSUME SupInv, SendConfig \/ SendOther \/ Dies \/ \E f \in Fields : Change(f)
    PROVE  SupInv' /\ config' = config
<1>0. /\ held \in NatVersions /\ config \in NatVersions /\ wire \in Seq(Message)
      /\ held \in Versions /\ TypeOK
  BY StateTypes DEF SupInv, TypeOK
<1>a. \A h \in NatVersions, f \in Fields : h[f] \in Nat
  BY DEF NatVersions
<1>1. CASE SendConfig
  <2>1. WholeConfig \in Message /\ Touched(WholeConfig) = Fields /\ WholeConfig.data = held
    BY <1>0 DEF WholeConfig, Message, Touched
  <2>2. /\ InOrder' /\ LatestComes'
        /\ wire' \in Seq(Message) /\ Len(wire') <= WireCap /\ missed' \subseteq Fields
    BY <1>0, <1>a, <1>1, <2>1, SendsKeeps DEF SendConfig
  <2> QED BY <1>0, <1>1, <2>2 DEF SendConfig, SupInv, TypeOK, services
<1>2. CASE SendOther
  <2>1. PICK k \in {"ack", "error", "garbage"} : Sends([kind |-> k])
    BY <1>2 DEF SendOther
  <2>2. [kind |-> k] \in Message /\ Touched([kind |-> k]) = {}
    BY DEF Message, Touched
  <2>3. /\ InOrder' /\ LatestComes'
        /\ wire' \in Seq(Message) /\ Len(wire') <= WireCap /\ missed' \subseteq Fields
    BY <1>0, <1>a, <1>2, <2>1, <2>2, SendsKeeps DEF SendOther
  <2> QED BY <1>0, <1>2, <2>3 DEF SendOther, SupInv, TypeOK, services
<1>3. CASE Dies
  <2>1. PICK n \in 0..Len(wire) :
             /\ wire' = SubSeq(wire, 1, n)
             /\ missed' = missed \cup TouchedBy(SubSeq(wire, n + 1, Len(wire)))
    BY <1>3 DEF Dies
  <2>2. /\ wire' \in Seq(Message) /\ Len(wire') = n
        /\ Ordered(wire', config, held) /\ Complete(wire', config, held, missed')
    BY <1>0, <2>1, DyingKeeps DEF SupInv, InOrder, LatestComes
  <2>3. TouchedBy(SubSeq(wire, n + 1, Len(wire))) \subseteq Fields
    <3>1. Len(wire) \in Nat /\ \A i \in (n + 1)..Len(wire) : wire[i] \in Message
      BY <1>0, LenProperties, ElementOfSeq
    <3>2. SubSeq(wire, n + 1, Len(wire)) \in Seq(Message)
      BY <3>1, SubSeqProperties
    <3> QED BY <3>2, LenProperties, ElementOfSeq, TouchedType DEF TouchedBy
  <2>4. n <= WireCap
    BY <1>0, LenProperties, SupervisionConstants DEF TypeOK
  <2> QED BY <1>0, <1>3, <2>2, <2>3, <2>4 DEF Dies, SupInv, TypeOK, services, InOrder, LatestComes
<1>4. ASSUME NEW f \in Fields, Change(f) PROVE SupInv' /\ config' = config
  <2>1. /\ held' = [held EXCEPT ![f] = @ + 1] /\ held[f] < MaxVersion /\ Sends(Update(f))
        /\ UNCHANGED <<process, services, conn, config, hist>>
    BY <1>4 DEF Change
  <2>2. held' \in Versions /\ held' \in NatVersions
    BY <1>0, <2>1, SupervisionConstants DEF Versions, NatVersions
  <2>3. \A g \in Fields : held[g] <= held'[g] /\ (g # f => held'[g] = held[g])
    BY <1>0, <1>a, <2>1 DEF Versions
  <2>4. Update(f) \in Message /\ Touched(Update(f)) = {f} /\ Update(f).data = held'
    BY <2>2 DEF Update, Message, Touched
  <2>5. /\ InOrder' /\ LatestComes'
        /\ wire' \in Seq(Message) /\ Len(wire') <= WireCap /\ missed' \subseteq Fields
    <3> DEFINE m == Update(f)
    <3>1. m \in Message /\ Sends(m) /\ Touched(m) = {f} /\ m.data = held'
      BY <2>1, <2>4
    <3> HIDE DEF m
    <3> QED BY <2>1, <2>2, <2>3, <3>1, SendsKeeps
  <2> QED BY <1>0, <2>1, <2>2, <2>5 DEF SupInv, TypeOK, services
<1> QED BY <1>1, <1>2, <1>3, <1>4

\* The client's steps.
LEMMA ClientStep ==
    ASSUME SupInv, Client
    PROVE  SupInv' /\ \A f \in Fields : config'[f] >= config[f]
<1>0. /\ held \in NatVersions /\ config \in NatVersions /\ wire \in Seq(Message) /\ TypeOK
      /\ \A f \in Fields : config[f] \in Nat
  BY StateTypes DEF SupInv, NatVersions
<1>1. CASE Connect \/ NoticeClosed \/ Reconnect \/ PauseOver
  <2>1. /\ wire' = wire /\ config' = config /\ held' = held /\ missed' = missed /\ hist' = hist
        /\ services' = services /\ conn' \in {"open", "retry", "pause"}
        /\ process' \in {process, "up"}
    BY <1>1 DEF Connect, NoticeClosed, Reconnect, PauseOver
  <2>2. TypeOK'
    BY <1>0, <2>1 DEF TypeOK, services
  <2> QED BY <1>0, <2>1, <2>2 DEF SupInv, InOrder, LatestComes
<1>2. CASE Receive
  <2>1. /\ wire # <<>> /\ wire' = Tail(wire) /\ held' = held /\ missed' = missed
        /\ services' = services /\ conn' = conn
        /\ IF Head(wire).kind = "garbage" THEN UNCHANGED <<hist, config>> ELSE Apply(Head(wire))
        /\ process' \in {process, "panicked"}
    BY <1>2 DEF Receive
  <2>2. Head(wire) \in Message /\ Tail(wire) \in Seq(Message) /\ Len(Tail(wire)) = Len(wire) - 1
        /\ Len(wire) \in Nat
    BY <1>0, <2>1, HeadTailProperties, LenProperties
  <2>3. config' = Applied(config, Head(wire))
    <3>1. CASE Head(wire).kind = "garbage"
      BY <1>0, <2>1, <3>1 DEF Applied, Touched, NatVersions
    <3>2. CASE Head(wire).kind # "garbage"
      BY <2>1, <3>2 DEF Apply, Applied
    <3> QED BY <3>1, <3>2
  <2>4. /\ \A f \in Fields : config[f] <= config'[f]
        /\ Ordered(wire', config', held') /\ Complete(wire', config', held', missed')
    BY <1>0, <2>1, <2>3, ApplyingKeeps DEF SupInv, InOrder, LatestComes
  <2>5. config' \in Versions
    <3>1. Touched(Head(wire)) # {} => Head(wire).data \in Versions
      BY <2>2 DEF Message, Touched
    <3> QED BY <1>0, <2>3, <3>1 DEF Applied, TypeOK, Versions
  <2>6. hist' \in 0..MaxHistory
    BY <1>0, <2>1, SupervisionConstants DEF TypeOK, Apply
  <2>7. TypeOK'
    BY <1>0, <2>1, <2>2, <2>5, <2>6, SupervisionConstants DEF TypeOK, services
  <2>8. \A f \in Fields : config'[f] \in Nat
    BY <2>5, SupervisionConstants DEF Versions
  <2> QED BY <1>0, <2>4, <2>7, <2>8 DEF SupInv, InOrder, LatestComes
<1> QED BY <1>1, <1>2 DEF Client

LEMMA SupStep ==
    ASSUME SupInv, [Next]_vars
    PROVE  SupInv' /\ \A f \in Fields : config'[f] >= config[f]
<1>0. \A f \in Fields : config[f] \in Nat
  BY StateTypes DEF SupInv, NatVersions
<1>1. CASE UNCHANGED vars
  BY <1>0, <1>1 DEF vars, services, client, SupInv, TypeOK, InOrder, LatestComes
<1>2. CASE Next
  <2>1. CASE Client
    BY <2>1, ClientStep
  <2>2. CASE \E t \in Tasks : Ends(t) \/ Stops(t) \/ Reap(t)
    BY <1>0, <2>2, ServiceStep
  <2>3. CASE Exit
    BY <1>0, <2>3, ServiceStep, SupervisionConstants
  <2>4. CASE SendConfig \/ SendOther \/ Dies \/ \E f \in Fields : Change(f)
    BY <1>0, <2>4, NetworkStep
  <2> QED BY <1>2, <2>1, <2>2, <2>3, <2>4 DEF Next, RunApp
<1> QED BY <1>1, <1>2

\* The inductive invariant: what is on the wire is in order and complete.
THEOREM SupInvariant == Spec => []SupInv
<1>1. SupInv /\ [Next]_vars => SupInv'
  BY SupStep
<1> QED BY InitSup, <1>1, PTL DEF Spec

\* For any number of changes, messages under way and lost connections, the gateway
\* has applied the version that the control plane holds of every part of the
\* configuration, unless a message that brings it is still to be read or was lost.
THEOREM ConfigIsCurrent == Spec => []CurrentUnlessMissed
<1>1. SupInv => CurrentUnlessMissed
  <2> SUFFICES ASSUME SupInv, NEW f \in Fields \ (missed \cup TouchedBy(wire))
               PROVE  config[f] = held[f]
    BY DEF CurrentUnlessMissed
  <2>1. DOMAIN wire = 1..Len(wire)
    BY StateTypes, LenProperties DEF SupInv
  <2>2. \A i \in 1..Len(wire) : ~Brings(wire, i, f)
    BY <2>1 DEF TouchedBy, Brings
  <2> QED BY <2>2 DEF SupInv, LatestComes, Complete
<1> QED BY SupInvariant, <1>1, PTL

\* No step of the gateway, of the network or of the control plane takes a part of
\* the configuration back to an older version: a revoked key stays revoked.
THEOREM RevokedStaysRevoked == Spec => ConfigNeverGoesBack
<1>1. SupInv /\ [Next]_vars => [\A f \in Fields : config'[f] >= config[f]]_vars
  BY SupStep
<1> QED BY SupInvariant, <1>1, PTL DEF Spec, ConfigNeverGoesBack
=============================================================================
