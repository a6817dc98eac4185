---------------------------- MODULE MapperProofs ----------------------------
(***************************************************************************)
(* What the mapper does to an answer and to a request.                     *)
(*                                                                         *)
(* The gateway relays one answer of a provider as Relay promises, counts   *)
(* its errors once, times its first frame and gives the client the text    *)
(* that the provider sent, for all answers of any length and any number of *)
(* times the event source sends the request again.                         *)
(*                                                                         *)
(* A model's name, of any number of segments, that is parsed and printed   *)
(* is parsed to the same id again (RoundTrip); what a request is mapped to,*)
(* remembered as and says follows for all configurations and requests.     *)
(*                                                                         *)
(* FlattenSeq is defined by recursion.  That its recursion has a solution, *)
(* and what it computes, is shown from a least counterexample: the         *)
(* library's WFMin on the natural numbers.                                 *)
(***************************************************************************)
EXTENDS ResponseStream, RequestMapping, SequenceTheorems, WellFoundedInduction, TLAPS

-----------------------------------------------------------------------------
(* Sequences of sequences *)

\* A set of natural numbers has a least element.
LEMMA LeastNumber ==
    ASSUME NEW T, T \subseteq Nat, T # {}
    PROVE  \E n \in T : \A m \in T : n <= m
<1> DEFINE R == OpToRel(<, Nat)
<1>1. IsWellFoundedOn(R, Nat)
  BY NatLessThanWellFounded
<1>2. \A m, n \in Nat : m < n => <<m, n>> \in R
  BY DEF OpToRel
<1> HIDE DEF R
<1>3. PICK n \in T : \A m \in T : <<m, n>> \notin R
  BY <1>1, WFMin
<1>4. ASSUME NEW m \in T PROVE n <= m
  <2>1. m \in Nat /\ n \in Nat
    OBVIOUS
  <2>2. ~(m < n)
    BY <2>1, <1>2, <1>3
  <2> QED BY <2>1, <2>2
<1> QED BY <1>4

\* The table of FlattenSeq: what the first i sequences come to, up to k.
FlatTable(ss, k, f) ==
    f = [i \in 1..k |-> IF i = 1 THEN ss[i] ELSE f[i - 1] \o ss[i]]

\* FlattenSeq reads the last row of its table.
LEMMA FlattenIs ==
    ASSUME NEW ss, Len(ss) # 0
    PROVE  FlattenSeq(ss) = (CHOOSE f : FlatTable(ss, Len(ss), f))[Len(ss)]
  BY DEF FlattenSeq, FlatTable

\* A table can be made one row longer,
LEMMA FlatLonger ==
    ASSUME NEW ss, NEW k \in Nat, NEW g, FlatTable(ss, k, g)
    PROVE  \E f : FlatTable(ss, k + 1, f)
<1> DEFINE f == [i \in 1..(k + 1) |-> IF i = k + 1 THEN IF i = 1 THEN ss[i] ELSE g[k] \o ss[i]
                                      ELSE g[i]]
<1>1. ASSUME NEW i \in 1..(k + 1) PROVE f[i] = IF i = 1 THEN ss[i] ELSE f[i - 1] \o ss[i]
  <2>1. CASE i = k + 1
    <3>1. CASE i = 1
      BY <2>1, <3>1
    <3>2. CASE i # 1
      <4>1. i - 1 = k /\ k \in 1..(k + 1) /\ k # k + 1
        BY <2>1, <3>2
      <4>2. f[k] = g[k]
        BY <4>1
      <4>3. f[i] = g[k] \o ss[i]
        BY <2>1, <3>2
      <4> QED BY <3>2, <4>1, <4>2, <4>3
    <3> QED BY <3>1, <3>2
  <2>2. CASE i # k + 1
    <3>1. i \in 1..k
      BY <2>2
    <3>2. g[i] = IF i = 1 THEN ss[i] ELSE g[i - 1] \o ss[i]
      BY <3>1 DEF FlatTable
    <3>3. f[i] = g[i]
      BY <2>2
    <3>4. i # 1 => f[i - 1] = g[i - 1]
      BY <3>1
    <3> QED BY <3>2, <3>3, <3>4
  <2> QED BY <2>1, <2>2
<1>2. f = [i \in 1..(k + 1) |-> f[i]]
  OBVIOUS
<1> HIDE DEF f
<1>3. f = [i \in 1..(k + 1) |-> IF i = 1 THEN ss[i] ELSE f[i - 1] \o ss[i]]
  BY <1>1, <1>2
<1> QED BY <1>3 DEF FlatTable

\* so that there is one of any length.
LEMMA FlatExists ==
    ASSUME NEW ss, NEW n \in Nat
    PROVE  \E f : FlatTable(ss, n, f)
<1> DEFINE T == {k \in Nat : ~\E f : FlatTable(ss, k, f)}
<1> SUFFICES ASSUME T # {} PROVE FALSE
  OBVIOUS
<1>1. PICK k \in T : \A m \in T : k <= m
  BY LeastNumber
<1>2. k # 0
  <2>1. PICK f : f = [i \in {} |-> ss]
    OBVIOUS
  <2>2. 1..0 = {}
    OBVIOUS
  <2>3. f = [i \in 1..0 |-> IF i = 1 THEN ss[i] ELSE f[i - 1] \o ss[i]]
    BY <2>1, <2>2
  <2>4. FlatTable(ss, 0, f)
    BY <2>3 DEF FlatTable
  <2> QED BY <2>4
<1>3. k - 1 \in Nat /\ (k - 1) + 1 = k /\ ~(k <= k - 1)
  BY <1>2
<1>4. \E g : FlatTable(ss, k - 1, g)
  BY <1>1, <1>3
<1>5. \E f : FlatTable(ss, (k - 1) + 1, f)
  BY <1>3, <1>4, FlatLonger
<1> QED BY <1>3, <1>5

SameUpTo(f, g, n) == \A i \in 1..n : f[i] = g[i]

\* Two tables agree as far as their sequences do.
LEMMA FlatAgree ==
    ASSUME NEW ss, NEW tt, NEW m \in Nat, NEW n \in Nat, NEW f, NEW g, FlatTable(ss, m, f),
           FlatTable(tt, n, g), n <= m, SameUpTo(ss, tt, n)
    PROVE  SameUpTo(f, g, n)
<1> DEFINE T == {i \in 1..n : f[i] # g[i]}
<1> SUFFICES ASSUME T # {} PROVE FALSE
  BY DEF SameUpTo
<1>0. T \subseteq Nat
  OBVIOUS
<1>1. PICK i \in T : \A j \in T : i <= j
  <2> HIDE DEF T
  <2> QED BY <1>0, LeastNumber
<1>2. i \in 1..m /\ i \in 1..n
  OBVIOUS
<1>3. f[i] = IF i = 1 THEN ss[i] ELSE f[i - 1] \o ss[i]
  BY <1>2 DEF FlatTable
<1>4. g[i] = IF i = 1 THEN tt[i] ELSE g[i - 1] \o tt[i]
  BY <1>2 DEF FlatTable
<1>5. i # 1 => i - 1 \in 1..n /\ ~(i <= i - 1)
  BY <1>2
<1>6. i # 1 => f[i - 1] = g[i - 1]
  BY <1>1, <1>5
<1> QED BY <1>2, <1>3, <1>4, <1>6 DEF SameUpTo

\* The table that FlattenSeq chooses is one.
LEMMA FlattenTable ==
    ASSUME NEW ss, NEW n \in Nat \ {0}, Len(ss) = n
    PROVE  \E f : FlatTable(ss, n, f) /\ FlattenSeq(ss) = f[n]
<1>1. \E f : FlatTable(ss, n, f)
  BY FlatExists
<1>2. PICK f : f = CHOOSE h : FlatTable(ss, n, h)
  OBVIOUS
<1>3. FlatTable(ss, n, f)
  BY <1>1, <1>2
<1>4. FlattenSeq(ss) = f[n]
  BY <1>2, FlattenIs
<1> QED BY <1>3, <1>4

-----------------------------------------------------------------------------
\* Nothing, flattened.
LEMMA FlattenEmpty == FlattenSeq(<<>>) = <<>>
  BY DEF FlattenSeq

\* One sequence, flattened.
LEMMA FlattenOne ==
    ASSUME NEW ss, Len(ss) = 1
    PROVE  FlattenSeq(ss) = ss[1]
<1>1. PICK n : n = Len(ss)
  OBVIOUS
<1>2. n \in Nat \ {0} /\ n \in 1..n /\ n = 1
  BY <1>1
<1>3. PICK f : FlatTable(ss, n, f) /\ FlattenSeq(ss) = f[n]
  BY <1>1, <1>2, FlattenTable
<1>4. f[n] = ss[n]
  BY <1>2, <1>3 DEF FlatTable
<1> QED BY <1>2, <1>3, <1>4

\* What FlattenSeq joins is of the elements of the sequences.
LEMMA FlattenTyped ==
    ASSUME NEW S, NEW ss \in Seq(Seq(S))
    PROVE  FlattenSeq(ss) \in Seq(S)
<1>1. CASE Len(ss) = 0
  <2>1. ss = <<>> /\ <<>> \in Seq(S)
    BY <1>1
  <2> QED BY <2>1, FlattenEmpty
<1>2. CASE Len(ss) # 0
  <2>1. PICK n : n = Len(ss)
    OBVIOUS
  <2>2. n \in Nat \ {0}
    BY <1>2, <2>1
  <2>3. PICK f : FlatTable(ss, n, f) /\ FlattenSeq(ss) = f[n]
    BY <2>1, <2>2, FlattenTable
  <2> DEFINE T == {i \in 1..n : f[i] \notin Seq(S)}
  <2>4. T = {}
    <3> SUFFICES ASSUME T # {} PROVE FALSE
      OBVIOUS
    <3>0. T \subseteq Nat
      BY <2>2
    <3>1. PICK i \in T : \A j \in T : i <= j
      <4> HIDE DEF T
      <4> QED BY <3>0, LeastNumber
    <3>2. i \in 1..n /\ ss[i] \in Seq(S)
      BY <2>1, ElementOfSeq
    <3>3. f[i] = IF i = 1 THEN ss[i] ELSE f[i - 1] \o ss[i]
      BY <2>3, <3>2 DEF FlatTable
    <3>4. i # 1 => i - 1 \in 1..n /\ ~(i <= i - 1)
      BY <2>2, <3>2
    <3>5. i # 1 => f[i - 1] \in Seq(S)
      BY <3>1, <3>4
    <3> QED BY <3>2, <3>3, <3>5, ConcatProperties
  <2>5. n \in 1..n
    BY <2>2
  <2> QED BY <2>3, <2>4, <2>5
<1> QED BY <1>1, <1>2

\* One sequence more is appended to what the others come to.
LEMMA FlattenAppend ==
    ASSUME NEW S, NEW ss \in Seq(Seq(S)), NEW t \in Seq(S)
    PROVE  FlattenSeq(Append(ss, t)) = FlattenSeq(ss) \o t
<1>1. PICK tt, n : tt = Append(ss, t) /\ n = Len(ss)
  OBVIOUS
<1>2. n \in Nat /\ Len(tt) = n + 1 /\ tt[n + 1] = t /\ \A i \in 1..n : tt[i] = ss[i]
  BY <1>1
<1>3. CASE n = 0
  <2>0. ss = <<>>
    <3>1. Len(ss) = 0
      BY <1>1, <1>3
    <3> QED BY <3>1
  <2>1. FlattenSeq(ss) = <<>> /\ <<>> \o t = t
    BY <2>0, FlattenEmpty, ConcatEmptySeq
  <2>2. FlattenSeq(tt) = tt[1]
    BY <1>2, <1>3, FlattenOne
  <2> QED BY <1>1, <1>2, <1>3, <2>1, <2>2
<1>4. CASE n # 0
  <2>1. n \in Nat \ {0} /\ n + 1 \in Nat \ {0} /\ n <= n + 1 /\ n \in 1..n /\ n <= n
        /\ n + 1 \in 1..(n + 1) /\ (n + 1) - 1 = n /\ n + 1 # 1
    BY <1>2, <1>4
  <2>2. PICK f : FlatTable(ss, n, f) /\ FlattenSeq(ss) = f[n]
    BY <1>1, <2>1, FlattenTable
  <2>3. PICK g : FlatTable(tt, n + 1, g) /\ FlattenSeq(tt) = g[n + 1]
    BY <1>2, <2>1, FlattenTable
  <2>4. g[n + 1] = g[n] \o t
    <3>1. g[n + 1] = IF n + 1 = 1 THEN tt[n + 1] ELSE g[(n + 1) - 1] \o tt[n + 1]
      BY <2>1, <2>3 DEF FlatTable
    <3> QED BY <1>2, <2>1, <3>1
  <2>5. \A i \in 1..n : g[i] = f[i]
    <3>1. PICK m : m = n + 1
      OBVIOUS
    <3>2. m \in Nat /\ n <= m /\ FlatTable(tt, m, g)
      BY <2>1, <2>3, <3>1
    <3>3. SameUpTo(tt, ss, n)
      BY <1>2 DEF SameUpTo
    <3>4. FlatTable(ss, n, f) /\ n \in Nat
      BY <1>2, <2>2
    <3>5. SameUpTo(g, f, n)
      BY <3>2, <3>3, <3>4, FlatAgree
    <3> QED BY <3>5 DEF SameUpTo
  <2> QED BY <1>1, <2>1, <2>2, <2>3, <2>4, <2>5
<1> QED BY <1>3, <1>4

\* The first k of a sequence, and a function applied to each of a sequence.
FirstOf(s, k) == [i \in 1..k |-> s[i]]
Over(h, s) == [j \in DOMAIN s |-> h[s[j]]]

\* The one sequence has what the other makes of it: nothing for nothing, one for one.
Sift(a, b, h, S, U, n) ==
    /\ a \in [1..n -> Seq(S)] /\ b \in [1..n -> Seq(U)]
    /\ \A c \in S : h[c] \in Seq(U)
    /\ \A i \in 1..n :
        \/ a[i] = <<>> /\ b[i] = <<>>
        \/ \E c \in S : a[i] = <<c>> /\ b[i] = h[c]

\* The first k of a sequence are one more than the first k - 1.
LEMMA PrefixGrows ==
    ASSUME NEW S, NEW n \in Nat, NEW k \in 1..n, NEW s \in [1..n -> S]
    PROVE  /\ FirstOf(s, k - 1) \in Seq(S)
           /\ FirstOf(s, k) = Append(FirstOf(s, k - 1), s[k])
<1>1. PICK q : q = FirstOf(s, k - 1)
  OBVIOUS
<1>2. k - 1 \in Nat /\ \A i \in 1..(k - 1) : i \in 1..n
  OBVIOUS
<1>3. q \in [1..(k - 1) -> S]
  BY <1>1, <1>2 DEF FirstOf
<1>4. q \in Seq(S) /\ Len(q) = k - 1
  BY <1>2, <1>3
<1>5. PICK w : w = Append(q, s[k])
  OBVIOUS
<1>6. w \in Seq(S) /\ Len(w) = k /\ w[k] = s[k] /\ \A i \in 1..(k - 1) : w[i] = q[i]
  BY <1>4, <1>5
<1>7. \A i \in 1..k : w[i] = s[i]
  BY <1>1, <1>2, <1>6 DEF FirstOf
<1>8. w = [i \in 1..k |-> w[i]]
  BY <1>6
<1>9. w = FirstOf(s, k)
  BY <1>7, <1>8 DEF FirstOf
<1> QED BY <1>1, <1>4, <1>5, <1>9

\* What the function gives for each is what it gives for all.
LEMMA OverTyped ==
    ASSUME NEW S, NEW U, NEW h, NEW s \in Seq(S), \A x \in S : h[x] \in U
    PROVE  Over(h, s) \in Seq(U)
<1>1. PICK n, q : n = Len(s) /\ q = Over(h, s)
  OBVIOUS
<1>2. n \in Nat /\ DOMAIN s = 1..n /\ \A i \in 1..n : s[i] \in S
  BY <1>1
<1>3. q \in [1..n -> U]
  BY <1>1, <1>2 DEF Over
<1> QED BY <1>1, <1>2, <1>3

\* And for one more, one more.
LEMMA OverAppend ==
    ASSUME NEW S, NEW h, NEW s \in Seq(S), NEW c \in S
    PROVE  Over(h, Append(s, c)) = Append(Over(h, s), h[c])
<1>0. PICK U : U = {h[x] : x \in S}
  OBVIOUS
<1>1. PICK n, w, q : n = Len(s) /\ w = Append(s, c) /\ q = Over(h, s)
  OBVIOUS
<1>2. n \in Nat /\ DOMAIN s = 1..n /\ \A i \in 1..n : s[i] \in S
  BY <1>1
<1>3. q \in [1..n -> U] /\ \A i \in 1..n : q[i] = h[s[i]]
  BY <1>0, <1>1, <1>2 DEF Over
<1>4. q \in Seq(U) /\ Len(q) = n
  BY <1>2, <1>3
<1>5. w \in Seq(S) /\ DOMAIN w = 1..(n + 1) /\ w[n + 1] = c /\ \A i \in 1..n : w[i] = s[i]
  BY <1>1, <1>2
<1>6. PICK v : v = Append(q, h[c])
  OBVIOUS
<1>7. v \in Seq(U) /\ DOMAIN v = 1..(n + 1) /\ v[n + 1] = h[c] /\ \A i \in 1..n : v[i] = q[i]
  BY <1>0, <1>4, <1>6
<1>8. \A i \in 1..(n + 1) : v[i] = h[w[i]]
  BY <1>2, <1>3, <1>5, <1>7
<1>9. v = [i \in 1..(n + 1) |-> v[i]]
  BY <1>7
<1>10. v = Over(h, w)
  BY <1>5, <1>8, <1>9 DEF Over
<1> QED BY <1>1, <1>4, <1>6, <1>10

\* A sequence whose elements are dropped, or kept and then mapped, comes to what they
\* were mapped from, when nothing is lost with those that are dropped.
LEMMA Sifted ==
    ASSUME NEW S, NEW U, NEW n \in Nat, NEW a, NEW b, NEW h, Sift(a, b, h, S, U, n)
    PROVE  FlattenSeq(Over(h, FlattenSeq(a))) = FlattenSeq(b)
<1>0. a \in [1..n -> Seq(S)] /\ b \in [1..n -> Seq(U)] /\ \A c \in S : h[c] \in Seq(U)
  BY DEF Sift
<1> DEFINE Same(k) == FlattenSeq(Over(h, FlattenSeq(FirstOf(a, k)))) = FlattenSeq(FirstOf(b, k))
           T == {k \in 0..n : ~Same(k)}
<1>1. Same(0)
  <2>1. FirstOf(a, 0) = <<>> /\ FirstOf(b, 0) = <<>>
    BY DEF FirstOf
  <2>2. Over(h, <<>>) = <<>>
    BY DEF Over
  <2> QED BY <2>1, <2>2, FlattenEmpty
<1>2. ASSUME NEW k \in 1..n, Same(k - 1) PROVE Same(k)
  <2>1. PICK x, y : x = FirstOf(a, k - 1) /\ y = FirstOf(b, k - 1)
    OBVIOUS
  <2>2. x \in Seq(Seq(S)) /\ FirstOf(a, k) = Append(x, a[k])
    BY <1>0, <2>1, PrefixGrows
  <2>3. y \in Seq(Seq(U)) /\ FirstOf(b, k) = Append(y, b[k])
    BY <1>0, <2>1, PrefixGrows
  <2>4. a[k] \in Seq(S) /\ b[k] \in Seq(U)
    BY <1>0
  <2>5. FlattenSeq(FirstOf(a, k)) = FlattenSeq(x) \o a[k]
    BY <2>2, <2>4, FlattenAppend
  <2>6. FlattenSeq(FirstOf(b, k)) = FlattenSeq(y) \o b[k]
    BY <2>3, <2>4, FlattenAppend
  <2>7. FlattenSeq(x) \in Seq(S) /\ FlattenSeq(y) \in Seq(U)
    BY <2>2, <2>3, FlattenTyped
  <2>8. FlattenSeq(Over(h, FlattenSeq(x))) = FlattenSeq(y)
    BY <1>2, <2>1
  <2>9. CASE a[k] = <<>> /\ b[k] = <<>>
    <3>1. FlattenSeq(x) \o a[k] = FlattenSeq(x)
      BY <2>7, <2>9, ConcatEmptySeq
    <3>2. FlattenSeq(y) \o b[k] = FlattenSeq(y)
      BY <2>7, <2>9, ConcatEmptySeq
    <3> QED BY <2>5, <2>6, <2>8, <3>1, <3>2
  <2>10. ASSUME NEW c \in S, a[k] = <<c>>, b[k] = h[c] PROVE Same(k)
    <3>1. PICK f : f = FlattenSeq(x)
      OBVIOUS
    <3>2. f \in Seq(S) /\ f \o a[k] = Append(f, c)
      BY <2>7, <2>10, <3>1
    <3>3. PICK o : o = Over(h, f)
      OBVIOUS
    <3>4. o \in Seq(Seq(U)) /\ Over(h, Append(f, c)) = Append(o, h[c])
      <4>1. \A z \in S : h[z] \in Seq(U)
        BY <1>0
      <4>2. Over(h, f) \in Seq(Seq(U))
        BY <3>2, <4>1, OverTyped
      <4>3. Over(h, Append(f, c)) = Append(Over(h, f), h[c])
        BY <3>2, OverAppend
      <4> QED BY <3>3, <4>2, <4>3
    <3>5. h[c] \in Seq(U)
      BY <1>0
    <3>6. FlattenSeq(Append(o, h[c])) = FlattenSeq(o) \o h[c]
      BY <3>4, <3>5, FlattenAppend
    <3> QED BY <2>5, <2>6, <2>8, <2>10, <3>1, <3>2, <3>3, <3>4, <3>6
  <2> QED BY <2>9, <2>10 DEF Sift
<1>3. T = {}
  <2> HIDE DEF Same
  <2> SUFFICES ASSUME T # {} PROVE FALSE
    OBVIOUS
  <2>1. T \subseteq Nat
    OBVIOUS
  <2>2. PICK k \in T : \A j \in T : k <= j
    <3> HIDE DEF T
    <3> QED BY <2>1, LeastNumber
  <2>3. k \in 1..n
    BY <1>1
  <2>4. k - 1 \in 0..n /\ ~(k <= k - 1)
    BY <2>3
  <2>5. Same(k - 1)
    BY <2>2, <2>4
  <2> QED BY <1>2, <2>3, <2>5
<1>4. n \in 0..n
  OBVIOUS
<1>5. Same(n)
  <2> HIDE DEF Same
  <2> QED BY <1>3, <1>4
<1>6. FirstOf(a, n) = a /\ FirstOf(b, n) = b
  BY <1>0 DEF FirstOf
<1> QED BY <1>5, <1>6

-----------------------------------------------------------------------------
(* An answer *)

Items == Frames \cup {Failure}

StreamTypes ==
    /\ request \in [family : Families, streamed : BOOLEAN, observed : BOOLEAN, sidecar : BOOLEAN]
    /\ call \in {"wait", "answered", "refused", "gone"}
    /\ conn \in {"sending", "open", "closed"} /\ posts \in 1..MaxPosts
    /\ rest \in Seq(Parts) /\ heard \in Seq(Frames) /\ chan \in Seq(Items)
    /\ tee \in Seq(Frames) /\ logged \in Seq(Frames)
    /\ pump \in {"none", "run", "ended"}
    /\ body \in {"none", "open", "complete", "broken", "left"}
    /\ log \in LogSteps /\ tfft \in {"armed", "fired", "lost"} /\ recorded \in BOOLEAN
    /\ \E S : given \in Seq(S)

\* Where the parties stand: nothing is under way before the dispatcher answers; the
\* first connection of an answer was opened; only a stream has a pump, and its body
\* is complete only once the pump has ended.
Lives ==
    /\ call # "answered" =>
          /\ body = "none" /\ pump = "none" /\ log = "none" /\ posts = 1
          /\ heard = <<>> /\ chan = <<>> /\ tee = <<>> /\ logged = <<>>
    /\ call = "answered" => body # "none" /\ log # "none"
    /\ call = "answered" /\ posts = 1 => conn # "sending"
    /\ ~request.streamed => pump = "none" /\ posts = 1
    /\ request.streamed /\ body = "complete" => pump = "ended"

\* The log task: the signal while it collects and after, and what it stored.
Logs ==
    /\ log \in {"none", "collect"} => tfft # "lost" /\ (tfft = "armed" <=> logged = <<>>)
    /\ log \notin {"none", "collect"} =>
          /\ tfft = "fired" <=> logged # <<>>
          /\ tee = <<>> /\ body \notin {"none", "open"}
    /\ log \in {"none", "collect", "sign", "put"} => stored = <<>>

Counted == errors \in 0..1 /\ (errors = 1 => Outcome = "broken")

\* The frames t are the first of h.
Prefix(t, h) == Len(t) <= Len(h) /\ \A i \in 1..Len(t) : t[i] = h[i]

\* The channel c brings the rest of h, after t, and then, if the request was sent
\* again (p is how often it was sent), a failure: whatever comes after that one.
Queue(t, h, c, p) ==
    /\ Len(h) - Len(t) <= Len(c)
    /\ \A i \in 1..(Len(h) - Len(t)) : c[i] = h[Len(t) + i]
    /\ p = 1 => Len(c) = Len(h) - Len(t)
    /\ p # 1 => Len(h) - Len(t) < Len(c) /\ c[Len(h) - Len(t) + 1] = Failure

OnItsWay ==
    /\ Prefix(Taken, heard)
    /\ body = "open" => Queue(Taken, heard, chan, posts)
    /\ \A i \in 1..Len(heard) : heard[i].of = request.family

StreamInv == StreamTypes /\ Lives /\ Logs /\ Counted /\ OnItsWay

-----------------------------------------------------------------------------
\* Sequences of frames.

\* A frame is no error of the connection, and a failure is one.
LEMMA FrameIsNoError == (\A x \in Frames : ~IsError(x)) /\ IsError(Failure)
  BY DEF Frames, IsError, Failure

\* A part that is sent is a frame of the family asked.
LEMMA FrameType ==
    ASSUME StreamTypes, NEW e \in Parts
    PROVE  Frame(e) \in Frames /\ Frame(e).of = request.family /\ Frame(e) \in Items
  BY DEF StreamTypes, Frame, Frames, Items

\* The copies that were collected and those that were not, as one sequence
LEMMA Copies ==
    ASSUME NEW S, NEW s \in Seq(S), NEW t \in Seq(S)
    PROVE  /\ s \o t \in Seq(S) /\ Len(s \o t) = Len(s) + Len(t)
           /\ t # <<>> => Append(s, Head(t)) \o Tail(t) = s \o t
           /\ \A x \in S : s \o Append(t, x) = Append(s \o t, x)
<1>1. s \o t \in Seq(S) /\ Len(s \o t) = Len(s) + Len(t)
  BY ConcatProperties
<1>2. ASSUME t # <<>> PROVE Append(s, Head(t)) \o Tail(t) = s \o t
  <2>1. /\ Head(t) \in S /\ Tail(t) \in Seq(S) /\ <<Head(t)>> \in Seq(S)
    BY <1>2, HeadTailProperties
  <2>2. t = <<Head(t)>> \o Tail(t)
    <3>1. /\ Len(t) \in Nat \ {0} /\ Len(Tail(t)) = Len(t) - 1
          /\ \A i \in 1..(Len(t) - 1) : Tail(t)[i] = t[i + 1]
          /\ Head(t) = t[1]
      BY <1>2, HeadTailProperties, EmptySeq
    <3>2. /\ <<Head(t)>> \o Tail(t) \in Seq(S) /\ Len(<<Head(t)>> \o Tail(t)) = Len(t)
          /\ \A i \in 1..Len(t) : (<<Head(t)>> \o Tail(t))[i] =
                 IF i <= 1 THEN <<Head(t)>>[i] ELSE Tail(t)[i - 1]
      BY <2>1, <3>1, ConcatProperties
    <3>3. \A i \in 1..Len(t) : (<<Head(t)>> \o Tail(t))[i] = t[i]
      <4> SUFFICES ASSUME NEW i \in 1..Len(t) PROVE (<<Head(t)>> \o Tail(t))[i] = t[i]
        OBVIOUS
      <4>1. CASE i = 1
        BY <4>1, <3>1, <3>2
      <4>2. CASE i # 1
        <5>1. i - 1 \in 1..(Len(t) - 1) /\ (i - 1) + 1 = i /\ ~(i <= 1)
          BY <4>2, <3>1
        <5>2. Tail(t)[i - 1] = t[(i - 1) + 1]
          BY <5>1, <3>1
        <5> QED BY <5>1, <5>2, <3>2
      <4> QED BY <4>1, <4>2
    <3> QED BY <3>2, <3>3, SeqEqual
  <2>3. Append(s, Head(t)) = s \o <<Head(t)>>
    BY <2>1, AppendIsConcat
  <2>4. (s \o <<Head(t)>>) \o Tail(t) = s \o (<<Head(t)>> \o Tail(t))
    BY <2>1, ConcatAssociative
  <2> QED BY <2>2, <2>3, <2>4
<1>3. ASSUME NEW x \in S PROVE s \o Append(t, x) = Append(s \o t, x)
  <2>1. Append(t, x) = t \o <<x>> /\ Append(s \o t, x) = (s \o t) \o <<x>> /\ <<x>> \in Seq(S)
    BY <1>1, AppendIsConcat
  <2> QED BY <2>1, ConcatAssociative
<1> QED BY <1>1, <1>2, <1>3

-----------------------------------------------------------------------------
\* The path of the frames: the provider speaks, the channel is read.

\* A frame of the first answer is read into the channel.
LEMMA ReadFrame ==
    ASSUME NEW t \in Seq(Frames), NEW h \in Seq(Frames), NEW c \in Seq(Items), NEW x \in Frames,
           Prefix(t, h)
    PROVE  /\ Prefix(t, Append(h, x))
           /\ Queue(t, h, c, 1) => Queue(t, Append(h, x), Append(c, x), 1)
<1>1. Len(t) \in Nat /\ Len(h) \in Nat /\ Len(c) \in Nat /\ x \in Items
  BY LenProperties DEF Items
<1>2. /\ Len(Append(h, x)) = Len(h) + 1 /\ Append(h, x)[Len(h) + 1] = x
      /\ \A i \in 1..Len(h) : Append(h, x)[i] = h[i]
  BY AppendProperties
<1>3. /\ Len(Append(c, x)) = Len(c) + 1 /\ Append(c, x)[Len(c) + 1] = x
      /\ \A i \in 1..Len(c) : Append(c, x)[i] = c[i]
  BY <1>1, AppendProperties
<1>4. Prefix(t, Append(h, x))
  BY <1>1, <1>2 DEF Prefix
<1>5. ASSUME Queue(t, h, c, 1) PROVE Queue(t, Append(h, x), Append(c, x), 1)
  <2>1. Len(c) = Len(h) - Len(t) /\ \A i \in 1..Len(c) : c[i] = h[Len(t) + i]
    BY <1>5 DEF Queue
  <2>2. ASSUME NEW i \in 1..(Len(c) + 1) PROVE Append(c, x)[i] = Append(h, x)[Len(t) + i]
    <3>1. CASE i = Len(c) + 1
      <4>1. Len(t) + i = Len(h) + 1
        BY <3>1, <2>1, <1>1
      <4> QED BY <3>1, <4>1, <1>2, <1>3
    <3>2. CASE i # Len(c) + 1
      <4>1. i \in 1..Len(c) /\ Len(t) + i \in 1..Len(h)
        BY <3>2, <2>1, <1>1
      <4> QED BY <4>1, <2>1, <1>2, <1>3
    <3> QED BY <3>1, <3>2
  <2>3. Len(h) + 1 - Len(t) = Len(c) + 1
    BY <2>1, <1>1
  <2> QED BY <2>2, <2>3, <1>1, <1>2, <1>3 DEF Queue
<1> QED BY <1>4, <1>5

\* A failure follows the first answer, and anything may follow the failure.
LEMMA ReadMore ==
    ASSUME NEW t \in Seq(Frames), NEW h \in Seq(Frames), NEW c \in Seq(Items), NEW x \in Items,
           NEW p \in Nat, NEW q \in Nat, q # 1, p = 1 => x = Failure, Prefix(t, h), Queue(t, h, c, p)
    PROVE  Queue(t, h, Append(c, x), q)
<1>1. Len(t) \in Nat /\ Len(h) \in Nat /\ Len(c) \in Nat /\ Len(h) - Len(t) \in Nat
  BY LenProperties DEF Prefix
<1>2. /\ Len(Append(c, x)) = Len(c) + 1 /\ Append(c, x)[Len(c) + 1] = x
      /\ \A i \in 1..Len(c) : Append(c, x)[i] = c[i]
  BY AppendProperties
<1> DEFINE n == Len(h) - Len(t)
<1>3. n <= Len(c) /\ \A i \in 1..n : c[i] = h[Len(t) + i]
  BY DEF Queue
<1>4. \A i \in 1..n : Append(c, x)[i] = h[Len(t) + i]
  BY <1>1, <1>2, <1>3
<1>5. Append(c, x)[n + 1] = Failure
  <2>1. CASE p = 1
    <3>1. n = Len(c)
      BY <2>1 DEF Queue
    <3> QED BY <2>1, <3>1, <1>2
  <2>2. CASE p # 1
    <3>1. n < Len(c) /\ c[n + 1] = Failure
      BY <2>2 DEF Queue
    <3>2. n + 1 \in 1..Len(c)
      BY <3>1, <1>1
    <3> QED BY <3>1, <3>2, <1>2
  <2> QED BY <2>1, <2>2
<1> QED BY <1>1, <1>2, <1>3, <1>4, <1>5 DEF Queue

\* What the channel brings next is the next frame of the first answer, or a failure
\* after all of it was taken.
LEMMA NextInChannel ==
    ASSUME NEW t \in Seq(Frames), NEW h \in Seq(Frames), NEW c \in Seq(Items), NEW p \in Nat,
           Prefix(t, h), Queue(t, h, c, p), c # <<>>
    PROVE  \/ /\ Len(t) < Len(h) /\ Head(c) = h[Len(t) + 1] /\ Head(c) \in Frames
              /\ Prefix(Append(t, Head(c)), h)
              /\ Queue(Append(t, Head(c)), h, Tail(c), p)
           \/ Len(t) = Len(h) /\ Head(c) = Failure /\ p # 1
<1>1. Len(t) \in Nat /\ Len(h) \in Nat /\ Len(c) \in Nat \ {0} /\ Len(h) - Len(t) \in Nat
  BY LenProperties, EmptySeq DEF Prefix
<1>2. Head(c) = c[1]
  BY <1>1
<1> DEFINE n == Len(h) - Len(t)
<1>3. CASE n = 0
  <2>1. p # 1
    BY <1>3, <1>1 DEF Queue
  <2>2. c[n + 1] = Failure
    BY <2>1 DEF Queue
  <2> QED BY <1>1, <1>2, <1>3, <2>1, <2>2
<1>4. CASE n # 0
  <2>1. Len(t) < Len(h) /\ 1 \in 1..n /\ Len(t) + 1 \in 1..Len(h)
    BY <1>1, <1>4
  <2>2. Head(c) = h[Len(t) + 1]
    BY <1>2, <2>1 DEF Queue
  <2>3. Head(c) \in Frames
    BY <2>1, <2>2, ElementOfSeq
  <2> DEFINE u == Append(t, Head(c))
  <2>4. /\ Len(u) = Len(t) + 1 /\ u[Len(t) + 1] = Head(c) /\ \A i \in 1..Len(t) : u[i] = t[i]
    BY <2>3, AppendProperties
  <2>5. Prefix(u, h)
    <3>1. \A i \in 1..(Len(t) + 1) : i = Len(t) + 1 \/ i \in 1..Len(t)
      BY <1>1
    <3> QED BY <3>1, <1>1, <2>1, <2>2, <2>4 DEF Prefix
  <2>6. Len(Tail(c)) = Len(c) - 1 /\ \A i \in 1..(Len(c) - 1) : Tail(c)[i] = c[i + 1]
    BY HeadTailProperties
  <2>7. Len(h) - Len(u) = n - 1 /\ n <= Len(c)
    BY <2>4, <1>1 DEF Queue
  <2> HIDE DEF u
  <2>8. ASSUME NEW i \in 1..(n - 1) PROVE Tail(c)[i] = h[Len(u) + i]
    <3>1. i + 1 \in 1..n /\ i \in 1..(Len(c) - 1) /\ Len(u) + i = Len(t) + (i + 1)
      BY <1>1, <2>4, <2>7
    <3>2. Tail(c)[i] = c[i + 1]
      BY <3>1, <2>6
    <3>3. c[i + 1] = h[Len(t) + (i + 1)]
      BY <3>1 DEF Queue
    <3> QED BY <3>1, <3>2, <3>3
  <2>9. ASSUME p = 1 PROVE Len(Tail(c)) = n - 1
    BY <2>9, <2>6, <1>1 DEF Queue
  <2>10. ASSUME p # 1 PROVE n - 1 < Len(Tail(c)) /\ Tail(c)[(n - 1) + 1] = Failure
    <3>1. n < Len(c) /\ c[n + 1] = Failure
      BY <2>10 DEF Queue
    <3>2. n \in 1..(Len(c) - 1) /\ (n - 1) + 1 = n
      BY <3>1, <1>1, <1>4
    <3> QED BY <3>1, <3>2, <2>6, <1>1
  <2>11. Queue(u, h, Tail(c), p)
    <3>1. n - 1 <= Len(Tail(c))
      BY <2>6, <2>7, <1>1
    <3> QED BY <3>1, <2>7, <2>8, <2>9, <2>10 DEF Queue
  <2> QED BY <2>1, <2>2, <2>3, <2>5, <2>11 DEF u
<1> QED BY <1>3, <1>4

-----------------------------------------------------------------------------
\* Initially, and when nothing happens.

\* Nothing at all is typed, ordered and waiting.
LEMMA NothingTaken ==
    /\ <<>> \in Seq(Frames) /\ <<>> \in Seq(Items) /\ <<>> \in Seq(Parts)
    /\ <<>> \o <<>> = <<>> /\ Len(<<>>) = 0
    /\ Prefix(<<>>, <<>>) /\ Queue(<<>>, <<>>, <<>>, 1)
<1>1. /\ <<>> \in Seq(Frames) /\ <<>> \in Seq(Items) /\ <<>> \in Seq(Parts) /\ Len(<<>>) = 0
  BY EmptySeq
<1>2. <<>> \o <<>> = <<>>
  BY <1>1, ConcatEmptySeq
<1> QED BY <1>1, <1>2 DEF Prefix, Queue

\* The invariant holds of a request that was just made.
LEMMA StreamInit == Init => StreamInv
<1> SUFFICES ASSUME Init PROVE StreamInv
  OBVIOUS
<1>1. StreamTypes
  <2>1. \E S : given \in Seq(S)
    BY EmptySeq DEF Init
  <2>2. recorded \in BOOLEAN
    BY Zenon DEF Init
  <2>3. request \in [family : Families, streamed : BOOLEAN, observed : BOOLEAN, sidecar : BOOLEAN]
    BY Zenon DEF Init
  <2>4. posts \in 1..MaxPosts
    BY StreamConstants DEF Init
  <2> QED BY <2>1, <2>2, <2>3, <2>4, NothingTaken DEF Init, StreamTypes, LogSteps
<1>2. Lives /\ Logs /\ Counted
  BY DEF Init, Lives, Logs, Counted, Outcome
<1>3. OnItsWay
  BY NothingTaken DEF Init, OnItsWay, Taken
<1> QED BY <1>1, <1>2, <1>3 DEF StreamInv

\* It is kept when nothing happens.
LEMMA StreamStutter == ASSUME StreamInv, UNCHANGED vars PROVE StreamInv'
<1>1. StreamTypes'
  BY DEF StreamInv, StreamTypes, vars, source, client, logger
<1>2. Lives' /\ Logs' /\ Counted'
  BY DEF StreamInv, Lives, Logs, Counted, Outcome, vars, source, client, logger
<1>3. OnItsWay'
  BY DEF StreamInv, OnItsWay, Taken, vars, source, client, logger
<1> QED BY <1>1, <1>2, <1>3 DEF StreamInv

-----------------------------------------------------------------------------
\* The event source.

\* What the event source may do is typed.
LEMMA SourceTypes ==
    ASSUME StreamTypes, \/ Opens \/ Speaks \/ Drops \/ Refuses \/ UNCHANGED source
    PROVE  /\ conn' \in {"sending", "open", "closed"} /\ posts' \in 1..MaxPosts
           /\ rest' \in Seq(Parts) /\ heard' \in Seq(Frames)
           /\ Speaks => Head(rest) \in Parts
<1>1. CASE Opens
  BY <1>1, StreamConstants DEF Opens, StreamTypes, Speaks
<1>2. CASE Speaks
  <2>1. Head(rest) \in Parts /\ Tail(rest) \in Seq(Parts)
    BY <1>2, HeadTailProperties DEF Speaks, StreamTypes
  <2>2. Append(heard, Frame(Head(rest))) \in Seq(Frames)
    BY <2>1, FrameType, AppendProperties DEF StreamTypes
  <2> QED BY <1>2, <2>1, <2>2 DEF Speaks, StreamTypes
<1>3. CASE Drops
  BY <1>3, NothingTaken, StreamConstants DEF Drops, StreamTypes, Speaks
<1>4. CASE Refuses
  BY <1>4 DEF Refuses, StreamTypes, Speaks
<1>5. CASE UNCHANGED source
  <2>1. Speaks => Head(rest) \in Parts
    BY HeadTailProperties DEF Speaks, StreamTypes
  <2> QED BY <1>5, <2>1 DEF source, StreamTypes
<1> QED BY <1>1, <1>2, <1>3, <1>4, <1>5

-----------------------------------------------------------------------------
\* The dispatcher, and a client that leaves.

\* It is kept when the dispatcher answers or fails.
LEMMA DispatchStep == ASSUME StreamInv, Dispatch PROVE StreamInv'
<1>1. call = "wait" /\ request.streamed \in BOOLEAN
  BY DEF Dispatch, FirstEvent, FirstError, SyncResponds, SyncFails, StreamInv, StreamTypes
<1>2. /\ body = "none" /\ pump = "none" /\ log = "none" /\ posts = 1 /\ errors \in 0..1 /\ errors # 1
      /\ heard = <<>> /\ chan = <<>> /\ tee = <<>> /\ logged = <<>>
  BY <1>1 DEF StreamInv, Lives, Counted, Outcome
<1>3. /\ UNCHANGED <<request, posts, heard, chan, tee, logged, tfft, stored, recorded, given>>
      /\ \/ Opens \/ Refuses \/ UNCHANGED source
  BY DEF Dispatch, FirstEvent, FirstError, SyncResponds, SyncFails, Responds, Opens, Refuses,
         source, client, logger
<1>4. \/ /\ call' = "answered" /\ body' = "open" /\ log' = "collect" /\ conn' = "open" /\ errors' = errors
         /\ pump' = IF request.streamed THEN "run" ELSE "none"
      \/ call' = "refused" /\ errors' \in {errors, errors + 1} /\ UNCHANGED <<body, pump, log>>
  BY <1>1, <1>2 DEF Dispatch, FirstEvent, FirstError, SyncResponds, SyncFails, Responds, Opens, logger
<1>5. StreamTypes'
  <2>1. /\ conn' \in {"sending", "open", "closed"} /\ posts' \in 1..MaxPosts
        /\ rest' \in Seq(Parts) /\ heard' \in Seq(Frames)
    BY <1>3, SourceTypes DEF StreamInv
  <2> QED BY <1>2, <1>3, <1>4, <2>1 DEF StreamInv, StreamTypes, LogSteps
<1>6. Lives'
  BY <1>1, <1>2, <1>3, <1>4 DEF StreamInv, Lives
<1>7. Logs'
  BY <1>2, <1>3, <1>4 DEF StreamInv, Logs
<1>8. Counted'
  BY <1>2, <1>4 DEF Counted, Outcome
<1>9. OnItsWay'
  BY <1>2, <1>3, NothingTaken DEF OnItsWay, Taken
<1> QED BY <1>5, <1>6, <1>7, <1>8, <1>9 DEF StreamInv

\* It is kept when the client leaves.
LEMMA LeaveStep == ASSUME StreamInv, Leave PROVE StreamInv'
<1>1. /\ UNCHANGED <<request, conn, posts, rest, heard, pump, chan, given, errors, tee, log, logged,
                     tfft, stored, recorded>>
      /\ \/ call = "wait" /\ call' = "gone" /\ body' = body
         \/ body = "open" /\ body' = "left" /\ call' = call
  BY DEF Leave, source, logger
<1>2. StreamTypes'
  BY <1>1 DEF StreamInv, StreamTypes
<1>3. Lives'
  BY <1>1 DEF StreamInv, Lives
<1>4. Logs'
  BY <1>1 DEF StreamInv, Logs
<1>5. Counted'
  BY <1>1 DEF StreamInv, StreamTypes, Lives, Counted, Outcome
<1>6. OnItsWay'
  BY <1>1 DEF StreamInv, StreamTypes, Lives, OnItsWay, Taken
<1> QED BY <1>2, <1>3, <1>4, <1>5, <1>6 DEF StreamInv

-----------------------------------------------------------------------------
\* The pump.

\* It is kept when the pump takes a frame, an error or the end.
LEMMA PumpStep == ASSUME StreamInv, Pump PROVE StreamInv'
<1>1. /\ pump = "run" /\ pump' \in {"run", "ended"}
      /\ UNCHANGED <<request, call, body, given, errors, tee, log, logged, tfft, stored, recorded>>
      /\ Opens \/ Speaks \/ Drops \/ Refuses \/ UNCHANGED source
  BY DEF Pump, PumpOpen, PumpMessage, PumpStops, PumpError, PumpRefused, PumpNone, Stops,
         client, logger
<1>2. call = "answered" /\ request.streamed /\ body \notin {"none", "complete"} /\ log # "none"
  <2>1. request.streamed \in BOOLEAN
    BY DEF StreamInv, StreamTypes
  <2> QED BY <1>1, <2>1 DEF StreamInv, Lives
<1>3. /\ conn' \in {"sending", "open", "closed"} /\ posts' \in 1..MaxPosts
      /\ rest' \in Seq(Parts) /\ heard' \in Seq(Frames)
      /\ Speaks => Head(rest) \in Parts
  BY <1>1, SourceTypes DEF StreamInv
<1>4. posts \in Nat \ {0} /\ chan \in Seq(Items) /\ heard \in Seq(Frames) /\ Taken \in Seq(Frames)
  BY Copies DEF StreamInv, StreamTypes, Taken
<1>5. Prefix(Taken, heard) /\ (body = "open" => Queue(Taken, heard, chan, posts))
  BY DEF StreamInv, OnItsWay
\* What becomes of the channel
<1>6. /\ chan' \in Seq(Items) /\ Prefix(Taken, heard')
      /\ body = "open" => Queue(Taken, heard', chan', posts')
      /\ \A i \in 1..Len(heard') : heard'[i].of = request.family
      /\ posts' = 1 => posts = 1 /\ (conn # "sending" => conn' # "sending")
  <2>0. \A i \in 1..Len(heard) : heard[i].of = request.family
    BY DEF StreamInv, OnItsWay
  <2>1. CASE PumpMessage
    <3> DEFINE x == Frame(Head(rest))
    <3>1. x \in Frames /\ x \in Items /\ x.of = request.family
      BY <2>1, <1>3, FrameType DEF StreamInv, PumpMessage
    <3>2. /\ posts' = posts /\ conn' = conn
          /\ heard' = IF posts = 1 THEN Append(heard, x) ELSE heard
          /\ chan' = IF body = "open" THEN Append(chan, x) ELSE chan
      BY <2>1 DEF PumpMessage, Speaks, Listening
    <3> HIDE DEF x
    <3>3. chan' \in Seq(Items)
      BY <1>4, <3>1, <3>2, AppendProperties
    <3>4. CASE posts = 1
      <4>1. /\ Len(Append(heard, x)) = Len(heard) + 1 /\ Append(heard, x)[Len(heard) + 1] = x
            /\ \A i \in 1..Len(heard) : Append(heard, x)[i] = heard[i] /\ Len(heard) \in Nat
        BY <1>4, <3>1, AppendProperties, LenProperties
      <4>2. \A i \in 1..Len(heard') : heard'[i].of = request.family
        <5>1. \A i \in 1..(Len(heard) + 1) : i = Len(heard) + 1 \/ i \in 1..Len(heard)
          BY <1>4, LenProperties
        <5> QED BY <5>1, <2>0, <3>1, <3>2, <3>4, <4>1
      <4> QED BY <1>4, <1>5, <3>1, <3>2, <3>3, <3>4, <4>2, ReadFrame
    <3>5. CASE posts # 1
      BY <1>4, <1>5, <2>0, <3>1, <3>2, <3>3, <3>5, ReadMore
    <3> QED BY <3>4, <3>5
  <2>2. CASE PumpError
    <3>1. /\ posts' = posts + 1 /\ heard' = heard
          /\ chan' = IF body = "open" THEN Append(chan, Failure) ELSE chan
      BY <2>2 DEF PumpError, Drops, Listening
    <3>2. Failure \in Items /\ posts' # 1 /\ posts' \in Nat
      BY <1>4, <3>1 DEF Items
    <3> QED BY <1>4, <1>5, <2>0, <3>1, <3>2, ReadMore, AppendProperties
  <2>3. CASE PumpRefused
    <3>1. /\ posts' = posts /\ heard' = heard /\ conn = "sending" /\ conn' = "closed"
          /\ chan' = chan \/ (\E x \in {ErrorBody, Failure} :
                                 chan' = IF body = "open" THEN Append(chan, x) ELSE chan)
      BY <2>3 DEF PumpRefused, Refuses, Listening
    <3>2. posts # 1
      BY <1>2, <3>1 DEF StreamInv, Lives
    <3>3. ErrorBody \in Items /\ Failure \in Items
      BY DEF ErrorBody, Items, Frames, StreamInv, StreamTypes
    <3>4. CASE chan' = chan
      BY <1>4, <1>5, <2>0, <3>1, <3>2, <3>4
    <3>5. ASSUME NEW x \in {ErrorBody, Failure}, chan' = IF body = "open" THEN Append(chan, x) ELSE chan
          PROVE  chan' \in Seq(Items) /\ (body = "open" => Queue(Taken, heard, chan', posts))
      BY <1>4, <1>5, <3>2, <3>3, <3>5, ReadMore, AppendProperties
    <3> QED BY <1>5, <2>0, <3>1, <3>2, <3>4, <3>5
  <2>4. CASE PumpOpen \/ PumpStops \/ PumpNone
    <3>1. UNCHANGED <<posts, heard, chan>> /\ (conn' = conn \/ conn' = "open")
      BY <2>4 DEF PumpOpen, PumpStops, PumpNone, Opens, Stops, source
    <3> QED BY <1>4, <1>5, <2>0, <3>1
  <2> QED BY <2>1, <2>2, <2>3, <2>4 DEF Pump
<1>7. StreamTypes'
  BY <1>1, <1>3, <1>6 DEF StreamInv, StreamTypes
<1>8. Lives'
  BY <1>1, <1>2, <1>6 DEF StreamInv, Lives
<1>9. Logs' /\ Counted'
  BY <1>1 DEF StreamInv, Logs, Counted, Outcome
<1>10. OnItsWay'
  BY <1>1, <1>6 DEF OnItsWay, Taken
<1> QED BY <1>7, <1>8, <1>9, <1>10 DEF StreamInv

-----------------------------------------------------------------------------
\* The client's body.

\* What holds while the body is open
LEMMA OpenBody ==
    ASSUME StreamInv, body = "open"
    PROVE  /\ call = "answered" /\ log = "collect" /\ errors = 0 /\ Outcome = "open"
           /\ Prefix(Taken, heard) /\ Queue(Taken, heard, chan, posts)
           /\ Taken \in Seq(Frames) /\ heard \in Seq(Frames) /\ chan \in Seq(Items)
           /\ posts \in Nat /\ Len(Taken) \in Nat /\ Len(heard) \in Nat
<1>1. call = "answered"
  BY DEF StreamInv, StreamTypes, Lives
<1>2. log = "collect" /\ errors = 0 /\ Outcome = "open"
  BY <1>1 DEF StreamInv, StreamTypes, Lives, Logs, Counted, Outcome
<1>3. Taken \in Seq(Frames) /\ heard \in Seq(Frames)
  BY Copies DEF StreamInv, StreamTypes, Taken
<1> QED BY <1>1, <1>2, <1>3, LenProperties DEF StreamInv, StreamTypes, OnItsWay

\* A frame is taken from the channel: the next of the first answer.
LEMMA TakeFrame ==
    ASSUME StreamInv, body = "open", chan # <<>>, ~IsError(Head(chan)),
           tee' = Append(tee, Head(chan)), logged' = logged
    PROVE  /\ Head(chan) \in Frames /\ tee' \in Seq(Frames) /\ Tail(chan) \in Seq(Items)
           /\ Taken' = Append(Taken, Head(chan)) /\ Len(Taken') = Len(Taken) + 1
           /\ Len(Taken) < Len(heard) /\ Head(chan) = heard[Len(Taken) + 1]
           /\ Prefix(Taken', heard) /\ Queue(Taken', heard, Tail(chan), posts)
<1>1. Head(chan) # Failure
  BY FrameIsNoError
<1>2. /\ Len(Taken) < Len(heard) /\ Head(chan) = heard[Len(Taken) + 1] /\ Head(chan) \in Frames
      /\ Prefix(Append(Taken, Head(chan)), heard)
      /\ Queue(Append(Taken, Head(chan)), heard, Tail(chan), posts)
  BY <1>1, OpenBody, NextInChannel
<1>3. Taken' = Append(Taken, Head(chan))
  BY <1>2, Copies DEF Taken, StreamInv, StreamTypes
<1>4. Len(Taken') = Len(Taken) + 1
  BY <1>2, <1>3, OpenBody, AppendProperties
<1>5. tee' \in Seq(Frames) /\ Tail(chan) \in Seq(Items)
  BY <1>2, AppendProperties, HeadTailProperties DEF StreamInv, StreamTypes
<1> QED BY <1>2, <1>3, <1>4, <1>5

\* It is kept when the client takes a frame.
LEMMA PullFrameStep == ASSUME StreamInv, PullFrame PROVE StreamInv'
<1>1. /\ body = "open" /\ request.streamed /\ chan # <<>> /\ ~IsError(Head(chan))
      /\ tee' = Append(tee, Head(chan)) /\ chan' = Tail(chan) /\ body' \in {"open", "broken"}
      /\ UNCHANGED <<request, conn, posts, rest, heard, pump, call, errors, log, logged, tfft,
                     stored, recorded>>
      /\ \/ given' = given
         \/ \E c : given' = Append(given, c)
  BY DEF PullFrame, Relayed, source, logger
<1>2. /\ tee' \in Seq(Frames) /\ Tail(chan) \in Seq(Items)
      /\ Prefix(Taken', heard) /\ Queue(Taken', heard, Tail(chan), posts)
  BY <1>1, TakeFrame
<1>3. /\ call = "answered" /\ log = "collect" /\ errors = 0
  BY <1>1, OpenBody
<1>4. \E S : given' \in Seq(S)
  <2>1. PICK S : given \in Seq(S)
    BY DEF StreamInv, StreamTypes
  <2>2. CASE given' = given
    BY <2>1, <2>2
  <2>3. ASSUME NEW c, given' = Append(given, c) PROVE given' \in Seq(S \cup {c})
    <3>1. given \in Seq(S \cup {c})
      BY <2>1, SeqMonotonic
    <3> QED BY <2>3, <3>1, AppendProperties
  <2> QED BY <1>1, <2>2, <2>3
<1>5. StreamTypes'
  BY <1>1, <1>2, <1>4 DEF StreamInv, StreamTypes
<1>6. Lives' /\ Logs' /\ Counted'
  BY <1>1, <1>3 DEF StreamInv, Lives, Logs, Counted, Outcome
<1>7. OnItsWay'
  BY <1>1, <1>2 DEF StreamInv, OnItsWay
<1> QED BY <1>5, <1>6, <1>7 DEF StreamInv

\* It is kept when a part of a whole body is collected.
LEMMA CollectStep == ASSUME StreamInv, Collect PROVE StreamInv'
<1>1. /\ body = "open" /\ ~request.streamed /\ chan # <<>>
      /\ tee' = Append(tee, Head(chan)) /\ chan' = Tail(chan)
      /\ UNCHANGED <<request, conn, posts, rest, heard, pump, call, body, given, errors, log, logged,
                     tfft, stored, recorded>>
  BY DEF Collect, source, client, logger
<1>2. posts = 1
  BY <1>1 DEF StreamInv, Lives
<1>3. ~IsError(Head(chan))
  BY <1>1, <1>2, OpenBody, NextInChannel, FrameIsNoError
<1>4. /\ tee' \in Seq(Frames) /\ Tail(chan) \in Seq(Items)
      /\ Prefix(Taken', heard) /\ Queue(Taken', heard, Tail(chan), posts)
  BY <1>1, <1>3, TakeFrame
<1>5. call = "answered" /\ log = "collect"
  BY <1>1, OpenBody
<1>6. StreamTypes'
  BY <1>1, <1>4 DEF StreamInv, StreamTypes
<1>7. Lives' /\ Logs' /\ Counted'
  BY <1>1, <1>5 DEF StreamInv, Lives, Logs, Counted, Outcome
<1>8. OnItsWay'
  BY <1>1, <1>4 DEF StreamInv, OnItsWay
<1> QED BY <1>6, <1>7, <1>8 DEF StreamInv

\* It is kept when the parts of a whole body arrive.
LEMMA ArrivesStep == ASSUME StreamInv, Arrives PROVE StreamInv'
<1> DEFINE x == Frame(Head(rest))
<1>1. /\ body = "open" /\ ~request.streamed /\ Speaks /\ chan' = Append(chan, x)
      /\ conn' = conn /\ posts' = posts /\ heard' = IF posts = 1 THEN Append(heard, x) ELSE heard
      /\ UNCHANGED <<request, pump, call, body, given, errors, tee, log, logged, tfft, stored, recorded>>
  BY DEF Arrives, Speaks, client, logger
<1>2. posts = 1 /\ call = "answered"
  BY <1>1, OpenBody DEF StreamInv, Lives
<1>3. rest' \in Seq(Parts) /\ heard' \in Seq(Frames) /\ Head(rest) \in Parts
  BY <1>1, SourceTypes DEF StreamInv
<1>4. x \in Frames /\ x \in Items /\ x.of = request.family
  BY <1>3, FrameType DEF StreamInv
<1> HIDE DEF x
<1>5. chan' \in Seq(Items)
  BY <1>1, <1>4, OpenBody, AppendProperties
<1>6. Prefix(Taken, heard') /\ Queue(Taken, heard', chan', posts)
  BY <1>1, <1>2, <1>4, OpenBody, ReadFrame
<1>7. \A i \in 1..Len(heard') : heard'[i].of = request.family
  <2>1. /\ Len(heard') = Len(heard) + 1 /\ heard'[Len(heard) + 1] = x
        /\ \A i \in 1..Len(heard) : heard'[i] = heard[i]
    BY <1>1, <1>2, <1>4, OpenBody, AppendProperties
  <2>2. \A i \in 1..(Len(heard) + 1) : i = Len(heard) + 1 \/ i \in 1..Len(heard)
    BY <1>1, OpenBody
  <2> QED BY <2>1, <2>2, <1>4 DEF StreamInv, OnItsWay
<1>8. StreamTypes'
  BY <1>1, <1>3, <1>5 DEF StreamInv, StreamTypes
<1>9. Lives' /\ Logs' /\ Counted'
  BY <1>1, <1>2 DEF StreamInv, Lives, Logs, Counted, Outcome
<1>10. OnItsWay'
  BY <1>1, <1>6, <1>7 DEF OnItsWay, Taken
<1> QED BY <1>8, <1>9, <1>10 DEF StreamInv

\* The body ends, one way or another.
LEMMA EndStep ==
    ASSUME StreamInv, PullError \/ PullEnd \/ Collected \/ CollectFails
    PROVE  StreamInv'
<1>1. /\ body = "open" /\ body' \in {"complete", "broken"}
      /\ request.streamed /\ body' = "complete" => pump = "ended"
      /\ errors' = errors \/ (errors' = errors + 1 /\ body' = "broken")
      /\ given' = given \/ \E x : given' = <<x>>
      /\ chan' = chan \/ (chan # <<>> /\ chan' = Tail(chan))
      /\ UNCHANGED <<request, conn, posts, rest, heard, pump, call, tee, log, logged, tfft, stored,
                     recorded>>
  BY DEF PullError, PullEnd, Collected, CollectFails, source, logger
<1>2. call = "answered" /\ log = "collect" /\ errors = 0
  BY <1>1, OpenBody
<1>3. \E S : given' \in Seq(S)
  <2>1. ASSUME NEW x, given' = <<x>> PROVE given' \in Seq({x})
    BY <2>1
  <2> QED BY <1>1, <2>1 DEF StreamInv, StreamTypes
<1>4. chan' \in Seq(Items)
  <2>1. chan \in Seq(Items)
    BY <1>1, OpenBody
  <2>2. chan # <<>> => Tail(chan) \in Seq(Items)
    BY <2>1, HeadTailProperties
  <2> QED BY <1>1, <2>1, <2>2
<1>5. StreamTypes'
  BY <1>1, <1>3, <1>4 DEF StreamInv, StreamTypes
<1>6. Lives' /\ Logs'
  BY <1>1, <1>2 DEF StreamInv, Lives, Logs
<1>7. Counted'
  BY <1>1, <1>2 DEF Counted, Outcome
<1>8. OnItsWay'
  BY <1>1 DEF StreamInv, OnItsWay, Taken
<1> QED BY <1>5, <1>6, <1>7, <1>8 DEF StreamInv

-----------------------------------------------------------------------------
\* The log task.

\* It is kept by the log task, and what was taken stays taken.
LEMMA LogTaskStep == ASSUME StreamInv, Log PROVE StreamInv' /\ Taken' = Taken
<1>1. /\ UNCHANGED <<request, conn, posts, rest, heard, pump, chan, call, body, given, errors>>
      /\ log \in {"collect", "sign", "put", "meta", "post", "timed"}
  BY DEF Log, CollectFrame, CollectEnds, TimeOnly, SignUrl, PutBodies, ReadHeaders, PostRecord,
         LogFails, LogStep, source, client
<1>2. call = "answered"
  BY <1>1 DEF StreamInv, Lives
<1>3. CASE CollectFrame
  <2>1. /\ log = "collect" /\ tee # <<>> /\ logged' = Append(logged, Head(tee)) /\ tee' = Tail(tee)
        /\ tfft' = (IF tfft = "armed" THEN "fired" ELSE tfft) /\ UNCHANGED <<log, stored, recorded>>
    BY <1>3 DEF CollectFrame
  <2>2. /\ tee' \in Seq(Frames) /\ logged' \in Seq(Frames) /\ logged' # <<>>
    BY <2>1, HeadTailProperties, AppendProperties DEF StreamInv, StreamTypes
  <2>3. Taken' = Taken
    <3>1. logged \in Seq(Frames) /\ tee \in Seq(Frames)
      BY DEF StreamInv, StreamTypes
    <3>2. Append(logged, Head(tee)) \o Tail(tee) = logged \o tee
      BY <2>1, <3>1, Copies
    <3> QED BY <2>1, <3>2 DEF Taken
  <2>4. StreamTypes'
    BY <1>1, <2>1, <2>2 DEF StreamInv, StreamTypes
  <2>5. Lives' /\ Logs' /\ Counted'
    BY <1>1, <1>2, <2>1, <2>2 DEF StreamInv, StreamTypes, Lives, Logs, Counted, Outcome
  <2>6. OnItsWay'
    BY <1>1, <2>3 DEF StreamInv, OnItsWay
  <2> QED BY <2>3, <2>4, <2>5, <2>6 DEF StreamInv
<1>4. CASE CollectEnds
  <2>1. /\ log = "collect" /\ tee = <<>> /\ body # "open" /\ UNCHANGED <<tee, logged, stored, recorded>>
        /\ tfft' = IF tfft = "armed" THEN "lost" ELSE tfft
        /\ log' \in {"timed", "sign", "put"}
    BY <1>4 DEF CollectEnds, AfterCollect
  <2>2. body # "none"
    BY <1>2 DEF StreamInv, Lives
  <2>3. StreamTypes'
    BY <1>1, <2>1 DEF StreamInv, StreamTypes, LogSteps
  <2>4. Lives' /\ Logs' /\ Counted'
    BY <1>1, <1>2, <2>1, <2>2 DEF StreamInv, StreamTypes, Lives, Logs, Counted, Outcome
  <2>5. Taken' = Taken /\ OnItsWay'
    BY <1>1, <2>1 DEF StreamInv, OnItsWay, Taken
  <2> QED BY <2>3, <2>4, <2>5 DEF StreamInv
<1>5. CASE ~CollectFrame /\ ~CollectEnds
  <2>1. /\ UNCHANGED <<tee, logged, tfft>> /\ log \notin {"none", "collect"}
        /\ log' \in {"put", "meta", "post", "done", "failed"}
        /\ log' = "put" => stored' = stored /\ log = "sign"
        /\ recorded' = recorded \/ recorded' = TRUE
    BY <1>5 DEF Log, TimeOnly, SignUrl, PutBodies, ReadHeaders, PostRecord, LogFails, LogStep
  <2>2. recorded' \in BOOLEAN
    <3>1. recorded \in BOOLEAN
      BY DEF StreamInv, StreamTypes
    <3> QED BY <2>1, <3>1, Zenon
  <2>3. StreamTypes'
    BY <1>1, <2>1, <2>2 DEF StreamInv, StreamTypes, LogSteps
  <2>4. Lives' /\ Logs' /\ Counted'
    BY <1>1, <1>2, <2>1 DEF StreamInv, Lives, Logs, Counted, Outcome
  <2>5. Taken' = Taken /\ OnItsWay'
    BY <1>1, <2>1 DEF StreamInv, OnItsWay, Taken
  <2> QED BY <2>3, <2>4, <2>5 DEF StreamInv
<1> QED BY <1>3, <1>4, <1>5

-----------------------------------------------------------------------------
\* Between the provider and the client the frames of the first answer stay in order
\* ahead of any failure, and the four parties agree on how far each of them is
\* (dispatcher/client.rs, dispatcher/service.rs, types/body.rs, logger/service.rs).
THEOREM StreamInvariant == Spec => []StreamInv
<1>1. StreamInv /\ [Next]_vars => StreamInv'
  BY DispatchStep, PumpStep, PullFrameStep, CollectStep, ArrivesStep, EndStep, LeaveStep,
     LogTaskStep, StreamStutter DEF Next, Pull
<1> QED BY <1>1, StreamInit, PTL DEF Spec

\* The variables have their types; the counter of stream errors stays in range
\* however often the source fails (dispatcher/client.rs, dispatcher/service.rs).
THEOREM StreamTypeOK == Spec => []TypeOK
<1>1. StreamInv => TypeOK
  <2> SUFFICES ASSUME StreamInv PROVE TypeOK
    OBVIOUS
  <2>1. /\ Range(rest) \subseteq Parts /\ Range(heard) \subseteq Frames
        /\ Range(chan) \subseteq Items /\ Range(tee) \subseteq Frames /\ Range(logged) \subseteq Frames
    BY RangeOfSeq DEF StreamInv, StreamTypes
  <2>2. errors \in 0..MaxPosts
    BY StreamConstants DEF StreamInv, Counted
  <2>3. recorded \in BOOLEAN
    BY Zenon DEF StreamInv, StreamTypes
  <2>4. request \in [family : Families, streamed : BOOLEAN, observed : BOOLEAN, sidecar : BOOLEAN]
    BY Zenon DEF StreamInv, StreamTypes
  <2>5. StreamTypes
    BY DEF StreamInv
  <2> QED BY <2>1, <2>2, <2>3, <2>4, <2>5, Zenon DEF StreamTypes, TypeOK, Items
<1> QED BY <1>1, StreamInvariant, PTL

\* A request counts as a stream error at most once, and only if its client was
\* refused or its body broke (dispatcher/service.rs, dispatch_stream).
THEOREM StreamErrorsOnce == Spec => []ErrorsCountedOnce
<1>1. StreamInv => ErrorsCountedOnce
  BY DEF StreamInv, Counted, ErrorsCountedOnce
<1> QED BY <1>1, StreamInvariant, PTL

\* The first-frame signal has fired after the collection exactly if a frame was
\* collected (types/body.rs, poll_frame; metrics/tfft.rs).
THEOREM StreamTimed == Spec => []TimedIffHeard
<1>1. StreamInv => TimedIffHeard
  BY DEF StreamInv, Logs, TimedIffHeard
<1> QED BY <1>1, StreamInvariant, PTL

-----------------------------------------------------------------------------
\* Every step is one of Relay, or none.

RelayStep == [Relayer!Next]_(Relayer!vars)

\* The steps that change nothing Relay speaks of
LEMMA RelayStutter ==
    ASSUME UNCHANGED <<request, heard, given, stored>>, Taken' = Taken, Outcome' = Outcome
    PROVE  RelayStep
  BY DEF RelayStep, Relayer!vars

\* A step of the dispatcher is one that Relay allows.
LEMMA DispatchRelays == ASSUME StreamInv, Dispatch PROVE RelayStep
<1>1. call = "wait" /\ Outcome = "open"
  BY DEF Dispatch, FirstEvent, FirstError, SyncResponds, SyncFails, Outcome
<1>2. UNCHANGED <<request, heard, given, stored, tee, logged>>
  BY DEF Dispatch, FirstEvent, FirstError, SyncResponds, SyncFails, Responds, Opens, Refuses,
         source, client, logger
<1>3. Taken' = Taken
  BY <1>2 DEF Taken
<1>4. CASE FirstEvent \/ SyncResponds
  <2>1. Outcome' = "open"
    BY <1>4 DEF FirstEvent, SyncResponds, Responds, Outcome
  <2> QED BY <1>1, <1>2, <1>3, <2>1, RelayStutter
<1>5. CASE FirstError \/ SyncFails
  <2>1. Outcome' = "broken"
    BY <1>5 DEF FirstError, SyncFails, Outcome
  <2>2. Relayer!Finish("broken")
    BY <1>1, <1>2, <1>3, <2>1 DEF Relayer!Finish
  <2> QED BY <2>2 DEF RelayStep, Relayer!Next
<1> QED BY <1>4, <1>5 DEF Dispatch

\* So is the client's departure.
LEMMA LeaveRelays == ASSUME StreamInv, Leave PROVE RelayStep
<1>1. UNCHANGED <<request, heard, given, stored, tee, logged>>
  BY DEF Leave, source, logger
<1>2. Taken' = Taken
  BY <1>1 DEF Taken
<1>3. body = "open" => call = "answered"
  BY OpenBody
<1>4. Outcome = "open" /\ Outcome' = "left"
  BY <1>3 DEF Leave, Outcome
<1>5. Relayer!Finish("left")
  BY <1>1, <1>2, <1>4 DEF Relayer!Finish
<1> QED BY <1>5 DEF RelayStep, Relayer!Next

\* A frame read on the first connection is the provider going on with its answer.
LEMMA SpeaksRelays ==
    ASSUME StreamInv, Speaks, UNCHANGED <<request, given, stored, tee, logged, call, body>>,
           Outcome # "complete"
    PROVE  RelayStep
<1>1. Taken' = Taken /\ Outcome' = Outcome
  BY DEF Taken, Outcome
<1>2. Frame(Head(rest)) \in Frames
  BY SourceTypes, FrameType DEF StreamInv
<1>3. CASE posts = 1
  <2>1. heard' = Append(heard, Frame(Head(rest)))
    BY <1>3 DEF Speaks
  <2>2. Relayer!Send(Frame(Head(rest)))
    BY <1>1, <2>1 DEF Relayer!Send
  <2> QED BY <1>2, <2>2 DEF RelayStep, Relayer!Next
<1>4. CASE posts # 1
  <2>1. heard' = heard
    BY <1>4 DEF Speaks
  <2> QED BY <1>1, <2>1, RelayStutter
<1> QED BY <1>3, <1>4

\* So is a step of the pump.
LEMMA PumpRelays == ASSUME StreamInv, Pump PROVE RelayStep
<1>1. pump = "run" /\ UNCHANGED <<request, given, stored, tee, logged, call, body>>
  BY DEF Pump, PumpOpen, PumpMessage, PumpStops, PumpError, PumpRefused, PumpNone, client, logger
<1>2. CASE PumpMessage
  <2>1. request.streamed \in BOOLEAN
    BY DEF StreamInv, StreamTypes
  <2>2. call = "answered" /\ body # "complete"
    BY <1>1, <2>1 DEF StreamInv, Lives
  <2>3. Outcome # "complete" /\ Speaks
    BY <1>2, <2>2 DEF Outcome, PumpMessage
  <2> QED BY <1>1, <2>3, SpeaksRelays
<1>3. CASE PumpOpen \/ PumpStops \/ PumpError \/ PumpRefused \/ PumpNone
  <2>1. heard' = heard
    BY <1>3 DEF PumpOpen, PumpStops, PumpError, PumpRefused, PumpNone, Opens, Stops, Drops, Refuses,
                source
  <2>2. Taken' = Taken /\ Outcome' = Outcome
    BY <1>1 DEF Taken, Outcome
  <2> QED BY <1>1, <2>1, <2>2, RelayStutter
<1> QED BY <1>2, <1>3 DEF Pump

\* So is one of the client.
LEMMA PullRelays == ASSUME StreamInv, Pull PROVE RelayStep
<1>1. body = "open"
  BY DEF Pull, PullFrame, PullError, PullEnd, Arrives, Collect, Collected, CollectFails
<1>2. /\ call = "answered" /\ Outcome = "open" /\ Len(Taken) \in Nat
  BY <1>1, OpenBody
<1>3. call' = call /\ UNCHANGED <<request, stored, logged>>
  BY DEF Pull, PullFrame, PullError, PullEnd, Arrives, Collect, Collected, CollectFails, client, logger
<1>4. Outcome' = body'
  BY <1>2, <1>3 DEF Outcome
<1>5. CASE PullFrame
  <2> DEFINE f == Head(chan)
             c == Convert(f.of, f.e)
  <2>1. /\ request.streamed /\ heard' = heard /\ chan # <<>> /\ ~IsError(f) /\ tee' = Append(tee, f)
        /\ given' = IF c.r = "some" THEN Append(given, c.choices) ELSE given
        /\ body' = IF c.r = "error" THEN "broken" ELSE body
    BY <1>5 DEF PullFrame, Relayed, source
  <2>2. /\ Len(Taken') = Len(Taken) + 1 /\ Len(Taken) < Len(heard) /\ f = heard[Len(Taken) + 1]
    BY <1>1, <1>3, <2>1, TakeFrame
  <2>3. PICK S : given \in Seq(S)
    BY DEF StreamInv, StreamTypes
  <2>4. c.r = "some" => given' = given \o <<c.choices>>
    <3>1. given \in Seq(S \cup {c.choices})
      BY <2>3, SeqMonotonic
    <3>2. Append(given, c.choices) = given \o <<c.choices>>
      BY <3>1, AppendIsConcat
    <3> QED BY <2>1, <3>2
  <2>5. c.r # "some" => given' = given \o <<>>
    BY <2>1, <2>3, ConcatEmptySeq
  <2>6. given' = given \o ConvertedTo(f)
    BY <2>4, <2>5 DEF ConvertedTo
  <2>7. DoesNotConvert(f) <=> c.r = "error"
    BY DEF DoesNotConvert
  <2> HIDE DEF f, c
  <2>8. \/ request.streamed /\ DoesNotConvert(f) /\ Outcome' = "broken" /\ UNCHANGED given
        \/ request.streamed /\ ~DoesNotConvert(f) /\ given' = given \o ConvertedTo(f) /\ UNCHANGED Outcome
    BY <1>1, <1>2, <1>4, <2>1, <2>6, <2>7
  <2>9. Relayer!Take
    BY <1>2, <1>3, <2>1, <2>2, <2>8 DEF Relayer!Take
  <2> QED BY <2>9 DEF RelayStep, Relayer!Next
<1>6. CASE Collect
  <2>1. /\ ~request.streamed /\ heard' = heard /\ chan # <<>> /\ tee' = Append(tee, Head(chan))
        /\ given' = given /\ body' = body
    BY <1>6 DEF Collect, source, client
  <2>2. ~IsError(Head(chan))
    BY <1>1, <2>1, OpenBody, NextInChannel, FrameIsNoError DEF StreamInv, Lives
  <2>3. Len(Taken') = Len(Taken) + 1 /\ Len(Taken) < Len(heard)
    BY <1>1, <1>3, <2>1, <2>2, TakeFrame
  <2>4. Relayer!Take
    BY <1>1, <1>2, <1>3, <1>4, <2>1, <2>3 DEF Relayer!Take
  <2> QED BY <2>4 DEF RelayStep, Relayer!Next
<1>7. CASE Arrives
  <2>1. Speaks /\ UNCHANGED <<request, given, stored, tee, logged, call, body>>
    BY <1>7 DEF Arrives, client, logger
  <2> QED BY <1>2, <2>1, SpeaksRelays
<1>8. CASE PullError \/ CollectFails \/ (Collected /\ body' = "broken")
  <2>1. body' = "broken" /\ UNCHANGED <<heard, given, tee>>
    BY <1>8 DEF PullError, CollectFails, Collected, source
  <2>2. Relayer!Finish("broken")
    BY <1>2, <1>3, <1>4, <2>1 DEF Relayer!Finish, Taken
  <2> QED BY <2>2 DEF RelayStep, Relayer!Next
\* Nothing is left in the channel, so there was no failure and all was taken
<1>9. chan = <<>> => Len(Taken) = Len(heard)
  BY <1>1, OpenBody, NothingTaken DEF Queue, Prefix
<1>10. CASE PullEnd
  <2>1. body' = "complete" /\ UNCHANGED <<heard, given, tee>> /\ chan = <<>> /\ request.streamed
    BY <1>10 DEF PullEnd, source
  <2>2. Relayer!Complete
    BY <1>2, <1>3, <1>4, <1>9, <2>1 DEF Relayer!Complete, Taken
  <2> QED BY <2>2 DEF RelayStep, Relayer!Next
<1>11. CASE Collected /\ body' # "broken"
  <2> DEFINE blocks == [j \in DOMAIN heard |-> heard[j].e]
  <2>1. /\ ~request.streamed /\ chan = <<>> /\ body' = "complete" /\ UNCHANGED <<heard, tee>>
        /\ Parses(blocks) /\ given' = <<ConvertBody(request.family, blocks)>>
    BY <1>11 DEF Collected, source
  <2>2. heard # <<>>
    BY <2>1 DEF Parses
  <2>3. heard[1].of = request.family
    <3>1. 1 \in 1..Len(heard)
      BY <1>1, <2>2, OpenBody, EmptySeq
    <3> QED BY <3>1 DEF StreamInv, OnItsWay
  <2>4. given' = <<ConvertedWhole(heard)>>
    BY <2>1, <2>3 DEF ConvertedWhole
  <2> HIDE DEF blocks
  <2>5. Relayer!Complete
    BY <1>2, <1>3, <1>4, <1>9, <2>1, <2>4 DEF Relayer!Complete, Taken
  <2> QED BY <2>5 DEF RelayStep, Relayer!Next
<1> QED BY <1>5, <1>6, <1>7, <1>8, <1>10, <1>11 DEF Pull

\* So is one of the log task.
LEMMA LogRelays == ASSUME StreamInv, Log PROVE RelayStep
<1>1. UNCHANGED <<request, heard, given, call, body>>
  BY DEF Log, CollectFrame, CollectEnds, TimeOnly, SignUrl, PutBodies, ReadHeaders, PostRecord,
         LogFails, LogStep, source, client
<1>2. Taken' = Taken /\ Outcome' = Outcome
  BY <1>1, LogTaskStep DEF Outcome
<1>3. CASE PutBodies
  <2>1. log = "put" /\ stored' = <<logged>>
    BY <1>3 DEF PutBodies, LogStep
  <2>2. /\ call = "answered" /\ body # "open" /\ tee = <<>> /\ stored = <<>>
    BY <2>1 DEF StreamInv, Lives, Logs
  <2>3. Outcome # "open"
    BY <2>2 DEF Outcome
  <2>4. Taken = logged /\ Taken \in Seq(Frames) /\ heard \in Seq(Frames)
    BY <2>2, ConcatEmptySeq DEF StreamInv, StreamTypes, Taken
  <2>5. SubSeq(heard, 1, Len(Taken)) = Taken
    <3>1. /\ Len(Taken) \in Nat /\ Len(Taken) <= Len(heard) /\ Len(heard) \in Nat
          /\ \A i \in 1..Len(Taken) : Taken[i] = heard[i] /\ heard[i] \in Frames
      BY <2>4, LenProperties, ElementOfSeq DEF StreamInv, OnItsWay, Prefix
    <3>2. /\ SubSeq(heard, 1, Len(Taken)) \in Seq(Frames)
          /\ Len(SubSeq(heard, 1, Len(Taken))) = Len(Taken)
          /\ \A i \in 1..Len(Taken) : SubSeq(heard, 1, Len(Taken))[i] = heard[i]
      BY <3>1, SubSeqProperties
    <3> QED BY <2>4, <3>1, <3>2, SeqEqual
  <2>6. Relayer!Record
    BY <1>1, <1>2, <2>1, <2>2, <2>3, <2>4, <2>5 DEF Relayer!Record
  <2> QED BY <2>6 DEF RelayStep, Relayer!Next
<1>4. CASE ~PutBodies
  <2>1. stored' = stored
    BY <1>4 DEF Log, CollectFrame, CollectEnds, TimeOnly, SignUrl, ReadHeaders, PostRecord, LogFails
  <2> QED BY <1>1, <1>2, <2>1, RelayStutter
<1> QED BY <1>3, <1>4

\* The gateway implements Relay: the client is given a prefix of the first answer
\* only and is told it is complete only if it is, and what is stored is exactly what
\* was taken for the client (dispatcher/client.rs, types/body.rs, mapper/service.rs,
\* logger/s3.rs).
THEOREM StreamImplementsRelay == Spec => RelayHolds
<1>1. Init => Relayer!Init
  <2> SUFFICES ASSUME Init PROVE Relayer!Init
    OBVIOUS
  <2>1. request.streamed \in BOOLEAN
    BY DEF Init
  <2>2. Outcome = "open" /\ Len(Taken) = 0
    BY NothingTaken DEF Init, Outcome, Taken
  <2> QED BY <2>1, <2>2 DEF Init, Relayer!Init
<1>2. StreamInv /\ [Next]_vars => RelayStep
  <2> SUFFICES ASSUME StreamInv, [Next]_vars PROVE RelayStep
    OBVIOUS
  <2>1. CASE UNCHANGED vars
    BY <2>1, RelayStutter DEF vars, source, client, logger, Taken, Outcome
  <2>2. CASE Next
    BY <2>2, DispatchRelays, PumpRelays, PullRelays, LeaveRelays, LogRelays DEF Next
  <2> QED BY <2>1, <2>2
<1> QED BY <1>1, <1>2, StreamInvariant, PTL DEF Spec, RelayHolds, Relayer!Spec, RelayStep

-----------------------------------------------------------------------------
\* The texts of choice i, chunk by chunk, and of block i, frame by frame.
TextsGiven(g, i) == [j \in DOMAIN g |-> TextIn(g[j], i)]
TextsSaid(t, i) == [j \in DOMAIN t |-> SaidIn(t[j], i)]

\* An element more.
LEMMA OneMore ==
    ASSUME NEW S, NEW s \in Seq(S), NEW x
    PROVE  /\ DOMAIN s = 1..Len(s) /\ Len(s) \in Nat
           /\ DOMAIN Append(s, x) = 1..(Len(s) + 1)
           /\ \A j \in 1..Len(s) : Append(s, x)[j] = s[j]
           /\ Append(s, x)[Len(s) + 1] = x
<1>1. PICK R : R = S \cup {x}
  OBVIOUS
<1>2. s \in Seq(R) /\ x \in R
  BY <1>1
<1> QED BY <1>2

\* A chunk more was given,
LEMMA MoreGiven ==
    ASSUME NEW S, NEW g \in Seq(S), NEW c, NEW i
    PROVE  TextsGiven(Append(g, c), i) = Append(TextsGiven(g, i), TextIn(c, i))
<1>1. PICK n, h, t, u : n = Len(g) /\ h = Append(g, c) /\ t = TextsGiven(g, i) /\ u = TextIn(c, i)
  OBVIOUS
<1>2. /\ n \in Nat /\ DOMAIN g = 1..n /\ DOMAIN h = 1..(n + 1)
      /\ h[n + 1] = c /\ \A j \in 1..n : h[j] = g[j]
  BY <1>1, OneMore
<1>3. t = [j \in 1..n |-> TextIn(g[j], i)]
  BY <1>1, <1>2 DEF TextsGiven
<1>4. TextsGiven(h, i) = [j \in 1..(n + 1) |-> TextIn(h[j], i)]
  BY <1>2 DEF TextsGiven
<1>5. Append(t, u) = [j \in 1..(n + 1) |-> IF j = n + 1 THEN u ELSE t[j]]
  BY <1>2, <1>3
<1> QED BY <1>1, <1>2, <1>3, <1>4, <1>5

\* a frame more was taken.
LEMMA MoreSaid ==
    ASSUME NEW S, NEW g \in Seq(S), NEW c, NEW i
    PROVE  TextsSaid(Append(g, c), i) = Append(TextsSaid(g, i), SaidIn(c, i))
<1>1. PICK n, h, t, u : n = Len(g) /\ h = Append(g, c) /\ t = TextsSaid(g, i) /\ u = SaidIn(c, i)
  OBVIOUS
<1>2. /\ n \in Nat /\ DOMAIN g = 1..n /\ DOMAIN h = 1..(n + 1)
      /\ h[n + 1] = c /\ \A j \in 1..n : h[j] = g[j]
  BY <1>1, OneMore
<1>3. t = [j \in 1..n |-> SaidIn(g[j], i)]
  BY <1>1, <1>2 DEF TextsSaid
<1>4. TextsSaid(h, i) = [j \in 1..(n + 1) |-> SaidIn(h[j], i)]
  BY <1>2 DEF TextsSaid
<1>5. Append(t, u) = [j \in 1..(n + 1) |-> IF j = n + 1 THEN u ELSE t[j]]
  BY <1>2, <1>3
<1> QED BY <1>1, <1>2, <1>3, <1>4, <1>5

\* The text of a chunk of one choice, and of none.
LEMMA OneChoice ==
    ASSUME NEW k, NEW d, NEW i
    PROVE  TextIn(Choice(k, d), i) = IF k = i THEN d.content ELSE <<>>
<1>1. PICK ss : ss = [j \in DOMAIN Choice(k, d) |->
            IF Choice(k, d)[j].index = i THEN Choice(k, d)[j].delta.content ELSE <<>>]
  OBVIOUS
<1>2. DOMAIN Choice(k, d) = 1..1 /\ Choice(k, d)[1] = [index |-> k, delta |-> d]
  BY DEF Choice
<1>3. ss = [j \in 1..1 |-> IF k = i THEN d.content ELSE <<>>]
  <2>1. ss = [j \in 1..1 |->
            IF Choice(k, d)[j].index = i THEN Choice(k, d)[j].delta.content ELSE <<>>]
    BY <1>1, <1>2
  <2>2. \A j \in 1..1 : Choice(k, d)[j].index = k /\ Choice(k, d)[j].delta = d
    BY <1>2
  <2> QED BY <2>1, <2>2
<1>4. Len(ss) = 1 /\ ss[1] = IF k = i THEN d.content ELSE <<>>
  BY <1>3
<1>5. FlattenSeq(ss) = ss[1]
  BY <1>4, FlattenOne
<1>6. TextIn(Choice(k, d), i) = FlattenSeq(ss)
  BY <1>1 DEF TextIn
<1> QED BY <1>4, <1>5, <1>6

\* A chunk without choices says nothing.
LEMMA NoChoice == \A i : TextIn(<<>>, i) = <<>>
<1> TAKE i
<1>1. [j \in DOMAIN <<>> |-> IF (<<>>)[j].index = i THEN (<<>>)[j].delta.content ELSE <<>>] = <<>>
  OBVIOUS
<1> QED BY <1>1, FlattenEmpty DEF TextIn

\* A message that starts with no content says nothing.
LEMMA NothingStarts == FlattenSeq([j \in DOMAIN <<>> |-> StartText((<<>>)[j])]) = <<>>
<1>1. [j \in DOMAIN <<>> |-> StartText((<<>>)[j])] = <<>>
  OBVIOUS
<1> QED BY <1>1, FlattenEmpty

\* A chunk made of an event of Anthropic says what the event said, and one that is
\* dropped said nothing.
LEMMA AnthropicSays ==
    ASSUME NEW f, f.of = "anthropic", Spoken("anthropic", f.e), NEW i, NEW c, c = AnthropicChunk(f.e)
    PROVE  /\ SaidIn(f, i) \in Seq(Tokens)
           /\ c.r = "some" => TextIn(c.choices, i) = SaidIn(f, i)
           /\ c.r # "some" => SaidIn(f, i) = <<>>
<1>1. PICK e : e = f.e
  OBVIOUS
<1>2. SaidIn(f, i) = IF e.t = "ContentBlockDelta" /\ e.index = i /\ e.delta.k = "text" THEN e.delta.d
                     ELSE <<>>
  BY <1>1 DEF SaidIn
<1>3. SaidIn(f, i) \in Seq(Tokens)
  BY <1>1, <1>2 DEF Spoken
<1>4. CASE e.t = "MessageStart"
  <2>1. SaidIn(f, i) = <<>> /\ e.content = <<>>
    BY <1>1, <1>2, <1>4 DEF Spoken
  <2>2. PICK d : c.choices = Choice(0, d) /\ d.content = <<>>
    BY <1>1, <1>4, <2>1, NothingStarts DEF AnthropicChunk, MessageStartChunk, Chunk
  <2>3. c.r = "some"
    BY <1>1, <1>4 DEF AnthropicChunk, MessageStartChunk, Chunk
  <2>4. TextIn(c.choices, i) = <<>>
    BY <2>2, OneChoice
  <2> QED BY <1>3, <2>1, <2>3, <2>4
<1>5. CASE e.t = "ContentBlockStart"
  <2>1. SaidIn(f, i) = <<>>
    BY <1>2, <1>5
  <2>2. c.r = "some" => \E d : c.choices = Choice(0, d) /\ d.content = <<>>
    BY <1>1, <1>5 DEF AnthropicChunk, BlockStartChunk, Chunk, NoChunk, NoDelta
  <2>3. c.r = "some" => TextIn(c.choices, i) = <<>>
    BY <2>2, OneChoice
  <2> QED BY <1>3, <2>1, <2>3
<1>6. CASE e.t = "ContentBlockDelta"
  <2>0. c = BlockDeltaChunk(e)
    BY <1>1, <1>6 DEF AnthropicChunk
  <2>1. CASE e.delta.k = "text"
    <3>1. PICK d : c = Chunk(Choice(e.index, d)) /\ d.content = e.delta.d
      BY <2>0, <2>1 DEF BlockDeltaChunk, NoDelta
    <3>2. c.r = "some" /\ c.choices = Choice(e.index, d)
      BY <3>1 DEF Chunk
    <3>3. TextIn(c.choices, i) = IF e.index = i THEN e.delta.d ELSE <<>>
      BY <3>1, <3>2, OneChoice
    <3> QED BY <1>2, <1>3, <1>6, <2>1, <3>2, <3>3
  <2>2. CASE e.delta.k = "tool"
    <3>1. PICK d : c = Chunk(Choice(e.index, d)) /\ d.content = <<>>
      BY <2>0, <2>2 DEF BlockDeltaChunk, NoDelta
    <3>2. c.r = "some" /\ c.choices = Choice(e.index, d)
      BY <3>1 DEF Chunk
    <3>3. TextIn(c.choices, i) = <<>>
      BY <3>1, <3>2, OneChoice
    <3> QED BY <1>2, <1>3, <2>2, <3>2, <3>3
  <2>3. CASE e.delta.k \notin {"text", "tool"}
    <3>1. c.r = "none"
      BY <2>0, <2>3 DEF BlockDeltaChunk, NoChunk
    <3> QED BY <1>2, <1>3, <2>3, <3>1
  <2> QED BY <2>1, <2>2, <2>3
<1>7. CASE e.t = "MessageDelta"
  <2>1. SaidIn(f, i) = <<>>
    BY <1>2, <1>7
  <2>2. PICK d : c.choices = Choice(0, d) /\ d.content = <<>>
    BY <1>1, <1>7 DEF AnthropicChunk, MessageDeltaChunk, Chunk, NoDelta
  <2>3. TextIn(c.choices, i) = <<>>
    BY <2>2, OneChoice
  <2> QED BY <1>3, <2>1, <2>3
<1>8. CASE e.t \notin {"MessageStart", "ContentBlockStart", "ContentBlockDelta", "MessageDelta"}
  <2>1. SaidIn(f, i) = <<>>
    BY <1>2, <1>8
  <2>2. c.r # "some"
    BY <1>1, <1>8 DEF AnthropicChunk, NoChunk, BadEvent
  <2> QED BY <1>3, <2>1, <2>2
<1> QED BY <1>4, <1>5, <1>6, <1>7, <1>8

\* The same of an event of Bedrock.
LEMMA BedrockSays ==
    ASSUME NEW f, f.of = "bedrock", Spoken("bedrock", f.e), NEW i, NEW c, c = ConverseChunk(f.e)
    PROVE  /\ SaidIn(f, i) \in Seq(Tokens)
           /\ c.r = "some" => TextIn(c.choices, i) = SaidIn(f, i)
           /\ c.r # "some" => SaidIn(f, i) = <<>>
<1>1. PICK e : e = f.e
  OBVIOUS
<1>2. SaidIn(f, i) = IF e.t = "ContentBlockDelta" /\ e.index = i /\ e.delta.k = "text" THEN e.delta.d
                     ELSE <<>>
  BY <1>1 DEF SaidIn
<1>3. SaidIn(f, i) \in Seq(Tokens)
  BY <1>1, <1>2 DEF Spoken
<1>4. CASE e.t = "ContentBlockDelta" /\ e.delta.k = "text"
  <2>1. PICK d : c = Chunk(Choice(e.index, d)) /\ d.content = e.delta.d
    BY <1>1, <1>4 DEF ConverseChunk, NoDelta
  <2>2. c.r = "some" /\ c.choices = Choice(e.index, d)
    BY <2>1 DEF Chunk
  <2>3. TextIn(c.choices, i) = IF e.index = i THEN e.delta.d ELSE <<>>
    BY <2>1, <2>2, OneChoice
  <2> QED BY <1>2, <1>3, <1>4, <2>2, <2>3
<1>5. CASE ~(e.t = "ContentBlockDelta" /\ e.delta.k = "text")
  <2>1. SaidIn(f, i) = <<>>
    BY <1>2, <1>5
  <2>2. \/ c = BadEvent \/ c = Chunk(<<>>)
        \/ \E d : c = Chunk(Choice(0, d)) /\ d.content = <<>>
    <3>1. CASE e.t = "MessageStart"
      BY <1>1, <3>1 DEF ConverseChunk, NoDelta
    <3>2. CASE e.t = "ContentBlockStart"
      BY <1>1, <3>2 DEF ConverseChunk, NoDelta
    <3>3. CASE e.t = "ContentBlockDelta"
      BY <1>1, <1>5, <3>3 DEF ConverseChunk, NoDelta
    <3>4. CASE e.t \notin {"MessageStart", "ContentBlockStart", "ContentBlockDelta"}
      BY <1>1, <3>4 DEF ConverseChunk
    <3> QED BY <3>1, <3>2, <3>3, <3>4
  <2>3. c.r = "some" => TextIn(c.choices, i) = <<>>
    <3>1. CASE c = BadEvent
      BY <3>1 DEF BadEvent
    <3>2. CASE c = Chunk(<<>>)
      BY <3>2, NoChoice DEF Chunk
    <3>3. CASE \E d : c = Chunk(Choice(0, d)) /\ d.content = <<>>
      BY <3>3, OneChoice DEF Chunk
    <3> QED BY <2>2, <3>1, <3>2, <3>3
  <2> QED BY <1>3, <2>1, <2>3
<1> QED BY <1>4, <1>5

\* The same of a chunk of OpenAI.
LEMMA OpenAISays ==
    ASSUME NEW f, f.of = "openai", Spoken("openai", f.e), NEW i, NEW c, c = OpenAIChunk(f.e)
    PROVE  /\ SaidIn(f, i) \in Seq(Tokens)
           /\ c.r = "some" => TextIn(c.choices, i) = SaidIn(f, i)
           /\ c.r # "some" => SaidIn(f, i) = <<>>
<1>1. PICK e : e = f.e
  OBVIOUS
<1>2. CASE e.t = "chunk"
  <2>1. SaidIn(f, i) = TextIn(e.choices, i)
    BY <1>1, <1>2 DEF SaidIn
  <2>2. c.r = "some" /\ c.choices = e.choices
    BY <1>1, <1>2 DEF OpenAIChunk, Chunk
  <2>3. PICK ch, ss : ch = e.choices /\ ss = [j \in DOMAIN ch |->
              IF ch[j].index = i THEN ch[j].delta.content ELSE <<>>]
    OBVIOUS
  <2>4. ch \in Seq(Range(ch)) /\ \A j \in DOMAIN ch : ch[j].delta.content \in Seq(Tokens)
    BY <1>1, <1>2, <2>3 DEF Spoken
  <2>5. PICK n : n = Len(ch)
    OBVIOUS
  <2>6. n \in Nat /\ DOMAIN ch = 1..n
    BY <2>4, <2>5
  <2>7. ss \in Seq(Seq(Tokens))
    <3>1. ss = [j \in 1..n |-> IF ch[j].index = i THEN ch[j].delta.content ELSE <<>>]
      BY <2>3, <2>6
    <3>2. \A j \in 1..n : ss[j] \in Seq(Tokens)
      BY <2>4, <2>6, <3>1
    <3> QED BY <2>6, <3>1, <3>2
  <2>8. TextIn(e.choices, i) = FlattenSeq(ss)
    BY <2>3 DEF TextIn
  <2>9. FlattenSeq(ss) \in Seq(Tokens)
    BY <2>7, FlattenTyped
  <2> QED BY <2>1, <2>2, <2>8, <2>9
<1>3. CASE e.t # "chunk"
  <2>1. SaidIn(f, i) = <<>>
    BY <1>1, <1>3 DEF SaidIn
  <2>2. c.r = "error"
    BY <1>1, <1>3 DEF OpenAIChunk, BadEvent
  <2> QED BY <2>1, <2>2
<1> QED BY <1>2, <1>3

\* What a chunk says is what its event said, in every family.
LEMMA ChunkSays ==
    ASSUME NEW f, f.of \in Families, Spoken(f.of, f.e), NEW i, NEW c, c = Convert(f.of, f.e)
    PROVE  /\ SaidIn(f, i) \in Seq(Tokens)
           /\ c.r = "some" => TextIn(c.choices, i) = SaidIn(f, i)
           /\ c.r # "some" => SaidIn(f, i) = <<>>
<1>1. CASE f.of = "anthropic"
  BY <1>1, AnthropicSays DEF Convert
<1>2. CASE f.of = "bedrock"
  BY <1>2, BedrockSays DEF Convert
<1>3. CASE f.of = "openai"
  BY <1>3, OpenAISays DEF Convert
<1> QED BY <1>1, <1>2, <1>3 DEF Families

SpokenParts(family) == {e \in Parts : Spoken(family, e)}
SpokenFrames == {f \in Frames : Spoken(f.of, f.e)}

\* As much text was given as was said in what was taken.
Even(g, t, i) ==
    /\ TextsGiven(g, i) \in Seq(Seq(Tokens)) /\ TextsSaid(t, i) \in Seq(Seq(Tokens))
    /\ FlattenSeq(TextsGiven(g, i)) = FlattenSeq(TextsSaid(t, i))

\* A stream, as far as it has come: what is still to be sent and what is in the
\* channel is spoken as its provider speaks.
SpokenInv ==
    request.streamed =>
        /\ rest \in Seq(SpokenParts(request.family))
        /\ chan \in Seq(SpokenFrames \cup {Failure})
        /\ \A i \in Nat : Even(given, Taken, i)

\* A frame taken, and what it is converted to given.
LEMMA EvenStep ==
    ASSUME NEW S, NEW R, NEW g \in Seq(S), NEW t \in Seq(R), NEW i, Even(g, t, i),
           NEW f, f.of \in Families, Spoken(f.of, f.e), NEW c, c = Convert(f.of, f.e),
           NEW h, h = IF c.r = "some" THEN Append(g, c.choices) ELSE g
    PROVE  Even(h, Append(t, f), i)
<1>1. PICK a, b, x, u : a = TextsGiven(g, i) /\ b = TextsSaid(t, i) /\ x = SaidIn(f, i)
                        /\ u = TextIn(c.choices, i)
  OBVIOUS
<1>2. a \in Seq(Seq(Tokens)) /\ b \in Seq(Seq(Tokens)) /\ FlattenSeq(a) = FlattenSeq(b)
  BY <1>1 DEF Even
<1>3. x \in Seq(Tokens) /\ (c.r = "some" => u = x) /\ (c.r # "some" => x = <<>>)
  BY <1>1, ChunkSays
<1>4. TextsSaid(Append(t, f), i) = Append(b, x)
  BY <1>1, MoreSaid
<1>5. Append(b, x) \in Seq(Seq(Tokens)) /\ FlattenSeq(Append(b, x)) = FlattenSeq(b) \o x
  BY <1>2, <1>3, FlattenAppend, AppendProperties
<1>6. CASE c.r = "some"
  <2>1. TextsGiven(h, i) = Append(a, x)
    BY <1>1, <1>3, <1>6, MoreGiven
  <2>2. Append(a, x) \in Seq(Seq(Tokens)) /\ FlattenSeq(Append(a, x)) = FlattenSeq(a) \o x
    BY <1>2, <1>3, FlattenAppend, AppendProperties
  <2> QED BY <1>2, <1>4, <1>5, <2>1, <2>2 DEF Even
<1>7. CASE c.r # "some"
  <2>1. TextsGiven(h, i) = a
    BY <1>1, <1>7
  <2>2. FlattenSeq(b) \o <<>> = FlattenSeq(b)
    BY <1>2, FlattenTyped, ConcatEmptySeq
  <2> QED BY <1>2, <1>3, <1>4, <1>5, <1>7, <2>1, <2>2 DEF Even
<1> QED BY <1>6, <1>7

\* Nothing was said and nothing given at first.
LEMMA SpokenInit == Init => SpokenInv
<1> SUFFICES ASSUME Init PROVE SpokenInv
  OBVIOUS
<1>1. rest = <<>> /\ chan = <<>> /\ given = <<>> /\ Taken = <<>>
  BY NothingTaken DEF Init, Taken
<1>2. ASSUME NEW i \in Nat PROVE Even(<<>>, <<>>, i)
  <2>1. TextsGiven(<<>>, i) = <<>> /\ TextsSaid(<<>>, i) = <<>>
    BY DEF TextsGiven, TextsSaid
  <2>2. <<>> \in Seq(Seq(Tokens))
    OBVIOUS
  <2>3. TextsGiven(<<>>, i) \in Seq(Seq(Tokens)) /\ TextsSaid(<<>>, i) \in Seq(Seq(Tokens))
    BY <2>1, <2>2
  <2>4. FlattenSeq(TextsGiven(<<>>, i)) = FlattenSeq(TextsSaid(<<>>, i))
    BY <2>1
  <2> QED BY <2>3, <2>4 DEF Even
<1> QED BY <1>1, <1>2 DEF SpokenInv

\* The source: an answer of the request's family, or nothing.
LEMMA SpokenSource ==
    ASSUME StreamInv, request.streamed, rest \in Seq(SpokenParts(request.family)),
           Opens \/ Speaks \/ Drops \/ Refuses \/ UNCHANGED source
    PROVE  /\ rest' \in Seq(SpokenParts(request.family))
           /\ Speaks => Frame(Head(rest)) \in SpokenFrames
<1>1. CASE Opens
  <2>1. PICK a \in Answers : a.family = request.family /\ a.streamed = request.streamed /\ rest' = a.parts
    BY <1>1 DEF Opens
  <2>2. a.parts \in Seq(Parts) /\ \A e \in Range(a.parts) : Spoken(request.family, e)
    BY <2>1, StreamConstants
  <2>3. PICK p, n : p = a.parts /\ n = Len(p)
    OBVIOUS
  <2>4. p \in Seq(Parts) /\ n \in Nat /\ DOMAIN p = 1..n
    BY <2>2, <2>3
  <2>5. \A j \in 1..n : p[j] \in SpokenParts(request.family)
    BY <2>2, <2>3, <2>4 DEF SpokenParts, Range
  <2>6. p \in Seq(SpokenParts(request.family))
    BY <2>4, <2>5
  <2>7. ~Speaks
    BY <1>1 DEF Opens, Speaks
  <2> QED BY <2>1, <2>3, <2>6, <2>7
<1>2. CASE Speaks
  <2>1. rest # <<>> /\ rest' = Tail(rest)
    BY <1>2 DEF Speaks
  <2>2. Head(rest) \in SpokenParts(request.family) /\ Tail(rest) \in Seq(SpokenParts(request.family))
    BY <2>1, HeadTailProperties
  <2>3. Head(rest) \in Parts /\ Spoken(request.family, Head(rest))
    BY <2>2 DEF SpokenParts
  <2>4. Frame(Head(rest)) \in Frames /\ Frame(Head(rest)).of = request.family
        /\ Frame(Head(rest)).e = Head(rest)
    BY <2>3, FrameType DEF StreamInv, Frame
  <2> QED BY <2>1, <2>2, <2>3, <2>4 DEF SpokenFrames
<1>3. CASE (Drops \/ Refuses \/ UNCHANGED source) /\ ~Speaks
  <2>1. rest' = <<>> \/ rest' = rest
    BY <1>3 DEF Drops, Refuses, source
  <2>2. <<>> \in Seq(SpokenParts(request.family))
    OBVIOUS
  <2> QED BY <1>3, <2>1, <2>2
<1> QED BY <1>1, <1>2, <1>3

\* The body of an error is a frame that may be sent.
LEMMA ErrorIsSpoken == ASSUME StreamInv PROVE ErrorBody \in SpokenFrames
  BY DEF ErrorBody, SpokenFrames, Frames, Spoken, StreamInv, StreamTypes

\* Every step keeps what was given even with what was said.
LEMMA SpokenStep == ASSUME StreamInv, SpokenInv, Next PROVE SpokenInv'
<1> SUFFICES ASSUME request'.streamed PROVE SpokenInv'
  BY DEF SpokenInv
<1>0. request' = request
  BY DEF Next, Dispatch, FirstEvent, FirstError, SyncResponds, SyncFails, Pump, PumpOpen, PumpMessage,
         PumpStops, PumpError, PumpRefused, PumpNone, Pull, PullFrame, PullError, PullEnd, Arrives,
         Collect, Collected, CollectFails, Leave, Log, CollectFrame, CollectEnds, TimeOnly, SignUrl,
         PutBodies, ReadHeaders, PostRecord, LogFails, LogStep
<1>1. /\ request.streamed /\ rest \in Seq(SpokenParts(request.family))
      /\ chan \in Seq(SpokenFrames \cup {Failure}) /\ \A i \in Nat : Even(given, Taken, i)
  BY <1>0 DEF SpokenInv
<1>2. ASSUME rest' \in Seq(SpokenParts(request.family)), chan' \in Seq(SpokenFrames \cup {Failure}),
             given' = given, Taken' = Taken
      PROVE  SpokenInv'
  BY <1>0, <1>1, <1>2 DEF SpokenInv
<1>3. CASE Dispatch
  <2>1. Opens \/ Refuses \/ UNCHANGED source
    BY <1>3 DEF Dispatch, FirstEvent, FirstError, SyncResponds, SyncFails
  <2>2. chan' = chan /\ given' = given /\ tee' = tee /\ logged' = logged
    BY <1>3 DEF Dispatch, FirstEvent, FirstError, SyncResponds, SyncFails, Responds, logger
  <2>3. Taken' = Taken
    BY <2>2 DEF Taken
  <2>4. rest' \in Seq(SpokenParts(request.family))
    BY <1>1, <2>1, SpokenSource
  <2> QED BY <1>1, <1>2, <2>2, <2>3, <2>4
<1>4. CASE Pump
  <2>1. given' = given /\ tee' = tee /\ logged' = logged
    BY <1>4 DEF Pump, PumpOpen, PumpMessage, PumpStops, PumpError, PumpRefused, PumpNone, client, logger
  <2>2. Taken' = Taken
    BY <2>1 DEF Taken
  <2>3. Opens \/ Speaks \/ Drops \/ Refuses \/ UNCHANGED source
    BY <1>4 DEF Pump, PumpOpen, PumpMessage, PumpStops, PumpError, PumpRefused, PumpNone, Stops
  <2>4. rest' \in Seq(SpokenParts(request.family))
    BY <1>1, <2>3, SpokenSource
  <2>5. chan' = chan \/ \E x \in SpokenFrames \cup {Failure} : chan' = Append(chan, x)
    <3>1. CASE PumpMessage
      <4>1. Speaks /\ (chan' = chan \/ chan' = Append(chan, Frame(Head(rest))))
        BY <3>1 DEF PumpMessage
      <4>2. Frame(Head(rest)) \in SpokenFrames
        BY <1>1, <4>1, SpokenSource
      <4> QED BY <4>1, <4>2
    <3>2. CASE PumpError
      BY <3>2 DEF PumpError
    <3>3. CASE PumpRefused
      BY <3>3, ErrorIsSpoken DEF PumpRefused
    <3>4. CASE PumpOpen \/ PumpStops \/ PumpNone
      BY <3>4 DEF PumpOpen, PumpStops, PumpNone
    <3> QED BY <1>4, <3>1, <3>2, <3>3, <3>4 DEF Pump
  <2>6. chan' \in Seq(SpokenFrames \cup {Failure})
    BY <1>1, <2>5, AppendProperties
  <2> QED BY <1>2, <2>1, <2>2, <2>4, <2>6
<1>5. CASE PullFrame
  <2>1. PICK f, c : f = Head(chan) /\ c = Convert(f.of, f.e)
    OBVIOUS
  <2>2. /\ body = "open" /\ chan # <<>> /\ ~IsError(f) /\ chan' = Tail(chan) /\ tee' = Append(tee, f)
        /\ given' = IF c.r = "some" THEN Append(given, c.choices) ELSE given
        /\ rest' = rest /\ logged' = logged
    BY <1>5, <2>1 DEF PullFrame, Relayed, source, logger
  <2>3. f \in SpokenFrames \cup {Failure} /\ Tail(chan) \in Seq(SpokenFrames \cup {Failure})
    BY <1>1, <2>1, <2>2, HeadTailProperties
  <2>4. f \in SpokenFrames
    BY <2>2, <2>3, FrameIsNoError
  <2>5. f.of \in Families /\ Spoken(f.of, f.e)
    BY <2>4 DEF SpokenFrames, Frames
  <2>6. Taken' = Append(Taken, f)
    BY <2>1, <2>2, TakeFrame
  <2>7. PICK S : given \in Seq(S)
    BY DEF StreamInv, StreamTypes
  <2>8. Taken \in Seq(Frames)
    BY Copies DEF StreamInv, StreamTypes, Taken
  <2>9. PICK g, t, h : g = given /\ t = Taken /\ h = given'
    OBVIOUS
  <2>10. ASSUME NEW i \in Nat PROVE Even(h, Append(t, f), i)
    <3>1. Even(g, t, i) /\ g \in Seq(S) /\ t \in Seq(Frames)
      BY <1>1, <2>7, <2>8, <2>9
    <3>2. h = IF c.r = "some" THEN Append(g, c.choices) ELSE g
      BY <2>2, <2>9
    <3> QED BY <2>1, <2>5, <3>1, <3>2, EvenStep
  <2>11. \A i \in Nat : Even(given', Taken', i)
    BY <2>6, <2>9, <2>10
  <2> QED BY <1>0, <1>1, <2>2, <2>3, <2>11 DEF SpokenInv
<1>6. CASE PullError \/ PullEnd
  <2>1. given' = given /\ tee' = tee /\ logged' = logged /\ rest' = rest
        /\ (chan' = chan \/ (chan # <<>> /\ chan' = Tail(chan)))
    BY <1>6 DEF PullError, PullEnd, source, logger
  <2>2. Taken' = Taken
    BY <2>1 DEF Taken
  <2>3. chan' \in Seq(SpokenFrames \cup {Failure})
    BY <1>1, <2>1, HeadTailProperties
  <2> QED BY <1>1, <1>2, <2>1, <2>2, <2>3
<1>7. CASE Arrives \/ Collect \/ Collected \/ CollectFails
  BY <1>1, <1>7 DEF Arrives, Collect, Collected, CollectFails
<1>8. CASE Leave
  <2>1. given' = given /\ tee' = tee /\ logged' = logged /\ rest' = rest /\ chan' = chan
    BY <1>8 DEF Leave, source, logger
  <2>2. Taken' = Taken
    BY <2>1 DEF Taken
  <2> QED BY <1>1, <1>2, <2>1, <2>2
<1>9. CASE Log
  <2>1. given' = given /\ rest' = rest /\ chan' = chan
    BY <1>9 DEF Log, CollectFrame, CollectEnds, TimeOnly, SignUrl, PutBodies, ReadHeaders, PostRecord,
                LogFails, LogStep, source, client
  <2>2. Taken' = Taken
    BY <1>9, LogTaskStep
  <2> QED BY <1>1, <1>2, <2>1, <2>2
<1> QED BY <1>3, <1>4, <1>5, <1>6, <1>7, <1>8, <1>9 DEF Next, Pull

\* The text the client finds in choice i is the text of content block i.
THEOREM StreamTextIntact == Spec => []TextIntact
<1>1. StreamInv /\ SpokenInv /\ [Next]_vars => SpokenInv'
  <2>1. CASE UNCHANGED vars
    BY <2>1 DEF SpokenInv, Taken, vars, source, client, logger
  <2> QED BY <2>1, SpokenStep
<1>2. SpokenInv => TextIntact
  <2> SUFFICES ASSUME SpokenInv, request.streamed, NEW i \in 0..1
               PROVE  FlattenSeq([j \in DOMAIN given |-> TextIn(given[j], i)])
                        = FlattenSeq([j \in DOMAIN Taken |-> SaidIn(Taken[j], i)])
    BY DEF TextIntact
  <2>1. i \in Nat
    OBVIOUS
  <2>2. Even(given, Taken, i)
    BY <2>1 DEF SpokenInv
  <2> QED BY <2>2 DEF Even, TextsGiven, TextsSaid
<1> QED BY <1>1, <1>2, SpokenInit, StreamInvariant, PTL DEF Spec

-----------------------------------------------------------------------------
(* A name of a model *)

\* A segment is a word or a number.
LEMMA Segment ==
    ASSUME NEW s \in Seq(Segments), NEW j \in 1..Len(s)
    PROVE  /\ s[j] \in Segments /\ s[j].val \in Nat /\ s[j].width \in Nat
           /\ s[j].word \in Words
           /\ s[j].word = NoText \/ s[j].width = 0
           /\ s[j].width # 0 => s[j].word = NoText
<1>1. s[j] \in Segments
  OBVIOUS
<1> QED BY <1>1 DEF Segments

\* What a date looks like: one to three numbers, and the format says how many.
LEMMA DateShape ==
    ASSUME NEW s \in Seq(Segments), parse_date(s) # NoDate
    PROVE  /\ Len(s) \in 1..3
           /\ \A j \in 1..Len(s) : s[j].width # 0 /\ s[j].word = NoText
           /\ Len(s) = 1 <=> parse_date(s).fmt = "%Y%m%d"
           /\ Len(s) = 2 <=> parse_date(s).fmt = "%m-%d"
           /\ Len(s) = 3 <=> parse_date(s).fmt = "%Y-%m-%d"
           /\ Len(s) = 1 => s[1].width \in 7..8
           /\ Len(s) = 2 => s[1].width \in 1..2 /\ s[2].width \in 1..2
           /\ Len(s) = 3 => /\ s[1].width \in 1..4
                            /\ s[2].width \in 1..2 /\ s[3].width \in 1..2
<1>0. \A j \in 1..Len(s) : s[j].width # 0 => s[j].word = NoText
  BY Segment
<1>1. CASE Len(s) = 1
  <2>1. s[1].width \in 7..8 /\ parse_date(s).fmt = "%Y%m%d"
    BY <1>1 DEF parse_date
  <2> QED BY <1>0, <1>1, <2>1
<1>2. CASE Len(s) = 2
  <2>1. s[1].width \in 1..2 /\ s[2].width \in 1..2 /\ parse_date(s).fmt = "%m-%d"
    BY <1>2 DEF parse_date, Short
  <2> QED BY <1>0, <1>2, <2>1
<1>3. CASE Len(s) = 3
  <2>1. /\ s[1].width \in 1..4 /\ s[2].width \in 1..2 /\ s[3].width \in 1..2
        /\ parse_date(s).fmt = "%Y-%m-%d"
    BY <1>3 DEF parse_date, Short
  <2> QED BY <1>0, <1>3, <2>1
<1>4. CASE Len(s) \notin 1..3
  BY <1>4 DEF parse_date
<1> QED BY <1>1, <1>2, <1>3, <1>4

\* A full date is one or three numbers.
LEMMA DateFmt ==
    ASSUME NEW s \in Seq(Segments)
    PROVE  parse_date(s).fmt \in {"%Y-%m-%d", "%Y%m%d"}
             <=> parse_date(s) # NoDate /\ Len(s) \in {1, 3}
<1>1. NoDate.fmt = "none"
  BY DEF NoDate
<1>2. CASE parse_date(s) = NoDate
  BY <1>1, <1>2
<1>3. CASE parse_date(s) # NoDate
  BY <1>3, DateShape
<1> QED BY <1>2, <1>3

\* The month and the day of a date.
LEMMA DateBounds ==
    ASSUME NEW a, NEW b \in Nat, NEW c \in Nat, IsDate(a, b, c)
    PROVE  b \in 1..12 /\ c \in 1..31
<1>1. DaysIn(a, b) \in 28..31
  BY DEF DaysIn
<1> QED BY <1>1 DEF IsDate

\* A date of eight digits is taken apart into what it was put together from.
LEMMA CompactAgain ==
    ASSUME NEW a \in Nat, NEW b \in Nat, NEW c \in Nat, IsDate(a, b, c)
    PROVE  parse_date(<<Num(a * 10000 + b * 100 + c, 8)>>)
             = [fmt |-> "%Y%m%d", y |-> a, m |-> b, d |-> c]
<1> DEFINE x == a * 10000 + b * 100 + c
           t == <<Num(x, 8)>>
<1>1. b \in 0..99 /\ c \in 0..99
  BY DateBounds
<1>2. x \div 10000 = a /\ (x \div 100) % 100 = b /\ x % 100 = c
  <2>1. x \div 10000 = a
    BY <1>1
  <2>2. x \div 100 = a * 100 + b
    BY <1>1
  <2>3. (a * 100 + b) % 100 = b
    BY <1>1
  <2>4. x % 100 = c
    BY <1>1
  <2> QED BY <2>1, <2>2, <2>3, <2>4
<1> HIDE DEF x
<1>3. Len(t) = 1 /\ t[1].width = 8 /\ t[1].val = x
  BY DEF Num
<1> HIDE DEF t
<1>4. parse_date(t) = [fmt |-> "%Y%m%d", y |-> a, m |-> b, d |-> c]
  BY <1>2, <1>3 DEF parse_date
<1> QED BY <1>4 DEF t, x

\* chrono prints a date as segments that it reads as the same date.
LEMMA DateAgain ==
    ASSUME NEW s \in Seq(Segments), parse_date(s) # NoDate
    PROVE  /\ DateSegs(parse_date(s)) \in Seq(Segments)
           /\ Len(DateSegs(parse_date(s))) = Len(s)
           /\ parse_date(DateSegs(parse_date(s))) = parse_date(s)
<1>0. /\ \A j \in 1..Len(s) : s[j].val \in Nat /\ s[j].width \in Nat
      /\ Len(s) \in 1..3 /\ ThisYear \in Nat
  <2>1. \A j \in 1..Len(s) : s[j].val \in Nat /\ s[j].width \in Nat
    BY Segment
  <2>2. Len(s) \in 1..3
    BY DateShape
  <2>3. ThisYear \in Nat
    BY NamesConstants
  <2> QED BY <2>1, <2>2, <2>3
<1>1. \A n \in Nat, k \in Nat : Num(n, k) \in Segments
  BY NamesConstants DEF Num, Segments
<1>2. CASE Len(s) = 3
  <2>1. /\ parse_date(s) = [fmt |-> "%Y-%m-%d", y |-> s[1].val, m |-> s[2].val, d |-> s[3].val]
        /\ IsDate(s[1].val, s[2].val, s[3].val)
    BY <1>2 DEF parse_date
  <2> DEFINE t == <<Num(s[1].val, 4), Num(s[2].val, 2), Num(s[3].val, 2)>>
  <2>2. DateSegs(parse_date(s)) = t
    BY <2>1 DEF DateSegs
  <2>3. t \in Seq(Segments) /\ Len(t) = 3
    BY <1>0, <1>1, <1>2
  <2>4. /\ t[1].width = 4 /\ t[2].width = 2 /\ t[3].width = 2
        /\ t[1].val = s[1].val /\ t[2].val = s[2].val /\ t[3].val = s[3].val
    BY DEF Num
  <2> HIDE DEF t
  <2>5. parse_date(t) = [fmt |-> "%Y-%m-%d", y |-> s[1].val, m |-> s[2].val, d |-> s[3].val]
    BY <2>1, <2>3, <2>4 DEF parse_date, Short
  <2> QED BY <1>2, <2>1, <2>2, <2>3, <2>5
<1>3. CASE Len(s) = 2
  <2>1. /\ parse_date(s) = [fmt |-> "%m-%d", y |-> ThisYear, m |-> s[1].val, d |-> s[2].val]
        /\ IsDate(ThisYear, s[1].val, s[2].val)
    BY <1>3 DEF parse_date
  <2> DEFINE t == <<Num(s[1].val, 2), Num(s[2].val, 2)>>
  <2>2. DateSegs(parse_date(s)) = t
    BY <2>1 DEF DateSegs
  <2>3. t \in Seq(Segments) /\ Len(t) = 2
    BY <1>0, <1>1, <1>3
  <2>4. /\ t[1].width = 2 /\ t[2].width = 2
        /\ t[1].val = s[1].val /\ t[2].val = s[2].val
    BY DEF Num
  <2> HIDE DEF t
  <2>5. parse_date(t) = [fmt |-> "%m-%d", y |-> ThisYear, m |-> s[1].val, d |-> s[2].val]
    BY <2>1, <2>3, <2>4 DEF parse_date, Short
  <2> QED BY <1>3, <2>1, <2>2, <2>3, <2>5
<1>4. CASE Len(s) = 1
  <2> DEFINE k == IF s[1].width = 8 THEN 100 ELSE 10
             y == s[1].val \div (100 * k)
             m == (s[1].val \div k) % 100
             d == s[1].val % k
             t == <<Num(y * 10000 + m * 100 + d, 8)>>
  <2>1. /\ parse_date(s) = [fmt |-> "%Y%m%d", y |-> y, m |-> m, d |-> d]
        /\ IsDate(y, m, d)
    BY <1>4 DEF parse_date
  <2>2. y \in Nat /\ m \in Nat /\ d \in Nat
    BY <1>0, <1>4
  <2> HIDE DEF y, m, d, k
  <2>3. DateSegs(parse_date(s)) = t
    BY <2>1 DEF DateSegs
  <2>4. t \in Seq(Segments) /\ Len(t) = 1
    BY <1>1, <2>2
  <2>8. parse_date(t) = [fmt |-> "%Y%m%d", y |-> y, m |-> m, d |-> d]
    BY <2>1, <2>2, CompactAgain
  <2> HIDE DEF t
  <2> QED BY <1>4, <2>1, <2>3, <2>4, <2>8
<1> QED BY <1>0, <1>2, <1>3, <1>4

\* The least of a set of indices is in it,
LEMMA LeastOf ==
    ASSUME NEW T, T \subseteq Nat, T # {}
    PROVE  Least(T) \in T /\ \A j \in T : Least(T) <= j
  BY LeastNumber DEF Least

\* and so is the greatest.
LEMMA GreatestOf ==
    ASSUME NEW T, NEW n \in Nat, T \subseteq 0..n, T # {}
    PROVE  Greatest(T) \in T /\ \A j \in T : j <= Greatest(T)
<1> DEFINE D == {n - i : i \in T}
<1>1. D \subseteq Nat /\ D # {}
  <2>1. \A i \in T : n - i \in Nat
    OBVIOUS
  <2>2. PICK i \in T : TRUE
    OBVIOUS
  <2>3. n - i \in D
    BY <2>2
  <2> QED BY <2>1, <2>3
<1>2. PICK k \in D : \A m \in D : k <= m
  BY <1>1, LeastNumber
<1>3. PICK i \in T : k = n - i
  BY <1>2
<1>4. \A j \in T : j <= i
  <2> TAKE j \in T
  <2>1. n - j \in D
    OBVIOUS
  <2>2. k <= n - j /\ i \in Nat /\ j \in Nat
    BY <1>2, <2>1
  <2> QED BY <1>3, <2>2
<1> QED BY <1>3, <1>4 DEF Greatest

\* What is least is the least,
LEMMA LeastIs ==
    ASSUME NEW T, T \subseteq Nat, NEW i \in T, \A j \in T : i <= j
    PROVE  Least(T) = i
<1>1. Least(T) \in T /\ \A j \in T : Least(T) <= j
  BY LeastOf
<1>2. Least(T) \in Nat /\ i \in Nat /\ Least(T) <= i /\ i <= Least(T)
  BY <1>1
<1> QED BY <1>2

\* and what is greatest the greatest.
LEMMA GreatestIs ==
    ASSUME NEW T, T \subseteq Nat, NEW i \in T, \A j \in T : j <= i
    PROVE  Greatest(T) = i
<1>1. Greatest(T) \in T /\ \A j \in T : j <= Greatest(T)
  BY DEF Greatest
<1>2. Greatest(T) \in Nat /\ i \in Nat /\ Greatest(T) <= i /\ i <= Greatest(T)
  BY <1>1
<1> QED BY <1>2

-----------------------------------------------------------------------------
\* The parser, its parts named: what follows the first i segments, the places of
\* "preview", and the places before a full date and before any version.
After(s, i) == SubSeq(s, i + 1, Len(s))
Previews(s) == {i \in 2..(Len(s) - 1) : s[i].word = "preview"}
FullDates(s) ==
    {i \in 1..(Len(s) - 1) : parse_date(After(s, i)).fmt \in {"%Y-%m-%d", "%Y%m%d"}}
AnyVersions(s) == {i \in 1..(Len(s) - 1) : SuffixVersion(After(s, i)) # ImplicitLatest}
Split(s, i, v) == [model |-> SubSeq(s, 1, i), version |-> v]

\* The parser's rules, in its order.
LEMMA Parser ==
    ASSUME NEW s
    PROVE  parse_model_and_version(s) =
        IF Previews(s) # {} /\ parse_date(After(s, Greatest(Previews(s)))) # NoDate
        THEN Split(s, Greatest(Previews(s)) - 1,
                   Version("previewDate", parse_date(After(s, Greatest(Previews(s))))))
        ELSE IF Len(s) > 1 /\ s[Len(s)].word = "preview" THEN Split(s, Len(s) - 1, Preview)
        ELSE IF Len(s) > 1 /\ s[Len(s)].word = "latest" THEN Split(s, Len(s) - 1, Latest)
        ELSE IF FullDates(s) # {}
        THEN Split(s, Least(FullDates(s)),
                   Version("date", parse_date(After(s, Least(FullDates(s))))))
        ELSE IF AnyVersions(s) # {}
        THEN Split(s, Least(AnyVersions(s)), SuffixVersion(After(s, Least(AnyVersions(s)))))
        ELSE Split(s, Len(s), ImplicitLatest)
  BY DEF parse_model_and_version, After, Previews, FullDates, AnyVersions, Split

\* What is behind the first i segments of a name,
LEMMA AfterIs ==
    ASSUME NEW s \in Seq(Segments), NEW i \in 0..Len(s)
    PROVE  /\ After(s, i) \in Seq(Segments)
           /\ Len(After(s, i)) = Len(s) - i
           /\ \A k \in 1..(Len(s) - i) : After(s, i)[k] = s[i + k]
<1>1. \A k \in (i + 1)..Len(s) : s[k] \in Segments
  BY Segment
<1>2. i + 1 \in Int /\ Len(s) \in Int
  OBVIOUS
<1>3. /\ SubSeq(s, i + 1, Len(s)) \in Seq(Segments)
      /\ Len(SubSeq(s, i + 1, Len(s))) = IF i + 1 <= Len(s) THEN Len(s) - (i + 1) + 1 ELSE 0
      /\ \A k \in 1..(Len(s) - (i + 1) + 1) : SubSeq(s, i + 1, Len(s))[k] = s[(i + 1) + k - 1]
  BY <1>1, <1>2, SubSeqProperties
<1> QED BY <1>3 DEF After

\* and the first i.
LEMMA BeforeIs ==
    ASSUME NEW s \in Seq(Segments), NEW i \in 0..Len(s)
    PROVE  /\ SubSeq(s, 1, i) \in Seq(Segments)
           /\ Len(SubSeq(s, 1, i)) = i
           /\ \A k \in 1..i : SubSeq(s, 1, i)[k] = s[k]
<1>1. \A k \in 1..i : s[k] \in Segments
  BY Segment
<1>2. 1 \in Int /\ i \in Int
  OBVIOUS
<1>3. /\ SubSeq(s, 1, i) \in Seq(Segments)
      /\ Len(SubSeq(s, 1, i)) = IF 1 <= i THEN i - 1 + 1 ELSE 0
      /\ \A k \in 1..(i - 1 + 1) : SubSeq(s, 1, i)[k] = s[1 + k - 1]
  BY <1>1, <1>2, SubSeqProperties
<1> QED BY <1>3

\* A word is no part of a date.
LEMMA WordsAreNoDates ==
    ASSUME NEW s \in Seq(Segments), NEW i \in 0..Len(s), NEW k \in (i + 1)..Len(s),
           s[k].word # NoText
    PROVE  parse_date(After(s, i)) = NoDate
<1> DEFINE a == After(s, i)
<1>1. /\ a \in Seq(Segments) /\ Len(a) = Len(s) - i /\ \A j \in 1..(Len(s) - i) : a[j] = s[i + j]
  BY AfterIs
<1>2. parse_date(a) # NoDate => \A j \in 1..Len(a) : a[j].word = NoText
  BY <1>1, DateShape
<1> HIDE DEF a
<1>3. k - i \in 1..(Len(s) - i) /\ i + (k - i) = k
  OBVIOUS
<1>4. a[k - i] = s[k] /\ k - i \in 1..Len(a)
  BY <1>1, <1>3
<1> QED BY <1>2, <1>4 DEF a

\* A date that ends in a date is a full one, and ends in a month and a day.
LEMMA DateInDate ==
    ASSUME NEW s \in Seq(Segments), NEW i \in 0..Len(s), NEW j \in (i + 1)..Len(s),
           parse_date(After(s, i)) # NoDate, parse_date(After(s, j)) # NoDate
    PROVE  j = i + 1 /\ Len(s) = j + 2 /\ s[j].width \in 1..4
<1> DEFINE a == After(s, i)
           b == After(s, j)
<1>1. /\ a \in Seq(Segments) /\ Len(a) = Len(s) - i /\ \A k \in 1..(Len(s) - i) : a[k] = s[i + k]
  BY AfterIs
<1>2. j \in 0..Len(s)
  OBVIOUS
<1>3. /\ b \in Seq(Segments) /\ Len(b) = Len(s) - j /\ \A k \in 1..(Len(s) - j) : b[k] = s[j + k]
  BY <1>2, AfterIs
<1>5. /\ Len(a) \in 1..3
      /\ Len(a) = 2 => a[1].width \in 1..2 /\ a[2].width \in 1..2
      /\ Len(a) = 3 => a[1].width \in 1..4 /\ a[2].width \in 1..2 /\ a[3].width \in 1..2
  BY <1>1, DateShape
<1>6. /\ Len(b) \in 1..3
      /\ Len(b) = 1 => b[1].width \in 7..8
  BY <1>3, DateShape
<1> HIDE DEF a, b
<1>7. Len(b) < Len(a) /\ Len(s) \in Nat
  BY <1>1, <1>3
<1>8. ~(Len(b) = 1)
  <2> SUFFICES ASSUME Len(b) = 1 PROVE FALSE
    OBVIOUS
  <2>0. Len(s) - j = 1 /\ Len(s) - i \in 1..3
    BY <1>1, <1>3, <1>5
  <2>1. b[1] = s[Len(s)] /\ a[Len(a)] = s[Len(s)]
    <3>1. b[1] = s[j + 1] /\ j + 1 = Len(s)
      BY <2>0, <1>3
    <3>2. a[Len(s) - i] = s[i + (Len(s) - i)] /\ i + (Len(s) - i) = Len(s)
      BY <2>0, <1>1
    <3> QED BY <3>1, <3>2, <1>1
  <2>2. a[Len(a)].width \in 1..2
    BY <1>5, <1>7
  <2> QED BY <1>6, <2>1, <2>2
<1>9. Len(b) = 2 /\ Len(a) = 3
  <2>1. \A x, y \in 1..3 : y < x /\ ~(y = 1) => y = 2 /\ x = 3
    OBVIOUS
  <2>2. Len(a) \in 1..3 /\ Len(b) \in 1..3
    BY <1>5, <1>6
  <2> QED BY <1>7, <1>8, <2>1, <2>2
<1>10. a[1] = s[i + 1]
  BY <1>1, <1>9
<1>11. Len(s) - i = 3 /\ Len(s) - j = 2 /\ Len(s) \in Nat
  <2>1. Len(a) = Len(s) - i /\ Len(b) = Len(s) - j /\ Len(s) \in Nat
    BY <1>1, <1>3
  <2> QED BY <1>9, <2>1
<1>12. s[i + 1].width \in 1..4
  BY <1>5, <1>9, <1>10
<1>13. j = i + 1 /\ Len(s) = j + 2
  BY <1>11
<1> QED BY <1>12, <1>13

\* A word for a version is a word.
LEMMA VersionWords ==
    \A w \in LatestWords \cup PreviewWords : w # NoText
  BY Zenon DEF LatestWords, PreviewWords, NoText

WordVersion(w) == IF w \in LatestWords THEN Latest ELSE Preview

\* The versions are told apart.
LEMMA Kinds ==
    /\ \A d : Version("date", d) # ImplicitLatest
    /\ Latest # ImplicitLatest /\ Preview # ImplicitLatest /\ Latest # Preview
    /\ \A w : WordVersion(w) # ImplicitLatest
  BY DEF Version, ImplicitLatest, Latest, Preview, WordVersion

\* A suffix is a date, a word for a version or no version.
LEMMA SuffixIs ==
    ASSUME NEW s
    PROVE  /\ parse_date(s) # NoDate => SuffixVersion(s) = Version("date", parse_date(s))
           /\ parse_date(s) = NoDate /\ ~(Len(s) = 1 /\ s[1].word \in LatestWords \cup PreviewWords)
                 => SuffixVersion(s) = ImplicitLatest
           /\ parse_date(s) = NoDate /\ Len(s) = 1 /\ s[1].word \in LatestWords \cup PreviewWords
                 => SuffixVersion(s) = WordVersion(s[1].word)
  BY DEF SuffixVersion, WordVersion

\* How a name may be cut: before a dated preview, before a word for a version at
\* the end, or before a date that is not part of a longer one.
PreviewDateAt(s, i) ==
    /\ i \in 1..(Len(s) - 2) /\ s[i + 1].word = "preview"
    /\ parse_date(After(s, i + 1)) # NoDate
WordAt(s, i) ==
    i \in 1..(Len(s) - 1) /\ i = Len(s) - 1 /\ s[Len(s)].word \in LatestWords \cup PreviewWords
DateAt(s, i) ==
    /\ i \in 1..(Len(s) - 1) /\ parse_date(After(s, i)) # NoDate
    /\ i > 1 => s[i].word # "preview"
    /\ i > 1 /\ Len(s) = i + 2 => parse_date(After(s, i - 1)) = NoDate

\* Numbers are not words.
LEMMA DateWords ==
    ASSUME NEW s \in Seq(Segments), NEW i \in 0..Len(s), parse_date(After(s, i)) # NoDate,
           NEW k \in (i + 1)..Len(s)
    PROVE  s[k].word = NoText
  BY WordsAreNoDates

\* How a name is read that ends in a dated preview,
LEMMA ParsePreviewDate ==
    ASSUME NEW s \in Seq(Segments), NEW i, PreviewDateAt(s, i)
    PROVE  parse_model_and_version(s)
             = Split(s, i, Version("previewDate", parse_date(After(s, i + 1))))
<1>1. i \in Nat /\ i + 1 \in 0..Len(s) /\ i + 1 \in 2..(Len(s) - 1) /\ Len(s) \in Nat
  BY DEF PreviewDateAt
<1>2. i + 1 \in Previews(s) /\ Previews(s) \subseteq Nat
  BY <1>1 DEF Previews, PreviewDateAt
<1>3. \A k \in Previews(s) : k <= i + 1
  <2> SUFFICES ASSUME NEW k \in Previews(s), k > i + 1 PROVE FALSE
    BY <1>1, <1>2
  <2>1. k \in (i + 1 + 1)..Len(s) /\ s[k].word = "preview"
    BY <1>1 DEF Previews
  <2>2. s[k].word = NoText
    BY <1>1, <2>1, DateWords DEF PreviewDateAt
  <2> QED BY <2>1, <2>2, VersionWords DEF PreviewWords
<1>4. Greatest(Previews(s)) = i + 1
  BY <1>2, <1>3, GreatestIs
<1>5. Previews(s) # {} /\ (i + 1) - 1 = i
  BY <1>1, <1>2
<1> QED BY <1>4, <1>5, Parser DEF PreviewDateAt

\* A dated preview needs a date at the end.
LEMMA NoPreviewDate ==
    ASSUME NEW s \in Seq(Segments),
           \A j \in 2..(Len(s) - 1) : s[j].word = "preview" => parse_date(After(s, j)) = NoDate
    PROVE  ~(Previews(s) # {} /\ parse_date(After(s, Greatest(Previews(s)))) # NoDate)
<1> SUFFICES ASSUME Previews(s) # {} PROVE parse_date(After(s, Greatest(Previews(s)))) = NoDate
  OBVIOUS
<1>1. Previews(s) \subseteq 0..Len(s) /\ Len(s) \in Nat
  BY DEF Previews
<1>2. Greatest(Previews(s)) \in Previews(s)
  BY <1>1, GreatestOf
<1> QED BY <1>2 DEF Previews

\* in a word for a version,
LEMMA ParseWord ==
    ASSUME NEW s \in Seq(Segments), NEW i, WordAt(s, i)
    PROVE  parse_model_and_version(s) = Split(s, i, WordVersion(s[Len(s)].word))
<1> DEFINE n == Len(s)
           w == s[n].word
<1>1. n \in Nat /\ n > 1 /\ i = n - 1 /\ i \in 1..(n - 1) /\ w \in LatestWords \cup PreviewWords
  BY DEF WordAt
<1>2. w # NoText
  BY <1>1, VersionWords
<1>3. \A j \in 0..(n - 1) : parse_date(After(s, j)) = NoDate
  <2> TAKE j \in 0..(n - 1)
  <2>1. j \in 0..n /\ n \in (j + 1)..n
    BY <1>1
  <2> QED BY <1>2, <2>1, WordsAreNoDates
<1>4. ~(Previews(s) # {} /\ parse_date(After(s, Greatest(Previews(s)))) # NoDate)
  <2>1. \A j \in 2..(n - 1) : parse_date(After(s, j)) = NoDate
    BY <1>1, <1>3
  <2> QED BY <2>1, NoPreviewDate
<1>5. CASE w = "preview"
  <2>1. w \notin LatestWords
    BY <1>5 DEF LatestWords
  <2>2. WordVersion(w) = Preview
    BY <2>1 DEF WordVersion
  <2> QED BY <1>1, <1>4, <1>5, <2>2, Parser
<1>6. CASE w = "latest"
  <2>1. w \in LatestWords /\ w # "preview"
    BY <1>6 DEF LatestWords
  <2>2. WordVersion(w) = Latest
    BY <2>1 DEF WordVersion
  <2> QED BY <1>1, <1>4, <1>6, <2>1, <2>2, Parser
<1>7. CASE w # "preview" /\ w # "latest"
  <2>1. FullDates(s) = {}
    <3>1. \A j \in 1..(n - 1) : parse_date(After(s, j)) = NoDate
      BY <1>3
    <3>2. NoDate.fmt \notin {"%Y-%m-%d", "%Y%m%d"}
      BY DEF NoDate
    <3> QED BY <3>1, <3>2 DEF FullDates
  <2>2. Len(After(s, i)) = 1 /\ After(s, i)[1] = s[n] /\ parse_date(After(s, i)) = NoDate
    <3>1. i \in 0..n /\ n - i = 1 /\ i + 1 = n /\ i \in 0..(n - 1)
      BY <1>1
    <3>2. Len(After(s, i)) = n - i /\ \A k \in 1..(n - i) : After(s, i)[k] = s[i + k]
      BY <3>1, AfterIs
    <3> QED BY <1>3, <3>1, <3>2
  <2>3. SuffixVersion(After(s, i)) = WordVersion(w)
    BY <1>1, <2>2, SuffixIs
  <2>4. i \in AnyVersions(s) /\ AnyVersions(s) \subseteq Nat
    BY <1>1, <2>3, Kinds DEF AnyVersions
  <2>5. \A j \in AnyVersions(s) : i <= j
    <3> SUFFICES ASSUME NEW j \in 1..(n - 1), j < i PROVE SuffixVersion(After(s, j)) = ImplicitLatest
      BY <1>1 DEF AnyVersions
    <3>1. j \in 0..n /\ n - j > 1 /\ j \in 0..(n - 1)
      BY <1>1
    <3>2. Len(After(s, j)) = n - j
      BY <3>1, AfterIs
    <3>3. Len(After(s, j)) # 1
      BY <1>1, <3>1, <3>2
    <3> QED BY <1>3, <3>1, <3>3, SuffixIs
  <2>6. Least(AnyVersions(s)) = i
    BY <2>4, <2>5, LeastIs
  <2> QED BY <1>4, <1>7, <2>1, <2>3, <2>4, <2>6, Parser
<1> QED BY <1>5, <1>6, <1>7

\* in a date.
LEMMA ParseDate ==
    ASSUME NEW s \in Seq(Segments), NEW i, DateAt(s, i)
    PROVE  parse_model_and_version(s) = Split(s, i, Version("date", parse_date(After(s, i))))
<1> DEFINE n == Len(s)
           date(j) == parse_date(After(s, j))
<1>1. n \in Nat /\ i \in 1..(n - 1) /\ i \in 0..n /\ i \in Nat /\ date(i) # NoDate
  BY DEF DateAt
<1>2. \A k \in (i + 1)..n : s[k].word = NoText
  BY <1>1, DateWords
<1>3. \A j \in 1..(i - 1) : date(j) = NoDate
  <2> SUFFICES ASSUME NEW j \in 1..(i - 1), date(j) # NoDate PROVE FALSE
    OBVIOUS
  <2>1. j \in 0..n /\ i \in (j + 1)..n /\ i > 1
    BY <1>1
  <2>2. i = j + 1 /\ n = i + 2
    BY <1>1, <2>1, DateInDate
  <2>3. j = i - 1
    BY <1>1, <2>1, <2>2
  <2> QED BY <2>1, <2>2, <2>3 DEF DateAt
<1>4. ~(Previews(s) # {} /\ parse_date(After(s, Greatest(Previews(s)))) # NoDate)
  <2>1. \A j \in 2..(n - 1) : s[j].word = "preview" => date(j) = NoDate
    <3> SUFFICES ASSUME NEW j \in 2..(n - 1), s[j].word = "preview" PROVE date(j) = NoDate
      OBVIOUS
    <3>1. CASE j < i
      BY <1>1, <1>3, <3>1
    <3>2. CASE j = i
      BY <3>2 DEF DateAt
    <3>3. CASE j > i
      <4>1. j \in (i + 1)..n
        BY <1>1, <3>3
      <4> QED BY <1>2, <4>1, VersionWords DEF PreviewWords
    <3> QED BY <1>1, <3>1, <3>2, <3>3
  <2> QED BY <2>1, NoPreviewDate
<1>5. s[n].word # "preview" /\ s[n].word # "latest"
  <2>1. n \in (i + 1)..n
    BY <1>1
  <2> QED BY <1>2, <2>1, VersionWords DEF PreviewWords, LatestWords
<1>6. After(s, i) \in Seq(Segments) /\ Len(After(s, i)) = n - i
  BY <1>1, AfterIs
<1>7. CASE Len(After(s, i)) \in {1, 3}
  <2>1. i \in FullDates(s) /\ FullDates(s) \subseteq Nat
    <3>1. date(i).fmt \in {"%Y-%m-%d", "%Y%m%d"}
      BY <1>1, <1>6, <1>7, DateFmt
    <3> QED BY <1>1, <3>1 DEF FullDates
  <2>2. \A j \in FullDates(s) : i <= j
    <3> SUFFICES ASSUME NEW j \in FullDates(s), j < i PROVE FALSE
      BY <1>1, <2>1
    <3>1. j \in 1..(i - 1) /\ date(j).fmt \in {"%Y-%m-%d", "%Y%m%d"}
      BY <1>1, <2>1 DEF FullDates
    <3> QED BY <1>3, <3>1 DEF NoDate
  <2>3. Least(FullDates(s)) = i
    BY <2>1, <2>2, LeastIs
  <2> QED BY <1>4, <1>5, <2>1, <2>3, Parser
<1>8. CASE Len(After(s, i)) \notin {1, 3}
  <2>1. Len(After(s, i)) = 2
    <3>1. Len(After(s, i)) \in 1..3
      BY <1>1, <1>6, DateShape
    <3> QED BY <1>8, <3>1
  <2>2. FullDates(s) = {}
    <3> SUFFICES ASSUME NEW j \in 1..(n - 1), date(j).fmt \in {"%Y-%m-%d", "%Y%m%d"} PROVE FALSE
      BY DEF FullDates
    <3>1. j \in 0..n /\ j \in Nat
      BY <1>1
    <3>2. After(s, j) \in Seq(Segments) /\ Len(After(s, j)) = n - j
      BY <3>1, AfterIs
    <3>3. date(j) # NoDate /\ Len(After(s, j)) \in {1, 3}
      BY <3>2, DateFmt
    <3>4. ~(j < i)
      <4> SUFFICES ASSUME j < i PROVE FALSE
        OBVIOUS
      <4>1. j \in 1..(i - 1)
        BY <1>1
      <4> QED BY <1>3, <3>3, <4>1
    <3>5. n - j \in {1, 3} /\ n - i = 2
      BY <1>6, <2>1, <3>2, <3>3
    <3>6. j \in (i + 1)..n
      BY <1>1, <3>1, <3>4, <3>5
    <3>7. n = j + 2
      BY <1>1, <3>3, <3>6, DateInDate
    <3> QED BY <1>1, <3>1, <3>5, <3>6, <3>7
  <2>3. SuffixVersion(After(s, i)) = Version("date", date(i))
    BY <1>1, SuffixIs
  <2>4. i \in AnyVersions(s) /\ AnyVersions(s) \subseteq Nat
    BY <1>1, <2>3, Kinds DEF AnyVersions
  <2>5. \A j \in AnyVersions(s) : i <= j
    <3> SUFFICES ASSUME NEW j \in 1..(n - 1), j < i PROVE SuffixVersion(After(s, j)) = ImplicitLatest
      BY <1>1 DEF AnyVersions
    <3>1. j \in 0..n /\ n - j > 1 /\ j \in 1..(i - 1)
      BY <1>1
    <3>2. Len(After(s, j)) = n - j
      BY <3>1, AfterIs
    <3>3. Len(After(s, j)) # 1
      BY <1>1, <3>1, <3>2
    <3> QED BY <1>3, <3>1, <3>3, SuffixIs
  <2>6. Least(AnyVersions(s)) = i
    BY <2>4, <2>5, LeastIs
  <2> QED BY <1>4, <1>5, <2>2, <2>3, <2>4, <2>6, Parser
<1> QED BY <1>7, <1>8

\* Whatever the name, the parser leaves it whole or cuts it in one of these ways.
LEMMA Outcomes ==
    ASSUME NEW s \in Seq(Segments)
    PROVE  \/ parse_model_and_version(s) = [model |-> s, version |-> ImplicitLatest]
           \/ \E i \in Nat : PreviewDateAt(s, i) \/ WordAt(s, i) \/ DateAt(s, i)
<1> DEFINE n == Len(s)
           date(j) == parse_date(After(s, j))
<1> SUFFICES ASSUME \A i \in Nat : ~PreviewDateAt(s, i) /\ ~WordAt(s, i) /\ ~DateAt(s, i)
             PROVE  parse_model_and_version(s) = [model |-> s, version |-> ImplicitLatest]
  OBVIOUS
<1>0. n \in Nat
  OBVIOUS
<1>1. \A j \in 2..(n - 1) : s[j].word = "preview" => date(j) = NoDate
  <2> SUFFICES ASSUME NEW j \in 2..(n - 1), s[j].word = "preview", date(j) # NoDate PROVE FALSE
    OBVIOUS
  <2>1. j - 1 \in 1..(n - 2) /\ j - 1 \in Nat /\ (j - 1) + 1 = j
    BY <1>0
  <2>2. PreviewDateAt(s, j - 1)
    BY <2>1 DEF PreviewDateAt
  <2> QED BY <2>1, <2>2
<1>2. ~(Previews(s) # {} /\ parse_date(After(s, Greatest(Previews(s)))) # NoDate)
  BY <1>1, NoPreviewDate
<1>3. ~(n > 1 /\ s[n].word \in LatestWords \cup PreviewWords)
  <2> SUFFICES ASSUME n > 1, s[n].word \in LatestWords \cup PreviewWords PROVE FALSE
    OBVIOUS
  <2>1. n - 1 \in 1..(n - 1) /\ n - 1 \in Nat
    BY <1>0
  <2> QED BY <2>1 DEF WordAt
<1>4. ~(n > 1 /\ s[n].word = "preview") /\ ~(n > 1 /\ s[n].word = "latest")
  BY <1>3 DEF LatestWords, PreviewWords
<1>5. ASSUME NEW i \in 1..(n - 1), date(i) # NoDate,
             i > 1 /\ n = i + 2 => date(i - 1) = NoDate
      PROVE  FALSE
  <2>1. i > 1 => s[i].word # "preview"
    BY <1>0, <1>1, <1>5
  <2>2. DateAt(s, i)
    BY <1>5, <2>1 DEF DateAt
  <2> QED BY <2>2
<1>6. ASSUME NEW i \in 1..(n - 1), i > 1, n = i + 2, date(i - 1) # NoDate
      PROVE  i - 1 \in FullDates(s)
  <2>1. i - 1 \in 0..n /\ i - 1 \in 1..(n - 1) /\ n - (i - 1) = 3
    BY <1>0, <1>6
  <2>2. After(s, i - 1) \in Seq(Segments) /\ Len(After(s, i - 1)) = n - (i - 1)
    BY <2>1, AfterIs
  <2>3. date(i - 1).fmt \in {"%Y-%m-%d", "%Y%m%d"}
    BY <1>6, <2>1, <2>2, DateFmt
  <2> QED BY <2>1, <2>3 DEF FullDates
<1>7. FullDates(s) = {}
  <2> SUFFICES ASSUME FullDates(s) # {} PROVE FALSE
    OBVIOUS
  <2> DEFINE i == Least(FullDates(s))
  <2>1. FullDates(s) \subseteq Nat
    BY DEF FullDates
  <2>2. i \in FullDates(s) /\ \A j \in FullDates(s) : i <= j
    BY <2>1, LeastOf
  <2> HIDE DEF i
  <2>3. i \in 1..(n - 1) /\ date(i).fmt \in {"%Y-%m-%d", "%Y%m%d"}
    BY <2>2 DEF FullDates
  <2>4. date(i) # NoDate
    BY <2>3 DEF NoDate
  <2>5. i > 1 /\ n = i + 2 => date(i - 1) = NoDate
    <3> SUFFICES ASSUME i > 1, n = i + 2, date(i - 1) # NoDate PROVE FALSE
      OBVIOUS
    <3>1. i - 1 \in FullDates(s)
      BY <1>6, <2>3
    <3>2. i <= i - 1
      BY <2>2, <3>1
    <3> QED BY <2>3, <3>2
  <2> QED BY <1>5, <2>3, <2>4, <2>5
<1>8. AnyVersions(s) = {}
  <2> SUFFICES ASSUME NEW i \in 1..(n - 1), SuffixVersion(After(s, i)) # ImplicitLatest PROVE FALSE
    BY DEF AnyVersions
  <2>1. CASE date(i) # NoDate
    <3>1. i > 1 /\ n = i + 2 => date(i - 1) = NoDate
      BY <1>6, <1>7
    <3> QED BY <1>5, <2>1, <3>1
  <2>2. CASE date(i) = NoDate
    <3>1. Len(After(s, i)) = 1 /\ After(s, i)[1].word \in LatestWords \cup PreviewWords
      BY <2>2, SuffixIs
    <3>2. i \in 0..n
      BY <1>0
    <3>3. Len(After(s, i)) = n - i /\ \A k \in 1..(n - i) : After(s, i)[k] = s[i + k]
      BY <3>2, AfterIs
    <3>4. n - i = 1 /\ i + 1 = n /\ n > 1
      <4>1. n - i = 1
        BY <3>1, <3>3
      <4> QED BY <1>0, <4>1
    <3>5. After(s, i)[1] = s[n]
      BY <3>3, <3>4
    <3> QED BY <1>3, <3>1, <3>4, <3>5
  <2> QED BY <2>1, <2>2
<1>9. SubSeq(s, 1, n) = s
  BY SubSeqFull
<1> QED BY <1>2, <1>4, <1>7, <1>8, <1>9, Parser DEF Split

\* Two parts of a name, joined.
LEMMA Joined ==
    ASSUME NEW b \in Seq(Segments), NEW u \in Seq(Segments)
    PROVE  /\ b \o u \in Seq(Segments) /\ Len(b \o u) = Len(b) + Len(u)
           /\ \A k \in 1..Len(b) : (b \o u)[k] = b[k]
           /\ \A k \in 1..Len(u) : (b \o u)[Len(b) + k] = u[k]
           /\ After(b \o u, Len(b)) = u
           /\ SubSeq(b \o u, 1, Len(b)) = b
<1> DEFINE t == b \o u
<1>1. /\ t \in Seq(Segments) /\ Len(t) = Len(b) + Len(u)
      /\ \A k \in 1..(Len(b) + Len(u)) : t[k] = IF k <= Len(b) THEN b[k] ELSE u[k - Len(b)]
  BY ConcatProperties
<1>2. Len(b) \in Nat /\ Len(u) \in Nat
  OBVIOUS
<1> HIDE DEF t
<1>3. \A k \in 1..Len(b) : t[k] = b[k]
  BY <1>1, <1>2
<1>4. \A k \in 1..Len(u) : t[Len(b) + k] = u[k]
  <2> TAKE k \in 1..Len(u)
  <2>1. Len(b) + k \in 1..(Len(b) + Len(u)) /\ ~(Len(b) + k <= Len(b)) /\ (Len(b) + k) - Len(b) = k
    BY <1>2
  <2> QED BY <1>1, <2>1
<1>5. Len(b) \in 0..Len(t)
  BY <1>1, <1>2
<1>6. After(t, Len(b)) = u
  <2>1. /\ After(t, Len(b)) \in Seq(Segments) /\ Len(After(t, Len(b))) = Len(t) - Len(b)
        /\ \A k \in 1..(Len(t) - Len(b)) : After(t, Len(b))[k] = t[Len(b) + k]
    BY <1>1, <1>5, AfterIs
  <2>2. Len(t) - Len(b) = Len(u)
    BY <1>1, <1>2
  <2> QED BY <1>4, <2>1, <2>2, SeqEqual
<1>7. SubSeq(t, 1, Len(b)) = b
  <2>1. /\ SubSeq(t, 1, Len(b)) \in Seq(Segments) /\ Len(SubSeq(t, 1, Len(b))) = Len(b)
        /\ \A k \in 1..Len(b) : SubSeq(t, 1, Len(b))[k] = t[k]
    BY <1>1, <1>5, BeforeIs
  <2> QED BY <1>3, <2>1, SeqEqual
<1> QED BY <1>1, <1>3, <1>4, <1>6, <1>7 DEF t

\* How a version is printed.
LEMMA VersionsPrinted ==
    /\ VersionSegs(ImplicitLatest) = <<>>
    /\ VersionSegs(Latest) = <<Word("latest")>>
    /\ VersionSegs(Preview) = <<Word("preview")>>
    /\ \A d : VersionSegs(Version("date", d)) = DateSegs(d)
    /\ \A d : VersionSegs(Version("previewDate", d)) = <<Word("preview")>> \o DateSegs(d)
  BY DEF VersionSegs, Version, ImplicitLatest, Latest, Preview

\* The words of a version are segments.
LEMMA WordSegments ==
    /\ \A w \in Words : Word(w) \in Segments /\ Word(w).word = w
    /\ Word("latest") \in Segments /\ Word("preview") \in Segments
    /\ Word("latest").word = "latest" /\ Word("preview").word = "preview"
<1>1. \A w \in Words : Word(w) \in Segments /\ Word(w).word = w
  BY DEF Word, Segments
<1>2. "latest" \in Words /\ "preview" \in Words
  BY NamesConstants DEF LatestWords, PreviewWords
<1> QED BY <1>1, <1>2

\* A month and a day make a full date with the year before them whether or not
\* they are padded.
LEMMA YearBefore ==
    ASSUME NEW s \in Seq(Segments), Len(s) = 2, parse_date(s) # NoDate, NEW x \in Segments,
           parse_date(<<x>> \o DateSegs(parse_date(s))) # NoDate
    PROVE  parse_date(<<x>> \o s) # NoDate
<1> DEFINE t == <<Num(s[1].val, 2), Num(s[2].val, 2)>>
           a == <<x>> \o t
           b == <<x>> \o s
<1>1. parse_date(s) = [fmt |-> "%m-%d", y |-> ThisYear, m |-> s[1].val, d |-> s[2].val]
  BY DEF parse_date
<1>2. DateSegs(parse_date(s)) = t
  BY <1>1 DEF DateSegs
<1>3. Len(s) = 2 /\ s[1].width \in 1..2 /\ s[2].width \in 1..2
  BY DateShape
<1>4. /\ Len(a) = 3 /\ a[1] = x /\ a[2] = Num(s[1].val, 2) /\ a[3] = Num(s[2].val, 2)
  OBVIOUS
<1>5. Len(b) = 3 /\ b[1] = x /\ b[2] = s[1] /\ b[3] = s[2]
  <2>1. <<x>> \in Seq(Segments) /\ Len(<<x>>) = 1 /\ <<x>>[1] = x
    OBVIOUS
  <2> DEFINE f == <<x>>
  <2> HIDE DEF f
  <2>2. /\ Len(f \o s) = Len(f) + Len(s)
        /\ \A k \in 1..Len(f) : (f \o s)[k] = f[k]
        /\ \A k \in 1..Len(s) : (f \o s)[Len(f) + k] = s[k]
    BY <2>1, Joined DEF f
  <2>3. Len(f) = 1 /\ f[1] = x
    BY <2>1 DEF f
  <2> QED BY <2>2, <2>3 DEF f
<1>6. a[2].val = s[1].val /\ a[3].val = s[2].val
  BY <1>4 DEF Num
<1>7. parse_date(a) # NoDate
  BY <1>2
<1> HIDE DEF a, b
<1>8. x.width \in 1..4 /\ IsDate(x.val, s[1].val, s[2].val)
  BY <1>4, <1>6, <1>7 DEF parse_date
<1>9. parse_date(b).fmt = "%Y-%m-%d"
  BY <1>3, <1>5, <1>8 DEF parse_date, Short
<1> QED BY <1>9 DEF b, NoDate

\* A model and a version, printed
Printed(p) == p.model \o VersionSegs(p.version)

\* A name parsed as p and printed: as long as it was, read back as the same model
\* and version, and not blank at the end unless it was.
Steady(s, p) ==
    /\ p.model \in Seq(Segments) /\ VersionSegs(p.version) \in Seq(Segments)
    /\ Printed(p) \in Seq(Segments) /\ Len(Printed(p)) = Len(s)
    /\ parse_model_and_version(Printed(p)) = p
    /\ Len(s) > 0 /\ s[Len(s)] # Blank => Printed(p)[Len(s)] # Blank

\* A model, "preview" and a date are read as such.
LEMMA PreviewPrinted ==
    ASSUME NEW m \in Seq(Segments), m # <<>>, NEW u \in Seq(Segments), parse_date(u) # NoDate,
           NEW w, w = <<Word("preview")>>
    PROVE  /\ w \o u \in Seq(Segments) /\ m \o (w \o u) \in Seq(Segments)
           /\ Len(m \o (w \o u)) = Len(m) + Len(w \o u)
           /\ parse_model_and_version(m \o (w \o u))
                = [model |-> m, version |-> Version("previewDate", parse_date(u))]
           /\ (m \o (w \o u))[Len(m \o (w \o u))] # Blank
<1>1. w \in Seq(Segments) /\ Len(w) = 1 /\ w[1].word = "preview"
  <2>1. Word("preview") \in Segments /\ Word("preview").word = "preview"
    BY WordSegments
  <2> QED BY <2>1
<1>2. PICK c : c = w \o u
  OBVIOUS
<1>3. PICK b : b = m \o w
  OBVIOUS
<1>4. PICK t : t = m \o c
  OBVIOUS
<1>5. c \in Seq(Segments)
  BY <1>1, <1>2, ConcatProperties
<1>6. t \in Seq(Segments) /\ Len(t) = Len(m) + Len(c) /\ SubSeq(t, 1, Len(m)) = m
  <2>1. /\ m \o c \in Seq(Segments) /\ Len(m \o c) = Len(m) + Len(c)
        /\ SubSeq(m \o c, 1, Len(m)) = m
    BY <1>5, Joined
  <2> QED BY <1>4, <2>1
<1>7. t = b \o u
  BY <1>1, <1>2, <1>3, <1>4, ConcatAssociative
<1>8. b \in Seq(Segments) /\ Len(b) = Len(m) + Len(w)
      /\ \A k \in 1..Len(w) : b[Len(m) + k] = w[k]
  BY <1>1, <1>3, Joined
<1>9. Len(b) = Len(m) + 1 /\ b[Len(m) + 1].word = "preview"
  BY <1>1, <1>8
<1>10. /\ Len(t) = Len(b) + Len(u)
       /\ \A k \in 1..Len(b) : t[k] = b[k]
       /\ \A k \in 1..Len(u) : t[Len(b) + k] = u[k]
       /\ After(t, Len(b)) = u
  <2>1. b \in Seq(Segments)
    BY <1>8
  <2>2. /\ Len(b \o u) = Len(b) + Len(u)
        /\ \A k \in 1..Len(b) : (b \o u)[k] = b[k]
        /\ \A k \in 1..Len(u) : (b \o u)[Len(b) + k] = u[k]
        /\ After(b \o u, Len(b)) = u
    BY <2>1, Joined
  <2> QED BY <1>7, <2>2
<1>11. /\ Len(u) \in Nat \ {0} /\ u[Len(u)].width # 0
       /\ Len(m) \in Nat \ {0}
  <2>1. Len(u) \in 1..3 /\ \A k \in 1..Len(u) : u[k].width # 0
    BY DateShape
  <2> QED BY <2>1
<1>12. t[Len(m) + 1].word = "preview"
  <2>1. Len(m) + 1 \in 1..Len(b)
    BY <1>9
  <2> QED BY <1>9, <1>10, <2>1
<1>13. PreviewDateAt(t, Len(m))
  <2>1. Len(m) \in 1..(Len(t) - 2)
    BY <1>9, <1>10, <1>11
  <2> QED BY <1>9, <1>10, <1>12, <2>1 DEF PreviewDateAt
<1>14. parse_model_and_version(t)
         = Split(t, Len(m), Version("previewDate", parse_date(After(t, Len(m) + 1))))
  BY <1>6, <1>13, ParsePreviewDate
<1>15. parse_model_and_version(t) = [model |-> m, version |-> Version("previewDate", parse_date(u))]
  BY <1>6, <1>9, <1>10, <1>14 DEF Split
<1>16. t[Len(t)] # Blank
  <2>1. t[Len(b) + Len(u)] = u[Len(u)]
    BY <1>10, <1>11
  <2>2. t[Len(t)].width # 0
    BY <1>10, <1>11, <2>1
  <2> QED BY <2>2 DEF Blank, Word
<1> QED BY <1>2, <1>4, <1>5, <1>6, <1>15, <1>16

\* A name with a dated preview, printed, is read as it was;
LEMMA PreviewDateAgain ==
    ASSUME NEW s \in Seq(Segments), NEW i \in Nat, PreviewDateAt(s, i)
    PROVE  Steady(s, parse_model_and_version(s))
<1>1. PICK n, d, m, u, w, p :
          /\ n = Len(s) /\ d = parse_date(After(s, i + 1)) /\ m = SubSeq(s, 1, i)
          /\ u = DateSegs(d) /\ w = <<Word("preview")>> /\ p = parse_model_and_version(s)
  OBVIOUS
<1>2. n \in Nat /\ i \in 1..(n - 2) /\ i \in 0..n /\ i + 1 \in 0..n /\ d # NoDate
  BY <1>1 DEF PreviewDateAt
<1>3. p = [model |-> m, version |-> Version("previewDate", d)]
  BY <1>1, ParsePreviewDate DEF Split
<1>4. m \in Seq(Segments) /\ Len(m) = i
  BY <1>1, <1>2, BeforeIs
<1>5. u \in Seq(Segments) /\ Len(u) = n - (i + 1) /\ parse_date(u) = d
  <2>1. After(s, i + 1) \in Seq(Segments) /\ Len(After(s, i + 1)) = n - (i + 1)
    BY <1>1, <1>2, AfterIs
  <2> QED BY <1>1, <1>2, <2>1, DateAgain
<1>6. VersionSegs(p.version) = w \o u /\ p.model = m
  BY <1>1, <1>3, VersionsPrinted
<1>7. Printed(p) = m \o (w \o u)
  BY <1>6 DEF Printed
<1>8. m # <<>>
  BY <1>2, <1>4
<1>9. /\ w \o u \in Seq(Segments) /\ m \o (w \o u) \in Seq(Segments)
      /\ Len(m \o (w \o u)) = Len(m) + Len(w \o u)
      /\ parse_model_and_version(m \o (w \o u))
           = [model |-> m, version |-> Version("previewDate", parse_date(u))]
      /\ (m \o (w \o u))[Len(m \o (w \o u))] # Blank
  <2>1. m \in Seq(Segments) /\ u \in Seq(Segments) /\ parse_date(u) # NoDate
    BY <1>2, <1>4, <1>5
  <2>2. w = <<Word("preview")>>
    BY <1>1
  <2> QED BY <1>8, <2>1, <2>2, PreviewPrinted
<1>10. Len(w \o u) = n - i
  <2>1. w \in Seq(Segments) /\ Len(w) = 1
    BY <1>1, WordSegments
  <2>2. Len(w \o u) = Len(w) + Len(u)
    BY <1>5, <2>1, Joined
  <2> QED BY <1>2, <1>5, <2>1, <2>2
<1>11. Len(Printed(p)) = n
  BY <1>2, <1>4, <1>7, <1>9, <1>10
<1>12. Printed(p) \in Seq(Segments) /\ Printed(p)[n] # Blank
  BY <1>7, <1>9, <1>11
<1>13. parse_model_and_version(Printed(p)) = p
  BY <1>3, <1>5, <1>7, <1>9
<1> QED BY <1>1, <1>4, <1>6, <1>9, <1>11, <1>12, <1>13 DEF Steady

\* so is one with a word for a version,
LEMMA WordAgain ==
    ASSUME NEW s \in Seq(Segments), NEW i \in Nat, WordAt(s, i)
    PROVE  Steady(s, parse_model_and_version(s))
<1> DEFINE n == Len(s)
           v == WordVersion(s[n].word)
           m == SubSeq(s, 1, i)
           w == IF s[n].word \in LatestWords THEN "latest" ELSE "preview"
           u == <<Word(w)>>
           t == m \o u
           p == parse_model_and_version(s)
<1>1. n \in Nat /\ i \in 1..(n - 1) /\ i = n - 1 /\ i \in 0..n
  BY DEF WordAt
<1>2. p = Split(s, i, v)
  BY ParseWord
<1>3. m \in Seq(Segments) /\ Len(m) = i
  BY <1>1, BeforeIs
<1>4. w \in LatestWords \cup PreviewWords /\ WordVersion(w) = v /\ w \in Words
  <2>1. w \in LatestWords \cup PreviewWords /\ WordVersion(w) = v
    BY DEF LatestWords, PreviewWords, WordVersion
  <2> QED BY <2>1, NamesConstants
<1>5. VersionSegs(v) = u
  BY VersionsPrinted DEF WordVersion
<1>6. u \in Seq(Segments) /\ Len(u) = 1 /\ u[1].word = w
  BY <1>4, WordSegments
<1> HIDE DEF m, u, w, v, n
<1>7. /\ t \in Seq(Segments) /\ Len(t) = i + 1
      /\ \A k \in 1..1 : t[i + k] = u[k]
      /\ SubSeq(t, 1, i) = m
  <2>1. /\ t \in Seq(Segments) /\ Len(t) = Len(m) + Len(u)
        /\ \A k \in 1..Len(u) : t[Len(m) + k] = u[k]
        /\ SubSeq(t, 1, Len(m)) = m
    BY <1>3, <1>6, Joined
  <2> HIDE DEF t
  <2> QED BY <1>3, <1>6, <2>1
<1>8. p.model = m /\ p.version = v /\ Printed(p) = t
  BY <1>2, <1>5 DEF Printed, Split, m
<1> HIDE DEF t
<1>9. Len(t) = n /\ t[n].word = w
  BY <1>1, <1>6, <1>7
<1>10. WordAt(t, i)
  BY <1>1, <1>4, <1>9 DEF WordAt
<1>11. parse_model_and_version(t) = Split(t, i, WordVersion(w))
  BY <1>7, <1>9, <1>10, ParseWord
<1>12. parse_model_and_version(t) = p
  BY <1>2, <1>4, <1>7, <1>11 DEF Split, m
<1>13. t[n] # Blank
  <2>1. w # NoText
    BY <1>4, VersionWords
  <2> QED BY <1>9, <2>1 DEF Blank, Word
<1> QED BY <1>3, <1>5, <1>6, <1>7, <1>8, <1>9, <1>12, <1>13 DEF Steady, n

\* and one with a date.
LEMMA DatedAgain ==
    ASSUME NEW s \in Seq(Segments), NEW i \in Nat, DateAt(s, i)
    PROVE  Steady(s, parse_model_and_version(s))
<1> DEFINE n == Len(s)
           d == parse_date(After(s, i))
           m == SubSeq(s, 1, i)
           u == DateSegs(d)
           t == m \o u
           p == parse_model_and_version(s)
<1>1. n \in Nat /\ i \in 1..(n - 1) /\ i \in 0..n /\ d # NoDate
  BY DEF DateAt
<1>2. p = Split(s, i, Version("date", d))
  BY ParseDate
<1>3. m \in Seq(Segments) /\ Len(m) = i /\ \A k \in 1..i : m[k] = s[k]
  BY <1>1, BeforeIs
<1>4. After(s, i) \in Seq(Segments) /\ Len(After(s, i)) = n - i
      /\ \A k \in 1..(n - i) : After(s, i)[k] = s[i + k]
  BY <1>1, AfterIs
<1>5. u \in Seq(Segments) /\ Len(u) = n - i /\ parse_date(u) = d
  BY <1>1, <1>4, DateAgain
<1>6. VersionSegs(p.version) = u /\ p.model = m
  BY <1>2, VersionsPrinted DEF Split
<1>0. i > 1 /\ n = i + 2 /\ parse_date(<<s[i]>> \o u) # NoDate => FALSE
  <2> SUFFICES ASSUME i > 1, n = i + 2, parse_date(<<s[i]>> \o u) # NoDate PROVE FALSE
    OBVIOUS
  <2>1. s[i] \in Segments /\ Len(After(s, i)) = 2
    BY <1>1, <1>4, Segment
  <2>2. parse_date(<<s[i]>> \o After(s, i)) # NoDate
    BY <1>1, <1>4, <2>1, YearBefore
  <2>3. <<s[i]>> \o After(s, i) = After(s, i - 1)
    <3>1. i \in 1..n /\ n \in i..n /\ (i - 1) + 1 = i
      BY <1>1
    <3>2. SubSeq(s, i, n) = <<s[i]>> \o SubSeq(s, i + 1, n)
      BY <3>1, SubSeqRecursiveFirst
    <3> QED BY <3>1, <3>2 DEF After
  <2> QED BY <2>2, <2>3 DEF DateAt
<1> HIDE DEF m, u, d, n
<1>7. /\ t \in Seq(Segments) /\ Len(t) = i + Len(u)
      /\ \A k \in 1..i : t[k] = m[k]
      /\ \A k \in 1..Len(u) : t[i + k] = u[k]
      /\ After(t, i) = u /\ SubSeq(t, 1, i) = m
  BY <1>3, <1>5, Joined
<1>8. Printed(p) = t
  BY <1>6 DEF Printed
<1> HIDE DEF t
<1>9. Len(t) = n
  BY <1>1, <1>5, <1>7
<1>10. DateAt(t, i)
  <2>1. i > 1 => t[i].word # "preview"
    BY <1>1, <1>3, <1>7 DEF DateAt
  <2>2. i > 1 /\ n = i + 2 => After(t, i - 1) = <<s[i]>> \o u
    <3> SUFFICES ASSUME i > 1 PROVE After(t, i - 1) = <<s[i]>> \o u
      OBVIOUS
    <3>1. i \in 1..Len(t) /\ n \in i..Len(t) /\ (i - 1) + 1 = i
      BY <1>1, <1>9
    <3>2. SubSeq(t, i, n) = <<t[i]>> \o SubSeq(t, i + 1, n)
      BY <1>7, <3>1, SubSeqRecursiveFirst
    <3>3. t[i] = s[i]
      BY <1>1, <1>3, <1>7
    <3> QED BY <1>7, <1>9, <3>1, <3>2, <3>3 DEF After
  <2>3. i > 1 /\ n = i + 2 => parse_date(After(t, i - 1)) = NoDate
    BY <1>0, <2>2
  <2> QED BY <1>1, <1>5, <1>7, <1>9, <2>1, <2>3 DEF DateAt, n
<1>11. parse_model_and_version(t) = Split(t, i, Version("date", d))
  BY <1>5, <1>7, <1>10, ParseDate
<1>12. parse_model_and_version(t) = p
  BY <1>2, <1>7, <1>11 DEF Split, m
<1>13. t[n] # Blank
  <2>1. Len(u) \in 1..Len(u) /\ i + Len(u) = n
    BY <1>1, <1>5, DateShape
  <2>2. t[n] = u[Len(u)]
    BY <1>7, <2>1
  <2>3. u[Len(u)].width # 0
    BY <1>1, <1>5, <2>1, DateShape
  <2> QED BY <2>2, <2>3 DEF Blank, Word
<1> QED BY <1>3, <1>5, <1>6, <1>7, <1>8, <1>9, <1>12, <1>13 DEF Steady, n

\* Any name, parsed to a model and a version and printed (ModelId::from_str and
\* Display), is parsed to the same model and version again, whatever date format it had.
THEOREM RoundTrip ==
    ASSUME NEW s \in Seq(Segments)
    PROVE  Steady(s, parse_model_and_version(s))
<1>1. CASE parse_model_and_version(s) = [model |-> s, version |-> ImplicitLatest]
  <2> DEFINE p == [model |-> s, version |-> ImplicitLatest]
  <2>1. p.model = s /\ VersionSegs(p.version) = <<>>
    BY VersionsPrinted
  <2>2. Printed(p) = s
    BY <2>1, ConcatEmptySeq DEF Printed
  <2> HIDE DEF p
  <2>3. parse_model_and_version(s) = p
    BY <1>1 DEF p
  <2>4. Steady(s, p)
    BY <2>1, <2>2, <2>3 DEF Steady
  <2> QED BY <2>3, <2>4
<1>2. CASE \E i \in Nat : PreviewDateAt(s, i) \/ WordAt(s, i) \/ DateAt(s, i)
  BY <1>2, PreviewDateAgain, WordAgain, DatedAgain
<1> QED BY <1>1, <1>2, Outcomes

\* A name as one that has no vendor in front of its model is read, as it is then
\* printed, and whether it is one.
Reads(n) == IF n.tag = NoText THEN parse_model_and_version(n.segs)
            ELSE [model |-> n.segs, version |-> ImplicitLatest]
Reprinted(n) == [vendors |-> n.vendors, segs |-> Printed(Reads(n)), tag |-> n.tag]
Valid(n) == n.segs # <<>> /\ n.segs[Len(n.segs)] # Blank
PlainId(p, n) == Id(p, <<>>, n.vendors, Reads(n), <<>>, n.tag)

\* The fields of a name.
LEMMA NameFields ==
    ASSUME NEW n \in Names
    PROVE  /\ n.vendors \in Seq(Words) /\ n.segs \in Seq(Segments) /\ n.tag \in Words
           /\ n = [vendors |-> n.vendors, segs |-> n.segs, tag |-> n.tag]
  BY DEF Names

\* A provider of neither kind reads a valid name as a model and a version.
LEMMA PlainRead ==
    ASSUME NEW p, p \notin {"bedrock", "ollama"}, NEW n
    PROVE  from_str_and_provider(p, n) = IF Valid(n) THEN PlainId(p, n) ELSE NoModel
  BY DEF from_str_and_provider, ModelIdWithVersion, Valid, PlainId, Reads

\* What is read of a name is typed, and read again from what is printed of it.
LEMMA ReadsIs ==
    ASSUME NEW n \in Names
    PROVE  /\ Reads(n).model \in Seq(Segments) /\ VersionSegs(Reads(n).version) \in Seq(Segments)
           /\ Printed(Reads(n)) \in Seq(Segments) /\ Len(Printed(Reads(n))) = Len(n.segs)
           /\ Reprinted(n) \in Names /\ Reads(Reprinted(n)) = Reads(n)
           /\ Valid(n) => Valid(Reprinted(n))
<1>1. n.vendors \in Seq(Words) /\ n.segs \in Seq(Segments) /\ n.tag \in Words
  BY NameFields
<1>2. /\ Reprinted(n).vendors = n.vendors /\ Reprinted(n).segs = Printed(Reads(n))
      /\ Reprinted(n).tag = n.tag
  BY DEF Reprinted
<1>3. CASE n.tag = NoText
  <2>1. Reads(n) = parse_model_and_version(n.segs)
    BY <1>3 DEF Reads
  <2>2. Steady(n.segs, Reads(n))
    BY <1>1, <2>1, RoundTrip
  <2>3. Reads(Reprinted(n)) = parse_model_and_version(Printed(Reads(n)))
    BY <1>2, <1>3 DEF Reads
  <2>4. /\ Reads(n).model \in Seq(Segments) /\ VersionSegs(Reads(n).version) \in Seq(Segments)
        /\ Printed(Reads(n)) \in Seq(Segments) /\ Len(Printed(Reads(n))) = Len(n.segs)
        /\ parse_model_and_version(Printed(Reads(n))) = Reads(n)
        /\ Len(n.segs) > 0 /\ n.segs[Len(n.segs)] # Blank => Printed(Reads(n))[Len(n.segs)] # Blank
    BY <2>2 DEF Steady
  <2>5. Valid(n) => Valid(Reprinted(n))
    <3> SUFFICES ASSUME Valid(n) PROVE Valid(Reprinted(n))
      OBVIOUS
    <3>1. n.segs # <<>> /\ n.segs[Len(n.segs)] # Blank
      BY DEF Valid
    <3>2. Len(n.segs) > 0
      BY <1>1, <3>1
    <3>3. Printed(Reads(n)) # <<>>
      BY <2>4, <3>2
    <3> QED BY <1>2, <2>4, <3>1, <3>2, <3>3 DEF Valid
  <2>6. Reprinted(n) \in Names
    BY <1>1, <2>4 DEF Reprinted, Names
  <2> QED BY <2>3, <2>4, <2>5, <2>6
<1>4. CASE n.tag # NoText
  <2>1. Reads(n).model = n.segs /\ Reads(n).version = ImplicitLatest
    BY <1>4 DEF Reads
  <2>2. VersionSegs(ImplicitLatest) = <<>>
    BY VersionsPrinted
  <2>3. Printed(Reads(n)) = n.segs
    BY <1>1, <2>1, <2>2, ConcatEmptySeq DEF Printed
  <2>4. Reprinted(n) = n
    BY <2>3, NameFields DEF Reprinted
  <2>5. VersionSegs(Reads(n).version) \in Seq(Segments)
    BY <2>1, <2>2
  <2> QED BY <1>1, <2>1, <2>3, <2>4, <2>5
<1> QED BY <1>3, <1>4

\* A plain id is printed as its name was read.
LEMMA PlainPrinted ==
    ASSUME NEW n \in Names, NEW p
    PROVE  Display(PlainId(p, n)) = Reprinted(n)
<1>1. /\ n.vendors \in Seq(Words) /\ Reads(n).model \in Seq(Segments)
      /\ VersionSegs(Reads(n).version) \in Seq(Segments) /\ Printed(Reads(n)) \in Seq(Segments)
  BY NameFields, ReadsIs
<1>2. <<>> \o n.vendors = n.vendors
  BY <1>1, ConcatEmptySeq
<1>3. Printed(Reads(n)) \o <<>> = Printed(Reads(n))
  BY <1>1, ConcatEmptySeq
<1>4. Display(PlainId(p, n)) = [vendors |-> <<>> \o n.vendors,
                                segs |-> Printed(Reads(n)) \o <<>>, tag |-> n.tag]
  BY DEF Display, PlainId, Id, Printed
<1> QED BY <1>2, <1>3, <1>4 DEF Reprinted

\* A name read under one plain provider, printed, and read under another.
LEMMA PlainAgain ==
    ASSUME NEW n \in Names, Valid(n), NEW p, p \notin {"bedrock", "ollama"}, NEW q
    PROVE  /\ from_str_and_provider(p, Display(PlainId(q, n)))
                = Id(p, <<>>, n.vendors, Reads(n), <<>>, n.tag)
           /\ Display(Id(p, <<>>, n.vendors, Reads(n), <<>>, n.tag)) = Display(PlainId(q, n))
<1>1. Display(PlainId(q, n)) = Reprinted(n)
  BY PlainPrinted
<1>2. Reprinted(n) \in Names /\ Reads(Reprinted(n)) = Reads(n) /\ Valid(Reprinted(n))
  BY ReadsIs
<1>3. Reprinted(n).vendors = n.vendors /\ Reprinted(n).tag = n.tag
  BY DEF Reprinted
<1>4. from_str_and_provider(p, Reprinted(n)) = PlainId(p, Reprinted(n))
  BY <1>2, PlainRead
<1>5. PlainId(p, Reprinted(n)) = Id(p, <<>>, n.vendors, Reads(n), <<>>, n.tag)
  BY <1>2, <1>3 DEF PlainId
<1>6. Display(PlainId(p, n)) = Reprinted(n)
  BY PlainPrinted
<1> QED BY <1>1, <1>4, <1>5, <1>6 DEF PlainId

\* A name that is all model is printed as it is.
LEMMA WholePrinted ==
    ASSUME NEW n \in Names, Reads(n).model = n.segs
    PROVE  Printed(Reads(n)) = n.segs /\ Reprinted(n) = n /\ VersionSegs(Reads(n).version) = <<>>
<1>1. PICK m, u : m = n.segs /\ u = VersionSegs(Reads(n).version)
  OBVIOUS
<1>2. m \in Seq(Segments) /\ u \in Seq(Segments) /\ Printed(Reads(n)) = m \o u
      /\ Len(Printed(Reads(n))) = Len(m)
  BY <1>1, ReadsIs DEF Printed
<1>3. Len(m \o u) = Len(m) + Len(u)
  BY <1>2, ConcatProperties
<1>4. Len(u) = 0
  BY <1>2, <1>3
<1>5. u = <<>>
  BY <1>2, <1>4
<1>6. m \o <<>> = m
  BY <1>2, ConcatEmptySeq
<1> QED BY <1>1, <1>2, <1>5, <1>6, NameFields DEF Reprinted

-----------------------------------------------------------------------------
\* Ollama's names are taken as they are.
LEMMA OllamaPrinted ==
    ASSUME NEW n \in Names
    PROVE  /\ from_str_and_provider("ollama", n) = OllamaModelId(n)
           /\ OllamaModelId(n) # NoModel
           /\ Display(OllamaModelId(n)) = n
           /\ OllamaModelId(n).provider = "ollama"
           /\ from_model(OllamaModelId(n)) = [vendors |-> n.vendors, segs |-> n.segs, tag |-> NoText]
<1>1. n.vendors \in Seq(Words) /\ n.segs \in Seq(Segments)
  BY NameFields
<1>2. /\ from_str_and_provider("ollama", n) = OllamaModelId(n)
      /\ OllamaModelId(n).provider = "ollama"
      /\ from_model(OllamaModelId(n)) = [vendors |-> n.vendors, segs |-> n.segs, tag |-> NoText]
  BY DEF from_str_and_provider, OllamaModelId, Id, from_model
<1>3. NoModel.provider = "none"
  BY DEF NoModel
<1>4. OllamaModelId(n) # NoModel
  BY <1>2, <1>3
<1>5. Display(OllamaModelId(n)) = [vendors |-> <<>> \o n.vendors,
        segs |-> n.segs \o VersionSegs(ImplicitLatest) \o <<>>, tag |-> n.tag]
  BY DEF Display, OllamaModelId, Id
<1>6. <<>> \o n.vendors = n.vendors
  BY <1>1, ConcatEmptySeq
<1>7. n.segs \o <<>> = n.segs
  BY <1>1, ConcatEmptySeq
<1>8. Display(OllamaModelId(n)) = [vendors |-> n.vendors, segs |-> n.segs, tag |-> n.tag]
  BY <1>5, <1>6, <1>7, VersionsPrinted
<1> QED BY <1>2, <1>4, <1>8, NameFields

\* A Bedrock name is cut in front of its last "-v" part.
BedrockCut(segs, m, i) ==
    /\ m \in Seq(Segments) /\ i \in Seq(Segments) /\ m # <<>> /\ i # <<>>
    /\ i[1].word \in VWords /\ \A k \in 2..Len(i) : i[k].word \notin VWords
    /\ segs = m \o i

\* A Bedrock name that is cut so is read so,
LEMMA BedrockIs ==
    ASSUME NEW n, NEW m, NEW i, BedrockCut(n.segs, m, i), n.vendors # <<>>
    PROVE  BedrockModelId(n) = Id("bedrock", <<Head(n.vendors)>>, Tail(n.vendors),
                                  parse_model_and_version(m), i, n.tag)
<1> DEFINE s == n.segs
<1>1. /\ m \in Seq(Segments) /\ i \in Seq(Segments) /\ s = m \o i
      /\ Len(m) \in Nat \ {0} /\ Len(i) \in Nat \ {0}
      /\ i[1].word \in VWords /\ \A k \in 2..Len(i) : i[k].word \notin VWords
  BY DEF BedrockCut
<1>2. /\ s \in Seq(Segments) /\ Len(s) = Len(m) + Len(i)
      /\ \A k \in 1..Len(i) : s[Len(m) + k] = i[k]
      /\ After(s, Len(m)) = i /\ SubSeq(s, 1, Len(m)) = m
  <2>1. /\ m \o i \in Seq(Segments) /\ Len(m \o i) = Len(m) + Len(i)
        /\ \A k \in 1..Len(i) : (m \o i)[Len(m) + k] = i[k]
        /\ After(m \o i, Len(m)) = i /\ SubSeq(m \o i, 1, Len(m)) = m
    BY <1>1, Joined
  <2> QED BY <1>1, <2>1
<1> HIDE DEF s
<1>3. VPlaces(n) = {k \in 2..Len(s) : s[k].word \in VWords}
  BY DEF VPlaces, s
<1>4. Len(m) + 1 \in VPlaces(n) /\ VPlaces(n) \subseteq Nat
  <2>1. s[Len(m) + 1] = i[1] /\ Len(m) + 1 \in 2..Len(s)
    BY <1>1, <1>2
  <2> QED BY <1>1, <1>3, <2>1
<1>5. \A k \in VPlaces(n) : k <= Len(m) + 1
  <2> SUFFICES ASSUME NEW k \in VPlaces(n), k > Len(m) + 1 PROVE FALSE
    BY <1>1, <1>4
  <2>1. k \in 2..Len(s) /\ s[k].word \in VWords
    BY <1>3
  <2>2. k - Len(m) \in 2..Len(i) /\ k - Len(m) \in 1..Len(i) /\ Len(m) + (k - Len(m)) = k
    BY <1>1, <1>2, <2>1
  <2>3. s[k] = i[k - Len(m)]
    BY <1>2, <2>2
  <2> QED BY <1>1, <2>1, <2>2, <2>3
<1>6. Greatest(VPlaces(n)) = Len(m) + 1
  BY <1>4, <1>5, GreatestIs
<1>7. SubSeq(n.segs, 1, Greatest(VPlaces(n)) - 1) = m
  <2>1. (Len(m) + 1) - 1 = Len(m)
    BY <1>1
  <2> QED BY <1>2, <1>6, <2>1 DEF s
<1>8. SubSeq(n.segs, Greatest(VPlaces(n)), Len(n.segs)) = i
  BY <1>2, <1>6 DEF s, After
<1>9. VPlaces(n) # {}
  BY <1>4
<1> QED BY <1>7, <1>8, <1>9 DEF BedrockModelId

\* and one that is read was cut.
LEMMA BedrockParts ==
    ASSUME NEW n \in Names, BedrockModelId(n) # NoModel
    PROVE  n.vendors # <<>> /\ \E m, i : BedrockCut(n.segs, m, i)
<1>1. n.vendors # <<>> /\ VPlaces(n) # {}
  BY DEF BedrockModelId
<1>2. PICK s : s = n.segs
  OBVIOUS
<1>3. s \in Seq(Segments) /\ Len(s) \in Nat
  BY <1>2, NameFields
<1>4. VPlaces(n) = {k \in 2..Len(s) : s[k].word \in VWords}
  BY <1>2 DEF VPlaces
<1>5. VPlaces(n) \subseteq 0..Len(s)
  BY <1>3, <1>4
<1>6. PICK v : v \in VPlaces(n) /\ \A j \in VPlaces(n) : j <= v
  BY <1>1, <1>3, <1>5, GreatestOf
<1>7. v \in 2..Len(s) /\ s[v].word \in VWords /\ v - 1 \in 0..Len(s) /\ (v - 1) + 1 = v /\ v \in Nat
  BY <1>3, <1>4, <1>6
<1>8. PICK m, i : m = SubSeq(s, 1, v - 1) /\ i = After(s, v - 1)
  OBVIOUS
<1>9. m \in Seq(Segments) /\ Len(m) = v - 1
  BY <1>3, <1>7, <1>8, BeforeIs
<1>10. /\ i \in Seq(Segments) /\ Len(i) = Len(s) - (v - 1)
       /\ \A k \in 1..(Len(s) - (v - 1)) : i[k] = s[(v - 1) + k]
  BY <1>3, <1>7, <1>8, AfterIs
<1>11. m # <<>> /\ i # <<>>
  BY <1>3, <1>7, <1>9, <1>10
<1>12. i[1].word \in VWords
  <2>1. 1 \in 1..(Len(s) - (v - 1))
    BY <1>3, <1>7
  <2>2. i[1] = s[v]
    BY <1>7, <1>10, <2>1
  <2> QED BY <1>7, <2>2
<1>13. \A k \in 2..Len(i) : i[k].word \notin VWords
  <2> SUFFICES ASSUME NEW k \in 2..Len(i), i[k].word \in VWords PROVE FALSE
    OBVIOUS
  <2>1. k \in 1..(Len(s) - (v - 1)) /\ (v - 1) + k \in 2..Len(s) /\ (v - 1) + k > v
    BY <1>3, <1>7, <1>10
  <2>2. s[(v - 1) + k].word \in VWords
    BY <1>10, <2>1
  <2>3. (v - 1) + k <= v
    BY <1>4, <1>6, <2>1, <2>2
  <2> QED BY <1>7, <2>1, <2>3
<1>14. s = m \o i
  <2>1. 1 \in 1..(Len(s) + 1) /\ v - 1 \in (1 - 1)..Len(s) /\ Len(s) \in (v - 1)..Len(s)
    BY <1>3, <1>7
  <2>2. SubSeq(s, 1, v - 1) \o SubSeq(s, (v - 1) + 1, Len(s)) = SubSeq(s, 1, Len(s))
    BY <1>3, <2>1, ConcatAdjacentSubSeq
  <2>3. SubSeq(s, 1, Len(s)) = s
    BY <1>3, SubSeqFull
  <2> QED BY <1>8, <2>2, <2>3 DEF After
<1> QED BY <1>1, <1>2, <1>9, <1>10, <1>11, <1>12, <1>13, <1>14 DEF BedrockCut

\* The vendors of a Bedrock name, put together again.
LEMMA VendorsAgain ==
    ASSUME NEW vs \in Seq(Words), vs # <<>>
    PROVE  <<Head(vs)>> \o Tail(vs) = vs
<1>1. Len(vs) \in Nat /\ Len(vs) # 0
  OBVIOUS
<1>2. 1 \in 1..Len(vs) /\ Len(vs) \in 1..Len(vs)
  BY <1>1
<1>3. SubSeq(vs, 1, Len(vs)) = <<vs[1]>> \o SubSeq(vs, 1 + 1, Len(vs))
  BY <1>2, SubSeqRecursiveFirst
<1>4. SubSeq(vs, 1, Len(vs)) = vs
  BY SubSeqFull
<1>5. Tail(vs) = SubSeq(vs, 2, Len(vs))
  BY TailIsSubSeq
<1>6. Head(vs) = vs[1]
  BY <1>1
<1> QED BY <1>3, <1>4, <1>5, <1>6

\* What a Bedrock id is printed as.
LEMMA BedrockPrinted ==
    ASSUME NEW n \in Names, NEW m, NEW i, BedrockCut(n.segs, m, i), n.vendors # <<>>
    PROVE  /\ BedrockModelId(n).provider = "bedrock"
           /\ BedrockModelId(n) # NoModel
           /\ Display(BedrockModelId(n)).vendors = n.vendors
           /\ Display(BedrockModelId(n)).segs = Printed(parse_model_and_version(m)) \o i
           /\ Display(BedrockModelId(n)).tag = n.tag
           /\ BedrockCut(Display(BedrockModelId(n)).segs, Printed(parse_model_and_version(m)), i)
<1>1. BedrockModelId(n) = Id("bedrock", <<Head(n.vendors)>>, Tail(n.vendors),
                             parse_model_and_version(m), i, n.tag)
  BY BedrockIs
<1>2. BedrockModelId(n).provider = "bedrock" /\ NoModel.provider = "none"
  BY <1>1 DEF Id, NoModel
<1>3. Display(BedrockModelId(n))
        = [vendors |-> <<Head(n.vendors)>> \o Tail(n.vendors),
           segs |-> Printed(parse_model_and_version(m)) \o i, tag |-> n.tag]
  BY <1>1 DEF Display, Id, Printed
<1>4. <<Head(n.vendors)>> \o Tail(n.vendors) = n.vendors
  BY NameFields, VendorsAgain
<1>5. Steady(m, parse_model_and_version(m)) /\ m \in Seq(Segments) /\ m # <<>>
  BY RoundTrip DEF BedrockCut
<1>6. /\ Printed(parse_model_and_version(m)) \in Seq(Segments)
      /\ Len(Printed(parse_model_and_version(m))) = Len(m)
  BY <1>5 DEF Steady
<1>7. Printed(parse_model_and_version(m)) # <<>>
  BY <1>5, <1>6
<1>8. Display(BedrockModelId(n)).segs = Printed(parse_model_and_version(m)) \o i
  BY <1>3
<1>9. BedrockCut(Display(BedrockModelId(n)).segs, Printed(parse_model_and_version(m)), i)
  BY <1>6, <1>7, <1>8 DEF BedrockCut
<1>10. BedrockModelId(n) # NoModel
  BY <1>2
<1> QED BY <1>2, <1>3, <1>4, <1>8, <1>9, <1>10

\* A Bedrock id is printed as a name that is read as the same id.
LEMMA BedrockAgain ==
    ASSUME NEW n \in Names, BedrockModelId(n) # NoModel
    PROVE  BedrockModelId(Display(BedrockModelId(n))) = BedrockModelId(n)
<1>1. PICK m, i : BedrockCut(n.segs, m, i)
  BY BedrockParts
<1>2. n.vendors # <<>>
  BY BedrockParts
<1>3. PICK d, p : d = Display(BedrockModelId(n)) /\ p = parse_model_and_version(m)
  OBVIOUS
<1>4. d.vendors = n.vendors /\ d.tag = n.tag /\ BedrockCut(d.segs, Printed(p), i)
  BY <1>1, <1>2, <1>3, BedrockPrinted
<1>5. parse_model_and_version(Printed(p)) = p
  BY <1>1, <1>3, RoundTrip DEF Steady, BedrockCut
<1>6. BedrockModelId(d) = Id("bedrock", <<Head(d.vendors)>>, Tail(d.vendors),
                             parse_model_and_version(Printed(p)), i, d.tag)
  BY <1>2, <1>4, BedrockIs
<1>7. BedrockModelId(n) = Id("bedrock", <<Head(n.vendors)>>, Tail(n.vendors), p, i, n.tag)
  BY <1>1, <1>2, <1>3, BedrockIs
<1> QED BY <1>3, <1>4, <1>5, <1>6, <1>7

\* What is written behind a Bedrock name that is printed as it is, and holds no
\* "-v" of its own, is printed as it is too.
LEMMA BedrockLonger ==
    ASSUME NEW n \in Names, BedrockModelId(n) # NoModel, Display(BedrockModelId(n)) = n,
           NEW x \in Seq(Segments), \A k \in 1..Len(x) : x[k].word \notin VWords,
           NEW d \in Names, d.vendors = n.vendors, d.segs = n.segs \o x
    PROVE  BedrockModelId(d) # NoModel /\ Display(BedrockModelId(d)) = d
<1>1. PICK m, i : BedrockCut(n.segs, m, i)
  BY BedrockParts
<1>2. n.vendors # <<>> /\ d.vendors # <<>>
  BY BedrockParts
<1>3. PICK c, y : c = Printed(parse_model_and_version(m)) /\ y = i \o x
  OBVIOUS
<1>4. /\ m \in Seq(Segments) /\ i \in Seq(Segments) /\ m # <<>> /\ i # <<>>
      /\ i[1].word \in VWords /\ \A k \in 2..Len(i) : i[k].word \notin VWords
      /\ n.segs = m \o i
  BY <1>1 DEF BedrockCut
<1>5. c \in Seq(Segments) /\ n.segs = c \o i
  <2>1. Display(BedrockModelId(n)).segs = c \o i
    BY <1>1, <1>2, <1>3, BedrockPrinted
  <2>2. BedrockCut(Display(BedrockModelId(n)).segs, c, i)
    BY <1>1, <1>2, <1>3, BedrockPrinted
  <2> QED BY <2>1, <2>2 DEF BedrockCut
<1>6. c = m
  <2>1. m \o i = c \o i
    BY <1>4, <1>5
  <2>2. \A s, t, v \in Seq(Segments) : s \o v = t \o v => s = t
    BY ConcatSimplifications
  <2> QED BY <1>4, <1>5, <2>1, <2>2
<1>7. d.segs = m \o y
  BY <1>3, <1>4, ConcatAssociative
<1>8. /\ y \in Seq(Segments) /\ Len(y) = Len(i) + Len(x)
      /\ \A k \in 1..Len(i) : y[k] = i[k]
      /\ \A k \in 1..Len(x) : y[Len(i) + k] = x[k]
  <2>1. /\ i \o x \in Seq(Segments) /\ Len(i \o x) = Len(i) + Len(x)
        /\ \A k \in 1..Len(i) : (i \o x)[k] = i[k]
        /\ \A k \in 1..Len(x) : (i \o x)[Len(i) + k] = x[k]
    BY <1>4, Joined
  <2> QED BY <1>3, <2>1
<1>9. Len(i) \in Nat \ {0} /\ Len(x) \in Nat
  BY <1>4
<1>10. y[1].word \in VWords /\ y # <<>>
  <2>1. 1 \in 1..Len(i) /\ Len(y) # 0
    BY <1>8, <1>9
  <2>2. y[1] = i[1]
    BY <1>8, <2>1
  <2> QED BY <1>4, <1>8, <2>1, <2>2
<1>11. \A k \in 2..Len(y) : y[k].word \notin VWords
  <2> TAKE k \in 2..Len(y)
  <2>1. CASE k <= Len(i)
    <3>1. k \in 2..Len(i) /\ k \in 1..Len(i)
      BY <1>9, <2>1
    <3> QED BY <1>4, <1>8, <3>1
  <2>2. CASE k > Len(i)
    <3>1. k - Len(i) \in 1..Len(x) /\ Len(i) + (k - Len(i)) = k
      BY <1>8, <1>9, <2>2
    <3>2. y[k] = x[k - Len(i)]
      BY <1>8, <3>1
    <3> QED BY <3>1, <3>2
  <2> QED BY <1>9, <2>1, <2>2
<1>12. BedrockCut(d.segs, m, y)
  BY <1>4, <1>7, <1>8, <1>10, <1>11 DEF BedrockCut
<1>13. /\ BedrockModelId(d) # NoModel
       /\ Display(BedrockModelId(d)).vendors = d.vendors
       /\ Display(BedrockModelId(d)).segs = Printed(parse_model_and_version(m)) \o y
       /\ Display(BedrockModelId(d)).tag = d.tag
  BY <1>2, <1>12, BedrockPrinted
<1>14. Display(BedrockModelId(d)).segs = d.segs
  BY <1>3, <1>6, <1>7, <1>13
<1>15. Display(BedrockModelId(d)) = [vendors |-> Display(BedrockModelId(d)).vendors,
         segs |-> Display(BedrockModelId(d)).segs, tag |-> Display(BedrockModelId(d)).tag]
  BY DEF Display
<1>16. d = [vendors |-> d.vendors, segs |-> d.segs, tag |-> d.tag]
  BY NameFields
<1> QED BY <1>13, <1>14, <1>15, <1>16

\* A name that ends in a "-v" part has no version.
LEMMA VEndIsWhole ==
    ASSUME NEW s \in Seq(Segments), s # <<>>, s[Len(s)].word \in VWords
    PROVE  parse_model_and_version(s) = [model |-> s, version |-> ImplicitLatest]
<1>1. Len(s) \in Nat \ {0} /\ s[Len(s)].word # NoText
  BY NamesConstants
<1>2. s[Len(s)].word \notin LatestWords \cup PreviewWords
  BY NamesConstants
<1>3. ASSUME NEW i \in 0..(Len(s) - 1) PROVE parse_date(After(s, i)) = NoDate
  <2>1. i \in 0..Len(s) /\ Len(s) \in (i + 1)..Len(s)
    BY <1>1
  <2> QED BY <1>1, <2>1, WordsAreNoDates
<1>4. ASSUME NEW i \in Nat PROVE ~PreviewDateAt(s, i) /\ ~WordAt(s, i) /\ ~DateAt(s, i)
  <2>1. ~WordAt(s, i)
    BY <1>2 DEF WordAt
  <2>2. ~DateAt(s, i)
    BY <1>1, <1>3 DEF DateAt
  <2>3. ~PreviewDateAt(s, i)
    <3> SUFFICES ASSUME PreviewDateAt(s, i) PROVE FALSE
      OBVIOUS
    <3>1. i + 1 \in 0..(Len(s) - 1)
      BY <1>1 DEF PreviewDateAt
    <3> QED BY <1>3, <3>1 DEF PreviewDateAt
  <2> QED BY <2>1, <2>2, <2>3
<1> QED BY <1>4, Outcomes

\* A name that its provider may offer in a clean configuration.
CleanName(p, n) ==
    /\ from_str_and_provider(p, n) # NoModel
    /\ IF p = "bedrock" THEN Display(from_str_and_provider(p, n)) = n
       ELSE from_model(from_str_and_provider(p, n)) = n
    /\ p = "anthropic" => n.tag = NoText

\* What is sent to a provider for an id, and how it is read back.
SentAs(p, id) == Display(Aliased(id, p))
ReadBack(p, id) == from_str_and_provider(p, SentAs(p, id))

\* The model of a plain id.
LEMMA PlainModel ==
    ASSUME NEW p, p # "ollama", NEW n
    PROVE  from_model(PlainId(p, n)) = [vendors |-> n.vendors, segs |-> Reads(n).model, tag |-> n.tag]
  BY DEF from_model, PlainId, Id

\* A clean name of a plain provider is all model.
LEMMA CleanPlain ==
    ASSUME NEW p, p \notin {"bedrock", "ollama"}, NEW n \in Names, CleanName(p, n)
    PROVE  Valid(n) /\ Reads(n).model = n.segs /\ from_str_and_provider(p, n) = PlainId(p, n)
<1>1. Valid(n) /\ from_str_and_provider(p, n) = PlainId(p, n)
  BY PlainRead DEF CleanName
<1>2. from_model(PlainId(p, n)) = n
  BY <1>1 DEF CleanName
<1>3. Reads(n).model = n.segs
  <2>1. from_model(PlainId(p, n)).segs = Reads(n).model
    BY PlainModel
  <2> QED BY <1>2, <2>1
<1> QED BY <1>1, <1>3

\* Anthropic's aliases: a name that is all model, with or without "-latest".
LEMMA AliasAgain ==
    ASSUME NEW n \in Names, Valid(n), n.tag = NoText, Reads(n).model = n.segs,
           NEW v \in {Latest, ImplicitLatest},
           NEW d, d = [vendors |-> n.vendors, segs |-> n.segs \o VersionSegs(v), tag |-> NoText]
    PROVE  /\ from_str_and_provider("anthropic", d) # NoModel
           /\ Display(from_str_and_provider("anthropic", d)) = d
           /\ from_model(from_str_and_provider("anthropic", d)) = n
<1>1. n.vendors \in Seq(Words) /\ n.segs \in Seq(Segments) /\ n.tag \in Words
      /\ n = [vendors |-> n.vendors, segs |-> n.segs, tag |-> n.tag]
  BY NameFields
<1>2. d.vendors = n.vendors /\ d.segs = n.segs \o VersionSegs(v) /\ d.tag = NoText
  OBVIOUS
<1>3. d \in Names /\ Valid(d) /\ Reads(d).model = n.segs /\ Reprinted(d) = d
  <2>1. CASE v = ImplicitLatest
    <3>1. n.segs \o <<>> = n.segs
      BY <1>1, ConcatEmptySeq
    <3>2. d = n
      BY <1>1, <2>1, <3>1, VersionsPrinted
    <3> QED BY <3>2, WholePrinted
  <2>2. CASE v = Latest
    <3>1. PICK u, s : u = <<Word("latest")>> /\ s = n.segs \o u
      OBVIOUS
    <3>2. u \in Seq(Segments) /\ Len(u) = 1 /\ u[1].word = "latest"
      <4>1. Word("latest") \in Segments /\ Word("latest").word = "latest"
        BY WordSegments
      <4> QED BY <3>1, <4>1
    <3>3. VersionSegs(v) = u
      BY <2>2, <3>1, VersionsPrinted
    <3>4. d.segs = s
      BY <1>2, <3>1, <3>3
    <3>5. PICK b : b = n.segs
      OBVIOUS
    <3>6. b \in Seq(Segments) /\ b # <<>> /\ Len(b) \in Nat \ {0}
      BY <1>1, <3>5 DEF Valid
    <3>7. /\ s \in Seq(Segments) /\ Len(s) = Len(b) + Len(u)
          /\ \A k \in 1..Len(u) : s[Len(b) + k] = u[k]
          /\ SubSeq(s, 1, Len(b)) = b
      <4>1. /\ b \o u \in Seq(Segments) /\ Len(b \o u) = Len(b) + Len(u)
            /\ \A k \in 1..Len(u) : (b \o u)[Len(b) + k] = u[k]
            /\ SubSeq(b \o u, 1, Len(b)) = b
        BY <3>2, <3>6, Joined
      <4> QED BY <3>1, <3>5, <4>1
    <3>8. Len(s) = Len(b) + 1 /\ s[Len(s)].word = "latest"
      BY <3>2, <3>6, <3>7
    <3>9. "latest" \in LatestWords
      BY DEF LatestWords
    <3>10. WordAt(s, Len(b))
      BY <3>6, <3>8, <3>9 DEF WordAt
    <3>11. parse_model_and_version(s) = Split(s, Len(b), WordVersion(s[Len(s)].word))
      BY <3>7, <3>10, ParseWord
    <3>12. Reads(d) = [model |-> b, version |-> Latest]
      BY <1>2, <3>4, <3>7, <3>8, <3>9, <3>11 DEF Reads, Split, WordVersion
    <3>13. d \in Names
      BY <1>1, <1>2, <3>4, <3>7 DEF Names
    <3>14. Valid(d)
      <4>1. "latest" # NoText
        BY <3>9, VersionWords
      <4>2. s[Len(s)] # Blank
        BY <3>8, <4>1 DEF Blank, Word
      <4>3. s # <<>>
        BY <3>6, <3>7, <3>8
      <4> QED BY <3>4, <4>2, <4>3 DEF Valid
    <3>15. Printed(Reads(d)) = s
      <4>1. Reads(d).model = b /\ Reads(d).version = v
        BY <2>2, <3>12
      <4>2. Printed(Reads(d)) = b \o u
        BY <3>3, <4>1 DEF Printed
      <4> QED BY <3>1, <3>5, <4>2
    <3>16. Reprinted(d) = d
      BY <1>2, <3>4, <3>13, <3>15, NameFields DEF Reprinted
    <3> QED BY <3>5, <3>12, <3>13, <3>14, <3>16
  <2> QED BY <2>1, <2>2
<1>4. from_str_and_provider("anthropic", d) = PlainId("anthropic", d)
  BY <1>3, PlainRead
<1>5. PlainId("anthropic", d) # NoModel
  BY DEF PlainId, Id, NoModel
<1>6. Display(PlainId("anthropic", d)) = d
  BY <1>3, PlainPrinted
<1>7. from_model(PlainId("anthropic", d)) = n
  BY <1>1, <1>2, <1>3, PlainModel
<1> QED BY <1>4, <1>5, <1>6, <1>7

\* Only Anthropic's models are sent under an alias.
LEMMA NotAliased ==
    ASSUME NEW p, NEW id, p # "anthropic" \/ id.provider # "anthropic"
    PROVE  SentAs(p, id) = Display(id)
  BY DEF SentAs, Aliased

\* Anthropic's own ids are sent as one of the aliases.
LEMMA SentAlias ==
    ASSUME NEW name \in Names, NEW n, n = from_model(PlainId("anthropic", name)), n \in Names,
           CleanName("anthropic", n)
    PROVE  /\ ReadBack("anthropic", PlainId("anthropic", name)) # NoModel
           /\ Display(ReadBack("anthropic", PlainId("anthropic", name)))
                = SentAs("anthropic", PlainId("anthropic", name))
           /\ from_model(ReadBack("anthropic", PlainId("anthropic", name))) = n
<1>1. PICK id, al : id = PlainId("anthropic", name) /\ al = Aliased(id, "anthropic")
  OBVIOUS
<1>2. n = [vendors |-> name.vendors, segs |-> Reads(name).model, tag |-> name.tag]
  BY PlainModel
<1>3. Valid(n) /\ Reads(n).model = n.segs
  BY CleanPlain
<1>4. n.tag = NoText
  BY DEF CleanName
<1>5. PICK v \in {Latest, ImplicitLatest} : al = [id EXCEPT !.version = v]
  BY <1>1 DEF Aliased, PlainId, Id
<1>6. al.vendor = <<>> /\ al.vendors = name.vendors /\ al.model = Reads(name).model
      /\ al.version = v /\ al.internal = <<>> /\ al.tag = name.tag
  BY <1>1, <1>5 DEF PlainId, Id
<1>7. PICK d : d = [vendors |-> n.vendors, segs |-> n.segs \o VersionSegs(v), tag |-> NoText]
  OBVIOUS
<1>8. Display(al) = d
  <2>1. n.vendors \in Seq(Words) /\ n.segs \in Seq(Segments)
    BY NameFields
  <2>2. VersionSegs(v) \in Seq(Segments)
    <3>1. <<Word("latest")>> \in Seq(Segments)
      BY WordSegments
    <3>2. VersionSegs(v) = <<>> \/ VersionSegs(v) = <<Word("latest")>>
      BY VersionsPrinted
    <3>3. <<>> \in Seq(Segments)
      OBVIOUS
    <3> QED BY <3>1, <3>2, <3>3
  <2>3. n.segs \o VersionSegs(v) \in Seq(Segments)
    BY <2>1, <2>2, ConcatProperties
  <2>4. (n.segs \o VersionSegs(v)) \o <<>> = n.segs \o VersionSegs(v)
    BY <2>3, ConcatEmptySeq
  <2>5. <<>> \o n.vendors = n.vendors
    BY <2>1, ConcatEmptySeq
  <2>6. Display(al) = [vendors |-> <<>> \o n.vendors,
                       segs |-> (n.segs \o VersionSegs(v)) \o <<>>, tag |-> n.tag]
    <3>1. n.vendors = name.vendors /\ n.segs = Reads(name).model /\ n.tag = name.tag
      BY <1>2
    <3>2. Display(al) = [vendors |-> al.vendor \o al.vendors,
                         segs |-> (al.model \o VersionSegs(al.version)) \o al.internal,
                         tag |-> al.tag]
      BY DEF Display
    <3>3. al.vendor = <<>> /\ al.vendors = n.vendors /\ al.model = n.segs
          /\ al.version = v /\ al.internal = <<>> /\ al.tag = n.tag
      BY <1>6, <3>1
    <3> QED BY <3>2, <3>3
  <2> QED BY <1>4, <1>7, <2>4, <2>5, <2>6
<1>9. /\ from_str_and_provider("anthropic", d) # NoModel
      /\ Display(from_str_and_provider("anthropic", d)) = d
      /\ from_model(from_str_and_provider("anthropic", d)) = n
  BY <1>3, <1>4, <1>7, AliasAgain
<1> QED BY <1>1, <1>8, <1>9 DEF SentAs, ReadBack

\* An offered name, parsed for its provider, is read back as that name.
LEMMA AlternativeAgain ==
    ASSUME NEW p, NEW a \in Names, CleanName(p, a), NEW id, id = from_str_and_provider(p, a)
    PROVE  /\ ReadBack(p, id) # NoModel
           /\ Display(ReadBack(p, id)) = SentAs(p, id)
           /\ from_model(ReadBack(p, id)) = from_model(id)
<1>1. CASE p = "bedrock"
  <2>1. SentAs(p, id) = Display(id)
    BY <1>1, NotAliased
  <2>2. Display(id) = a /\ id # NoModel
    BY <1>1 DEF CleanName
  <2> QED BY <2>1, <2>2 DEF ReadBack
<1>2. CASE p = "ollama"
  <2>1. SentAs(p, id) = Display(id)
    BY <1>2, NotAliased
  <2>2. Display(id) = a /\ id # NoModel
    BY <1>2, OllamaPrinted
  <2> QED BY <2>1, <2>2 DEF ReadBack
<1>3. CASE p = "anthropic"
  <2>1. id = PlainId("anthropic", a) /\ from_model(id) = a
    BY <1>3, CleanPlain DEF CleanName
  <2>2. CleanName("anthropic", a)
    BY <1>3
  <2> QED BY <1>3, <2>1, <2>2, SentAlias
<1>4. CASE p \notin {"bedrock", "ollama", "anthropic"}
  <2>1. Valid(a) /\ id = PlainId(p, a)
    BY <1>4, CleanPlain
  <2>2. SentAs(p, id) = Display(id)
    BY <1>4, NotAliased
  <2>3. /\ from_str_and_provider(p, Display(PlainId(p, a))) = PlainId(p, a)
    BY <1>4, <2>1, PlainAgain DEF PlainId
  <2>4. PlainId(p, a) # NoModel
    BY DEF PlainId, Id, NoModel
  <2> QED BY <2>1, <2>2, <2>3, <2>4 DEF ReadBack
<1> QED BY <1>1, <1>2, <1>3, <1>4

\* The segments of a version are "latest", "preview" and numbers: no "-v" part.
LEMMA NoVIn ==
    NoText \notin VWords /\ "latest" \notin VWords /\ "preview" \notin VWords
<1>1. "latest" \in LatestWords /\ "preview" \in PreviewWords
  BY DEF LatestWords, PreviewWords
<1> QED BY <1>1, NamesConstants

\* Nor has a date one,
LEMMA DateNoV ==
    ASSUME NEW s \in Seq(Segments), parse_date(s) # NoDate,
           NEW u, u = DateSegs(parse_date(s)), NEW k \in 1..Len(u)
    PROVE  u \in Seq(Segments) /\ u[k].word \notin VWords
<1>1. u \in Seq(Segments) /\ parse_date(u) # NoDate
  BY DateAgain
<1>2. u[k].word = NoText
  BY <1>1, DateShape
<1> QED BY <1>1, <1>2, NoVIn

\* nor a version that was parsed.
LEMMA VersionNoV ==
    ASSUME NEW s \in Seq(Segments), NEW x, x = VersionSegs(parse_model_and_version(s).version),
           NEW k \in 1..Len(x)
    PROVE  x[k].word \notin VWords
<1>1. CASE parse_model_and_version(s) = [model |-> s, version |-> ImplicitLatest]
  <2>1. x = <<>>
    BY <1>1, VersionsPrinted
  <2>2. 1..Len(x) = {}
    BY <2>1
  <2> QED BY <2>2
<1>2. ASSUME NEW i \in Nat, PreviewDateAt(s, i) PROVE x[k].word \notin VWords
  <2>1. PICK a, u, w : a = After(s, i + 1) /\ u = DateSegs(parse_date(a)) /\ w = <<Word("preview")>>
    OBVIOUS
  <2>2. i + 1 \in 0..Len(s) /\ parse_date(a) # NoDate
    BY <1>2, <2>1 DEF PreviewDateAt
  <2>3. a \in Seq(Segments)
    BY <2>1, <2>2, AfterIs
  <2>4. parse_model_and_version(s).version = Version("previewDate", parse_date(a))
    BY <1>2, <2>1, ParsePreviewDate DEF Split
  <2>5. x = w \o u
    BY <2>1, <2>4, VersionsPrinted
  <2>6. u \in Seq(Segments)
    BY <2>1, <2>2, <2>3, DateAgain
  <2>7. w \in Seq(Segments) /\ Len(w) = 1 /\ w[1].word = "preview"
    <3>1. Word("preview") \in Segments /\ Word("preview").word = "preview"
      BY WordSegments
    <3> QED BY <2>1, <3>1
  <2>8. /\ Len(w \o u) = Len(w) + Len(u)
        /\ \A j \in 1..Len(w) : (w \o u)[j] = w[j]
        /\ \A j \in 1..Len(u) : (w \o u)[Len(w) + j] = u[j]
    BY <2>6, <2>7, Joined
  <2>9. CASE k = 1
    <3>1. 1 \in 1..Len(w)
      BY <2>7
    <3>2. x[k] = w[1]
      BY <2>5, <2>8, <2>9, <3>1
    <3> QED BY <2>7, <3>2, NoVIn
  <2>10. CASE k # 1
    <3>1. Len(x) = Len(w) + Len(u) /\ Len(u) \in Nat
      BY <2>5, <2>6, <2>8
    <3>2. k - Len(w) \in 1..Len(u) /\ Len(w) + (k - Len(w)) = k
      BY <2>7, <2>10, <3>1
    <3>3. x[k] = u[k - Len(w)]
      BY <2>5, <2>8, <3>2
    <3>4. \A j \in 1..Len(u) : u[j].word \notin VWords
      BY <2>1, <2>2, <2>3, DateNoV
    <3> QED BY <3>2, <3>3, <3>4
  <2> QED BY <2>9, <2>10
<1>3. ASSUME NEW i \in Nat, WordAt(s, i) PROVE x[k].word \notin VWords
  <2>1. parse_model_and_version(s).version \in {Latest, Preview}
    BY <1>3, ParseWord DEF Split, WordVersion
  <2>2. x = <<Word("latest")>> \/ x = <<Word("preview")>>
    BY <2>1, VersionsPrinted
  <2>3. k = 1
    BY <2>2
  <2>4. x[1] = Word("latest") \/ x[1] = Word("preview")
    BY <2>2
  <2> QED BY <2>3, <2>4, WordSegments, NoVIn
<1>4. ASSUME NEW i \in Nat, DateAt(s, i) PROVE x[k].word \notin VWords
  <2>1. PICK a : a = After(s, i)
    OBVIOUS
  <2>2. i \in 0..Len(s) /\ parse_date(a) # NoDate
    BY <1>4, <2>1 DEF DateAt
  <2>3. a \in Seq(Segments)
    BY <2>1, <2>2, AfterIs
  <2>4. parse_model_and_version(s).version = Version("date", parse_date(a))
    BY <1>4, <2>1, ParseDate DEF Split
  <2>5. x = DateSegs(parse_date(a))
    BY <2>4, VersionsPrinted
  <2> QED BY <2>2, <2>3, <2>5, DateNoV
<1> QED BY <1>1, <1>2, <1>3, <1>4, Outcomes

-----------------------------------------------------------------------------
\* What each kind of provider makes of a name it can read.
LEMMA Sources ==
    ASSUME NEW q, NEW name \in Names, from_str_and_provider(q, name) # NoModel
    PROVE  /\ from_str_and_provider(q, name).provider = q
           /\ q = "bedrock" => from_str_and_provider(q, name) = BedrockModelId(name)
           /\ q = "ollama" => from_str_and_provider(q, name) = OllamaModelId(name)
           /\ q \notin {"bedrock", "ollama"} =>
                 from_str_and_provider(q, name) = PlainId(q, name) /\ Valid(name)
<1>1. CASE q = "bedrock"
  <2>1. from_str_and_provider(q, name) = BedrockModelId(name)
    BY <1>1 DEF from_str_and_provider
  <2>2. PICK m, i : BedrockCut(name.segs, m, i)
    BY <2>1, BedrockParts
  <2>3. name.vendors # <<>>
    BY <2>1, BedrockParts
  <2>4. BedrockModelId(name).provider = "bedrock"
    BY <2>2, <2>3, BedrockPrinted
  <2> QED BY <1>1, <2>1, <2>4
<1>2. CASE q = "ollama"
  BY <1>2, OllamaPrinted
<1>3. CASE q \notin {"bedrock", "ollama"}
  <2>1. from_str_and_provider(q, name) = PlainId(q, name) /\ Valid(name)
    BY <1>3, PlainRead
  <2> QED BY <1>3, <2>1 DEF PlainId, Id
<1> QED BY <1>1, <1>2, <1>3

\* What an id is printed as is a name.
LEMMA DisplayedName ==
    ASSUME NEW q, NEW name \in Names, from_str_and_provider(q, name) # NoModel
    PROVE  Display(from_str_and_provider(q, name)) \in Names
<1>1. CASE q = "bedrock"
  <2>1. from_str_and_provider(q, name) = BedrockModelId(name)
    BY <1>1, Sources
  <2>2. PICK m, i : BedrockCut(name.segs, m, i)
    BY <2>1, BedrockParts
  <2>3. name.vendors # <<>>
    BY <2>1, BedrockParts
  <2>4. PICK d, c : d = Display(BedrockModelId(name)) /\ c = Printed(parse_model_and_version(m))
    OBVIOUS
  <2>5. d.vendors = name.vendors /\ d.tag = name.tag /\ BedrockCut(d.segs, c, i)
    BY <2>2, <2>3, <2>4, BedrockPrinted
  <2>6. d.segs \in Seq(Segments)
    BY <2>5, ConcatProperties DEF BedrockCut
  <2>7. d = [vendors |-> d.vendors, segs |-> d.segs, tag |-> d.tag]
    BY <2>4 DEF Display
  <2>8. name.vendors \in Seq(Words) /\ name.tag \in Words
    BY NameFields
  <2>9. d \in Names
    BY <2>5, <2>6, <2>7, <2>8 DEF Names
  <2> QED BY <2>1, <2>4, <2>9
<1>2. CASE q = "ollama"
  BY <1>2, OllamaPrinted
<1>3. CASE q \notin {"bedrock", "ollama"}
  <2>1. from_str_and_provider(q, name) = PlainId(q, name)
    BY <1>3, Sources
  <2>2. Display(PlainId(q, name)) = Reprinted(name) /\ Reprinted(name) \in Names
    BY PlainPrinted, ReadsIs
  <2> QED BY <2>1, <2>2
<1> QED BY <1>1, <1>2, <1>3

\* A name that ends in its "-v" part, printed, is all model to a plain provider.
LEMMA VEndPrinted ==
    ASSUME NEW name \in Names, BedrockModelId(name) # NoModel, EndsInV(name.segs),
           NEW d, d = Display(BedrockModelId(name))
    PROVE  Reads(d).model = d.segs
<1>1. PICK m, i : BedrockCut(name.segs, m, i)
  BY BedrockParts
<1>2. name.vendors # <<>>
  BY BedrockParts
<1>3. PICK c : c = Printed(parse_model_and_version(m))
  OBVIOUS
<1>4. BedrockCut(d.segs, c, i)
  BY <1>1, <1>2, <1>3, BedrockPrinted
<1>5. /\ m \in Seq(Segments) /\ i \in Seq(Segments) /\ name.segs = m \o i
      /\ Len(m) \in Nat \ {0} /\ Len(i) \in Nat \ {0}
      /\ i[1].word \in VWords /\ \A k \in 2..Len(i) : i[k].word \notin VWords
  BY <1>1 DEF BedrockCut
<1>6. c \in Seq(Segments) /\ d.segs = c \o i /\ Len(c) \in Nat
  BY <1>4 DEF BedrockCut
<1>7. Len(i) \in 1..Len(i)
  BY <1>5
<1>8. /\ Len(m \o i) = Len(m) + Len(i)
      /\ \A k \in 1..Len(i) : (m \o i)[Len(m) + k] = i[k]
  BY <1>5, Joined
<1>9. /\ c \o i \in Seq(Segments) /\ Len(c \o i) = Len(c) + Len(i)
      /\ \A k \in 1..Len(i) : (c \o i)[Len(c) + k] = i[k]
  BY <1>5, <1>6, Joined
<1>10. i[Len(i)].word \in VWords
  <2>1. (m \o i)[Len(m) + Len(i)] = i[Len(i)]
    BY <1>7, <1>8
  <2> QED BY <1>5, <1>8, <2>1 DEF EndsInV
<1>11. d.segs \in Seq(Segments) /\ d.segs[Len(d.segs)].word \in VWords /\ d.segs # <<>>
  <2>1. (c \o i)[Len(c) + Len(i)] = i[Len(i)]
    BY <1>7, <1>9
  <2>2. Len(d.segs) # 0
    BY <1>5, <1>6, <1>9
  <2> QED BY <1>6, <1>9, <1>10, <2>1, <2>2
<1>12. parse_model_and_version(d.segs) = [model |-> d.segs, version |-> ImplicitLatest]
  BY <1>11, VEndIsWhole
<1> QED BY <1>12 DEF Reads

\* A name that is all model to a plain provider is read back as it is sent.
LEMMA WholeAgain ==
    ASSUME NEW p, p \notin {"bedrock", "ollama"}, NEW d \in Names, Reads(d).model = d.segs,
           from_str_and_provider(p, d) # NoModel
    PROVE  Display(from_str_and_provider(p, d)) = d
<1>1. from_str_and_provider(p, d) = PlainId(p, d)
  BY PlainRead
<1>2. Display(PlainId(p, d)) = Reprinted(d) /\ Reprinted(d) = d
  BY PlainPrinted, WholePrinted
<1> QED BY <1>1, <1>2

\* The source of a plain name, sent to a plain provider that offers it.
LEMMA PlainSource ==
    ASSUME NEW p, p \notin {"bedrock", "ollama"}, NEW q, q \notin {"bedrock", "ollama"},
           NEW name \in Names, from_str_and_provider(q, name) # NoModel,
           NEW n \in Names, n = from_model(from_str_and_provider(q, name)), CleanName(p, n)
    PROVE  /\ ReadBack(p, from_str_and_provider(q, name)) # NoModel
           /\ Display(ReadBack(p, from_str_and_provider(q, name)))
                = SentAs(p, from_str_and_provider(q, name))
           /\ from_model(ReadBack(p, from_str_and_provider(q, name))) = n
           /\ p # "anthropic" \/ q # "anthropic" =>
                 /\ ReadBack(p, from_str_and_provider(q, name)).model = Reads(name).model
                 /\ ReadBack(p, from_str_and_provider(q, name)).version = Reads(name).version
<1>1. from_str_and_provider(q, name) = PlainId(q, name) /\ Valid(name) /\ PlainId(q, name).provider = q
  BY Sources
<1>2. n = from_model(PlainId(q, name))
  BY <1>1
<1>3. CASE p = "anthropic" /\ q = "anthropic"
  <2>1. CleanName("anthropic", n) /\ n = from_model(PlainId("anthropic", name))
    BY <1>2, <1>3
  <2>2. /\ ReadBack("anthropic", PlainId("anthropic", name)) # NoModel
        /\ Display(ReadBack("anthropic", PlainId("anthropic", name)))
             = SentAs("anthropic", PlainId("anthropic", name))
        /\ from_model(ReadBack("anthropic", PlainId("anthropic", name))) = n
    BY <2>1, SentAlias
  <2> QED BY <1>1, <1>3, <2>2
<1>4. CASE p # "anthropic" \/ q # "anthropic"
  <2>1. PICK id : id = PlainId(q, name)
    OBVIOUS
  <2>2. SentAs(p, id) = Display(id)
    BY <1>1, <1>4, <2>1, NotAliased
  <2>3. ReadBack(p, id) = PlainId(p, name)
    BY <1>1, <2>1, <2>2, PlainAgain DEF ReadBack, PlainId
  <2>4. Display(PlainId(p, name)) = Display(PlainId(q, name))
    BY PlainPrinted
  <2>5. PlainId(p, name) # NoModel
    BY DEF PlainId, Id, NoModel
  <2>6. from_model(PlainId(p, name)) = n
    <3>1. from_model(PlainId(p, name)) = [vendors |-> name.vendors, segs |-> Reads(name).model,
                                          tag |-> name.tag]
      BY PlainModel
    <3>2. from_model(PlainId(q, name)) = [vendors |-> name.vendors, segs |-> Reads(name).model,
                                          tag |-> name.tag]
      BY PlainModel
    <3> QED BY <1>2, <3>1, <3>2
  <2>7. PlainId(p, name).model = Reads(name).model /\ PlainId(p, name).version = Reads(name).version
    BY DEF PlainId, Id
  <2> QED BY <1>1, <2>1, <2>2, <2>3, <2>4, <2>5, <2>6, <2>7
<1> QED BY <1>3, <1>4

\* A source that is sent as it is, to Bedrock.
LEMMA BedrockSource ==
    ASSUME NEW q, NEW name \in Names, from_str_and_provider(q, name) # NoModel,
           NEW n \in Names, n = from_model(from_str_and_provider(q, name)), CleanName("bedrock", n),
           NEW d, d = Display(from_str_and_provider(q, name))
    PROVE  Display(BedrockModelId(d)) = d
<1>1. CASE q = "bedrock"
  <2>1. from_str_and_provider(q, name) = BedrockModelId(name)
    BY <1>1, Sources
  <2> QED BY <2>1, BedrockAgain
<1>2. CASE q # "bedrock"
  <2>1. d \in Names
    BY DisplayedName
  <2>2. BedrockModelId(n) # NoModel /\ Display(BedrockModelId(n)) = n
    BY DEF CleanName, from_str_and_provider
  <2>3. CASE q = "ollama"
    <3>1. d = name /\ n = [vendors |-> name.vendors, segs |-> name.segs, tag |-> NoText]
      BY <2>3, OllamaPrinted
    <3>2. n.vendors = name.vendors /\ n.segs = name.segs
      BY <3>1
    <3>3. PICK x : x = <<>>
      OBVIOUS
    <3>4. x \in Seq(Segments) /\ \A k \in 1..Len(x) : x[k].word \notin VWords
      BY <3>3
    <3>5. name.segs \o <<>> = name.segs
      BY NameFields, ConcatEmptySeq
    <3>6. d.vendors = n.vendors /\ d.segs = n.segs \o x
      BY <3>1, <3>2, <3>3, <3>5
    <3> QED BY <2>1, <2>2, <3>4, <3>6, BedrockLonger
  <2>4. CASE q # "ollama"
    <3>1. from_str_and_provider(q, name) = PlainId(q, name)
      BY <1>2, <2>4, Sources
    <3>2. d = Reprinted(name)
      BY <3>1, PlainPrinted
    <3>3. n = [vendors |-> name.vendors, segs |-> Reads(name).model, tag |-> name.tag]
      BY <2>4, <3>1, PlainModel
    <3>4. n.vendors = name.vendors /\ n.segs = Reads(name).model
      BY <3>3
    <3>5. PICK x : x = VersionSegs(Reads(name).version)
      OBVIOUS
    <3>6. x \in Seq(Segments)
      BY <3>5, ReadsIs
    <3>7. \A k \in 1..Len(x) : x[k].word \notin VWords
      <4>1. CASE name.tag = NoText
        <5>1. name.segs \in Seq(Segments)
          BY NameFields
        <5>2. x = VersionSegs(parse_model_and_version(name.segs).version)
          BY <3>5, <4>1 DEF Reads
        <5> QED BY <5>1, <5>2, VersionNoV
      <4>2. CASE name.tag # NoText
        <5>1. x = VersionSegs(ImplicitLatest)
          BY <3>5, <4>2 DEF Reads
        <5>2. x = <<>>
          BY <5>1, VersionsPrinted
        <5> QED BY <5>2
      <4> QED BY <4>1, <4>2
    <3>8. d.vendors = n.vendors /\ d.segs = n.segs \o x
      <4>1. d.vendors = name.vendors /\ d.segs = Printed(Reads(name))
        BY <3>2 DEF Reprinted
      <4>2. Printed(Reads(name)) = Reads(name).model \o x
        BY <3>5 DEF Printed
      <4> QED BY <3>4, <4>1, <4>2
    <3> QED BY <2>1, <2>2, <3>6, <3>7, <3>8, BedrockLonger
  <2> QED BY <2>3, <2>4
<1> QED BY <1>1, <1>2

\* The source, offered by the provider it is sent to, is read back as it was sent.
LEMMA SourceAgain ==
    ASSUME NEW p, NEW q, NEW name \in Names, from_str_and_provider(q, name) # NoModel,
           NEW n \in Names, n = from_model(from_str_and_provider(q, name)), CleanName(p, n),
           q = "bedrock" => EndsInV(name.segs),
           ReadBack(p, from_str_and_provider(q, name)) # NoModel
    PROVE  Display(ReadBack(p, from_str_and_provider(q, name)))
             = SentAs(p, from_str_and_provider(q, name))
<1>1. PICK id, d : id = from_str_and_provider(q, name) /\ d = Display(id)
  OBVIOUS
<1>2. id.provider = q /\ d \in Names
  BY <1>1, Sources, DisplayedName
<1>3. p # "anthropic" \/ q # "anthropic" => SentAs(p, id) = d /\ ReadBack(p, id) = from_str_and_provider(p, d)
  BY <1>1, <1>2, NotAliased DEF ReadBack
<1>4. CASE p = "ollama"
  BY <1>1, <1>2, <1>3, <1>4, OllamaPrinted
<1>5. CASE p = "bedrock"
  <2>1. Display(BedrockModelId(d)) = d
    BY <1>1, <1>5, BedrockSource
  <2>2. from_str_and_provider(p, d) = BedrockModelId(d)
    BY <1>5 DEF from_str_and_provider
  <2> QED BY <1>1, <1>3, <1>5, <2>1, <2>2
<1>6. CASE p \notin {"bedrock", "ollama"}
  <2>1. CASE q \notin {"bedrock", "ollama"}
    BY <1>6, <2>1, PlainSource
  <2>2. ASSUME Reads(d).model = d.segs, q # "anthropic"
        PROVE  Display(ReadBack(p, id)) = SentAs(p, id)
    <3>1. from_str_and_provider(p, d) # NoModel
      BY <1>1, <1>3, <2>2
    <3> QED BY <1>2, <1>3, <1>6, <2>2, <3>1, WholeAgain
  <2>3. CASE q = "ollama"
    <3>1. d = name /\ n = [vendors |-> name.vendors, segs |-> name.segs, tag |-> NoText]
      BY <1>1, <2>3, OllamaPrinted
    <3>2. n.segs = name.segs /\ n.tag = NoText
      BY <3>1
    <3>3. Reads(n).model = n.segs
      BY <1>6, CleanPlain
    <3>4. parse_model_and_version(name.segs).model = name.segs
      BY <3>2, <3>3 DEF Reads
    <3>5. Reads(d).model = d.segs
      BY <3>1, <3>4 DEF Reads
    <3> QED BY <1>1, <2>2, <2>3, <3>5
  <2>4. CASE q = "bedrock"
    <3>1. id = BedrockModelId(name) /\ BedrockModelId(name) # NoModel
      BY <1>1, <2>4, Sources
    <3>2. Reads(d).model = d.segs
      BY <1>1, <2>4, <3>1, VEndPrinted
    <3> QED BY <1>1, <2>2, <2>4, <3>2
  <2> QED BY <2>1, <2>3, <2>4
<1> QED BY <1>4, <1>5, <1>6

\* A name that is all model does not end in a word for a version.
LEMMA NoWordAtEnd ==
    ASSUME NEW b \in Seq(Segments), parse_model_and_version(b).model = b, Len(b) > 1
    PROVE  b[Len(b)].word # "preview"
<1> SUFFICES ASSUME b[Len(b)].word = "preview" PROVE FALSE
  OBVIOUS
<1>1. PICK i : i = Len(b) - 1
  OBVIOUS
<1>2. i \in 1..(Len(b) - 1) /\ i \in 0..Len(b) /\ i # Len(b)
  BY <1>1
<1>3. "preview" \in LatestWords \cup PreviewWords
  BY DEF PreviewWords
<1>4. WordAt(b, i)
  BY <1>1, <1>2, <1>3 DEF WordAt
<1>5. parse_model_and_version(b).model = SubSeq(b, 1, i)
  BY <1>4, ParseWord DEF Split
<1>6. Len(SubSeq(b, 1, i)) = i
  BY <1>2, BeforeIs
<1> QED BY <1>2, <1>5, <1>6

\* A model followed by a version is parsed as the two, whatever the version, but for
\* a month and a day after what could be a year.
LEMMA PinnedParse ==
    ASSUME NEW s \in Seq(Segments), NEW i \in 1..(Len(s) - 1),
           NEW b, b = SubSeq(s, 1, i), NEW v, v = SubSeq(s, i + 1, Len(s)),
           parse_model_and_version(b).model = b, Meant(v) # ImplicitLatest,
           ~(EndsLikeYear(b) /\ parse_date(v).fmt = "%m-%d")
    PROVE  /\ parse_model_and_version(s) = [model |-> b, version |-> Meant(v)]
           /\ s # <<>> /\ s[Len(s)] # Blank
<1>1. PICK n : n = Len(s)
  OBVIOUS
<1>2. n \in Nat /\ i \in Nat /\ i \in 0..n /\ i \in 1..n /\ i + 1 \in 0..n /\ n > 0 /\ i < n
  BY <1>1
<1>3. b \in Seq(Segments) /\ Len(b) = i /\ \A k \in 1..i : b[k] = s[k]
  BY <1>1, <1>2, BeforeIs
<1>4. v = After(s, i)
  BY DEF After
<1>5. v \in Seq(Segments) /\ Len(v) = n - i /\ \A k \in 1..(n - i) : v[k] = s[i + k]
  BY <1>1, <1>2, <1>4, AfterIs
<1>6. b[Len(b)] = s[i]
  BY <1>2, <1>3
<1>7. s # <<>>
  BY <1>1, <1>2
<1>8. Split(s, i, Meant(v)) = [model |-> b, version |-> Meant(v)]
  BY DEF Split
<1>9. Blank.word = NoText /\ Blank.width = 0
  BY DEF Blank, Word
<1>10. ASSUME NEW j \in 0..(n - 1), parse_date(After(s, j)) # NoDate PROVE s[n] # Blank
  <2>1. PICK a : a = After(s, j)
    OBVIOUS
  <2>0. j \in 0..Len(s)
    BY <1>1, <1>2
  <2>2. a \in Seq(Segments) /\ Len(a) = n - j /\ \A k \in 1..(n - j) : a[k] = s[j + k]
    BY <1>1, <2>0, <2>1, AfterIs
  <2>3. n - j \in 1..(n - j) /\ j + (n - j) = n /\ n - j \in 1..Len(a)
    BY <1>2, <2>2
  <2>4. a[n - j] = s[n]
    BY <2>2, <2>3
  <2>5. a[n - j].width # 0
    BY <1>10, <2>1, <2>2, <2>3, DateShape
  <2> QED BY <1>9, <2>4, <2>5
<1>11. CASE Len(v) > 1 /\ v[1] = Word("preview") /\ parse_date(Tail(v)) # NoDate
  <2>1. i \in 1..(n - 2) /\ 1 \in 1..(n - i) /\ i + 1 \in 0..(n - 1)
    BY <1>2, <1>5, <1>11
  <2>2. s[i + 1].word = "preview"
    BY <1>5, <1>11, <2>1, WordSegments
  <2>3. PICK a, t : a = After(s, i + 1) /\ t = Tail(v)
    OBVIOUS
  <2>4. i + 1 \in 1..Len(s) /\ Len(s) \in (i + 1)..Len(s)
    BY <1>1, <1>2
  <2>5. Tail(SubSeq(s, i + 1, Len(s))) = SubSeq(s, (i + 1) + 1, Len(s))
    BY <2>4, HeadTailOfSubSeq
  <2>6. a = t
    BY <2>3, <2>5 DEF After
  <2>7. PreviewDateAt(s, i)
    BY <1>1, <1>11, <2>1, <2>2, <2>3, <2>6 DEF PreviewDateAt
  <2>8. Meant(v) = Version("previewDate", parse_date(After(s, i + 1)))
    BY <1>11, <2>3, <2>6 DEF Meant
  <2>9. parse_model_and_version(s) = Split(s, i, Meant(v))
    BY <2>7, <2>8, ParsePreviewDate
  <2>10. s[n] # Blank
    BY <1>10, <1>11, <2>1, <2>3, <2>6
  <2> QED BY <1>1, <1>7, <1>8, <2>9, <2>10
<1>12. CASE ~(Len(v) > 1 /\ v[1] = Word("preview") /\ parse_date(Tail(v)) # NoDate)
  <2>1. Meant(v) = SuffixVersion(v) /\ SuffixVersion(v) # ImplicitLatest
    BY <1>12 DEF Meant
  <2>2. CASE parse_date(v) # NoDate
    <3>1. i > 1 => s[i].word # "preview"
      BY <1>3, <1>6, NoWordAtEnd
    <3>2. ASSUME i > 1, n = i + 2, parse_date(After(s, i - 1)) # NoDate PROVE FALSE
      <4>1. i - 1 \in 0..n /\ i \in ((i - 1) + 1)..n
        BY <1>2, <3>2
      <4>2. s[i].width \in 1..4
        BY <1>1, <1>4, <2>2, <3>2, <4>1, DateInDate
      <4>3. EndsLikeYear(b)
        BY <1>6, <4>2 DEF EndsLikeYear
      <4>4. Len(v) = 2
        BY <1>2, <1>5, <3>2
      <4>5. parse_date(v).fmt = "%m-%d"
        BY <1>5, <2>2, <4>4, DateShape
      <4> QED BY <4>3, <4>5
    <3>3. DateAt(s, i)
      BY <1>1, <1>4, <2>2, <3>1, <3>2 DEF DateAt
    <3>4. parse_model_and_version(s) = Split(s, i, Meant(v))
      BY <1>4, <2>1, <2>2, <3>3, ParseDate, SuffixIs
    <3>5. s[n] # Blank
      <4>1. i \in 0..(n - 1)
        BY <1>2
      <4> QED BY <1>4, <1>10, <2>2, <4>1
    <3> QED BY <1>1, <1>7, <1>8, <3>4, <3>5
  <2>3. CASE parse_date(v) = NoDate
    <3>1. Len(v) = 1 /\ v[1].word \in LatestWords \cup PreviewWords
          /\ SuffixVersion(v) = WordVersion(v[1].word)
      BY <2>1, <2>3, SuffixIs
    <3>2. i = n - 1 /\ 1 \in 1..(n - i) /\ i + 1 = n
      BY <1>2, <1>5, <3>1
    <3>3. v[1] = s[n]
      BY <1>5, <3>2
    <3>4. WordAt(s, i)
      BY <1>1, <3>1, <3>2, <3>3 DEF WordAt
    <3>5. parse_model_and_version(s) = Split(s, i, Meant(v))
      BY <1>1, <2>1, <3>1, <3>3, <3>4, ParseWord
    <3>6. s[n] # Blank
      BY <1>9, <3>1, <3>3, VersionWords
    <3> QED BY <1>1, <1>7, <1>8, <3>5, <3>6
  <2> QED BY <2>2, <2>3
<1> QED BY <1>11, <1>12

\* The model's operators, by the values they read.
MappedFor(c, r, p) ==
    IF p \notin Endpoints \cap Converters \/ from_str(r) = NoModel THEN {NoModel}
    ELSE map_model(c, r, from_str(r), p)
ContextFor(p, id) == IF id = NoModel THEN NoModel ELSE ReadBack(p, id)
CleanFor(c) == \A p \in DOMAIN c.offered : \A n \in c.offered[p] : CleanName(p, n)
KnownBy(c, p) == {from_model(from_str_and_provider(p, n)) : n \in c.offered[p]}

\* How a request got its provider, and how one is refused without.
Destined(c, r, p) ==
    \/ r.route = "router" /\ p \in c.targets
    \/ r.route = "unified" /\ p = r.prefix /\ from_str(r) # NoModel /\ p \in DOMAIN c.offered
Refused(r, p) == r.route = "unified" /\ p = NoText

\* What was sent and remembered is what the mapper made of one of the ids.
Made(c, r, p, x, s) ==
    \E id \in MappedFor(c, r, p) :
        /\ ContextFor(p, id) # NoModel
        /\ x = [model |-> ContextFor(p, id), is_stream |-> r.stream]
        /\ s = [body |-> try_convert(p, r, Aliased(id, p)), path |-> Path(p, x)]
Unmapped(c, r, p) == \E id \in MappedFor(c, r, p) : ContextFor(p, id) = NoModel

MappingIs(g, c, r, p, w, x, s) ==
    /\ c \in Configs
    /\ g = "serving" => validate_model_mappings(c)
    /\ w \in {"none", "routed", "sent", "failed"}
    /\ w # "none" => g = "serving" /\ r \in Requests
    /\ w \in {"routed", "sent"} => Destined(c, r, p)
    /\ w = "sent" => Made(c, r, p, x, s)
    /\ w = "failed" => Refused(r, p) \/ (Destined(c, r, p) /\ Unmapped(c, r, p))

\* The invariant that the theorems on the mapping rest on.
MappingInv == MappingIs(stage, config, asked, target, at, ctx, sent)

\* They are the model's operators.
LEMMA ByValue ==
    /\ Mapped = MappedFor(config, asked, target)
    /\ \A id : ContextModel(id) = ContextFor(target, id)
    /\ Clean <=> CleanFor(config)
    /\ \A p : Known(p) = KnownBy(config, p)
<1>1. Mapped = MappedFor(config, asked, target)
  BY DEF Mapped, MappedFor
<1>2. \A id : ContextModel(id) = ContextFor(target, id)
  BY DEF ContextModel, ContextFor, ReadBack, SentAs
<1>3. Clean <=> CleanFor(config)
  BY DEF Clean, CleanFor, CleanName
<1>4. \A p : Known(p) = KnownBy(config, p)
  BY DEF Known, KnownBy
<1> QED BY <1>1, <1>2, <1>3, <1>4

\* The invariant holds while the configuration is loaded.
LEMMA MappingInitInv == MappingInit => MappingInv
  BY DEF MappingInit, MappingInv, MappingIs

\* Every step keeps it.
LEMMA MappingNextInv == MappingInv /\ [MappingNext]_mappingVars => MappingInv'
<1> SUFFICES ASSUME MappingInv, [MappingNext]_mappingVars PROVE MappingInv'
  OBVIOUS
<1>1. CASE Validate
  BY <1>1 DEF Validate, MappingInv, MappingIs
<1>2. ASSUME NEW r \in Requests, Balance(r) PROVE MappingInv'
  BY <1>2 DEF Balance, MappingInv, MappingIs, Destined
<1>3. ASSUME NEW r \in Requests, Determine(r) PROVE MappingInv'
  BY <1>3 DEF Determine, MappingInv, MappingIs, Destined, Refused
<1>4. CASE MapRequest
  <2>1. PICK id \in MappedFor(config, asked, target) :
           /\ ContextFor(target, id) # NoModel
           /\ ctx' = [model |-> ContextFor(target, id), is_stream |-> asked.stream]
           /\ sent' = [body |-> try_convert(target, asked, Aliased(id, target)),
                       path |-> Path(target, ctx')]
    BY <1>4, ByValue DEF MapRequest
  <2>2. Made(config, asked, target, ctx', sent')
    BY <2>1 DEF Made
  <2>3. at = "routed" /\ at' = "sent" /\ UNCHANGED <<stage, config, asked, target>>
    BY <1>4 DEF MapRequest
  <2> QED BY <2>2, <2>3 DEF MappingInv, MappingIs
<1>5. CASE MapFails
  <2>1. Unmapped(config, asked, target)
    BY <1>5, ByValue DEF MapFails, Unmapped
  <2>2. at = "routed" /\ at' = "failed" /\ UNCHANGED <<stage, config, asked, target, sent, ctx>>
    BY <1>5 DEF MapFails
  <2> QED BY <2>1, <2>2 DEF MappingInv, MappingIs
<1>6. CASE Answered
  BY <1>6 DEF Answered, MappingInv, MappingIs
<1>7. CASE UNCHANGED mappingVars
  BY <1>7 DEF mappingVars, MappingInv, MappingIs
<1> QED BY <1>1, <1>2, <1>3, <1>4, <1>5, <1>6, <1>7 DEF MappingNext

\* At every stage of a request: it is served by a configuration that validation
\* accepted, its provider is one the router or its name gave, and what was sent and
\* remembered, or refused, is what the mapper makes of that request.
THEOREM MappingInvariant == MappingSpec => []MappingInv
  BY MappingInitInv, MappingNextInv, PTL DEF MappingSpec

-----------------------------------------------------------------------------
\* AnswerAsAsked
LEMMA MadeAnswer ==
    ASSUME NEW c, NEW r \in Requests, NEW p, NEW x, NEW s, Made(c, r, p, x, s)
    PROVE  /\ x.is_stream = r.stream
           /\ (s.body.stream \/ s.path.stream) = x.is_stream
           /\ IF p = "bedrock" /\ r.limit = 0
              THEN Allowed(s.body) = DEFAULT_MAX_TOKENS
              ELSE Allowed(r) # 0 => Allowed(s.body) \in 1..Allowed(r)
<1>1. PICK id : /\ x = [model |-> ContextFor(p, id), is_stream |-> r.stream]
                /\ s = [body |-> try_convert(p, r, Aliased(id, p)), path |-> Path(p, x)]
  BY DEF Made
<1>2. PICK a : a = Aliased(id, p)
  OBVIOUS
<1>3. /\ r.stream \in BOOLEAN /\ r.limit \in Nat /\ r.old \in Nat
      /\ I32Max \in Nat /\ DEFAULT_MAX_TOKENS \in 1..I32Max
  BY MappingConstants
<1>4. x.is_stream = r.stream /\ s.body = try_convert(p, r, a) /\ s.path = Path(p, x)
  BY <1>1, <1>2
<1>5. CASE p = "anthropic"
  <2>1. s.body = AnthropicRequest(r, a)
    BY <1>4, <1>5 DEF try_convert
  <2>2. s.body.stream = r.stream /\ (Allowed(r) # 0 => s.body.limit = Allowed(r))
    BY <2>1 DEF AnthropicRequest, Allowed
  <2>3. s.path.stream = FALSE
    BY <1>4, <1>5 DEF Path
  <2>4. Allowed(r) # 0 => Allowed(s.body) \in 1..Allowed(r)
    BY <1>3, <2>2 DEF Allowed
  <2> QED BY <1>3, <1>4, <1>5, <2>2, <2>3, <2>4
<1>6. CASE p = "bedrock"
  <2>1. s.body = BedrockRequest(r, a)
    BY <1>4, <1>6 DEF try_convert
  <2>2. s.body.stream = FALSE /\ s.body.limit = BedrockLimit(r)
    BY <2>1 DEF BedrockRequest
  <2>3. s.path.stream = x.is_stream
    BY <1>4, <1>6 DEF Path
  <2>4. /\ r.limit # 0 => BedrockLimit(r) \in 1..r.limit
        /\ r.limit = 0 => BedrockLimit(r) = DEFAULT_MAX_TOKENS
        /\ BedrockLimit(r) # 0
    BY <1>3 DEF BedrockLimit
  <2>5. Allowed(s.body) = BedrockLimit(r) /\ (r.limit # 0 => Allowed(r) = r.limit)
    BY <2>2, <2>4 DEF Allowed
  <2> QED BY <1>3, <1>4, <1>6, <2>2, <2>3, <2>4, <2>5
<1>7. CASE p \notin {"anthropic", "bedrock"}
  <2>1. s.body = OpenAIRequest(r, a)
    BY <1>4, <1>7 DEF try_convert
  <2>2. s.body.stream = r.stream /\ s.body.limit = r.limit /\ s.body.old = r.old
    BY <2>1 DEF OpenAIRequest
  <2>3. s.path.stream = FALSE
    BY <1>4, <1>7 DEF Path
  <2>4. Allowed(r) # 0 => Allowed(s.body) \in 1..Allowed(r)
    BY <1>3, <2>2 DEF Allowed
  <2> QED BY <1>3, <1>4, <1>7, <2>2, <2>3, <2>4
<1> QED BY <1>5, <1>6, <1>7

\* The provider is asked to stream exactly when a stream will be read, and for no
\* more tokens than the client allows by either of its limits, except that Bedrock is
\* asked for the default when the client gave only max_tokens.
THEOREM AskedIsAnswered == MappingSpec => []AnswerAsAsked
<1>1. MappingInv => AnswerAsAsked
  BY MadeAnswer DEF MappingInv, MappingIs, AnswerAsAsked
<1> QED BY <1>1, MappingInvariant, PTL

\* A provider that a request was given has models, which are names.
LEMMA DestinedOffers ==
    ASSUME NEW c \in Configs, validate_model_mappings(c), NEW r, NEW p, Destined(c, r, p)
    PROVE  p \in DOMAIN c.offered /\ c.offered[p] \subseteq Names
<1>1. p \in DOMAIN c.offered
  BY DEF Destined, validate_model_mappings
<1> QED BY <1>1, MappingConstants

\* An id the mapper may choose: the source, which the provider offers, or an
\* offered alternative; or there is none.
LEMMA MappedIs ==
    ASSUME NEW c, NEW r, NEW p, NEW id \in MappedFor(c, r, p), id # NoModel
    PROVE  /\ p \in Endpoints
           /\ r.prefix # NoText /\ from_str(r) = from_str_and_provider(r.prefix, r.name)
           /\ from_str_and_provider(r.prefix, r.name) # NoModel
           /\ \/ /\ id = from_str_and_provider(r.prefix, r.name)
                 /\ from_model(from_str_and_provider(r.prefix, r.name)) \in c.offered[p]
              \/ \E a \in c.offered[p] : id = from_str_and_provider(p, a)
<1>1. p \in Endpoints /\ from_str(r) # NoModel /\ id \in map_model(c, r, from_str(r), p)
  BY DEF MappedFor
<1>2. r.prefix # NoText /\ from_str(r) = from_str_and_provider(r.prefix, r.name)
  BY <1>1 DEF from_str
<1>3. PICK src : src = from_str(r)
  OBVIOUS
<1>4. \/ id = src /\ from_model(src) \in c.offered[p]
      \/ \E a \in c.offered[p] : id = from_str_and_provider(p, a)
  BY <1>1, <1>3 DEF map_model
<1> QED BY <1>1, <1>2, <1>3, <1>4

\* Whatever is sent is remembered as it was sent.
LEMMA ReadAsSent ==
    ASSUME NEW c \in Configs, NEW r \in Requests, NEW p, p \in DOMAIN c.offered,
           c.offered[p] \subseteq Names, CleanFor(c),
           r.prefix = "bedrock" => EndsInV(r.name.segs),
           NEW id \in MappedFor(c, r, p), ContextFor(p, id) # NoModel
    PROVE  Display(ContextFor(p, id)) = SentAs(p, id)
<1>1. id # NoModel /\ ContextFor(p, id) = ReadBack(p, id) /\ ReadBack(p, id) # NoModel
  BY DEF ContextFor
<1>2. PICK q, name, src : q = r.prefix /\ name = r.name /\ src = from_str_and_provider(q, name)
  OBVIOUS
<1>3. name \in Names
  BY <1>2, MappingConstants
<1>4. src # NoModel
  BY <1>1, <1>2, MappedIs
<1>5. \/ id = src /\ from_model(src) \in c.offered[p]
      \/ \E a \in c.offered[p] : id = from_str_and_provider(p, a)
  BY <1>1, <1>2, MappedIs
<1>6. ASSUME NEW a \in c.offered[p] PROVE a \in Names /\ CleanName(p, a)
  BY DEF CleanFor
<1>7. CASE id = src /\ from_model(src) \in c.offered[p]
  <2>1. PICK n : n = from_model(src)
    OBVIOUS
  <2>2. n \in Names /\ CleanName(p, n)
    BY <1>6, <1>7, <2>1
  <2>3. q = "bedrock" => EndsInV(name.segs)
    BY <1>2
  <2>4. ReadBack(p, src) # NoModel
    BY <1>1, <1>7
  <2>5. Display(ReadBack(p, src)) = SentAs(p, src)
    BY <1>2, <1>3, <1>4, <2>1, <2>2, <2>3, <2>4, SourceAgain
  <2> QED BY <1>1, <1>7, <2>5
<1>8. ASSUME NEW a \in c.offered[p], id = from_str_and_provider(p, a)
      PROVE  Display(ContextFor(p, id)) = SentAs(p, id)
  <2>1. a \in Names /\ CleanName(p, a)
    BY <1>6
  <2>2. Display(ReadBack(p, id)) = SentAs(p, id)
    BY <1>8, <2>1, AlternativeAgain
  <2> QED BY <1>1, <2>2
<1> QED BY <1>5, <1>7, <1>8

\* Whatever the format, the model of the body is the id that was asked for, printed.
LEMMA ConvertedModel ==
    ASSUME NEW p, NEW r, NEW a
    PROVE  try_convert(p, r, a).model = Display(a)
<1>1. CASE p = "anthropic"
  BY <1>1 DEF try_convert, AnthropicRequest
<1>2. CASE p = "bedrock"
  BY <1>2 DEF try_convert, BedrockRequest
<1>3. CASE p \notin {"anthropic", "bedrock"}
  BY <1>3 DEF try_convert, OpenAIRequest
<1> QED BY <1>1, <1>2, <1>3

\* What is remembered of a request, printed, is what was sent.
LEMMA MadeContext ==
    ASSUME NEW c \in Configs, validate_model_mappings(c), NEW r \in Requests, NEW p,
           Destined(c, r, p), CleanFor(c), r.prefix = "bedrock" => EndsInV(r.name.segs),
           NEW x, NEW s, Made(c, r, p, x, s)
    PROVE  /\ Display(x.model) = s.body.model
           /\ p = "bedrock" => s.path.model = s.body.model
<1>1. PICK id \in MappedFor(c, r, p) :
           /\ ContextFor(p, id) # NoModel
           /\ x = [model |-> ContextFor(p, id), is_stream |-> r.stream]
           /\ s = [body |-> try_convert(p, r, Aliased(id, p)), path |-> Path(p, x)]
  BY DEF Made
<1>2. p \in DOMAIN c.offered /\ c.offered[p] \subseteq Names
  BY DestinedOffers
<1>3. Display(ContextFor(p, id)) = SentAs(p, id)
  BY <1>1, <1>2, ReadAsSent
<1>4. s.body.model = SentAs(p, id)
  BY <1>1, ConvertedModel DEF SentAs
<1>5. x.model = ContextFor(p, id)
  BY <1>1
<1>6. p = "bedrock" => s.path.model = Display(x.model)
  BY <1>1 DEF Path
<1> QED BY <1>3, <1>4, <1>5, <1>6

\* What the gateway remembers of a request is what it sent.
THEOREM RememberedAsSent == MappingSpec => []ContextIsSent
<1>1. MappingInv => ContextIsSent
  <2> SUFFICES ASSUME MappingInv, at = "sent", Clean,
                      asked.prefix = "bedrock" => EndsInV(asked.name.segs)
               PROVE  /\ Display(ctx.model) = sent.body.model
                      /\ target = "bedrock" => sent.path.model = sent.body.model
    BY DEF ContextIsSent
  <2>1. /\ config \in Configs /\ validate_model_mappings(config) /\ asked \in Requests
        /\ Destined(config, asked, target) /\ Made(config, asked, target, ctx, sent)
    BY DEF MappingInv, MappingIs
  <2>2. CleanFor(config)
    BY ByValue
  <2> QED BY <2>1, <2>2, MadeContext
<1> QED BY <1>1, MappingInvariant, PTL

-----------------------------------------------------------------------------
\* A plain source offered by its provider: read back as a model it offers.
LEMMA PlainOffered ==
    ASSUME NEW p \in Endpoints, NEW q, q \notin {"bedrock", "ollama"}, NEW name \in Names,
           name.vendors = <<>>, name.tag = NoText,
           NEW src, src = from_str_and_provider(q, name), src # NoModel,
           NEW n \in Names, n = from_model(src), CleanName(p, n),
           p = "ollama" => src.version = ImplicitLatest
    PROVE  /\ ReadBack(p, src) # NoModel
           /\ from_model(ReadBack(p, src)) = from_model(from_str_and_provider(p, n))
<1>1. src = PlainId(q, name) /\ Valid(name) /\ src.provider = q
  BY Sources
<1>2. n = [vendors |-> name.vendors, segs |-> Reads(name).model, tag |-> name.tag]
  BY <1>1, PlainModel
<1>3. n.vendors = <<>> /\ n.segs = Reads(name).model /\ n.tag = NoText
  BY <1>2
<1>4. CASE p \notin {"bedrock", "ollama"}
  <2>1. ReadBack(p, src) # NoModel /\ from_model(ReadBack(p, src)) = n
    BY <1>4, PlainSource
  <2>2. from_model(from_str_and_provider(p, n)) = n
    BY <1>4 DEF CleanName
  <2> QED BY <2>1, <2>2
<1>5. CASE p = "bedrock"
  <2>1. BedrockModelId(n) # NoModel
    BY <1>5 DEF CleanName, from_str_and_provider
  <2> QED BY <1>3, <2>1, BedrockParts
<1>6. CASE p = "ollama"
  <2>1. PICK d : d = Display(src)
    OBVIOUS
  <2>2. d \in Names /\ d = Reprinted(name)
    BY <1>1, <2>1, DisplayedName, PlainPrinted
  <2>3. Reads(name).version = ImplicitLatest
    BY <1>1, <1>6 DEF PlainId, Id
  <2>4. Reads(name).model \o <<>> = Reads(name).model
    BY ReadsIs, ConcatEmptySeq
  <2>5. Printed(Reads(name)) = n.segs
    BY <1>3, <2>3, <2>4, VersionsPrinted DEF Printed
  <2>6. d.vendors = n.vendors /\ d.segs = n.segs
    BY <1>3, <2>2, <2>5 DEF Reprinted
  <2>7. SentAs(p, src) = d
    BY <1>6, <2>1, NotAliased
  <2>8. ReadBack(p, src) = OllamaModelId(d) /\ OllamaModelId(d) # NoModel
        /\ from_model(OllamaModelId(d)) = [vendors |-> d.vendors, segs |-> d.segs, tag |-> NoText]
    BY <1>6, <2>2, <2>7, OllamaPrinted DEF ReadBack
  <2>9. from_model(from_str_and_provider(p, n))
          = [vendors |-> n.vendors, segs |-> n.segs, tag |-> NoText]
    BY <1>6, OllamaPrinted
  <2> QED BY <2>6, <2>8, <2>9
<1> QED BY <1>4, <1>5, <1>6

\* Every id a plain source is mapped to is a model of the target.
LEMMA RoutedIds ==
    ASSUME NEW c \in Configs, validate_model_mappings(c), CleanFor(c),
           NEW r \in Requests, r.route = "router", NEW p \in Endpoints, p \in c.targets,
           from_str(r) # NoModel, Plain(r),
           p = "ollama" => from_str(r).version = ImplicitLatest,
           from_model(from_str(r)) \in UNION {c.offered[q] : q \in c.targets},
           NEW id \in MappedFor(c, r, p)
    PROVE  ContextFor(p, id) # NoModel /\ from_model(ContextFor(p, id)) \in KnownBy(c, p)
<1>1. PICK q, name, src, n : q = r.prefix /\ name = r.name /\ src = from_str(r) /\ n = from_model(src)
  OBVIOUS
<1>2. src = from_str_and_provider(q, name) /\ name \in Names
  BY <1>1, MappingConstants DEF from_str
<1>3. q \notin {"bedrock", "ollama"} /\ name.vendors = <<>> /\ name.tag = NoText
  BY <1>1 DEF Plain
<1>4. p \in DOMAIN c.offered /\ c.offered[p] \subseteq Names
  BY DestinedOffers DEF Destined
<1>5. ASSUME NEW a \in c.offered[p]
      PROVE  a \in Names /\ CleanName(p, a) /\ from_model(from_str_and_provider(p, a)) \in KnownBy(c, p)
  BY <1>4 DEF CleanFor, KnownBy
<1>6. can_map_model(c, n, p)
  BY <1>1 DEF validate_model_mappings
<1>7. MappedFor(c, r, p) = map_model(c, r, src, p)
  BY <1>1 DEF MappedFor, Endpoints, Converters
<1>8. CASE n \in c.offered[p]
  <2>1. id = src
    BY <1>1, <1>7, <1>8 DEF map_model
  <2>2. n \in Names /\ CleanName(p, n) /\ from_model(from_str_and_provider(p, n)) \in KnownBy(c, p)
    BY <1>5, <1>8
  <2>3. src # NoModel /\ (p = "ollama" => src.version = ImplicitLatest)
    BY <1>1
  <2>4. /\ ReadBack(p, src) # NoModel
        /\ from_model(ReadBack(p, src)) = from_model(from_str_and_provider(p, n))
    BY <1>1, <1>2, <1>3, <2>2, <2>3, PlainOffered
  <2>5. ContextFor(p, id) = ReadBack(p, src)
    BY <2>1, <2>3 DEF ContextFor
  <2> QED BY <2>2, <2>4, <2>5
<1>9. CASE n \notin c.offered[p]
  <2>1. PICK a \in c.offered[p] : id = from_str_and_provider(p, a)
    <3>1. PICK o, f : o = Alternatives(c.router, n) \cap c.offered[p]
                      /\ f = Alternatives(c.default, n) \cap c.offered[p]
      OBVIOUS
    <3>2. o # {} \/ f # {}
      BY <1>6, <1>9, <3>1 DEF can_map_model
    <3>3. id \in {from_str_and_provider(p, a) : a \in IF o # {} THEN o ELSE f}
      BY <1>1, <1>7, <1>9, <3>1, <3>2 DEF map_model
    <3> QED BY <3>1, <3>3
  <2>2. a \in Names /\ CleanName(p, a) /\ from_model(from_str_and_provider(p, a)) \in KnownBy(c, p)
    BY <1>5
  <2>3. id # NoModel
    BY <2>1, <2>2 DEF CleanName
  <2>4. ReadBack(p, id) # NoModel /\ from_model(ReadBack(p, id)) = from_model(id)
    BY <2>1, <2>2, AlternativeAgain
  <2>5. ContextFor(p, id) = ReadBack(p, id)
    BY <2>3 DEF ContextFor
  <2> QED BY <2>1, <2>2, <2>4, <2>5
<1> QED BY <1>8, <1>9

\* A request for a model that one of the router's providers offers is never refused.
THEOREM PlainIsNeverRefused == MappingSpec => []PlainIsRouted
<1>1. MappingInv => PlainIsRouted
  <2> SUFFICES ASSUME MappingInv, at \in {"sent", "failed"}, asked.route = "router",
                      target \in Endpoints, Clean, from_str(asked) # NoModel, Plain(asked),
                      target = "ollama" => from_str(asked).version = ImplicitLatest,
                      from_model(from_str(asked)) \in RouterNames
               PROVE  at = "sent" /\ from_model(ctx.model) \in Known(target)
    BY DEF PlainIsRouted
  <2>1. config \in Configs /\ validate_model_mappings(config) /\ asked \in Requests
    BY DEF MappingInv, MappingIs
  <2>2. target \in config.targets
    BY DEF MappingInv, MappingIs, Destined, Refused
  <2>3. CleanFor(config) /\ Known(target) = KnownBy(config, target)
    BY ByValue
  <2>4. from_model(from_str(asked)) \in UNION {config.offered[q] : q \in config.targets}
    BY DEF RouterNames
  <2>5. \A id \in MappedFor(config, asked, target) :
           /\ ContextFor(target, id) # NoModel
           /\ from_model(ContextFor(target, id)) \in KnownBy(config, target)
    BY <2>1, <2>2, <2>3, <2>4, RoutedIds
  <2>6. at # "failed"
    BY <2>5 DEF MappingInv, MappingIs, Refused, Unmapped
  <2>7. Made(config, asked, target, ctx, sent)
    BY <2>6 DEF MappingInv, MappingIs
  <2>8. from_model(ctx.model) \in KnownBy(config, target)
    BY <2>5, <2>7 DEF Made
  <2> QED BY <2>3, <2>6, <2>8
<1> QED BY <1>1, MappingInvariant, PTL

\* The first i segments of a name, and a version they are followed by.
PinnedAt(s, i, b, v) ==
    /\ i \in 1..(Len(s) - 1) /\ b = SubSeq(s, 1, i) /\ v = SubSeq(s, i + 1, Len(s))
    /\ Meant(v) # ImplicitLatest /\ ~(EndsLikeYear(b) /\ parse_date(v).fmt = "%m-%d")

\* A request for an offered model in a version, to the provider that offers it: the
\* source is sent, and read back as that model in that version.
LEMMA PinnedIds ==
    ASSUME NEW c \in Configs, CleanFor(c), NEW r \in Requests, NEW p \in {"openai", "gemini"},
           p \in DOMAIN c.offered, c.offered[p] \subseteq Names,
           r.prefix = p, NEW s, r.name = Name(s),
           NEW i, NEW b, NEW v, PinnedAt(s, i, b, v), Name(b) \in c.offered[p],
           NEW id \in MappedFor(c, r, p)
    PROVE  /\ ContextFor(p, id) # NoModel
           /\ ContextFor(p, id).model = b /\ ContextFor(p, id).version = Meant(v)
<1>1. PICK name, n : name = r.name /\ n = Name(b)
  OBVIOUS
<1>2. name \in Names /\ name.vendors = <<>> /\ name.segs = s /\ name.tag = NoText
  <2>1. name \in Names
    BY <1>1, MappingConstants
  <2>2. name = Name(s)
    BY <1>1
  <2> QED BY <2>1, <2>2 DEF Name
<1>3. s \in Seq(Segments)
  BY <1>2, NameFields
<1>4. n.vendors = <<>> /\ n.segs = b /\ n.tag = NoText
  BY <1>1 DEF Name
<1>5. n \in Names /\ n \in c.offered[p] /\ CleanName(p, n)
  BY <1>1 DEF CleanFor
<1>6. Reads(n).model = n.segs
  BY <1>5, CleanPlain
<1>7. parse_model_and_version(b).model = b
  BY <1>4, <1>6 DEF Reads
<1>8. /\ parse_model_and_version(s) = [model |-> b, version |-> Meant(v)]
      /\ s # <<>> /\ s[Len(s)] # Blank
  BY <1>3, <1>7, PinnedParse DEF PinnedAt
<1>9. Reads(name) = [model |-> b, version |-> Meant(v)] /\ Valid(name)
  BY <1>2, <1>8 DEF Reads, Valid
<1>10. PICK src : src = from_str_and_provider(p, name)
  OBVIOUS
<1>11. src = PlainId(p, name)
  BY <1>9, <1>10, PlainRead
<1>12. src # NoModel
  BY <1>11 DEF PlainId, Id, NoModel
<1>13. from_model(src) = n
  <2>1. from_model(src) = [vendors |-> name.vendors, segs |-> Reads(name).model, tag |-> name.tag]
    BY <1>11, PlainModel
  <2>2. Reads(name).model = b
    BY <1>9
  <2>3. n = [vendors |-> <<>>, segs |-> b, tag |-> NoText]
    BY <1>1 DEF Name
  <2> QED BY <1>2, <2>1, <2>2, <2>3
<1>14. from_str(r) = src
  <2>1. "openai" # NoText /\ "gemini" # NoText
    BY Zenon DEF NoText
  <2>2. r.prefix # NoText
    BY <2>1
  <2> QED BY <1>1, <1>10, <2>2 DEF from_str
<1>15. id = src
  BY <1>5, <1>12, <1>13, <1>14 DEF MappedFor, map_model, Endpoints, Converters
<1>16. /\ ReadBack(p, src) # NoModel
       /\ ReadBack(p, src).model = Reads(name).model /\ ReadBack(p, src).version = Reads(name).version
  <2>1. p \notin {"bedrock", "ollama", "anthropic"}
    OBVIOUS
  <2> QED BY <1>2, <1>5, <1>10, <1>12, <1>13, <2>1, PlainSource
<1>17. ContextFor(p, id) = ReadBack(p, src)
  BY <1>12, <1>15 DEF ContextFor
<1> QED BY <1>9, <1>16, <1>17

\* A version is no part of a model's name.
THEOREM VersionIsKept == MappingSpec => []PinnedModelKept
<1>1. MappingInv => PinnedModelKept
  <2> DEFINE s == asked.name.segs
             base(i) == SubSeq(s, 1, i)
             v(i) == SubSeq(s, i + 1, Len(s))
  <2> SUFFICES ASSUME MappingInv, at \in {"sent", "failed"}, target \in {"openai", "gemini"},
                      asked.prefix = target, Clean, asked.name = Name(s),
                      NEW i \in 1..(Len(s) - 1), Name(base(i)) \in config.offered[target],
                      Meant(v(i)) # ImplicitLatest,
                      ~(EndsLikeYear(base(i)) /\ parse_date(v(i)).fmt = "%m-%d")
               PROVE  at = "sent" /\ ctx.model.model = base(i) /\ ctx.model.version = Meant(v(i))
    BY DEF PinnedModelKept
  <2>1. config \in Configs /\ validate_model_mappings(config) /\ asked \in Requests
    BY DEF MappingInv, MappingIs
  <2>2. ~Refused(asked, target)
    <3>1. "openai" # NoText /\ "gemini" # NoText
      BY Zenon DEF NoText
    <3> QED BY <3>1 DEF Refused
  <2>3. Destined(config, asked, target)
    BY <2>2 DEF MappingInv, MappingIs
  <2>4. target \in DOMAIN config.offered /\ config.offered[target] \subseteq Names
    BY <2>1, <2>3, DestinedOffers
  <2>5. CleanFor(config)
    BY ByValue
  <2>6. ASSUME NEW id \in MappedFor(config, asked, target)
        PROVE  /\ ContextFor(target, id) # NoModel
               /\ ContextFor(target, id).model = base(i)
               /\ ContextFor(target, id).version = Meant(v(i))
    <3>1. PICK c, r, p, t, b, w :
              c = config /\ r = asked /\ p = target /\ t = asked.name.segs /\ b = base(i) /\ w = v(i)
      OBVIOUS
    <3>2. PinnedAt(t, i, b, w)
      BY <3>1 DEF PinnedAt
    <3>3. /\ c \in Configs /\ CleanFor(c) /\ r \in Requests /\ p \in {"openai", "gemini"}
          /\ p \in DOMAIN c.offered /\ c.offered[p] \subseteq Names /\ r.prefix = p
          /\ r.name = Name(t) /\ t = r.name.segs /\ Name(b) \in c.offered[p]
          /\ id \in MappedFor(c, r, p)
      BY <2>1, <2>4, <2>5, <3>1
    <3> HIDE DEF s, base, v
    <3>4. /\ ContextFor(p, id) # NoModel
          /\ ContextFor(p, id).model = b /\ ContextFor(p, id).version = Meant(w)
      BY <3>2, <3>3, PinnedIds
    <3> QED BY <3>1, <3>4
  <2> HIDE DEF s, base, v
  <2>7. at # "failed"
    BY <2>2, <2>6 DEF MappingInv, MappingIs, Unmapped
  <2>8. Made(config, asked, target, ctx, sent)
    BY <2>7 DEF MappingInv, MappingIs
  <2>9. ctx.model.model = base(i) /\ ctx.model.version = Meant(v(i))
    BY <2>6, <2>8 DEF Made
  <2> QED BY <2>7, <2>9
<1> QED BY <1>1, MappingInvariant, PTL

-----------------------------------------------------------------------------
PartKinds == {"text", "refusal", "http", "data", "baddata", "audio"}

\* The text of a part, of a sequence of parts, and of a message of a conversation.
TextOfPart(x) == IF x.kind \in {"text", "refusal", "result"} THEN <<x.text>> ELSE <<>>
SaidBy(ps) == FlattenSeq([j \in DOMAIN ps |-> TextOfPart(ps[j])])
Said(m) == IF m.role \in {"system", "function"} THEN <<>> ELSE SaidBy(m.parts)
BlocksOf(p, ps) == FlattenSeq([i \in DOMAIN ps |-> Block(p, ps[i])])

\* A part becomes a text of the same text, an image where it said nothing, or
\* nothing where it said nothing.
LEMMA BlockSaid ==
    ASSUME NEW p, NEW x, x.kind \in PartKinds
    PROVE  \/ Block(p, x) = <<>> /\ TextOfPart(x) = <<>>
           \/ Block(p, x) = <<TextOf(x)>> /\ TextOfPart(x) = TextOfPart(TextOf(x))
           \/ Block(p, x) = <<Image(x)>> /\ TextOfPart(x) = TextOfPart(Image(x))
<1>1. TextOf(x).kind = "text" /\ TextOf(x).text = x.text /\ Image(x).kind = "image"
  BY DEF TextOf, Image
<1>2. TextOfPart(TextOf(x)) = <<x.text>> /\ TextOfPart(Image(x)) = <<>>
  BY <1>1 DEF TextOfPart
<1>3. CASE x.kind \in {"text", "refusal"}
  <2>1. Block(p, x) = <<TextOf(x)>> /\ TextOfPart(x) = <<x.text>>
    BY <1>3 DEF Block, BedrockBlock, AnthropicBlock, TextOfPart
  <2> QED BY <1>2, <2>1
<1>4. CASE x.kind \in {"http", "data", "baddata", "audio"}
  <2>1. TextOfPart(x) = <<>>
    BY <1>4 DEF TextOfPart
  <2>2. Block(p, x) = <<>> \/ Block(p, x) = <<Image(x)>>
    BY <1>4 DEF Block, BedrockBlock, AnthropicBlock
  <2> QED BY <1>2, <2>1, <2>2
<1> QED BY <1>3, <1>4 DEF PartKinds

\* So do the parts of a message, none of which becomes the use of a tool.
LEMMA PartsSaid ==
    ASSUME NEW p, NEW X, NEW ps \in Seq(X), \A x \in X : x.kind \in PartKinds
    PROVE  /\ SaidBy(BlocksOf(p, ps)) = SaidBy(ps)
           /\ \A j \in DOMAIN BlocksOf(p, ps) : BlocksOf(p, ps)[j].kind # "use"
<1>1. PICK S : S = {TextOf(x) : x \in X} \cup {Image(x) : x \in X}
  OBVIOUS
<1>2. PICK U : U = {x.text : x \in X}
  OBVIOUS
<1>3. PICK n : n = Len(ps)
  OBVIOUS
<1>4. n \in Nat /\ DOMAIN ps = 1..n /\ \A i \in 1..n : ps[i] \in X
  BY <1>3
<1>5. PICK a : a = [i \in 1..n |-> Block(p, ps[i])]
  OBVIOUS
<1>6. PICK b : b = [i \in 1..n |-> TextOfPart(ps[i])]
  OBVIOUS
<1>7. PICK h : h = [y \in S |-> TextOfPart(y)]
  OBVIOUS
<1>8. ASSUME NEW x \in X PROVE TextOfPart(x) \in Seq(U)
  <2>1. x.text \in U
    BY <1>2
  <2> QED BY <2>1 DEF TextOfPart
<1>9. \A x \in X : Block(p, x) \in Seq(S)
  <2> SUFFICES ASSUME NEW x \in X PROVE Block(p, x) \in Seq(S)
    OBVIOUS
  <2>1. x.kind \in PartKinds /\ TextOf(x) \in S /\ Image(x) \in S
    BY <1>1
  <2>2. Block(p, x) = <<>> \/ Block(p, x) = <<TextOf(x)>> \/ Block(p, x) = <<Image(x)>>
    BY <2>1, BlockSaid
  <2>3. \A y \in S : <<y>> \in Seq(S)
    OBVIOUS
  <2>4. <<TextOf(x)>> \in Seq(S) /\ <<Image(x)>> \in Seq(S) /\ <<>> \in Seq(S)
    BY <2>1, <2>3
  <2> QED BY <2>2, <2>4
<1>10. \A y \in S : TextOfPart(y) \in Seq(U) /\ y.kind # "use"
  <2> SUFFICES ASSUME NEW y \in S PROVE TextOfPart(y) \in Seq(U) /\ y.kind # "use"
    OBVIOUS
  <2>1. PICK x \in X : y = TextOf(x) \/ y = Image(x)
    BY <1>1
  <2>2. y.text = x.text /\ y.kind \in {"text", "image"} /\ x.text \in U
    BY <1>2, <2>1 DEF TextOf, Image
  <2> QED BY <2>2 DEF TextOfPart
<1>11. a \in [1..n -> Seq(S)] /\ b \in [1..n -> Seq(U)] /\ \A c \in S : h[c] \in Seq(U)
  BY <1>4, <1>5, <1>6, <1>7, <1>8, <1>9, <1>10
<1>12. Sift(a, b, h, S, U, n)
  <2> SUFFICES ASSUME NEW i \in 1..n
               PROVE  (a[i] = <<>> /\ b[i] = <<>>) \/ \E c \in S : a[i] = <<c>> /\ b[i] = h[c]
    BY <1>11 DEF Sift
  <2>1. PICK x \in X : x = ps[i]
    BY <1>4
  <2>2. a[i] = Block(p, x) /\ b[i] = TextOfPart(x)
    BY <1>5, <1>6, <2>1
  <2>3. TextOf(x) \in S /\ Image(x) \in S /\ x.kind \in PartKinds
    BY <1>1
  <2>4. h[TextOf(x)] = TextOfPart(TextOf(x)) /\ h[Image(x)] = TextOfPart(Image(x))
    BY <1>7, <2>3
  <2>5. \/ Block(p, x) = <<>> /\ TextOfPart(x) = <<>>
        \/ Block(p, x) = <<TextOf(x)>> /\ TextOfPart(x) = TextOfPart(TextOf(x))
        \/ Block(p, x) = <<Image(x)>> /\ TextOfPart(x) = TextOfPart(Image(x))
    BY <2>3, BlockSaid
  <2> QED BY <2>2, <2>3, <2>4, <2>5
<1>13. FlattenSeq(Over(h, FlattenSeq(a))) = FlattenSeq(b)
  BY <1>4, <1>12, Sifted
<1>14. a \in Seq(Seq(S))
  BY <1>4, <1>11
<1>15. PICK f : f = FlattenSeq(a)
  OBVIOUS
<1>16. f \in Seq(S)
  BY <1>14, <1>15, FlattenTyped
<1>17. \A j \in DOMAIN f : f[j] \in S
  BY <1>16
<1>18. Over(h, f) = [j \in DOMAIN f |-> TextOfPart(f[j])]
  BY <1>7, <1>17 DEF Over
<1>19. BlocksOf(p, ps) = f /\ SaidBy(ps) = FlattenSeq(b)
  BY <1>4, <1>5, <1>6, <1>15 DEF BlocksOf, SaidBy
<1>20. SaidBy(f) = FlattenSeq(Over(h, f))
  BY <1>18 DEF SaidBy
<1> QED BY <1>10, <1>13, <1>15, <1>17, <1>19, <1>20

\* The texts of parts are texts of these parts.
LEMMA PartsTyped ==
    ASSUME NEW X, NEW ps \in Seq(X), NEW U, \A x \in X : x.text \in U
    PROVE  SaidBy(ps) \in Seq(U)
<1>1. PICK b : b = [j \in DOMAIN ps |-> TextOfPart(ps[j])]
  OBVIOUS
<1>2. \A x \in X : TextOfPart(x) \in Seq(U)
  BY DEF TextOfPart
<1>3. DOMAIN ps = 1..Len(ps) /\ Len(ps) \in Nat /\ \A j \in DOMAIN ps : ps[j] \in X
  OBVIOUS
<1>4. b \in [1..Len(ps) -> Seq(U)]
  BY <1>1, <1>2, <1>3
<1>5. b \in Seq(Seq(U))
  BY <1>3, <1>4
<1>6. FlattenSeq(b) \in Seq(U)
  BY <1>5, FlattenTyped
<1> QED BY <1>1, <1>6 DEF SaidBy

\* A message that is not carried over said nothing; one that is says what it said, and
\* a tool that it uses is one of the tools.
LEMMA MessageSaid ==
    ASSUME NEW m, IsMessage(m), NEW tools, NEW p
    PROVE  /\ ~Carried(m, tools) => Said(m) = <<>>
           /\ Carried(m, tools) =>
                 /\ Said(Converted(m, p)) = Said(m)
                 /\ \A j \in DOMAIN Converted(m, p).parts :
                       Converted(m, p).parts[j].kind = "use" =>
                           \E t \in tools : t.name = Converted(m, p).parts[j].text
<1>1. PICK X : X = Range(m.parts)
  OBVIOUS
<1>2. m.parts \in Seq(X) /\ \A x \in X : x.kind \in PartKinds /\ (m.role = "tool" => x.kind = "text")
  BY <1>1 DEF IsMessage, PartKinds
<1>3. PICK c : c = Converted(m, p)
  OBVIOUS
<1>4. c.role \notin {"system", "function"}
  BY <1>3 DEF Converted
<1>5. Said(c) = SaidBy(c.parts)
  BY <1>4 DEF Said
<1>6. CASE m.role = "system"
  <2>1. ~Carried(m, tools) /\ Said(m) = <<>>
    BY <1>6 DEF Carried, Said
  <2> QED BY <2>1
<1>7. CASE m.role = "function"
  <2>1. PICK u : u = [kind |-> "use", text |-> m.name]
    OBVIOUS
  <2>2. c.parts = <<u>>
    BY <1>3, <1>7, <2>1 DEF Converted
  <2>3. TextOfPart(u) = <<>>
    BY <2>1 DEF TextOfPart
  <2>4. PICK b : b = [j \in DOMAIN c.parts |-> TextOfPart(c.parts[j])]
    OBVIOUS
  <2>5. b = << <<>> >>
    BY <2>2, <2>3, <2>4
  <2>6. Len(b) = 1 /\ b[1] = <<>>
    BY <2>5
  <2>7. SaidBy(c.parts) = <<>>
    BY <2>4, <2>6, FlattenOne DEF SaidBy
  <2>8. Said(m) = <<>>
    BY <1>7 DEF Said
  <2>9. Carried(m, tools) => \E t \in tools : t.name = m.name
    BY <1>7 DEF Carried
  <2>10. \A j \in DOMAIN c.parts : c.parts[j].text = m.name
    BY <2>1, <2>2
  <2> QED BY <1>3, <1>5, <2>7, <2>8, <2>9, <2>10
<1>8. CASE m.role = "tool"
  <2>1. c.parts = [i \in DOMAIN m.parts |-> [kind |-> "result", text |-> m.parts[i].text]]
    BY <1>3, <1>8 DEF Converted
  <2>2. DOMAIN c.parts = DOMAIN m.parts
    BY <2>1
  <2>3. \A i \in DOMAIN m.parts : c.parts[i].kind = "result" /\ c.parts[i].text = m.parts[i].text
    BY <2>1
  <2>4. \A i \in DOMAIN m.parts : m.parts[i].kind = "text"
    BY <1>2, <1>8
  <2>5. \A i \in DOMAIN m.parts : TextOfPart(c.parts[i]) = TextOfPart(m.parts[i])
    BY <2>3, <2>4 DEF TextOfPart
  <2>6. SaidBy(c.parts) = SaidBy(m.parts)
    BY <2>2, <2>5 DEF SaidBy
  <2>7. Said(m) = SaidBy(m.parts) /\ Carried(m, tools)
    BY <1>8 DEF Said, Carried
  <2>8. \A j \in DOMAIN c.parts : c.parts[j].kind # "use"
    BY <2>2, <2>3
  <2> QED BY <1>3, <1>5, <2>6, <2>7, <2>8
<1>9. CASE m.role \notin {"system", "function", "tool"}
  <2>1. c.parts = BlocksOf(p, m.parts)
    BY <1>3, <1>9 DEF Converted, BlocksOf
  <2>2. /\ SaidBy(c.parts) = SaidBy(m.parts)
        /\ \A j \in DOMAIN c.parts : c.parts[j].kind # "use"
    BY <1>2, <2>1, PartsSaid
  <2>3. Said(m) = SaidBy(m.parts)
    BY <1>9 DEF Said
  <2>4. ASSUME ~Carried(m, tools) PROVE Said(m) = <<>>
    <3>1. m.role = "assistant" /\ ~m.content
      BY <1>9, <2>4 DEF Carried
    <3>2. m.parts = <<>>
      BY <3>1 DEF IsMessage
    <3>3. [j \in DOMAIN m.parts |-> TextOfPart(m.parts[j])] = <<>>
      BY <3>2
    <3> QED BY <2>3, <3>3, FlattenEmpty DEF SaidBy
  <2> QED BY <1>3, <1>5, <2>2, <2>3, <2>4
<1> QED BY <1>6, <1>7, <1>8, <1>9
-----------------------------------------------------------------------------
\* The conversation of a converted request.
LEMMA MessagesSaid ==
    ASSUME NEW r \in Requests, NEW tools, NEW p, NEW ms, ms = MappedMessages(r, tools, p)
    PROVE  /\ Texts(ms) = Texts(r.messages)
           /\ \A i \in DOMAIN ms : \A j \in DOMAIN ms[i].parts :
                 ms[i].parts[j].kind = "use" =>
                     \E t \in tools : t.name = ms[i].parts[j].text
<1>1. PICK M, q, n : M = Range(r.messages) /\ q = r.messages /\ n = Len(q)
  OBVIOUS
<1>2. q \in Seq(M) /\ \A m \in M : IsMessage(m)
  BY <1>1, MappingConstants
<1>3. n \in Nat /\ DOMAIN q = 1..n /\ \A i \in 1..n : q[i] \in M
  BY <1>1, <1>2
<1>4. PICK S : S = {Converted(m, p) : m \in {x \in M : Carried(x, tools)}}
  OBVIOUS
<1>5. PICK U : U = {x.text : x \in UNION {Range(m.parts) : m \in M}}
  OBVIOUS
<1>6. PICK a : a = [i \in 1..n |-> IF Carried(q[i], tools) THEN <<Converted(q[i], p)>> ELSE <<>>]
  OBVIOUS
<1>7. PICK b : b = [i \in 1..n |-> Said(q[i])]
  OBVIOUS
<1>8. PICK h : h = [y \in S |-> Said(y)]
  OBVIOUS
<1>9. ASSUME NEW m \in M PROVE Said(m) \in Seq(U)
  <2>1. PICK X : X = Range(m.parts)
    OBVIOUS
  <2>2. m.parts \in Seq(X)
    BY <1>2, <2>1 DEF IsMessage
  <2>3. \A x \in X : x.text \in U
    BY <1>5, <2>1
  <2>4. SaidBy(m.parts) \in Seq(U)
    BY <2>2, <2>3, PartsTyped
  <2> QED BY <2>4 DEF Said
<1>10. ASSUME NEW y \in S
       PROVE  /\ h[y] = Said(y) /\ Said(y) \in Seq(U)
              /\ \A j \in DOMAIN y.parts :
                    y.parts[j].kind = "use" => \E t \in tools : t.name = y.parts[j].text
  <2>1. PICK m \in M : Carried(m, tools) /\ y = Converted(m, p)
    BY <1>4
  <2>2. IsMessage(m)
    BY <1>2
  <2>3. /\ Said(y) = Said(m)
        /\ \A j \in DOMAIN y.parts :
              y.parts[j].kind = "use" => \E t \in tools : t.name = y.parts[j].text
    BY <2>1, <2>2, MessageSaid
  <2> QED BY <1>8, <1>9, <2>3
<1>11. ASSUME NEW i \in 1..n
       PROVE  /\ a[i] \in Seq(S) /\ b[i] \in Seq(U)
              /\ (a[i] = <<>> /\ b[i] = <<>>) \/ \E c \in S : a[i] = <<c>> /\ b[i] = h[c]
  <2>1. PICK m \in M : m = q[i]
    BY <1>3
  <2>2. b[i] = Said(m) /\ b[i] \in Seq(U)
    BY <1>7, <1>9, <2>1
  <2>3. IsMessage(m)
    BY <1>2
  <2>4. CASE Carried(m, tools)
    <3>1. PICK c : c = Converted(m, p)
      OBVIOUS
    <3>2. c \in S
      BY <1>4, <2>4, <3>1
    <3>3. a[i] = <<c>>
      BY <1>6, <2>1, <2>4, <3>1
    <3>4. Said(c) = Said(m)
      BY <2>3, <2>4, <3>1, MessageSaid
    <3>5. h[c] = b[i]
      BY <1>10, <2>2, <3>2, <3>4
    <3>6. a[i] \in Seq(S)
      BY <3>2, <3>3
    <3> QED BY <2>2, <3>2, <3>3, <3>5, <3>6
  <2>5. CASE ~Carried(m, tools)
    <3>1. a[i] = <<>>
      BY <1>6, <2>1, <2>5
    <3>2. Said(m) = <<>>
      BY <2>3, <2>5, MessageSaid
    <3>3. a[i] \in Seq(S)
      BY <3>1
    <3> QED BY <2>2, <3>1, <3>2, <3>3
  <2> QED BY <2>4, <2>5
<1>12. a \in [1..n -> Seq(S)]
  BY <1>6, <1>11
<1>13. b \in [1..n -> Seq(U)]
  BY <1>7, <1>11
<1>14. Sift(a, b, h, S, U, n)
  BY <1>10, <1>11, <1>12, <1>13 DEF Sift
<1>15. FlattenSeq(Over(h, FlattenSeq(a))) = FlattenSeq(b)
  BY <1>3, <1>14, Sifted
<1>16. a \in Seq(Seq(S))
  BY <1>3, <1>12
<1>17. ms = FlattenSeq(a)
  BY <1>1, <1>3, <1>6 DEF MappedMessages
<1>18. ms \in Seq(S)
  BY <1>16, <1>17, FlattenTyped
<1>19. \A i \in DOMAIN ms : ms[i] \in S
  BY <1>18
<1>20. Over(h, ms) = [i \in DOMAIN ms |-> Said(ms[i])]
  BY <1>10, <1>19 DEF Over
<1>21. \A w : Texts(w) = FlattenSeq([i \in DOMAIN w |-> Said(w[i])])
  BY DEF Texts, TextsOf, Said, SaidBy, TextOfPart
<1>22. Texts(ms) = FlattenSeq(Over(h, ms))
  BY <1>20, <1>21
<1>23. Texts(r.messages) = FlattenSeq(b)
  BY <1>1, <1>3, <1>7, <1>21
<1> QED BY <1>10, <1>15, <1>17, <1>19, <1>22, <1>23

\* What is sent says what was asked, and names the tools it uses.
LEMMA MadeConversation ==
    ASSUME NEW c, NEW r \in Requests, NEW p, NEW x, NEW s, Made(c, r, p, x, s)
    PROVE  /\ Texts(s.body.messages) = Texts(r.messages)
           /\ (p # "bedrock" /\ system_prompt(r) # <<>>) =>
                 system_prompt(r) \in {s.body.system, system_prompt(s.body)}
           /\ \A i \in DOMAIN s.body.messages : \A j \in DOMAIN s.body.messages[i].parts :
                 s.body.messages[i].parts[j].kind = "use" =>
                     \E t \in s.body.tools : t.name = s.body.messages[i].parts[j].text
<1>1. PICK id : s = [body |-> try_convert(p, r, Aliased(id, p)), path |-> Path(p, x)]
  BY DEF Made
<1>2. PICK a : a = Aliased(id, p)
  OBVIOUS
<1>3. s.body = try_convert(p, r, a)
  BY <1>1, <1>2
<1>4. CASE p = "anthropic"
  <2>1. s.body = AnthropicRequest(r, a)
    BY <1>3, <1>4 DEF try_convert
  <2>2. /\ s.body.messages = MappedMessages(r, r.tools, "anthropic")
        /\ s.body.tools = r.tools /\ s.body.system = system_prompt(r)
    BY <2>1 DEF AnthropicRequest
  <2> QED BY <2>2, MessagesSaid
<1>5. CASE p = "bedrock"
  <2>1. s.body = BedrockRequest(r, a)
    BY <1>3, <1>5 DEF try_convert
  <2>2. /\ s.body.messages = MappedMessages(r, BedrockTools(r), "bedrock")
        /\ s.body.tools = BedrockTools(r)
    BY <2>1 DEF BedrockRequest
  <2> QED BY <1>5, <2>2, MessagesSaid
<1>6. CASE p \notin {"anthropic", "bedrock"}
  <2>1. s.body = OpenAIRequest(r, a)
    BY <1>3, <1>6 DEF try_convert
  <2>2. s.body.messages = r.messages
    BY <2>1 DEF OpenAIRequest
  <2>3. system_prompt(s.body) = system_prompt(r)
    BY <2>2 DEF system_prompt
  <2>4. ASSUME NEW i \in DOMAIN r.messages, NEW j \in DOMAIN r.messages[i].parts
        PROVE  r.messages[i].parts[j].kind # "use"
    <3>1. PICK m : m = r.messages[i]
      OBVIOUS
    <3>2. m \in Range(r.messages)
      BY <3>1 DEF Range
    <3>3. IsMessage(m)
      BY <3>2, MappingConstants
    <3>4. m.parts[j] \in Range(m.parts)
      BY <3>1 DEF Range
    <3>5. m.parts[j].kind # "use"
      BY <3>3, <3>4 DEF IsMessage
    <3> QED BY <3>1, <3>5
  <2> QED BY <2>2, <2>3, <2>4
<1> QED BY <1>4, <1>5, <1>6

\* Every text of the conversation is sent, once and in order, with the system
\* prompt wherever the provider takes one, and every use of a tool names one that
\* the request declares.
THEOREM ConversationArrives == MappingSpec => []ConversationKept
<1>1. ASSUME MappingInv PROVE ConversationKept
  <2> SUFFICES ASSUME at = "sent" PROVE ConversationKept
    BY DEF ConversationKept
  <2>1. asked \in Requests /\ Made(config, asked, target, ctx, sent)
    BY <1>1 DEF MappingInv, MappingIs
  <2> QED BY <2>1, MadeConversation DEF ConversationKept
<1> QED BY <1>1, MappingInvariant, PTL
=============================================================================
