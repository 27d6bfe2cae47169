-------------------------- MODULE Streams_proofs ---------------------------
(***************************************************************************)
(* The streams.                                                            *)
(*                                                                         *)
(* Terminal: the terminal is as whoever has it expects (OwnersTerminal),   *)
(* for any output, any bounds of the buffer and any number of stops.  The  *)
(* tracker and the terminal are folds over sequences of pieces, so this    *)
(* rests on lemmas about folds, which are proved by induction on a set of  *)
(* indices.  The terminal that takes what is buffered has the modes that   *)
(* the tracker has; `reset` clears any modes, `replay` brings them back.   *)
(*                                                                         *)
(* Broadcast: no subscriber misses an event or the last snapshot           *)
(* (KeepsUp), for any room in the queue and in the socket and any bounds.  *)
(* The lines on their way are what the client has set aside, what is in    *)
(* the socket and what waits in the queue, in this order: a push appends   *)
(* to them and the client takes them from the front, or a reply from       *)
(* between.                                                                *)
(*                                                                         *)
(* Keys: however the input is cut by reads, claude gets and the daemon is  *)
(* told what was typed (AsTyped), for any input.  What was read and what   *)
(* is still to be read are taken as one run of the filter; a read is a     *)
(* part of that run, put behind what was passed before it, and whether a   *)
(* start that is not held is released at its end or later is all one.      *)
(***************************************************************************)
EXTENDS Terminal, Broadcast, Keys, WellFoundedInduction, SequenceTheorems, TLAPS

-----------------------------------------------------------------------------
(* Folds. *)

\* Induction up to a bound, with a set in place of a predicate.
LEMMA Induction ==
    ASSUME NEW n \in Nat, NEW S, 0 \in S, \A k \in 0 .. n - 1 : k \in S => k + 1 \in S
    PROVE  0 .. n \subseteq S
<1> SUFFICES ASSUME ~(0 .. n \subseteq S) PROVE FALSE
  OBVIOUS
<1> DEFINE R == OpToRel(<, Nat)
           Out == (0 .. n) \ S
<1>1. Out \subseteq Nat /\ Out # {}
  OBVIOUS
<1>2. IsWellFoundedOn(R, Nat)
  BY NatLessThanWellFounded
<1>3. PICK x \in Out : \A y \in Out : ~(<<y, x>> \in R)
  <2> HIDE DEF R, Out
  <2> QED BY <1>1, <1>2, WFMin
<1>4. \A y \in Out : ~(y < x)
  BY <1>1, <1>3 DEF OpToRel
<1>5. x \in 0 .. n /\ x \notin S
  BY <1>3
<1>6. x - 1 \in 0 .. n - 1
  BY <1>5
<1>7. x - 1 \in S
  BY <1>4, <1>6
<1> QED BY <1>5, <1>6, <1>7

\* A nonempty set of indices has a greatest one.
LEMMA MaxIsGreatest ==
    ASSUME NEW n \in Nat, NEW x \in SUBSET (1 .. n), x # {}
    PROVE  Max(x) \in x /\ \A y \in x : y <= Max(x)
<1> DEFINE S == {k \in 0 .. n : \A z \in SUBSET (1 .. k) : z # {} => \E m \in z : \A y \in z : m >= y}
<1>1. 0 \in S
  <2>1. \A z \in SUBSET (1 .. 0) : z = {}
    OBVIOUS
  <2>2. \A z \in SUBSET (1 .. 0) : z # {} => \E m \in z : \A y \in z : m >= y
    BY <2>1, Zenon
  <2>3. 0 \in 0 .. n
    OBVIOUS
  <2> QED BY <2>2, <2>3, Zenon
<1>2. ASSUME NEW k \in 0 .. n - 1, k \in S PROVE k + 1 \in S
  <2> SUFFICES ASSUME NEW z \in SUBSET (1 .. k + 1), z # {} PROVE \E m \in z : \A y \in z : m >= y
    OBVIOUS
  <2>1. CASE k + 1 \in z
    BY <2>1
  <2>2. CASE k + 1 \notin z
    <3>1. z \in SUBSET (1 .. k)
      BY <2>2
    <3> QED BY <1>2, <3>1
  <2> QED BY <2>1, <2>2
<1>3. n \in S
  <2> HIDE DEF S
  <2>1. 0 .. n \subseteq S
    BY <1>1, <1>2, Induction
  <2> QED BY <2>1
<1>4. \E m \in x : \A y \in x : m >= y
  BY <1>3
<1> QED BY <1>4 DEF Max

\* The function behind a fold, and that it exists.
IsFold(op, b, s, f) ==
    f = [x \in SUBSET (DOMAIN s) |-> IF x = {} THEN b ELSE op[f[x \ {Max(x)}], s[Max(x)]]]

LEMMA FoldExists ==
    ASSUME NEW A, NEW B, NEW op \in [A \X B -> A], NEW b \in A, NEW s \in Seq(B)
    PROVE  \E f \in [SUBSET (DOMAIN s) -> A] : IsFold(op, b, s, f)
<1> DEFINE n == Len(s)
           G(k, f) == \A x \in SUBSET (1 .. k) :
                        f[x] = IF x = {} THEN b ELSE op[f[x \ {Max(x)}], s[Max(x)]]
           S == {k \in 0 .. n : \E f \in [SUBSET (1 .. k) -> A] : G(k, f)}
<1>1. n \in Nat /\ DOMAIN s = 1 .. n
  OBVIOUS
<1>2. 0 \in S
  <2> DEFINE f == [x \in SUBSET (1 .. 0) |-> b]
  <2>1. f \in [SUBSET (1 .. 0) -> A]
    OBVIOUS
  <2>2. \A x \in SUBSET (1 .. 0) : x = {}
    OBVIOUS
  <2>3. G(0, f)
    BY <2>2
  <2> HIDE DEF f, G
  <2>4. 0 \in 0 .. n
    BY <1>1
  <2> QED BY <2>1, <2>3, <2>4, Zenon
<1>3. ASSUME NEW k \in 0 .. n - 1, k \in S PROVE k + 1 \in S
  <2>1. PICK f \in [SUBSET (1 .. k) -> A] : G(k, f)
    BY <1>3
  <2> DEFINE g == [x \in SUBSET (1 .. k + 1) |->
                     IF k + 1 \in x THEN op[f[x \ {k + 1}], s[k + 1]] ELSE f[x]]
  <2>2. \A x \in SUBSET (1 .. k + 1) : x \ {k + 1} \in SUBSET (1 .. k) /\ (k + 1 \notin x => x \in SUBSET (1 .. k))
    BY <1>1
  <2>3. s[k + 1] \in B
    BY <1>1
  <2>4. g \in [SUBSET (1 .. k + 1) -> A]
    BY <2>2, <2>3
  <2>5. ASSUME NEW x \in SUBSET (1 .. k + 1), k + 1 \in x PROVE Max(x) = k + 1
    <3>1. PICK j \in Nat : j = k + 1
      BY <1>1
    <3>2. x \in SUBSET (1 .. j) /\ x # {}
      BY <2>5, <3>1
    <3>3. Max(x) \in x /\ \A y \in x : y <= Max(x)
      BY <3>2, MaxIsGreatest
    <3>4. PICK y : y = Max(x)
      OBVIOUS
    <3>5. y \in 1 .. k + 1 /\ k + 1 <= y
      BY <2>5, <3>3, <3>4
    <3>6. y = k + 1
      BY <1>1, <3>5
    <3> QED BY <3>4, <3>6
  <2>6. ASSUME NEW x \in SUBSET (1 .. k), x # {} PROVE Max(x) \in x
    <3>1. k \in Nat
      BY <1>1
    <3> QED BY <2>6, <3>1, MaxIsGreatest
  <2>7. G(k + 1, g)
    <3> SUFFICES ASSUME NEW x \in SUBSET (1 .. k + 1)
                 PROVE  g[x] = IF x = {} THEN b ELSE op[g[x \ {Max(x)}], s[Max(x)]]
      OBVIOUS
    <3>1. CASE k + 1 \in x
      <4>1. x \ {Max(x)} = x \ {k + 1} /\ k + 1 \notin x \ {k + 1} /\ x \ {k + 1} \in SUBSET (1 .. k)
        BY <3>1, <2>2, <2>5
      <4>2. x \ {k + 1} \in SUBSET (1 .. k + 1)
        OBVIOUS
      <4>3. g[x \ {k + 1}] = f[x \ {k + 1}]
        BY <4>1, <4>2
      <4>4. g[x] = op[f[x \ {k + 1}], s[k + 1]]
        BY <3>1
      <4> HIDE DEF g
      <4> QED BY <3>1, <2>5, <4>1, <4>3, <4>4
    <3>2. CASE k + 1 \notin x /\ x # {}
      <4>1. x \in SUBSET (1 .. k) /\ Max(x) \in x
        BY <3>2, <2>2, <2>6
      <4>2. x \ {Max(x)} \in SUBSET (1 .. k) /\ x \ {Max(x)} \in SUBSET (1 .. k + 1) /\ k + 1 \notin x \ {Max(x)}
        BY <3>2, <4>1
      <4>3. g[x] = f[x]
        BY <3>2
      <4>4. g[x \ {Max(x)}] = f[x \ {Max(x)}]
        BY <4>2
      <4>5. f[x] = op[f[x \ {Max(x)}], s[Max(x)]]
        BY <2>1, <3>2, <4>1
      <4> HIDE DEF g
      <4> QED BY <3>2, <4>3, <4>4, <4>5
    <3>3. CASE x = {}
      <4>1. x \in SUBSET (1 .. k)
        BY <3>3
      <4>2. f[x] = b
        BY <2>1, <3>3, <4>1
      <4>3. g[x] = f[x]
        BY <3>3
      <4> HIDE DEF g
      <4> QED BY <3>3, <4>2, <4>3
    <3> QED BY <3>1, <3>2, <3>3
  <2> HIDE DEF g, G
  <2>8. k + 1 \in 0 .. n
    BY <1>1
  <2> QED BY <2>4, <2>7, <2>8, Zenon
<1>4. n \in S
  <2> HIDE DEF S
  <2>1. 0 .. n \subseteq S
    BY <1>1, <1>2, <1>3, Induction
  <2> QED BY <1>1, <2>1
<1>5. PICK f \in [SUBSET (1 .. n) -> A] : G(n, f)
  BY <1>4
<1>6. f = [x \in SUBSET (1 .. n) |-> IF x = {} THEN b ELSE op[f[x \ {Max(x)}], s[Max(x)]]]
  BY <1>5
<1>7. IsFold(op, b, s, f)
  BY <1>1, <1>6, Zenon DEF IsFold
<1> QED
  BY <1>1, <1>5, <1>7, Zenon

\* The initial segments of 1 .. n.
LEMMA Segment ==
    ASSUME NEW n \in Nat, NEW i \in 0 .. n
    PROVE  1 .. i \in SUBSET (1 .. n)
OBVIOUS

LEMMA Segments ==
    ASSUME NEW n \in Nat, NEW i \in 1 .. n
    PROVE  /\ 1 .. i \in SUBSET (1 .. n) /\ 1 .. i # {} /\ (1 .. i) \ {i} = 1 .. i - 1
           /\ 1 .. i - 1 \in SUBSET (1 .. n) /\ i \in 0 .. n /\ i - 1 \in 0 .. n /\ Max(1 .. i) = i
<1>1. 1 .. i \in SUBSET (1 .. n) /\ 1 .. i - 1 \in SUBSET (1 .. n)
  OBVIOUS
<1>2. i \in 1 .. i /\ i \in Nat /\ i \in 0 .. n /\ i - 1 \in 0 .. n
  OBVIOUS
<1>3. (1 .. i) \ {i} = 1 .. i - 1
  OBVIOUS
<1>4. PICK y : y = Max(1 .. i)
  OBVIOUS
<1>5. y \in 1 .. i /\ \A z \in 1 .. i : z <= y
  BY <1>2, <1>4, MaxIsGreatest
<1>6. y = i
  BY <1>2, <1>5
<1> QED
  BY <1>1, <1>2, <1>3, <1>4, <1>6

\* r holds what a fold with op has made of b after each element of s.
IsRun(op, b, s, r) == r[0] = b /\ \A i \in 1 .. Len(s) : r[i] = op[r[i - 1], s[i]]

\* The fold of s with op from b has a run, within A, and ends with v.
FoldsTo(op, A, b, s, v) == \E r \in [0 .. Len(s) -> A] : IsRun(op, b, s, r) /\ v = r[Len(s)]

\* There is one such r.
LEMMA RunIsOne ==
    ASSUME NEW op, NEW b, NEW s, Len(s) \in Nat, NEW r, NEW q, IsRun(op, b, s, r), IsRun(op, b, s, q)
    PROVE  \A i \in 0 .. Len(s) : r[i] = q[i]
<1>1. PICK n \in Nat : n = Len(s)
  OBVIOUS
<1> DEFINE S == {i \in 0 .. n : r[i] = q[i]}
<1>2. 0 \in S
  <2>1. 0 \in 0 .. n
    OBVIOUS
  <2> QED
    BY <2>1, Zenon DEF IsRun
<1>3. ASSUME NEW k \in 0 .. n - 1, k \in S PROVE k + 1 \in S
  <2>1. k + 1 \in 1 .. n /\ k + 1 \in 0 .. n /\ (k + 1) - 1 = k
    OBVIOUS
  <2>2. r[k + 1] = op[r[k], s[k + 1]] /\ q[k + 1] = op[q[k], s[k + 1]]
    BY <1>1, <2>1 DEF IsRun
  <2>3. r[k] = q[k]
    BY <1>3
  <2> QED
    BY <2>1, <2>2, <2>3
<1> HIDE DEF S
<1>4. 0 .. n \subseteq S
  BY <1>2, <1>3, Induction
<1> QED
  BY <1>1, <1>4 DEF S

\* g has what the fold has made of b after each initial segment of s, as far as that is in A.
Accumulates(g, op, A, b, s) ==
    /\ g[{}] = b
    /\ \A i \in 1 .. Len(s) : g[1 .. i - 1] \in A => g[1 .. i] = op[g[1 .. i - 1], s[i]]

\* The run behind the function of a fold.
LEMMA FoldRun ==
    ASSUME NEW A, NEW B, NEW op \in [A \X B -> A], NEW b \in A, NEW s \in Seq(B), NEW g,
           Accumulates(g, op, A, b, s)
    PROVE  FoldsTo(op, A, b, s, g[DOMAIN s])
<1>1. PICK n \in Nat : n = Len(s) /\ DOMAIN s = 1 .. n
  OBVIOUS
<1> DEFINE S == {i \in 0 .. n : g[1 .. i] \in A}
           r == [i \in 0 .. n |-> g[1 .. i]]
<1>2. \A i \in 1 .. n : i \in 0 .. n /\ i - 1 \in 0 .. n /\ s[i] \in B
  BY <1>1
<1>3. 0 \in S
  <2>1. 1 .. 0 = {} /\ 0 \in 0 .. n
    OBVIOUS
  <2> QED
    BY <2>1, Zenon DEF Accumulates
<1>4. ASSUME NEW k \in 0 .. n - 1, k \in S PROVE k + 1 \in S
  <2>1. k + 1 \in 1 .. n /\ k + 1 \in 0 .. n /\ (k + 1) - 1 = k
    OBVIOUS
  <2>2. g[1 .. k] \in A
    BY <1>4, Zenon
  <2>3. s[k + 1] \in B
    BY <1>2, <2>1, Zenon
  <2>4. g[1 .. k + 1] = op[g[1 .. k], s[k + 1]]
    <3>1. PICK j : j = k + 1
      OBVIOUS
    <3>2. j \in 1 .. Len(s) /\ j - 1 = k
      BY <1>1, <2>1, <3>1
    <3>3. g[1 .. j - 1] \in A
      BY <2>2, <3>2
    <3>4. g[1 .. j] = op[g[1 .. j - 1], s[j]]
      BY <3>2, <3>3, Zenon DEF Accumulates
    <3> QED
      BY <3>1, <3>2, <3>4, Zenon
  <2>5. g[1 .. k + 1] \in A
    BY <2>2, <2>3, <2>4
  <2> QED
    BY <2>1, <2>5, Zenon
<1>5. 0 .. n \subseteq S
  <2> HIDE DEF S
  <2> QED
    BY <1>3, <1>4, Induction
<1>6. r \in [0 .. n -> A]
  BY <1>5, Zenon
<1>7. r[0] = b
  <2>1. 1 .. 0 = {} /\ 0 \in 0 .. n
    OBVIOUS
  <2> QED
    BY <2>1, Zenon DEF Accumulates
<1>8. ASSUME NEW i \in 1 .. n PROVE r[i] = op[r[i - 1], s[i]]
  <2>1. r[i] = g[1 .. i] /\ r[i - 1] = g[1 .. i - 1] /\ g[1 .. i - 1] \in A
    BY <1>2, <1>5, Zenon
  <2>2. i \in 1 .. Len(s)
    BY <1>1
  <2>3. g[1 .. i] = op[g[1 .. i - 1], s[i]]
    BY <2>1, <2>2, Zenon DEF Accumulates
  <2> HIDE DEF r
  <2> QED
    BY <2>1, <2>3, Zenon
<1>9. r[n] = g[1 .. n]
  <2>1. n \in 0 .. n
    OBVIOUS
  <2> QED
    BY <2>1, Zenon
<1> HIDE DEF r
<1>10. IsRun(op, b, s, r)
  BY <1>1, <1>7, <1>8, Zenon DEF IsRun
<1> QED
  BY <1>1, <1>6, <1>9, <1>10, Zenon DEF FoldsTo

LEMMA FoldsToOne ==
    ASSUME NEW A, NEW op, NEW b, NEW s, Len(s) \in Nat, NEW v, NEW u,
           FoldsTo(op, A, b, s, v), FoldsTo(op, A, b, s, u)
    PROVE  v = u /\ v \in A
<1>1. PICK r \in [0 .. Len(s) -> A] : IsRun(op, b, s, r) /\ v = r[Len(s)]
  BY Zenon DEF FoldsTo
<1>2. PICK q \in [0 .. Len(s) -> A] : IsRun(op, b, s, q) /\ u = q[Len(s)]
  BY Zenon DEF FoldsTo
<1>3. Len(s) \in 0 .. Len(s)
  OBVIOUS
<1>4. r[Len(s)] = q[Len(s)]
  <2>1. \A i \in 0 .. Len(s) : r[i] = q[i]
    BY <1>1, <1>2, RunIsOne
  <2> QED
    BY <1>3, <2>1, Zenon
<1>5. r[Len(s)] \in A
  BY <1>3
<1> QED
  BY <1>1, <1>2, <1>4, <1>5, Zenon

LEMMA FoldsToNothing ==
    ASSUME NEW A, NEW op, NEW b \in A
    PROVE  FoldsTo(op, A, b, <<>>, b)
<1> DEFINE r == [i \in 0 .. 0 |-> b]
<1>1. Len(<<>>) = 0 /\ 1 .. 0 = {} /\ 0 \in 0 .. 0
  OBVIOUS
<1>2. r \in [0 .. Len(<<>>) -> A] /\ r[0] = b
  BY <1>1
<1> HIDE DEF r
<1>3. IsRun(op, b, <<>>, r)
  BY <1>1, <1>2 DEF IsRun
<1> QED
  BY <1>1, <1>2, <1>3 DEF FoldsTo

LEMMA FoldsToNext ==
    ASSUME NEW A, NEW B, NEW op \in [A \X B -> A], NEW b \in A, NEW e \in B
    PROVE  FoldsTo(op, A, b, <<e>>, op[b, e])
<1> DEFINE r == [i \in 0 .. 1 |-> IF i = 0 THEN b ELSE op[b, e]]
<1>1. Len(<<e>>) = 1 /\ <<e>>[1] = e /\ 0 \in 0 .. 1 /\ 1 \in 0 .. 1 /\ 1 - 1 = 0
  OBVIOUS
<1>0. op[b, e] \in A
  OBVIOUS
<1>2. r \in [0 .. 1 -> A] /\ r[0] = b /\ r[1] = op[b, e]
  <2>1. r \in [0 .. 1 -> A]
    BY <1>0
  <2>2. r[0] = b /\ r[1] = op[b, e]
    BY <1>1
  <2> QED
    BY <2>1, <2>2, Zenon
<1> HIDE DEF r
<1>3. \A i \in 1 .. 1 : i = 1
  OBVIOUS
<1>4. \A i \in 1 .. 1 : r[i] = op[r[i - 1], <<e>>[i]]
  BY <1>1, <1>2, <1>3
<1>5. IsRun(op, b, <<e>>, r)
  BY <1>1, <1>2, <1>4 DEF IsRun
<1> QED
  BY <1>1, <1>2, <1>5 DEF FoldsTo

LEMMA FoldsToJoined ==
    ASSUME NEW A, NEW op, NEW b, NEW B, NEW s \in Seq(B), NEW t \in Seq(B), NEW v, NEW u,
           FoldsTo(op, A, b, s, v), FoldsTo(op, A, v, t, u)
    PROVE  FoldsTo(op, A, b, s \o t, u)
<1>1. PICK n \in Nat : n = Len(s)
  OBVIOUS
<1>2. PICK k \in Nat : k = Len(t)
  OBVIOUS
<1>3. PICK st \in Seq(B) : st = s \o t
  <2>1. s \o t \in Seq(B)
    OBVIOUS
  <2> QED
    BY <2>1, Zenon
<1>4. Len(st) = n + k /\ (\A i \in 1 .. n : st[i] = s[i]) /\ (\A i \in n + 1 .. n + k : st[i] = t[i - n])
  BY <1>1, <1>2, <1>3
<1>5. PICK r \in [0 .. n -> A] : IsRun(op, b, s, r) /\ v = r[n]
  BY <1>1, Zenon DEF FoldsTo
<1>6. PICK q \in [0 .. k -> A] : IsRun(op, v, t, q) /\ u = q[k]
  BY <1>2, Zenon DEF FoldsTo
<1> DEFINE p == [i \in 0 .. n + k |-> IF i <= n THEN r[i] ELSE q[i - n]]
<1>7. p \in [0 .. n + k -> A]
  <2>1. \A i \in 0 .. n + k : IF i <= n THEN i \in 0 .. n ELSE i - n \in 0 .. k
    OBVIOUS
  <2> QED
    BY <2>1
<1>8. r[0] = b /\ q[0] = v /\ r[n] = v
  BY <1>5, <1>6 DEF IsRun
<1>9. p[0] = b /\ \A i \in 1 .. n : p[i] = op[p[i - 1], st[i]]
  <2>1. 0 \in 0 .. n + k /\ 0 <= n /\ \A i \in 1 .. n : i \in 0 .. n + k /\ i - 1 \in 0 .. n + k /\ i <= n /\ i - 1 <= n
    OBVIOUS
  <2>2. p[0] = r[0] /\ \A i \in 1 .. n : p[i] = r[i] /\ p[i - 1] = r[i - 1]
    BY <2>1, Zenon
  <2>3. \A i \in 1 .. n : r[i] = op[r[i - 1], s[i]]
    BY <1>1, <1>5, Zenon DEF IsRun
  <2> HIDE DEF p
  <2> QED
    BY <1>4, <1>8, <2>2, <2>3, Zenon
<1>10. ASSUME NEW i \in n + 1 .. n + k PROVE p[i] = op[p[i - 1], st[i]]
  <2>1. i - n \in 1 .. k /\ (i - n) - 1 = (i - 1) - n /\ i \in 0 .. n + k /\ i - 1 \in 0 .. n + k /\ ~(i <= n)
    OBVIOUS
  <2>2. p[i] = q[i - n]
    BY <2>1, Zenon
  <2>3. p[i - 1] = q[(i - 1) - n]
    <3>1. CASE i - 1 <= n
      <4>1. i - 1 = n /\ (i - 1) - n = 0
        BY <3>1
      <4>2. p[i - 1] = r[i - 1]
        BY <2>1, <3>1, Zenon
      <4> HIDE DEF p
      <4> QED
        BY <1>8, <4>1, <4>2
    <3>2. CASE ~(i - 1 <= n)
      BY <2>1, <3>2, Zenon
    <3> QED
      BY <3>1, <3>2
  <2>4. q[i - n] = op[q[(i - n) - 1], t[i - n]]
    BY <1>2, <1>6, <2>1, Zenon DEF IsRun
  <2>5. st[i] = t[i - n]
    BY <1>4, Zenon
  <2> HIDE DEF p
  <2> QED
    BY <2>1, <2>2, <2>3, <2>4, <2>5
<1>11. p[n + k] = u
  <2>1. n + k \in 0 .. n + k /\ (n + k) - n = k
    OBVIOUS
  <2>2. CASE n + k <= n
    <3>1. k = 0 /\ n + k = n
      BY <2>2
    <3>2. p[n + k] = r[n + k]
      BY <2>1, <2>2, Zenon
    <3> HIDE DEF p
    <3> QED
      BY <1>6, <1>8, <3>1, <3>2
  <2>3. CASE ~(n + k <= n)
    <3>1. p[n + k] = q[(n + k) - n]
      BY <2>1, <2>3, Zenon
    <3> HIDE DEF p
    <3> QED
      BY <1>6, <2>1, <3>1
  <2> QED
    BY <2>2, <2>3
<1> HIDE DEF p
<1>12. \A i \in 1 .. n + k : i \in 1 .. n \/ i \in n + 1 .. n + k
  OBVIOUS
<1>13. IsRun(op, b, st, p)
  BY <1>4, <1>9, <1>10, <1>12, Zenon DEF IsRun
<1>14. FoldsTo(op, A, b, st, u)
  BY <1>4, <1>7, <1>11, <1>13, Zenon DEF FoldsTo
<1> QED
  BY <1>3, <1>14, Zenon

LEMMA FoldsToRest ==
    ASSUME NEW A, NEW op, NEW b, NEW B, NEW s \in Seq(B), s # <<>>, NEW v, FoldsTo(op, A, b, s, v)
    PROVE  FoldsTo(op, A, op[b, Head(s)], Tail(s), v)
<1>1. PICK n \in Nat : n = Len(s) /\ n > 0
  OBVIOUS
<1>2. PICK t \in Seq(B) : t = Tail(s)
  <2>1. Tail(s) \in Seq(B)
    OBVIOUS
  <2> QED
    BY <2>1, Zenon
<1>3. Len(t) = n - 1 /\ Head(s) = s[1] /\ \A i \in 1 .. n - 1 : t[i] = s[i + 1]
  BY <1>1, <1>2
<1>4. PICK r \in [0 .. n -> A] : IsRun(op, b, s, r) /\ v = r[n]
  BY <1>1, Zenon DEF FoldsTo
<1>5. r[0] = b /\ \A i \in 1 .. n : r[i] = op[r[i - 1], s[i]]
  BY <1>1, <1>4, Zenon DEF IsRun
<1> DEFINE q == [i \in 0 .. n - 1 |-> r[i + 1]]
<1>6. \A i \in 0 .. n - 1 : i + 1 \in 0 .. n /\ i + 1 \in 1 .. n /\ (i + 1) - 1 = i
  BY <1>1
<1>7. q \in [0 .. n - 1 -> A]
  BY <1>6
<1>8. q[0] = op[b, s[1]]
  <2>1. 0 \in 0 .. n - 1 /\ 0 + 1 = 1 /\ 1 \in 1 .. n /\ 1 - 1 = 0
    BY <1>1
  <2>2. r[1] = op[r[0], s[1]]
    BY <1>5, <2>1
  <2>3. q[0] = r[0 + 1]
    BY <2>1, Zenon
  <2> HIDE DEF q
  <2> QED
    BY <1>5, <2>1, <2>2, <2>3
<1>9. ASSUME NEW i \in 1 .. n - 1 PROVE q[i] = op[q[i - 1], t[i]]
  <2>1. i \in 0 .. n - 1 /\ i - 1 \in 0 .. n - 1 /\ (i - 1) + 1 = i /\ i + 1 \in 1 .. n /\ (i + 1) - 1 = i
    BY <1>1
  <2>2. q[i] = r[i + 1] /\ q[i - 1] = r[(i - 1) + 1]
    BY <2>1, Zenon
  <2>3. r[i + 1] = op[r[(i + 1) - 1], s[i + 1]]
    BY <1>5, <2>1, Zenon
  <2>4. t[i] = s[i + 1]
    BY <1>3, Zenon
  <2> HIDE DEF q
  <2> QED
    BY <2>1, <2>2, <2>3, <2>4
<1>10. q[n - 1] = v
  <2>1. n - 1 \in 0 .. n - 1 /\ (n - 1) + 1 = n
    BY <1>1
  <2>2. q[n - 1] = r[(n - 1) + 1]
    BY <2>1, Zenon
  <2> HIDE DEF q
  <2> QED
    BY <1>4, <2>1, <2>2
<1> HIDE DEF q
<1>11. IsRun(op, op[b, Head(s)], t, q)
  BY <1>3, <1>8, <1>9, Zenon DEF IsRun
<1>12. FoldsTo(op, A, op[b, Head(s)], t, v)
  BY <1>3, <1>7, <1>10, <1>11, Zenon DEF FoldsTo
<1> QED
  BY <1>2, <1>12, Zenon

-----------------------------------------------------------------------------
(* Modes, and what pieces make of them. *)

Stack == Seq({0, 1}) \ {<<>>}
Modes == [mode : {0, 1}, alt : {0, 1}, kitty : [{0, 1} -> Stack], half : Token \cup {NoToken}]
TakenOp == [x \in Modes \X Piece |-> Taken(x[1], x[2])]
FedOp == [x \in Modes \X Piece |-> Fed(x[1], x[2])]

LEMMA PopTyped ==
    ASSUME NEW s \in Seq({0, 1}), NEW n \in Nat \ {0}, n < Len(s)
    PROVE  SubSeq(s, 1, Len(s) - n) \in Stack
<1>1. PICK k \in Nat : k = Len(s)
  OBVIOUS
<1>2. PICK j \in 1 .. k : j = k - n
  BY <1>1
<1>3. SubSeq(s, 1, j) \in Seq({0, 1}) /\ Len(SubSeq(s, 1, j)) = j
  BY <1>1, <1>2
<1>4. PICK u \in Seq({0, 1}) : u = SubSeq(s, 1, j) /\ Len(u) = j
  BY <1>3, Zenon
<1>5. u # <<>>
  BY <1>2, <1>4
<1> QED
  BY <1>1, <1>2, <1>4, <1>5 DEF Stack

LEMMA AppliedTyped ==
    ASSUME NEW m \in Modes, NEW t \in Token
    PROVE  Applied(m, t) \in Modes
<1> DEFINE stack == m.kitty[m.alt]
<1>1. /\ m.alt \in {0, 1} /\ stack \in Stack /\ Len(stack) \in Nat \ {0}
      /\ t.op \in {"mode", "alt", "push", "set", "pop", "ris"}
      /\ t.op \in {"mode", "alt", "push", "set"} => t.arg \in {0, 1}
      /\ t.op = "pop" => t.arg \in Nat \ {0}
  BY DEF Modes, Stack, Token
<1>2. \A s \in Stack : [m EXCEPT !.kitty[m.alt] = s] \in Modes
  BY DEF Modes
<1>3. Defaults \in Modes
  BY DEF Defaults, Modes, Stack
<1>4. CASE t.op = "mode"
  BY <1>1, <1>4 DEF Applied, Modes
<1>5. CASE t.op = "alt"
  BY <1>1, <1>5 DEF Applied, Modes
<1>6. CASE t.op = "push"
  <2>1. Append(stack, t.arg) \in Stack
    BY <1>1, <1>6 DEF Stack
  <2> QED
    BY <1>2, <1>6, <2>1 DEF Applied
<1>7. CASE t.op = "set"
  <2>1. [stack EXCEPT ![Len(stack)] = t.arg] \in Stack
    BY <1>1, <1>7 DEF Stack
  <2> QED
    BY <1>2, <1>7, <2>1 DEF Applied
<1>8. CASE t.op = "pop"
  <2>1. <<0>> \in Stack
    BY DEF Stack
  <2>2. t.arg < Len(stack) => SubSeq(stack, 1, Len(stack) - t.arg) \in Stack
    BY <1>1, <1>8, PopTyped DEF Stack
  <2>3. (IF t.arg >= Len(stack) THEN <<0>> ELSE SubSeq(stack, 1, Len(stack) - t.arg)) \in Stack
    BY <1>1, <1>8, <2>1, <2>2
  <2> QED
    BY <1>2, <1>8, <2>3 DEF Applied
<1>9. CASE t.op = "ris"
  BY <1>3, <1>9 DEF Applied
<1> QED
  BY <1>1, <1>4, <1>5, <1>6, <1>7, <1>8, <1>9

LEMMA TakenTyped ==
    ASSUME NEW m \in Modes, NEW p \in Piece
    PROVE  Taken(m, p) \in Modes /\ Fed(m, p) \in Modes
<1>1. PICK rest : rest = [m EXCEPT !.half = NoToken]
  OBVIOUS
<1>2. rest \in Modes /\ p.token \in Token /\ p.half \in 0 .. 2
  BY <1>1 DEF Modes, Piece
<1>3. [m EXCEPT !.half = p.token] \in Modes
  BY <1>2 DEF Modes
<1>4. Applied(rest, p.token) \in Modes
  BY <1>2, AppliedTyped
<1>5. Taken(m, p) \in {[m EXCEPT !.half = p.token], Applied(rest, p.token), rest}
  BY <1>1, <1>2 DEF Taken
<1>6. Fed(m, p) \in {[m EXCEPT !.half = p.token], Applied(rest, p.token)}
  BY <1>1 DEF Fed
<1> QED
  BY <1>2, <1>3, <1>4, <1>5, <1>6

LEMMA TakenFolds ==
    ASSUME NEW m \in Modes, NEW s \in Seq(Piece)
    PROVE  FoldsTo(TakenOp, Modes, m, s, FoldLeft(Taken, m, s))
<1> DEFINE D == SUBSET (DOMAIN s)
           G(f) == f = [x \in D |-> IF x = {} THEN m ELSE Taken(f[x \ {Max(x)}], s[Max(x)])]
<1>1. FoldLeft(Taken, m, s) = (CHOOSE f : G(f))[DOMAIN s]
  BY Zenon DEF FoldLeft, MapThenFoldSet
<1>2. TakenOp \in [Modes \X Piece -> Modes]
  BY TakenTyped DEF TakenOp
<1>3. PICK f \in [D -> Modes] : IsFold(TakenOp, m, s, f)
  BY <1>2, FoldExists, Zenon
<1>4. ASSUME NEW x \in D, x # {}, NEW g \in [D -> Modes]
      PROVE  TakenOp[g[x \ {Max(x)}], s[Max(x)]] = Taken(g[x \ {Max(x)}], s[Max(x)])
  <2>1. PICK n \in Nat : n = Len(s) /\ DOMAIN s = 1 .. n
    OBVIOUS
  <2>2. Max(x) \in 1 .. n /\ x \ {Max(x)} \in D
    BY <1>4, <2>1, MaxIsGreatest
  <2>3. g[x \ {Max(x)}] \in Modes /\ s[Max(x)] \in Piece
    BY <2>1, <2>2
  <2> QED
    BY <2>3 DEF TakenOp
<1>5. G(f)
  <2>1. f = [x \in D |-> IF x = {} THEN m ELSE TakenOp[f[x \ {Max(x)}], s[Max(x)]]]
    BY <1>3, Zenon DEF IsFold
  <2>2. \A x \in D : f[x] = IF x = {} THEN m ELSE Taken(f[x \ {Max(x)}], s[Max(x)])
    BY <1>4, <2>1
  <2> QED
    BY <2>2
<1>6. PICK g : g = (CHOOSE f1 : G(f1)) /\ G(g)
  BY <1>5, Zenon
<1>7. g[{}] = m
  <2>1. {} \in D
    OBVIOUS
  <2> QED
    BY <1>6, <2>1, Zenon
<1>8. ASSUME NEW i \in 1 .. Len(s), g[1 .. i - 1] \in Modes
      PROVE  g[1 .. i] = TakenOp[g[1 .. i - 1], s[i]]
  <2>1. PICK n \in Nat : n = Len(s) /\ DOMAIN s = 1 .. n /\ i \in 1 .. n
    OBVIOUS
  <2>2. 1 .. i \in D /\ 1 .. i # {} /\ (1 .. i) \ {i} = 1 .. i - 1 /\ Max(1 .. i) = i
    BY <2>1, Segments, Zenon
  <2>3. g[1 .. i] = Taken(g[(1 .. i) \ {Max(1 .. i)}], s[Max(1 .. i)])
    BY <1>6, <2>2, Zenon
  <2>4. g[1 .. i] = Taken(g[1 .. i - 1], s[i])
    BY <2>2, <2>3, Zenon
  <2>5. s[i] \in Piece
    OBVIOUS
  <2>6. TakenOp[g[1 .. i - 1], s[i]] = Taken(g[1 .. i - 1], s[i])
    BY <1>8, <2>5 DEF TakenOp
  <2> QED
    BY <2>4, <2>6, Zenon
<1> HIDE DEF D, G
<1>a. Accumulates(g, TakenOp, Modes, m, s)
  BY <1>7, <1>8, Zenon DEF Accumulates
<1>9. FoldsTo(TakenOp, Modes, m, s, g[DOMAIN s])
  BY <1>2, <1>a, FoldRun, Zenon
<1> QED
  BY <1>1, <1>6, <1>9, Zenon

LEMMA FedFolds ==
    ASSUME NEW m \in Modes, NEW s \in Seq(Piece)
    PROVE  FoldsTo(FedOp, Modes, m, s, FoldLeft(Fed, m, s))
<1> DEFINE D == SUBSET (DOMAIN s)
           G(f) == f = [x \in D |-> IF x = {} THEN m ELSE Fed(f[x \ {Max(x)}], s[Max(x)])]
<1>1. FoldLeft(Fed, m, s) = (CHOOSE f : G(f))[DOMAIN s]
  BY Zenon DEF FoldLeft, MapThenFoldSet
<1>2. FedOp \in [Modes \X Piece -> Modes]
  BY TakenTyped DEF FedOp
<1>3. PICK f \in [D -> Modes] : IsFold(FedOp, m, s, f)
  BY <1>2, FoldExists, Zenon
<1>4. ASSUME NEW x \in D, x # {}, NEW g \in [D -> Modes]
      PROVE  FedOp[g[x \ {Max(x)}], s[Max(x)]] = Fed(g[x \ {Max(x)}], s[Max(x)])
  <2>1. PICK n \in Nat : n = Len(s) /\ DOMAIN s = 1 .. n
    OBVIOUS
  <2>2. Max(x) \in 1 .. n /\ x \ {Max(x)} \in D
    BY <1>4, <2>1, MaxIsGreatest
  <2>3. g[x \ {Max(x)}] \in Modes /\ s[Max(x)] \in Piece
    BY <2>1, <2>2
  <2> QED
    BY <2>3 DEF FedOp
<1>5. G(f)
  <2>1. f = [x \in D |-> IF x = {} THEN m ELSE FedOp[f[x \ {Max(x)}], s[Max(x)]]]
    BY <1>3, Zenon DEF IsFold
  <2>2. \A x \in D : f[x] = IF x = {} THEN m ELSE Fed(f[x \ {Max(x)}], s[Max(x)])
    BY <1>4, <2>1
  <2> QED
    BY <2>2
<1>6. PICK g : g = (CHOOSE f1 : G(f1)) /\ G(g)
  BY <1>5, Zenon
<1>7. g[{}] = m
  <2>1. {} \in D
    OBVIOUS
  <2> QED
    BY <1>6, <2>1, Zenon
<1>8. ASSUME NEW i \in 1 .. Len(s), g[1 .. i - 1] \in Modes
      PROVE  g[1 .. i] = FedOp[g[1 .. i - 1], s[i]]
  <2>1. PICK n \in Nat : n = Len(s) /\ DOMAIN s = 1 .. n /\ i \in 1 .. n
    OBVIOUS
  <2>2. 1 .. i \in D /\ 1 .. i # {} /\ (1 .. i) \ {i} = 1 .. i - 1 /\ Max(1 .. i) = i
    BY <2>1, Segments, Zenon
  <2>3. g[1 .. i] = Fed(g[(1 .. i) \ {Max(1 .. i)}], s[Max(1 .. i)])
    BY <1>6, <2>2, Zenon
  <2>4. g[1 .. i] = Fed(g[1 .. i - 1], s[i])
    BY <2>2, <2>3, Zenon
  <2>5. s[i] \in Piece
    OBVIOUS
  <2>6. FedOp[g[1 .. i - 1], s[i]] = Fed(g[1 .. i - 1], s[i])
    BY <1>8, <2>5 DEF FedOp
  <2> QED
    BY <2>4, <2>6, Zenon
<1> HIDE DEF D, G
<1>a. Accumulates(g, FedOp, Modes, m, s)
  BY <1>7, <1>8, Zenon DEF Accumulates
<1>9. FoldsTo(FedOp, Modes, m, s, g[DOMAIN s])
  BY <1>2, <1>a, FoldRun, Zenon
<1> QED
  BY <1>1, <1>6, <1>9, Zenon

TakenTo(m, s, v) == FoldsTo(TakenOp, Modes, m, s, v)
FedTo(m, s, v) == FoldsTo(FedOp, Modes, m, s, v)

\* The rest of a sequence comes after its first half: h is the half that was read before s.
WholeAfter(h, s) ==
    \A i \in 1 .. Len(s) : s[i].half = 2 =>
        IF i = 1 THEN h = s[1].token ELSE s[i - 1].half = 1 /\ s[i - 1].token = s[i].token

LEMMA TakenToTyped == TakenOp \in [Modes \X Piece -> Modes] /\ FedOp \in [Modes \X Piece -> Modes]
BY TakenTyped DEF TakenOp, FedOp

LEMMA TakenToOne ==
    ASSUME NEW m, NEW s \in Seq(Piece), NEW v, NEW u, TakenTo(m, s, v), TakenTo(m, s, u)
    PROVE  v = u /\ v \in Modes
<1>1. Len(s) \in Nat
  OBVIOUS
<1> QED
  BY <1>1, FoldsToOne DEF TakenTo

LEMMA TakenToJoined ==
    ASSUME NEW m, NEW s \in Seq(Piece), NEW t \in Seq(Piece), NEW v, NEW u, TakenTo(m, s, v), TakenTo(v, t, u)
    PROVE  TakenTo(m, s \o t, u)
BY FoldsToJoined, Zenon DEF TakenTo

LEMMA TakenToNothing == \A m \in Modes : TakenTo(m, <<>>, m)
BY FoldsToNothing, Zenon DEF TakenTo

LEMMA TakenToNext ==
    ASSUME NEW m \in Modes, NEW p \in Piece
    PROVE  TakenTo(m, <<p>>, Taken(m, p))
<1>1. TakenTo(m, <<p>>, TakenOp[m, p])
  BY TakenToTyped, FoldsToNext, Zenon DEF TakenTo
<1>2. TakenOp[m, p] = Taken(m, p)
  BY DEF TakenOp
<1> QED
  BY <1>1, <1>2, Zenon

LEMMA TakenToRest ==
    ASSUME NEW m \in Modes, NEW s \in Seq(Piece), s # <<>>, NEW v, TakenTo(m, s, v)
    PROVE  TakenTo(Taken(m, Head(s)), Tail(s), v)
<1>1. FoldsTo(TakenOp, Modes, TakenOp[m, Head(s)], Tail(s), v)
  BY FoldsToRest, Zenon DEF TakenTo
<1>2. Head(s) \in Piece
  OBVIOUS
<1>3. TakenOp[m, Head(s)] = Taken(m, Head(s))
  BY <1>2 DEF TakenOp
<1> QED
  BY <1>1, <1>3, Zenon DEF TakenTo

\* What the tracker makes of whole sequences is what the terminal makes of them.
LEMMA FedIsTaken ==
    ASSUME NEW m \in Modes, NEW p \in Piece, p.half = 2 => m.half = p.token
    PROVE  /\ Fed(m, p) = Taken(m, p)
           /\ p.half = 1 => Fed(m, p).half = p.token
<1>1. p.half \in {0, 1, 2}
  BY DEF Piece
<1>2. CASE p.half = 0
  BY <1>2 DEF Fed, Taken
<1>3. CASE p.half = 1
  BY <1>3 DEF Fed, Taken, Modes
<1>4. CASE p.half = 2
  BY <1>4 DEF Fed, Taken
<1> QED
  BY <1>1, <1>2, <1>3, <1>4

LEMMA FedAsTaken ==
    ASSUME NEW m \in Modes, NEW s \in Seq(Piece), NEW v, FedTo(m, s, v), WholeAfter(m.half, s)
    PROVE  TakenTo(m, s, v) /\ (s # <<>> /\ s[Len(s)].half = 1 => v.half = s[Len(s)].token)
<1>1. PICK n \in Nat : n = Len(s) /\ (s # <<>> => n \in 1 .. n)
  OBVIOUS
<1>2. PICK r \in [0 .. n -> Modes] : IsRun(FedOp, m, s, r) /\ v = r[n]
  BY <1>1, Zenon DEF FedTo, FoldsTo
<1>3. ASSUME NEW i \in 1 .. n
      PROVE  r[i - 1] \in Modes /\ s[i] \in Piece /\ r[i] = Fed(r[i - 1], s[i])
  <2>1. i - 1 \in 0 .. n
    OBVIOUS
  <2>2. r[i - 1] \in Modes /\ s[i] \in Piece
    BY <1>1, <2>1
  <2>3. r[i] = FedOp[r[i - 1], s[i]]
    BY <1>1, <1>2, Zenon DEF IsRun
  <2> QED
    BY <2>2, <2>3 DEF FedOp
<1>4. ASSUME NEW i \in 1 .. n, s[i].half = 1 PROVE r[i].half = s[i].token
  BY <1>3, <1>4 DEF Fed, Modes
<1>5. ASSUME NEW i \in 1 .. n PROVE s[i].half = 2 => r[i - 1].half = s[i].token
  <2> SUFFICES ASSUME s[i].half = 2 PROVE r[i - 1].half = s[i].token
    OBVIOUS
  <2>1. CASE i = 1
    <3>1. r[0] = m
      BY <1>2, Zenon DEF IsRun
    <3> QED
      BY <1>1, <2>1, <3>1 DEF WholeAfter
  <2>2. CASE i # 1
    <3>1. i - 1 \in 1 .. n
      BY <2>2
    <3>2. s[i - 1].half = 1 /\ s[i - 1].token = s[i].token
      BY <1>1, <2>2 DEF WholeAfter
    <3> QED
      BY <1>4, <3>1, <3>2
  <2> QED
    BY <2>1, <2>2
<1>6. ASSUME NEW i \in 1 .. n PROVE r[i] = TakenOp[r[i - 1], s[i]]
  <2>1. Fed(r[i - 1], s[i]) = Taken(r[i - 1], s[i])
    BY <1>3, <1>5, FedIsTaken
  <2> QED
    BY <1>3, <2>1 DEF TakenOp
<1>7. IsRun(TakenOp, m, s, r)
  BY <1>1, <1>2, <1>6, Zenon DEF IsRun
<1>8. TakenTo(m, s, v)
  BY <1>1, <1>2, <1>7, Zenon DEF TakenTo, FoldsTo
<1>9. s # <<>> /\ s[n].half = 1 => r[n].half = s[n].token
  BY <1>1, <1>4, Zenon
<1> QED
  BY <1>1, <1>2, <1>8, <1>9, Zenon

-----------------------------------------------------------------------------
(* Reset and replay. *)

KittyResetOf(stack) ==
    (IF Len(stack) > 1 THEN <<T("pop", Len(stack) - 1)>> ELSE <<>>) \o
    (IF stack[1] # 0 THEN <<T("set", 0)>> ELSE <<>>)
Pushes(stack) == [i \in 1 .. Len(stack) - 1 |-> T("push", stack[i + 1])]
KittyReplayOf(stack) ==
    (IF stack[1] # 0 THEN <<T("set", stack[1])>> ELSE <<>>) \o Pushes(stack)
ModeSetOf(m, on) == IF m.mode = 1 THEN <<T("mode", on)>> ELSE <<>>
ResetOf(m) ==
    KittyResetOf(m.kitty[m.alt]) \o ModeSetOf(m, 0) \o
    (IF m.alt = 1 THEN <<T("alt", 0)>> \o KittyResetOf(m.kitty[0]) ELSE <<>>)
ReplayOf(m) ==
    KittyReplayOf(m.kitty[0]) \o
    (IF m.alt = 1 THEN <<T("alt", 1)>> \o KittyReplayOf(m.kitty[1]) ELSE <<>>) \o ModeSetOf(m, 1)

\* The terminal goes from m to v on the tokens, each in one piece.
Goes(m, tokens, v) == m \in Modes /\ v \in Modes /\ tokens \in Seq(Token) /\ TakenTo(m, Written(tokens), v)

Joint(s, t, j, k) ==
    /\ Len(s \o t) = j + k
    /\ \A i \in 1 .. j : (s \o t)[i] = s[i]
    /\ \A i \in 1 .. k : (s \o t)[j + i] = t[i]

LEMMA JoinedIsJoint ==
    ASSUME NEW A, NEW s \in Seq(A), NEW t \in Seq(A), NEW j \in Nat, NEW k \in Nat, Len(s) = j, Len(t) = k
    PROVE  Joint(s, t, j, k)
<1>1. Len(s \o t) = j + k
  OBVIOUS
<1>2. ASSUME NEW i \in 1 .. j PROVE (s \o t)[i] = s[i]
  OBVIOUS
<1>3. ASSUME NEW i \in 1 .. k PROVE (s \o t)[j + i] = t[i]
  OBVIOUS
<1> QED
  BY <1>1, <1>2, <1>3, Zenon DEF Joint

LEMMA WrittenTyped ==
    ASSUME NEW s \in Seq(Token), NEW t \in Seq(Token)
    PROVE  Written(s) \in Seq(Piece) /\ Written(s \o t) = Written(s) \o Written(t)
<1>1. ASSUME NEW u \in Seq(Token)
      PROVE  /\ Written(u) \in Seq(Piece) /\ Len(Written(u)) = Len(u)
             /\ \A i \in 1 .. Len(u) : Written(u)[i] = Whole(u[i])
  <2>1. PICK n \in Nat : n = Len(u)
    OBVIOUS
  <2>2. DOMAIN u = 1 .. n /\ \A i \in 1 .. n : u[i] \in Token
    BY <2>1
  <2>3. PICK w : w = [i \in 1 .. n |-> Whole(u[i])]
    OBVIOUS
  <2>4. w = Written(u)
    BY <2>2, <2>3 DEF Written
  <2>5. \A i \in 1 .. n : Whole(u[i]) \in Piece
    BY <2>2 DEF Whole, Piece
  <2>6. w \in [1 .. n -> Piece]
    BY <2>3, <2>5
  <2>7. w \in Seq(Piece) /\ Len(w) = n
    BY <2>6
  <2>8. \A i \in 1 .. n : w[i] = Whole(u[i])
    BY <2>3
  <2> QED
    BY <2>1, <2>4, <2>7, <2>8, Zenon
<1>2. s \o t \in Seq(Token)
  OBVIOUS
<1>9. PICK w \in Seq(Token) : w = s \o t
  BY <1>2, Zenon
<1>3. PICK p \in Seq(Piece) : p = Written(s) /\ Len(p) = Len(s) /\ \A i \in 1 .. Len(s) : p[i] = Whole(s[i])
  BY <1>1, Zenon
<1>4. PICK q \in Seq(Piece) : q = Written(t) /\ Len(q) = Len(t) /\ \A i \in 1 .. Len(t) : q[i] = Whole(t[i])
  BY <1>1, Zenon
<1>5. PICK r \in Seq(Piece) : r = Written(w) /\ Len(r) = Len(w) /\ \A i \in 1 .. Len(w) : r[i] = Whole(w[i])
  BY <1>1, Zenon
<1>6. PICK j \in Nat, k \in Nat : j = Len(s) /\ k = Len(t)
  OBVIOUS
<1>7. /\ Len(w) = j + k
      /\ \A i \in 1 .. j : w[i] = s[i]
      /\ \A i \in 1 .. k : w[j + i] = t[i]
  BY <1>6, <1>9
<1>8. /\ Len(p \o q) = j + k
      /\ \A i \in 1 .. j : (p \o q)[i] = p[i]
      /\ \A i \in 1 .. k : (p \o q)[j + i] = q[i]
  <2>1. Len(p) = j /\ Len(q) = k
    BY <1>3, <1>4, <1>6, Zenon
  <2>2. Joint(p, q, j, k)
    BY <1>6, <2>1, JoinedIsJoint, Zenon
  <2> QED
    BY <2>2, Zenon DEF Joint
<1>10. p \o q \in Seq(Piece)
  OBVIOUS
<1>11. PICK c \in Seq(Piece) : c = p \o q
  BY <1>10, Zenon
<1>12. ASSUME NEW i \in 1 .. j PROVE r[i] = c[i]
  <2>1. i \in 1 .. j + k
    OBVIOUS
  <2> QED
    BY <1>3, <1>5, <1>6, <1>7, <1>8, <1>11, <2>1
<1>13. ASSUME NEW i \in 1 .. k PROVE r[j + i] = c[j + i]
  <2>1. j + i \in 1 .. j + k
    OBVIOUS
  <2> QED
    BY <1>4, <1>5, <1>6, <1>7, <1>8, <1>11, <2>1
<1>14. ASSUME NEW i \in 1 .. j + k PROVE r[i] = c[i]
  <2>1. CASE i <= j
    <3>1. i \in 1 .. j
      BY <2>1
    <3> QED
      BY <1>12, <3>1, Zenon
  <2>2. CASE ~ i <= j
    <3>1. PICK d \in 1 .. k : i = j + d
      <4>1. i - j \in 1 .. k /\ i = j + (i - j)
        BY <2>2
      <4> QED
        BY <4>1, Zenon
    <3> QED
      BY <1>13, <3>1, Zenon
  <2> QED
    BY <2>1, <2>2
<1>15. Len(r) = j + k /\ Len(c) = j + k
  BY <1>5, <1>7, <1>8, <1>11, Zenon
<1>16. r = c
  BY <1>14, <1>15
<1> QED
  BY <1>9, <1>3, <1>4, <1>5, <1>11, <1>16, Zenon

LEMMA GoesNothing == \A m \in Modes : Goes(m, <<>>, m)
<1> SUFFICES ASSUME NEW m \in Modes PROVE Goes(m, <<>>, m)
  OBVIOUS
<1>1. Written(<<>>) = <<>>
  BY DEF Written
<1>2. TakenTo(m, Written(<<>>), m)
  BY <1>1, TakenToNothing, Zenon
<1> QED
  BY <1>2 DEF Goes

LEMMA GoesNext ==
    ASSUME NEW m \in Modes, NEW t \in Token
    PROVE  Goes(m, <<t>>, Applied([m EXCEPT !.half = NoToken], t))
<1>1. Written(<<t>>) = <<Whole(t)>> /\ Whole(t) \in Piece
  BY DEF Written, Whole, Piece
<1>2. Taken(m, Whole(t)) = Applied([m EXCEPT !.half = NoToken], t)
  BY DEF Taken, Whole
<1>3. TakenTo(m, <<Whole(t)>>, Taken(m, Whole(t)))
  BY <1>1, TakenToNext, Zenon
<1>4. Taken(m, Whole(t)) \in Modes
  BY <1>1, TakenTyped
<1> QED
  BY <1>1, <1>2, <1>3, <1>4 DEF Goes

LEMMA GoesJoined ==
    ASSUME NEW m, NEW s, NEW v, NEW t, NEW u, Goes(m, s, v), Goes(v, t, u)
    PROVE  Goes(m, s \o t, u)
<1>1. s \in Seq(Token) /\ t \in Seq(Token)
  BY DEF Goes
<1>2. Written(s) \in Seq(Piece) /\ Written(t) \in Seq(Piece) /\ Written(s \o t) = Written(s) \o Written(t)
  BY <1>1, WrittenTyped
<1>3. TakenTo(m, Written(s) \o Written(t), u)
  BY <1>2, TakenToJoined, Zenon DEF Goes
<1>4. s \o t \in Seq(Token)
  BY <1>1
<1>5. TakenTo(m, Written(s \o t), u)
  BY <1>2, <1>3, Zenon
<1> QED
  BY <1>4, <1>5, Zenon DEF Goes

\* v is m with the stack of its screen set to the given one, and half a sequence perhaps dropped.
Restacked(m, stack, v) ==
    /\ v \in Modes /\ v.mode = m.mode /\ v.alt = m.alt
    /\ v.kitty = [m.kitty EXCEPT ![m.alt] = stack]
    /\ v.half \in {m.half, NoToken}

LEMMA StackSet ==
    ASSUME NEW m \in Modes, NEW on \in {0, 1}, m.kitty[m.alt] = <<m.kitty[m.alt][1]>>
    PROVE  \E v : Goes(m, <<T("set", on)>>, v) /\ Restacked(m, <<on>>, v)
<1> DEFINE t == T("set", on)
           c == [m EXCEPT !.half = NoToken]
           v == Applied(c, t)
<1>1. t \in Token
  BY DEF T, Token
<1>2. Goes(m, <<t>>, v)
  BY <1>1, GoesNext, Zenon
<1>3. v \in Modes
  BY <1>2, Zenon DEF Goes
<1>4. v = [c EXCEPT !.kitty[c.alt] = [c.kitty[c.alt] EXCEPT ![Len(c.kitty[c.alt])] = on]]
  BY DEF Applied, T
<1>5. c.kitty = m.kitty /\ c.alt = m.alt /\ c.mode = m.mode /\ c.half = NoToken
  BY DEF Modes
<1>6. [m.kitty[m.alt] EXCEPT ![Len(m.kitty[m.alt])] = on] = <<on>>
  <2>1. PICK a : m.kitty[m.alt] = <<a>>
    OBVIOUS
  <2> QED
    BY <2>1
<1>7. v.mode = m.mode /\ v.alt = m.alt /\ v.half = NoToken
  BY <1>4, <1>5 DEF Modes
<1>8. v.kitty = [m.kitty EXCEPT ![m.alt] = <<on>>]
  BY <1>4, <1>5, <1>6 DEF Modes
<1>9. Restacked(m, <<on>>, v)
  BY <1>3, <1>7, <1>8 DEF Restacked
<1> QED
  BY <1>2, <1>9, Zenon

LEMMA OneOfSeq ==
    ASSUME NEW A, NEW s \in Seq(A), 1 \in 1 .. Len(s)
    PROVE  SubSeq(s, 1, 1) = <<s[1]>>
<1>1. SubSeq(s, 1, 1) \in Seq(A) /\ Len(SubSeq(s, 1, 1)) = 1 /\ SubSeq(s, 1, 1)[1] = s[1]
  OBVIOUS
<1>2. \A u \in Seq(A) : Len(u) = 1 => u = <<u[1]>>
  OBVIOUS
<1> QED
  BY <1>1, <1>2, Zenon

LEMMA StackPop ==
    ASSUME NEW m \in Modes, NEW n \in Nat \ {0}, Len(m.kitty[m.alt]) = n + 1
    PROVE  \E v : Goes(m, <<T("pop", n)>>, v) /\ Restacked(m, <<m.kitty[m.alt][1]>>, v)
<1> DEFINE t == T("pop", n)
           c == [m EXCEPT !.half = NoToken]
           v == Applied(c, t)
<1>0. PICK stack \in Stack : stack = m.kitty[m.alt] /\ Len(stack) = n + 1
  <2>1. m.kitty[m.alt] \in Stack
    BY DEF Modes
  <2> QED
    BY <2>1, Zenon
<1>1. t \in Token
  BY DEF T, Token
<1>2. Goes(m, <<t>>, v)
  BY <1>1, GoesNext, Zenon
<1>3. v \in Modes
  BY <1>2, Zenon DEF Goes
<1>4. c.kitty = m.kitty /\ c.alt = m.alt /\ c.mode = m.mode /\ c.half = NoToken
  BY DEF Modes
<1>5. v = [c EXCEPT !.kitty[m.alt] = SubSeq(stack, 1, Len(stack) - n)]
  <2>1. v = [c EXCEPT !.kitty[c.alt] =
               IF t.arg >= Len(c.kitty[c.alt]) THEN <<0>>
               ELSE SubSeq(c.kitty[c.alt], 1, Len(c.kitty[c.alt]) - t.arg)]
    BY DEF Applied, T
  <2>2. t.arg = n
    BY DEF T
  <2>3. v = [c EXCEPT !.kitty[m.alt] =
               IF n >= Len(stack) THEN <<0>> ELSE SubSeq(stack, 1, Len(stack) - n)]
    BY <1>0, <1>4, <2>1, <2>2, Zenon
  <2>4. ~ n >= Len(stack)
    BY <1>0
  <2> QED
    BY <2>3, <2>4
<1>6. SubSeq(stack, 1, Len(stack) - n) = <<stack[1]>>
  <2>1. Len(stack) - n = 1
    BY <1>0
  <2>2. stack \in Seq({0, 1}) /\ 1 \in 1 .. Len(stack)
    BY <1>0 DEF Stack
  <2>3. SubSeq(stack, 1, 1) = <<stack[1]>>
    BY <2>2, OneOfSeq, Zenon
  <2> QED
    BY <2>1, <2>3
<1>7. v.mode = m.mode /\ v.alt = m.alt /\ v.half = NoToken
  BY <1>4, <1>5 DEF Modes
<1>8. v.kitty = [m.kitty EXCEPT ![m.alt] = <<stack[1]>>]
  BY <1>4, <1>5, <1>6 DEF Modes
<1>9. Restacked(m, <<stack[1]>>, v)
  BY <1>3, <1>7, <1>8 DEF Restacked
<1> QED
  BY <1>0, <1>2, <1>9, Zenon

LEMMA RestackedAgain ==
    ASSUME NEW m \in Modes, NEW s, NEW v, NEW r, NEW u, Restacked(m, s, v), Restacked(v, r, u)
    PROVE  Restacked(m, r, u)
<1>1. u.kitty = [[m.kitty EXCEPT ![m.alt] = s] EXCEPT ![m.alt] = r]
  BY Zenon DEF Restacked
<1>2. u.kitty = [m.kitty EXCEPT ![m.alt] = r]
  BY <1>1 DEF Modes
<1> QED
  BY <1>2 DEF Restacked

LEMMA RestackedSame ==
    ASSUME NEW m \in Modes
    PROVE  Restacked(m, m.kitty[m.alt], m)
BY DEF Restacked, Modes

\* Resetting the stack of the screen that is shown.
LEMMA KittyIsReset ==
    ASSUME NEW m \in Modes
    PROVE  \E v : Goes(m, KittyResetOf(m.kitty[m.alt]), v) /\ Restacked(m, <<0>>, v)
<1>0. m.kitty[m.alt] \in Stack
  BY DEF Modes
<1> PICK stack \in Stack : stack = m.kitty[m.alt]
  BY <1>0, Zenon
<1>1. PICK n \in Nat : Len(stack) = n + 1
  <2>1. stack \in Seq({0, 1}) /\ stack # <<>>
    BY DEF Stack
  <2>2. Len(stack) - 1 \in Nat /\ Len(stack) = (Len(stack) - 1) + 1
    BY <2>1
  <2> QED
    BY <2>2, Zenon
<1>2. stack[1] \in {0, 1}
  BY <1>1 DEF Stack
<1> DEFINE first == IF Len(stack) > 1 THEN <<T("pop", Len(stack) - 1)>> ELSE <<>>
           second == IF stack[1] # 0 THEN <<T("set", 0)>> ELSE <<>>
<1>3. PICK v : Goes(m, first, v) /\ Restacked(m, <<stack[1]>>, v)
  <2>1. CASE n = 0
    <3>1. first = <<>>
      BY <1>1, <2>1
    <3>2. stack = <<stack[1]>>
      BY <1>1, <2>1 DEF Stack
    <3>3. Goes(m, <<>>, m)
      BY GoesNothing
    <3>4. Restacked(m, stack, m)
      BY RestackedSame, Zenon
    <3> QED
      BY <3>1, <3>2, <3>3, <3>4, Zenon
  <2>2. CASE n # 0
    <3>1. first = <<T("pop", n)>>
      BY <1>1, <2>2
    <3>2. n \in Nat \ {0}
      BY <2>2
    <3> QED
      BY <1>1, <3>1, <3>2, StackPop, Zenon
  <2> QED
    BY <2>1, <2>2, Zenon
<1>4. v \in Modes /\ v.kitty[v.alt] = <<stack[1]>>
  BY <1>3 DEF Restacked, Modes
<1>5. PICK u : Goes(v, second, u) /\ Restacked(v, <<0>>, u)
  <2>1. CASE stack[1] = 0
    <3>1. second = <<>> /\ v.kitty[v.alt] = <<0>>
      BY <1>4, <2>1
    <3>2. Goes(v, <<>>, v)
      BY <1>4, GoesNothing
    <3>3. Restacked(v, <<0>>, v)
      BY <1>4, <3>1, RestackedSame, Zenon
    <3> QED
      BY <3>1, <3>2, <3>3, Zenon
  <2>2. CASE stack[1] # 0
    <3>1. second = <<T("set", 0)>>
      BY <2>2
    <3>2. v.kitty[v.alt] = <<v.kitty[v.alt][1]>>
      BY <1>4
    <3>3. 0 \in {0, 1}
      OBVIOUS
    <3> QED
      BY <1>4, <3>1, <3>2, <3>3, StackSet, Zenon
  <2> QED
    BY <2>1, <2>2, Zenon
<1>6. Goes(m, first \o second, u)
  BY <1>3, <1>5, GoesJoined, Zenon
<1>7. Restacked(m, <<0>>, u)
  BY <1>3, <1>5, RestackedAgain, Zenon
<1>8. KittyResetOf(m.kitty[m.alt]) = first \o second
  BY Zenon DEF KittyResetOf
<1> QED
  BY <1>6, <1>7, <1>8, Zenon

LEMMA AltGoes ==
    ASSUME NEW m \in Modes, NEW on \in {0, 1}
    PROVE  \E v : /\ Goes(m, <<T("alt", on)>>, v)
                  /\ v = [m EXCEPT !.alt = on, !.half = NoToken]
<1> DEFINE t == T("alt", on)
           v == Applied([m EXCEPT !.half = NoToken], t)
<1>1. t \in Token
  BY DEF T, Token
<1>2. Goes(m, <<t>>, v)
  BY <1>1, GoesNext, Zenon
<1>3. v = [m EXCEPT !.alt = on, !.half = NoToken]
  BY DEF Applied, T, Modes
<1> QED
  BY <1>2, <1>3, Zenon

LEMMA ModeGoes ==
    ASSUME NEW m \in Modes, NEW on \in {0, 1}
    PROVE  \E v : /\ Goes(m, <<T("mode", on)>>, v)
                  /\ v = [m EXCEPT !.mode = on, !.half = NoToken]
<1> DEFINE t == T("mode", on)
           v == Applied([m EXCEPT !.half = NoToken], t)
<1>1. t \in Token
  BY DEF T, Token
<1>2. Goes(m, <<t>>, v)
  BY <1>1, GoesNext, Zenon
<1>3. v = [m EXCEPT !.mode = on, !.half = NoToken]
  BY DEF Applied, T, Modes
<1> QED
  BY <1>2, <1>3, Zenon

\* What `reset` leaves of the modes m: the flags of the other screen stay when it is not shown.
Cleared(m, v) ==
    /\ v \in Modes /\ v.mode = 0 /\ v.alt = 0
    /\ v.kitty = [s \in {0, 1} |-> IF s = 0 \/ m.alt = 1 THEN <<0>> ELSE m.kitty[s]]
    /\ v.half \in {m.half, NoToken}

LEMMA ModeIsReset ==
    ASSUME NEW m \in Modes, NEW v \in Modes, v.mode = m.mode
    PROVE  \E u : /\ Goes(v, ModeSetOf(m, 0), u)
                  /\ u \in Modes /\ u.mode = 0 /\ u.alt = v.alt /\ u.kitty = v.kitty
                  /\ u.half \in {v.half, NoToken}
<1>1. CASE m.mode = 1
  <2>1. ModeSetOf(m, 0) = <<T("mode", 0)>>
    BY <1>1 DEF ModeSetOf
  <2>2. 0 \in {0, 1}
    OBVIOUS
  <2>3. PICK u : Goes(v, <<T("mode", 0)>>, u) /\ u = [v EXCEPT !.mode = 0, !.half = NoToken]
    BY <2>2, ModeGoes, Zenon
  <2>4. u \in Modes
    BY <2>3, Zenon DEF Goes
  <2>5. u.mode = 0 /\ u.alt = v.alt /\ u.kitty = v.kitty /\ u.half = NoToken
    BY <2>3 DEF Modes
  <2>6. u.half \in {v.half, NoToken}
    BY <2>5
  <2> QED
    BY <2>1, <2>3, <2>4, <2>5, <2>6, Zenon
<1>2. CASE m.mode # 1
  <2>1. ModeSetOf(m, 0) = <<>>
    BY <1>2 DEF ModeSetOf
  <2>2. v.mode = 0
    BY <1>2 DEF Modes
  <2>3. Goes(v, <<>>, v)
    BY GoesNothing
  <2>4. v.half \in {v.half, NoToken}
    OBVIOUS
  <2> QED
    BY <2>1, <2>2, <2>3, <2>4, Zenon
<1> QED
  BY <1>1, <1>2

LEMMA ResetClears ==
    ASSUME NEW m \in Modes
    PROVE  \E v : Goes(m, ResetOf(m), v) /\ Cleared(m, v)
<1> DEFINE A == KittyResetOf(m.kitty[m.alt])
           B == ModeSetOf(m, 0)
           C == IF m.alt = 1 THEN <<T("alt", 0)>> \o KittyResetOf(m.kitty[0]) ELSE <<>>
<1>1. PICK v : Goes(m, A, v) /\ Restacked(m, <<0>>, v)
  BY KittyIsReset, Zenon
<1>2. v \in Modes /\ v.mode = m.mode
  BY <1>1, Zenon DEF Restacked
<1>3. PICK u : /\ Goes(v, B, u)
               /\ u \in Modes /\ u.mode = 0 /\ u.alt = v.alt /\ u.kitty = v.kitty
               /\ u.half \in {v.half, NoToken}
  BY <1>2, ModeIsReset, Zenon
<1>4. Goes(m, A \o B, u)
  BY <1>1, <1>3, GoesJoined, Zenon
<1>5. /\ u.alt = m.alt /\ u.half \in {m.half, NoToken} /\ u.mode = 0
      /\ u.kitty = [m.kitty EXCEPT ![m.alt] = <<0>>]
  BY <1>1, <1>3 DEF Restacked
<1>6. m.alt \in {0, 1} /\ m.kitty \in [{0, 1} -> Stack]
  BY DEF Modes
<1>7. PICK w : Goes(u, C, w) /\ Cleared(m, w)
  <2>1. CASE m.alt = 1
    <3>0. 0 \in {0, 1}
      OBVIOUS
    <3>1. PICK x : Goes(u, <<T("alt", 0)>>, x) /\ x = [u EXCEPT !.alt = 0, !.half = NoToken]
      BY <1>3, <3>0, AltGoes, Zenon
    <3>2. x \in Modes
      BY <3>1, Zenon DEF Goes
    <3>3. x.mode = 0 /\ x.alt = 0 /\ x.kitty = u.kitty /\ x.half = NoToken
      BY <1>3, <3>1 DEF Modes
    <3>4. x.kitty[x.alt] = m.kitty[0]
      BY <1>5, <1>6, <2>1, <3>3
    <3>5. PICK y : Goes(x, KittyResetOf(m.kitty[0]), y) /\ Restacked(x, <<0>>, y)
      BY <3>2, <3>4, KittyIsReset, Zenon
    <3>6. Goes(u, <<T("alt", 0)>> \o KittyResetOf(m.kitty[0]), y)
      BY <3>1, <3>5, GoesJoined, Zenon
    <3>7. C = <<T("alt", 0)>> \o KittyResetOf(m.kitty[0])
      BY <2>1
    <3>8. /\ y \in Modes /\ y.mode = 0 /\ y.alt = 0 /\ y.half = NoToken
          /\ y.kitty = [u.kitty EXCEPT ![0] = <<0>>]
      BY <3>3, <3>5 DEF Restacked
    <3>9. y.kitty = [s \in {0, 1} |-> IF s = 0 \/ m.alt = 1 THEN <<0>> ELSE m.kitty[s]]
      BY <1>5, <1>6, <2>1, <3>8
    <3>10. Cleared(m, y)
      BY <3>8, <3>9 DEF Cleared
    <3> QED
      BY <3>6, <3>7, <3>10, Zenon
  <2>2. CASE m.alt = 0
    <3>1. C = <<>>
      BY <2>2
    <3>2. u.kitty = [s \in {0, 1} |-> IF s = 0 \/ m.alt = 1 THEN <<0>> ELSE m.kitty[s]]
      BY <1>5, <1>6, <2>2
    <3>3. Cleared(m, u)
      BY <1>3, <1>5, <2>2, <3>2 DEF Cleared
    <3>4. Goes(u, <<>>, u)
      BY <1>3, GoesNothing
    <3> QED
      BY <3>1, <3>3, <3>4, Zenon
  <2> QED
    BY <1>6, <2>1, <2>2
<1>8. Goes(m, (A \o B) \o C, w)
  BY <1>4, <1>7, GoesJoined, Zenon
<1>9. ResetOf(m) = (A \o B) \o C
  BY Zenon DEF ResetOf
<1> QED
  BY <1>7, <1>8, <1>9, Zenon

WithStack(w, s) == [w EXCEPT !.kitty[w.alt] = s]

LEMMA OtherStack ==
    ASSUME NEW w \in Modes, NEW s \in Stack, NEW t
    PROVE  /\ WithStack(w, s) \in Modes
           /\ WithStack(w, s).alt = w.alt
           /\ WithStack(w, s).kitty[w.alt] = s
           /\ WithStack(w, s).half = w.half
           /\ WithStack(WithStack(w, s), t) = WithStack(w, t)
<1>1. WithStack(w, s) \in Modes
  BY DEF Modes, WithStack
<1>2. WithStack(w, s).alt = w.alt
  BY DEF Modes, WithStack
<1>3. WithStack(w, s).kitty[w.alt] = s
  BY DEF Modes, WithStack
<1>4. WithStack(w, s).half = w.half
  BY DEF Modes, WithStack
<1>5. WithStack(WithStack(w, s), t) = WithStack(w, t)
  BY DEF Modes, WithStack
<1> QED
  BY <1>1, <1>2, <1>3, <1>4, <1>5, Zenon

LEMMA PushTaken ==
    ASSUME NEW x \in Modes, x.half = NoToken, NEW a
    PROVE  Taken(x, Whole(T("push", a))) = WithStack(x, Append(x.kitty[x.alt], a))
<1>1. [x EXCEPT !.half = NoToken] = x
  BY DEF Modes
<1>2. Taken(x, Whole(T("push", a))) = Applied(x, T("push", a))
  BY <1>1 DEF Taken, Whole
<1> QED
  BY <1>2 DEF T, Applied, WithStack

\* One push on top of the first i flags of a stack.
LEMMA StackGrows ==
    ASSUME NEW w \in Modes, NEW stack \in Stack, NEW i \in Nat \ {0}, i < Len(stack), w.half = NoToken,
           NEW x, x = WithStack(w, SubSeq(stack, 1, i))
    PROVE  /\ x \in Modes
           /\ Taken(x, Whole(T("push", stack[i + 1]))) = WithStack(w, SubSeq(stack, 1, i + 1))
<1>1. PICK k \in Nat : k = Len(stack) /\ i < k
  BY DEF Stack
<1>2. PICK s \in Seq({0, 1}) : s = stack
  BY DEF Stack
<1>3. SubSeq(s, 1, i) \in Seq({0, 1}) /\ Len(SubSeq(s, 1, i)) = i
  BY <1>1, <1>2
<1>4. PICK u \in Seq({0, 1}) : u = SubSeq(s, 1, i) /\ Len(u) = i
  BY <1>3, Zenon
<1>5. u \in Stack
  <2>1. u # <<>>
    BY <1>4
  <2> QED
    BY <2>1 DEF Stack
<1>6. x = WithStack(w, u)
  BY <1>2, <1>4, Zenon
<1>7. x \in Modes /\ x.alt = w.alt /\ x.kitty[w.alt] = u /\ x.half = NoToken
  <2>1. /\ WithStack(w, u) \in Modes /\ WithStack(w, u).alt = w.alt
        /\ WithStack(w, u).kitty[w.alt] = u /\ WithStack(w, u).half = w.half
    BY <1>5, OtherStack
  <2> QED
    BY <1>6, <2>1
<1>8. Append(u, s[i + 1]) = SubSeq(s, 1, i + 1)
  BY <1>1, <1>2, <1>4
<1>9. Taken(x, Whole(T("push", stack[i + 1]))) = WithStack(x, Append(u, s[i + 1]))
  BY <1>2, <1>7, PushTaken, Zenon
<1>10. WithStack(x, Append(u, s[i + 1])) = WithStack(w, Append(u, s[i + 1]))
  <2>1. WithStack(WithStack(w, u), Append(u, s[i + 1])) = WithStack(w, Append(u, s[i + 1]))
    BY <1>5, OtherStack
  <2> QED
    BY <1>6, <2>1
<1> QED
  BY <1>2, <1>7, <1>8, <1>9, <1>10, Zenon

LEMMA TakenOpIs == \A m \in Modes, p \in Piece : TakenOp[m, p] = Taken(m, p)
BY Zenon DEF TakenOp

LEMMA StackPushed ==
    ASSUME NEW w \in Modes, NEW stack \in Stack, w.half = NoToken, w.kitty[w.alt] = <<stack[1]>>
    PROVE  \E v : Goes(w, Pushes(stack), v) /\ Restacked(w, stack, v)
<1>1. PICK n \in Nat : Len(stack) = n + 1
  <2>1. stack \in Seq({0, 1}) /\ stack # <<>>
    BY DEF Stack
  <2>2. Len(stack) - 1 \in Nat /\ Len(stack) = (Len(stack) - 1) + 1
    BY <2>1
  <2> QED
    BY <2>2, Zenon
<1>2. PICK p : p = [i \in 1 .. n |-> Whole(T("push", stack[i + 1]))]
  OBVIOUS
<1>3. PICK r : r = [i \in 0 .. n |-> WithStack(w, SubSeq(stack, 1, i + 1))]
  OBVIOUS
<1>4. Len(stack) - 1 = n
  BY <1>1
<1>5. PICK q : q = [i \in 1 .. n |-> T("push", stack[i + 1])]
  OBVIOUS
<1>6. q = Pushes(stack)
  BY <1>4, <1>5 DEF Pushes
<1>7. q \in Seq(Token)
  <2>1. ASSUME NEW i \in 1 .. n PROVE stack[i + 1] \in {0, 1}
    BY <1>1 DEF Stack
  <2>2. ASSUME NEW i \in 1 .. n PROVE T("push", stack[i + 1]) \in Token
    BY <2>1 DEF T, Token
  <2>3. q \in [1 .. n -> Token]
    BY <1>5, <2>2
  <2> QED
    BY <2>3
<1>8. Written(q) = p
  BY <1>2, <1>5 DEF Written
<1>9. Len(p) = n /\ \A i \in 1 .. n : p[i] = Whole(T("push", stack[i + 1]))
  BY <1>2
<1>10. \A i \in 0 .. n : r[i] = WithStack(w, SubSeq(stack, 1, i + 1))
  BY <1>3
<1>11. r[0] = w
  <2>1. 0 \in 0 .. n /\ 0 + 1 = 1 /\ 1 \in 1 .. Len(stack)
    BY <1>1
  <2>2. r[0] = WithStack(w, SubSeq(stack, 1, 1))
    BY <1>10, <2>1
  <2>3. SubSeq(stack, 1, 1) = <<stack[1]>>
    <3>1. stack \in Seq({0, 1})
      BY DEF Stack
    <3> QED
      BY <2>1, <3>1, OneOfSeq, Zenon
  <2>4. r[0] = WithStack(w, w.kitty[w.alt])
    BY <2>2, <2>3, Zenon
  <2> QED
    BY <2>4 DEF Modes, WithStack
<1>12. ASSUME NEW i \in 1 .. n
       PROVE  r[i - 1] \in Modes /\ r[i] = Taken(r[i - 1], p[i])
  <2>1. i \in Nat \ {0} /\ i < Len(stack) /\ i - 1 \in 0 .. n /\ i \in 0 .. n /\ (i - 1) + 1 = i
    BY <1>1
  <2>2. PICK x : x = r[i - 1]
    OBVIOUS
  <2>3. x = WithStack(w, SubSeq(stack, 1, (i - 1) + 1))
    BY <1>10, <2>1, <2>2, Zenon
  <2>4. x = WithStack(w, SubSeq(stack, 1, i))
    BY <2>1, <2>3
  <2>5. x \in Modes /\ Taken(x, Whole(T("push", stack[i + 1]))) = WithStack(w, SubSeq(stack, 1, i + 1))
    BY <2>1, <2>4, StackGrows
  <2> QED
    BY <1>9, <1>10, <2>1, <2>2, <2>5, Zenon
<1>13. ASSUME NEW i \in 0 .. n PROVE r[i] \in Modes
  <2>1. SubSeq(stack, 1, i + 1) \in Stack
    <3>1. PICK s \in Seq({0, 1}) : s = stack
      BY DEF Stack
    <3>2. SubSeq(s, 1, i + 1) \in Seq({0, 1}) /\ Len(SubSeq(s, 1, i + 1)) = i + 1
      BY <1>1, <3>1
    <3>3. SubSeq(s, 1, i + 1) # <<>>
      <4>1. i + 1 # 0
        OBVIOUS
      <4>2. \A u \in Seq({0, 1}) : Len(u) = i + 1 => u # <<>>
        BY <4>1
      <4> QED
        BY <3>2, <4>2, Zenon
    <3> QED
      BY <3>1, <3>2, <3>3 DEF Stack
  <2> QED
    <3>1. WithStack(w, SubSeq(stack, 1, i + 1)) \in Modes
      BY <2>1, OtherStack, Zenon
    <3> QED
      BY <1>10, <3>1, Zenon
<1>14. ASSUME NEW i \in 1 .. n PROVE p[i] \in Piece
  <2>1. stack[i + 1] \in {0, 1}
    BY <1>1 DEF Stack
  <2> QED
    BY <1>9, <2>1 DEF Piece, Whole, T, Token
<1>15. ASSUME NEW i \in 1 .. n PROVE r[i] = TakenOp[r[i - 1], p[i]]
  <2>1. r[i - 1] \in Modes /\ r[i] = Taken(r[i - 1], p[i]) /\ p[i] \in Piece
    BY <1>12, <1>14, Zenon
  <2> QED
    BY <2>1, TakenOpIs, Zenon
<1>16. r \in [0 .. n -> Modes]
  <2>1. ASSUME NEW i \in 0 .. n PROVE WithStack(w, SubSeq(stack, 1, i + 1)) \in Modes
    BY <1>10, <1>13, Zenon
  <2> QED
    BY <1>3, <2>1, Zenon
<1>17. IsRun(TakenOp, w, p, r)
  BY <1>9, <1>11, <1>15, Zenon DEF IsRun
<1>18. TakenTo(w, p, r[n])
  BY <1>9, <1>16, <1>17, Zenon DEF TakenTo, FoldsTo
<1>19. n \in 0 .. n
  OBVIOUS
<1>20. r[n] \in Modes /\ r[n] = WithStack(w, stack)
  <2>1. SubSeq(stack, 1, n + 1) = stack
    BY <1>1 DEF Stack
  <2> QED
    BY <1>10, <1>13, <1>19, <2>1
<1>21. Restacked(w, stack, r[n])
  BY <1>20 DEF Restacked, Modes, WithStack
<1>22. Goes(w, Pushes(stack), r[n])
  BY <1>6, <1>7, <1>8, <1>18, <1>20, Zenon DEF Goes
<1> QED
  BY <1>21, <1>22, Zenon

\* Replaying a stack on a screen that has none.
LEMMA KittyIsReplayed ==
    ASSUME NEW w \in Modes, NEW stack \in Stack, w.half = NoToken, w.kitty[w.alt] = << 0 >>
    PROVE  \E v : Goes(w, KittyReplayOf(stack), v) /\ Restacked(w, stack, v)
<1> DEFINE first == IF stack[1] # 0 THEN <<T("set", stack[1])>> ELSE <<>>
<1>1. stack[1] \in {0, 1}
  BY DEF Stack
<1>2. PICK v : Goes(w, first, v) /\ Restacked(w, <<stack[1]>>, v)
  <2>1. CASE stack[1] = 0
    <3>1. first = <<>> /\ w.kitty[w.alt] = <<stack[1]>>
      BY <2>1
    <3>2. Goes(w, <<>>, w)
      BY GoesNothing
    <3>3. Restacked(w, <<stack[1]>>, w)
      BY <3>1, RestackedSame, Zenon
    <3> QED
      BY <3>1, <3>2, <3>3, Zenon
  <2>2. CASE stack[1] # 0
    <3>1. first = <<T("set", stack[1])>>
      BY <2>2
    <3>2. w.kitty[w.alt] = <<w.kitty[w.alt][1]>>
      OBVIOUS
    <3> QED
      BY <1>1, <3>1, <3>2, StackSet, Zenon
  <2> QED
    BY <2>1, <2>2, Zenon
<1>3. v \in Modes /\ v.half = NoToken /\ v.kitty[v.alt] = <<stack[1]>>
  BY <1>2 DEF Restacked, Modes
<1>4. PICK u : Goes(v, Pushes(stack), u) /\ Restacked(v, stack, u)
  BY <1>3, StackPushed, Zenon
<1>5. Goes(w, first \o Pushes(stack), u)
  BY <1>2, <1>4, GoesJoined, Zenon
<1>6. Restacked(w, stack, u)
  BY <1>2, <1>4, RestackedAgain, Zenon
<1>7. KittyReplayOf(stack) = first \o Pushes(stack)
  BY Zenon DEF KittyReplayOf
<1> QED
  BY <1>5, <1>6, <1>7, Zenon


\* Replaying the modes m to a terminal that a reset left clear of them.
LEMMA ReplayRestores ==
    ASSUME NEW m \in Modes, m.half = NoToken, NEW w, Cleared(m, w)
    PROVE  Goes(w, ReplayOf(m), m)
<1> DEFINE A == KittyReplayOf(m.kitty[0])
           B == IF m.alt = 1 THEN <<T("alt", 1)>> \o KittyReplayOf(m.kitty[1]) ELSE <<>>
           C == ModeSetOf(m, 1)
<1>1. /\ w \in Modes /\ w.mode = 0 /\ w.alt = 0 /\ w.half = NoToken
      /\ w.kitty = [s \in {0, 1} |-> IF s = 0 \/ m.alt = 1 THEN <<0>> ELSE m.kitty[s]]
  BY DEF Cleared
<1>2. /\ m.alt \in {0, 1} /\ m.kitty \in [{0, 1} -> Stack] /\ m.mode \in {0, 1}
      /\ m.kitty[0] \in Stack /\ m.kitty[1] \in Stack
  BY DEF Modes
<1>3. w.kitty[w.alt] = <<0>>
  BY <1>1
<1>4. PICK v : Goes(w, A, v) /\ Restacked(w, m.kitty[0], v)
  BY <1>1, <1>2, <1>3, KittyIsReplayed, Zenon
<1>5. /\ v \in Modes /\ v.mode = 0 /\ v.alt = 0 /\ v.half = NoToken
      /\ v.kitty = [w.kitty EXCEPT ![0] = m.kitty[0]]
  BY <1>1, <1>4 DEF Restacked
<1>6. PICK u : Goes(v, B, u) /\ u \in Modes /\ u.mode = 0 /\ u.alt = m.alt /\ u.half = NoToken /\ u.kitty = m.kitty
  <2>1. CASE m.alt = 1
    <3>0. 1 \in {0, 1}
      OBVIOUS
    <3>1. PICK x : Goes(v, <<T("alt", 1)>>, x) /\ x = [v EXCEPT !.alt = 1, !.half = NoToken]
      BY <1>5, <3>0, AltGoes, Zenon
    <3>2. x \in Modes
      BY <3>1, Zenon DEF Goes
    <3>3. x.mode = 0 /\ x.alt = 1 /\ x.kitty = v.kitty /\ x.half = NoToken
      BY <1>5, <3>1 DEF Modes
    <3>4. x.kitty[x.alt] = <<0>>
      BY <1>1, <1>5, <2>1, <3>3
    <3>5. PICK y : Goes(x, KittyReplayOf(m.kitty[1]), y) /\ Restacked(x, m.kitty[1], y)
      BY <1>2, <3>2, <3>3, <3>4, KittyIsReplayed, Zenon
    <3>6. Goes(v, <<T("alt", 1)>> \o KittyReplayOf(m.kitty[1]), y)
      BY <3>1, <3>5, GoesJoined, Zenon
    <3>7. B = <<T("alt", 1)>> \o KittyReplayOf(m.kitty[1])
      BY <2>1
    <3>8. /\ y \in Modes /\ y.mode = 0 /\ y.alt = 1 /\ y.half = NoToken
          /\ y.kitty = [v.kitty EXCEPT ![1] = m.kitty[1]]
      BY <3>3, <3>5 DEF Restacked
    <3>9. y.kitty = m.kitty
      <4>1. w.kitty = [s \in {0, 1} |-> <<0>>]
        BY <1>1, <2>1
      <4>2. y.kitty = [[w.kitty EXCEPT ![0] = m.kitty[0]] EXCEPT ![1] = m.kitty[1]]
        BY <1>5, <3>8
      <4>3. DOMAIN y.kitty = {0, 1} /\ y.kitty = [s \in {0, 1} |-> y.kitty[s]]
        BY <4>1, <4>2
      <4>4. y.kitty[0] = m.kitty[0] /\ y.kitty[1] = m.kitty[1]
        BY <4>1, <4>2
      <4> QED
        BY <1>2, <4>3, <4>4
    <3> QED
      BY <2>1, <3>6, <3>7, <3>8, <3>9, Zenon
  <2>2. CASE m.alt = 0
    <3>1. B = <<>>
      BY <2>2
    <3>2. v.kitty = m.kitty
      BY <1>1, <1>2, <1>5, <2>2
    <3>3. Goes(v, <<>>, v)
      BY <1>5, GoesNothing
    <3> QED
      BY <1>5, <2>2, <3>1, <3>2, <3>3, Zenon
  <2> QED
    BY <1>2, <2>1, <2>2
<1>7. Goes(u, C, m)
  <2>1. CASE m.mode = 1
    <3>0. 1 \in {0, 1}
      OBVIOUS
    <3>1. PICK x : Goes(u, <<T("mode", 1)>>, x) /\ x = [u EXCEPT !.mode = 1, !.half = NoToken]
      BY <1>6, <3>0, ModeGoes, Zenon
    <3>2. x = m
      BY <1>6, <2>1, <3>1 DEF Modes
    <3>3. C = <<T("mode", 1)>>
      BY <2>1 DEF ModeSetOf
    <3> QED
      BY <3>1, <3>2, <3>3, Zenon
  <2>2. CASE m.mode = 0
    <3>1. C = <<>>
      BY <2>2 DEF ModeSetOf
    <3>2. u = m
      BY <1>6, <2>2 DEF Modes
    <3>3. Goes(u, <<>>, u)
      BY <1>6, GoesNothing
    <3> QED
      BY <3>1, <3>2, <3>3, Zenon
  <2> QED
    BY <1>2, <2>1, <2>2
<1>8. Goes(w, (A \o B) \o C, m)
  <2>1. Goes(w, A \o B, u)
    BY <1>4, <1>6, GoesJoined, Zenon
  <2> QED
    BY <1>7, <2>1, GoesJoined, Zenon
<1>9. ReplayOf(m) = (A \o B) \o C
  BY Zenon DEF ReplayOf
<1> QED
  BY <1>8, <1>9, Zenon

-----------------------------------------------------------------------------
(* The terminal and its owners. *)

\* The terminal that takes what is buffered has the modes the tracker has, or, while the shell has
\* it, what a reset leaves of them.
TermTyped ==
    /\ at \in {"run", "stopped", "exited"} /\ cut \in BOOLEAN /\ lost \in BOOLEAN
    /\ pipe \in Seq(Piece) /\ obuf \in Seq(Piece) /\ modes \in Modes /\ term \in Modes
Handed(m, x, s) == m.half = NoToken /\ \E v : TakenTo(x, s, v) /\ Cleared(m, v)
TermInv ==
    /\ TermTyped
    /\ at # "run" => tty = "saved"
    /\ at # "exited" => WholeAfter(modes.half, pipe) /\ lost = FALSE
    /\ at = "run" /\ cut = FALSE => TakenTo(term, obuf, modes)
    /\ at = "stopped" /\ cut = FALSE => Handed(modes, term, obuf)
    /\ at = "exited" /\ lost = FALSE /\ cut = FALSE => Cleared(modes, term)

LEMMA ClearedShows ==
    ASSUME NEW m \in Modes, NEW v, Cleared(m, v)
    PROVE  Shows(v) = Shows(Defaults)
<1>1. v.mode = 0 /\ v.alt = 0 /\ v.kitty[0] = <<0>>
  BY DEF Cleared
<1>2. v.kitty[v.alt] = <<0>>
  BY <1>1
<1>3. Defaults.mode = 0 /\ Defaults.alt = 0 /\ Defaults.kitty[Defaults.alt] = <<0>>
  BY DEF Defaults
<1> QED
  BY <1>1, <1>2, <1>3 DEF Shows

LEMMA TermShows == TermInv => OwnersTerminal
<1> SUFFICES ASSUME TermInv PROVE OwnersTerminal
  OBVIOUS
<1>1. at # "run" => tty = "saved"
  BY DEF TermInv
<1>2. ASSUME obuf = <<>>, lost = FALSE, cut = FALSE
      PROVE  Shows(term) = Shows(IF at = "run" THEN modes ELSE Defaults)
  <2>0. modes \in Modes /\ term \in Modes
    BY DEF TermInv, TermTyped
  <2>1. TakenTo(term, obuf, term) /\ obuf \in Seq(Piece)
    BY <1>2, <2>0, TakenToNothing
  <2>2. CASE at = "run"
    <3>1. TakenTo(term, obuf, modes)
      BY <1>2, <2>2 DEF TermInv
    <3>2. term = modes
      BY <2>1, <3>1, TakenToOne, Zenon
    <3> QED
      BY <2>2, <3>2
  <2>3. CASE at = "stopped"
    <3>1. PICK v : TakenTo(term, obuf, v) /\ Cleared(modes, v)
      BY <1>2, <2>3 DEF TermInv, Handed
    <3>2. term = v
      BY <2>1, <3>1, TakenToOne, Zenon
    <3>3. Shows(term) = Shows(Defaults)
      BY <2>0, <3>1, <3>2, ClearedShows, Zenon
    <3> QED
      BY <2>3, <3>3
  <2>4. CASE at = "exited"
    <3>1. Cleared(modes, term)
      BY <1>2, <2>4 DEF TermInv
    <3>2. Shows(term) = Shows(Defaults)
      BY <2>0, <3>1, ClearedShows, Zenon
    <3> QED
      BY <2>4, <3>2
  <2>5. at \in {"run", "stopped", "exited"}
    BY DEF TermInv, TermTyped
  <2> QED
    BY <2>2, <2>3, <2>4, <2>5
<1>3. lost \in BOOLEAN /\ cut \in BOOLEAN
  BY DEF TermInv, TermTyped
<1>4. obuf = <<>> /\ ~lost /\ ~cut => Shows(term) = Shows(IF at = "run" THEN modes ELSE Defaults)
  BY <1>2, <1>3, Zenon
<1> QED
  BY <1>1, <1>4, Zenon DEF OwnersTerminal

LEMMA TermStarts == TermInit => TermInv
<1> SUFFICES ASSUME TermInit PROVE TermInv
  OBVIOUS
<1>1. Defaults \in Modes
  BY DEF Defaults, Modes, Stack
<1>2. TermTyped
  <2>1. <<>> \in Seq(Piece)
    OBVIOUS
  <2>2. pipe \in Seq(Piece) /\ obuf \in Seq(Piece) /\ modes \in Modes /\ term \in Modes
    BY <1>1, <2>1, Zenon DEF TermInit
  <2>3. at \in {"run", "stopped", "exited"} /\ cut \in BOOLEAN /\ lost \in BOOLEAN
    BY DEF TermInit
  <2> QED
    BY <2>2, <2>3, Zenon DEF TermTyped
<1>3. WholeAfter(modes.half, pipe)
  BY DEF TermInit, WholeAfter
<1>4. TakenTo(term, obuf, modes)
  BY <1>1, TakenToNothing DEF TermInit
<1> QED
  BY <1>2, <1>3, <1>4 DEF TermInv, TermInit

\* Pieces added to a pipe that begin a sequence anew.
LEMMA WrittenWhole ==
    ASSUME NEW h, NEW s \in Seq(Piece), NEW t \in Token, WholeAfter(h, s)
    PROVE  /\ Append(s, Whole(t)) \in Seq(Piece) /\ WholeAfter(h, Append(s, Whole(t)))
           /\ LET two == <<[token |-> t, half |-> 1], [token |-> t, half |-> 2]>>
              IN  s \o two \in Seq(Piece) /\ WholeAfter(h, s \o two)
<1> PICK n \in Nat : n = Len(s)
  OBVIOUS
<1>1. Whole(t) \in Piece /\ Whole(t).half = 0
  BY DEF Whole, Piece
<1>2. ASSUME NEW p \in Piece, NEW u \in Seq(Piece), p.half # 2, u = Append(s, p)
      PROVE  WholeAfter(h, u)
  <2>1. Len(u) = n + 1 /\ u[n + 1] = p /\ \A i \in 1 .. n : u[i] = s[i]
    BY <1>2
  <2>2. ASSUME NEW i \in 1 .. n + 1, u[i].half = 2
        PROVE  IF i = 1 THEN h = u[1].token ELSE u[i - 1].half = 1 /\ u[i - 1].token = u[i].token
    <3>1. i \in 1 .. n
      BY <1>2, <2>1, <2>2
    <3>2. s[i].half = 2 /\ u[i] = s[i]
      BY <2>1, <2>2, <3>1
    <3>3. IF i = 1 THEN h = s[1].token ELSE s[i - 1].half = 1 /\ s[i - 1].token = s[i].token
      BY <3>1, <3>2 DEF WholeAfter
    <3>4. i # 1 => i - 1 \in 1 .. n
      BY <3>1
    <3> QED
      BY <2>1, <3>1, <3>2, <3>3, <3>4
  <2> QED
    BY <2>1, <2>2 DEF WholeAfter
<1>3. PICK a \in Piece : a = [token |-> t, half |-> 1]
  <2>1. [token |-> t, half |-> 1] \in Piece
    BY DEF Piece
  <2> QED
    BY <2>1, Zenon
<1>4. PICK b \in Piece : b = [token |-> t, half |-> 2]
  <2>1. [token |-> t, half |-> 2] \in Piece
    BY DEF Piece
  <2> QED
    BY <2>1, Zenon
<1>5. Append(s, a) \in Seq(Piece)
  BY <1>3
<1>6. PICK u \in Seq(Piece) : u = Append(s, a)
  BY <1>5, Zenon
<1>7. WholeAfter(h, u)
  <2>1. a.half # 2
    BY <1>3
  <2> QED
    BY <1>2, <1>6, <2>1, Zenon
<1>8. Len(u) = n + 1 /\ u[n + 1] = a
  BY <1>6
<1>9. Append(u, b) \in Seq(Piece)
  BY <1>4
<1>10. PICK w \in Seq(Piece) : w = Append(u, b)
  BY <1>9, Zenon
<1>11. Len(w) = n + 2 /\ w[n + 2] = b /\ \A i \in 1 .. n + 1 : w[i] = u[i]
  BY <1>8, <1>10
<1>12. WholeAfter(h, w)
  <2>1. ASSUME NEW i \in 1 .. n + 2, w[i].half = 2
        PROVE  IF i = 1 THEN h = w[1].token ELSE w[i - 1].half = 1 /\ w[i - 1].token = w[i].token
    <3>1. CASE i = n + 2
      <4>1. i # 1 /\ i - 1 = n + 1 /\ n + 1 \in 1 .. n + 1
        BY <3>1
      <4>2. w[i - 1] = a /\ w[i] = b
        BY <1>8, <1>11, <3>1, <4>1
      <4> QED
        BY <1>3, <1>4, <4>1, <4>2
    <3>2. CASE i # n + 2
      <4>1. i \in 1 .. n + 1
        BY <3>2
      <4>2. u[i].half = 2 /\ w[i] = u[i]
        BY <1>11, <2>1, <4>1
      <4>3. IF i = 1 THEN h = u[1].token ELSE u[i - 1].half = 1 /\ u[i - 1].token = u[i].token
        BY <1>7, <1>8, <4>1, <4>2 DEF WholeAfter
      <4>4. i # 1 => i - 1 \in 1 .. n + 1
        BY <4>1
      <4> QED
        BY <1>11, <4>1, <4>2, <4>3, <4>4
    <3> QED
      BY <3>1, <3>2
  <2> QED
    BY <1>11, <2>1 DEF WholeAfter
<1>13. s \o <<a, b>> = w
  <2>1. \A x \in Seq(Piece), p, q \in Piece : x \o <<p, q>> = Append(Append(x, p), q)
    OBVIOUS
  <2> QED
    BY <1>6, <1>10, <2>1
<1>14. Append(s, Whole(t)) \in Seq(Piece)
  BY <1>1
<1>15. WholeAfter(h, Append(s, Whole(t)))
  <2>1. PICK x \in Seq(Piece) : x = Append(s, Whole(t))
    BY <1>14, Zenon
  <2>2. Whole(t).half # 2
    BY <1>1
  <2> QED
    BY <1>1, <1>2, <2>1, <2>2, Zenon
<1>16. s \o <<[token |-> t, half |-> 1], [token |-> t, half |-> 2]>> = w
  BY <1>3, <1>4, <1>13, Zenon
<1> QED
  BY <1>12, <1>14, <1>15, <1>16, Zenon

\* A read that ends anywhere leaves the second half of a sequence after the first.
LEMMA CutPipe ==
    ASSUME NEW h, NEW s \in Seq(Piece), NEW n \in Nat, n <= Len(s), WholeAfter(h, s)
    PROVE  /\ SubSeq(s, 1, n) \in Seq(Piece) /\ SubSeq(s, n + 1, Len(s)) \in Seq(Piece)
           /\ Len(SubSeq(s, 1, n)) = n
           /\ WholeAfter(h, SubSeq(s, 1, n))
           /\ \A k : (n # 0 /\ (s[n].half = 1 => k = s[n].token)) => WholeAfter(k, SubSeq(s, n + 1, Len(s)))
           /\ \A i \in 1 .. n : SubSeq(s, 1, n)[i] = s[i]
<1>1. PICK l \in Nat : l = Len(s) /\ n <= l
  OBVIOUS
<1>2. SubSeq(s, 1, n) \in Seq(Piece) /\ Len(SubSeq(s, 1, n)) = n /\ \A i \in 1 .. n : SubSeq(s, 1, n)[i] = s[i]
  BY <1>1
<1>3. PICK d \in Nat : d = l - n /\ l = n + d
  <2>1. l - n \in Nat /\ l = n + (l - n)
    BY <1>1
  <2> QED
    BY <2>1, Zenon
<1>4. /\ SubSeq(s, n + 1, l) \in Seq(Piece) /\ Len(SubSeq(s, n + 1, l)) = d
      /\ \A i \in 1 .. d : SubSeq(s, n + 1, l)[i] = s[n + i]
  BY <1>1, <1>3
<1>5. PICK u \in Seq(Piece) : u = SubSeq(s, 1, n) /\ Len(u) = n /\ \A i \in 1 .. n : u[i] = s[i]
  BY <1>2, Zenon
<1>6. PICK w \in Seq(Piece) : w = SubSeq(s, n + 1, l) /\ Len(w) = d /\ \A i \in 1 .. d : w[i] = s[n + i]
  BY <1>4, Zenon
<1>7. WholeAfter(h, u)
  <2>1. ASSUME NEW i \in 1 .. n, u[i].half = 2
        PROVE  IF i = 1 THEN h = u[1].token ELSE u[i - 1].half = 1 /\ u[i - 1].token = u[i].token
    <3>1. s[i].half = 2 /\ u[i] = s[i] /\ i \in 1 .. l
      BY <1>1, <1>5, <2>1
    <3>2. IF i = 1 THEN h = s[1].token ELSE s[i - 1].half = 1 /\ s[i - 1].token = s[i].token
      BY <1>1, <3>1 DEF WholeAfter
    <3>3. i # 1 => u[i - 1] = s[i - 1]
      BY <1>5
    <3> QED
      BY <1>5, <3>1, <3>2, <3>3
  <2> QED
    BY <1>5, <2>1 DEF WholeAfter
<1>8. ASSUME NEW k, n # 0, s[n].half = 1 => k = s[n].token
      PROVE  WholeAfter(k, w)
  <2>1. ASSUME NEW i \in 1 .. d, w[i].half = 2
        PROVE  IF i = 1 THEN k = w[1].token ELSE w[i - 1].half = 1 /\ w[i - 1].token = w[i].token
    <3>1. PICK j \in 1 .. l : j = n + i /\ j # 1 /\ j - 1 = n + (i - 1)
      <4>1. n + i \in 1 .. l /\ n + i # 1 /\ (n + i) - 1 = n + (i - 1)
        BY <1>3, <1>8
      <4> QED
        BY <4>1, Zenon
    <3>2. s[j].half = 2 /\ w[i] = s[j]
      BY <1>6, <2>1, <3>1
    <3>3. s[j - 1].half = 1 /\ s[j - 1].token = s[j].token
      BY <1>1, <3>1, <3>2 DEF WholeAfter
    <3>4. CASE i = 1
      <4>1. j - 1 = n
        BY <3>1, <3>4
      <4>2. k = s[j].token
        BY <1>8, <3>3, <4>1, Zenon
      <4> QED
        BY <3>2, <3>4, <4>2
    <3>5. CASE i # 1
      <4>1. i - 1 \in 1 .. d
        BY <3>5
      <4>2. w[i - 1] = s[n + (i - 1)]
        BY <1>6, <4>1, Zenon
      <4>3. w[i - 1] = s[j - 1]
        BY <3>1, <4>2
      <4> QED
        BY <3>2, <3>3, <3>5, <4>3
    <3> QED
      BY <3>4, <3>5
  <2> QED
    BY <1>6, <2>1 DEF WholeAfter
<1> QED
  BY <1>1, <1>2, <1>4, <1>5, <1>6, <1>7, <1>8, Zenon

\* Steps that leave the streams and the terminal alone.
LEMMA SameKeeps ==
    ASSUME TermInv, UNCHANGED <<at, pipe, modes, obuf, term, tty, cut, lost>>
    PROVE  TermInv'
<1>1. TermTyped'
  BY DEF TermInv, TermTyped
<1>2. (at # "exited" => WholeAfter(modes.half, pipe) /\ lost = FALSE)'
  BY DEF TermInv
<1>3. /\ (at # "run" => tty = "saved")'
      /\ (at = "run" /\ cut = FALSE => TakenTo(term, obuf, modes))'
      /\ (at = "stopped" /\ cut = FALSE => Handed(modes, term, obuf))'
      /\ (at = "exited" /\ lost = FALSE /\ cut = FALSE => Cleared(modes, term))'
  BY DEF TermInv
<1> QED
  BY <1>1, <1>2, <1>3, Zenon DEF TermInv

LEMMA ChildWritesKeeps ==
    ASSUME TermInv, NEW t \in Token, ChildWrites(t)
    PROVE  TermInv'
<1>1. UNCHANGED <<at, modes, obuf, term, tty, cut, lost>>
  BY DEF ChildWrites
<1>2. pipe \in Seq(Piece)
  BY DEF TermInv, TermTyped
<1>3. CASE at = "exited"
  <2>1. pipe' \in Seq(Piece)
    <3>1. Whole(t) \in Piece /\ [token |-> t, half |-> 1] \in Piece /\ [token |-> t, half |-> 2] \in Piece
      BY DEF Whole, Piece
    <3>2. \A x \in Seq(Piece), p, q \in Piece : Append(x, p) \in Seq(Piece) /\ x \o <<p, q>> \in Seq(Piece)
      OBVIOUS
    <3> QED
      BY <1>2, <3>1, <3>2, Zenon DEF ChildWrites
  <2>2. TermTyped'
    BY <1>1, <2>1 DEF TermInv, TermTyped
  <2> QED
    BY <1>1, <1>3, <2>2 DEF TermInv
<1>4. CASE at # "exited"
  <2>1. WholeAfter(modes.half, pipe) /\ lost = FALSE
    BY <1>4 DEF TermInv
  <2>2. pipe' \in Seq(Piece) /\ WholeAfter(modes.half, pipe')
    BY <1>2, <2>1, WrittenWhole, Zenon DEF ChildWrites
  <2>3. TermTyped'
    BY <1>1, <2>2 DEF TermInv, TermTyped
  <2>4. (at # "exited" => WholeAfter(modes.half, pipe) /\ lost = FALSE)'
    BY <1>1, <2>1, <2>2
  <2>5. /\ (at # "run" => tty = "saved")'
        /\ (at = "run" /\ cut = FALSE => TakenTo(term, obuf, modes))'
        /\ (at = "stopped" /\ cut = FALSE => Handed(modes, term, obuf))'
        /\ (at = "exited" /\ lost = FALSE /\ cut = FALSE => Cleared(modes, term))'
    BY <1>1 DEF TermInv
  <2> QED
    BY <2>3, <2>4, <2>5, Zenon DEF TermInv
<1> QED
  BY <1>3, <1>4

\* What the tracker is fed with n pieces of the pipe, the terminal makes of them too.
LEMMA PipeRead ==
    ASSUME TermInv, at # "exited", NEW n \in Nat, n <= Len(pipe), NEW s, s = SubSeq(pipe, 1, n)
    PROVE  /\ s \in Seq(Piece) /\ SubSeq(pipe, n + 1, Len(pipe)) \in Seq(Piece)
           /\ FoldLeft(Fed, modes, s) \in Modes
           /\ TakenTo(modes, s, FoldLeft(Fed, modes, s))
           /\ n # 0 => WholeAfter(FoldLeft(Fed, modes, s).half, SubSeq(pipe, n + 1, Len(pipe)))
<1>1. pipe \in Seq(Piece) /\ modes \in Modes /\ WholeAfter(modes.half, pipe)
  BY DEF TermInv, TermTyped
<1>2. /\ s \in Seq(Piece) /\ SubSeq(pipe, n + 1, Len(pipe)) \in Seq(Piece)
      /\ Len(s) = n /\ WholeAfter(modes.half, s)
      /\ \A k : (n # 0 /\ (pipe[n].half = 1 => k = pipe[n].token)) =>
            WholeAfter(k, SubSeq(pipe, n + 1, Len(pipe)))
      /\ \A i \in 1 .. n : s[i] = pipe[i]
  BY <1>1, CutPipe, Zenon
<1>3. PICK v : v = FoldLeft(Fed, modes, s)
  OBVIOUS
<1>4. FedTo(modes, s, v)
  BY <1>1, <1>2, <1>3, FedFolds, Zenon DEF FedTo
<1>5. TakenTo(modes, s, v) /\ (s # <<>> /\ s[Len(s)].half = 1 => v.half = s[Len(s)].token)
  BY <1>1, <1>2, <1>4, FedAsTaken, Zenon
<1>6. v \in Modes
  BY <1>2, <1>5, TakenToOne, Zenon
<1>7. ASSUME n # 0 PROVE WholeAfter(v.half, SubSeq(pipe, n + 1, Len(pipe)))
  <2>1. n \in 1 .. n /\ s # <<>>
    BY <1>2, <1>7
  <2>2. s[n] = pipe[n]
    BY <1>2, <2>1, Zenon
  <2>3. pipe[n].half = 1 => v.half = pipe[n].token
    BY <1>2, <1>5, <2>1, <2>2, Zenon
  <2> QED
    BY <1>2, <1>7, <2>3, Zenon
<1> QED
  BY <1>2, <1>3, <1>5, <1>6, <1>7, Zenon

LEMMA ReadsKeeps ==
    ASSUME TermInv, Reads
    PROVE  TermInv'
<1>1. PICK n \in 1 .. Len(pipe) :
          /\ modes' = FoldLeft(Fed, modes, SubSeq(pipe, 1, n))
          /\ obuf' = obuf \o SubSeq(pipe, 1, n)
          /\ pipe' = SubSeq(pipe, n + 1, Len(pipe))
  BY DEF Reads
<1>2. UNCHANGED <<at, child, term, tty, stuck, killing, cut, lost, termSpent>> /\ at = "run"
  BY DEF Reads
<1>3. PICK s : s = SubSeq(pipe, 1, n)
  OBVIOUS
<1>4. n \in Nat /\ n # 0 /\ n <= Len(pipe) /\ at # "exited"
  <2>1. Len(pipe) \in Nat
    BY DEF TermInv, TermTyped
  <2> QED
    BY <1>2, <2>1
<1>5. /\ s \in Seq(Piece) /\ pipe' \in Seq(Piece) /\ modes' \in Modes
      /\ TakenTo(modes, s, modes') /\ WholeAfter(modes'.half, pipe')
  BY <1>1, <1>3, <1>4, PipeRead, Zenon
<1>6. obuf \in Seq(Piece) /\ term \in Modes /\ obuf' = obuf \o s
  BY <1>1, <1>3 DEF TermInv, TermTyped
<1>7. TermTyped'
  <2>1. obuf' \in Seq(Piece)
    BY <1>5, <1>6
  <2> QED
    BY <1>2, <1>5, <2>1 DEF TermInv, TermTyped
<1>8. (at # "exited" => WholeAfter(modes.half, pipe) /\ lost = FALSE)'
  BY <1>2, <1>4, <1>5 DEF TermInv
<1>9. ASSUME cut = FALSE PROVE TakenTo(term, obuf', modes')
  <2>1. TakenTo(term, obuf, modes)
    BY <1>2, <1>9 DEF TermInv
  <2> QED
    BY <1>5, <1>6, <2>1, TakenToJoined, Zenon
<1> QED
  BY <1>2, <1>7, <1>8, <1>9 DEF TermInv

LEMMA TerminalReadsKeeps ==
    ASSUME TermInv, TerminalReads
    PROVE  TermInv'
<1>1. /\ obuf # <<>> /\ at = "run" /\ term' = Taken(term, Head(obuf)) /\ obuf' = Tail(obuf)
      /\ UNCHANGED <<at, child, pipe, modes, tty, stuck, killing, cut, lost, termSpent>>
  BY DEF TerminalReads
<1>2. obuf \in Seq(Piece) /\ term \in Modes
  BY DEF TermInv, TermTyped
<1>3. Head(obuf) \in Piece /\ Tail(obuf) \in Seq(Piece)
  BY <1>1, <1>2
<1>4. Taken(term, Head(obuf)) \in Modes
  BY <1>2, <1>3, TakenTyped
<1>5. TermTyped'
  BY <1>1, <1>3, <1>4 DEF TermInv, TermTyped
<1>6. ASSUME cut = FALSE PROVE TakenTo(term', obuf', modes)
  <2>1. TakenTo(term, obuf, modes)
    BY <1>1, <1>6 DEF TermInv
  <2> QED
    BY <1>1, <1>2, <2>1, TakenToRest, Zenon
<1>7. (at # "exited" => WholeAfter(modes.half, pipe) /\ lost = FALSE)'
  BY <1>1 DEF TermInv
<1> QED
  BY <1>1, <1>5, <1>6, <1>7 DEF TermInv

\* What a drain leaves: the terminal takes the buffer now or later.
LEMMA DrainsTaken ==
    ASSUME TermInv, NEW s \in Seq(Piece), Drains(s)
    PROVE  /\ obuf' \in Seq(Piece) /\ term' \in Modes
           /\ \A v : TakenTo(term, s, v) => TakenTo(term', obuf', v)
<1>1. term \in Modes
  BY DEF TermInv, TermTyped
<1>2. CASE stuck
  <2>1. obuf' = s /\ term' = term
    BY <1>2 DEF Drains
  <2> QED
    BY <1>1, <2>1, Zenon
<1>3. CASE ~stuck
  <2>1. obuf' = <<>> /\ term' = FoldLeft(Taken, term, s)
    BY <1>3 DEF Drains
  <2>2. TakenTo(term, s, term')
    BY <1>1, <2>1, TakenFolds, Zenon DEF TakenTo
  <2>3. term' \in Modes
    BY <1>1, <2>2, TakenToOne, Zenon
  <2>4. ASSUME NEW v, TakenTo(term, s, v) PROVE TakenTo(term', obuf', v)
    <3>1. v = term'
      BY <2>2, <2>4, TakenToOne, Zenon
    <3>2. TakenTo(term', <<>>, term')
      BY <2>3, TakenToNothing
    <3> QED
      BY <2>1, <3>1, <3>2, Zenon
  <2>5. <<>> \in Seq(Piece)
    OBVIOUS
  <2> QED
    BY <2>1, <2>3, <2>4, <2>5, Zenon
<1> QED
  BY <1>2, <1>3

LEMMA ResetIs == Reset = ResetOf(modes) /\ Replay = ReplayOf(modes)
BY DEF Reset, ResetOf, Replay, ReplayOf, KittyReset, KittyResetOf, KittyReplay, KittyReplayOf, ModeSet, ModeSetOf, Pushes

LEMMA SuspendKeeps ==
    ASSUME TermInv, Suspend
    PROVE  TermInv'
<1>1. /\ at = "run" /\ Drains(obuf \o Written(Reset)) /\ tty' = "saved" /\ at' = "stopped"
      /\ cut' = (cut \/ modes.half # NoToken)
      /\ pipe' = pipe /\ modes' = modes /\ lost' = lost
  BY DEF Suspend
<1>2. obuf \in Seq(Piece) /\ modes \in Modes /\ term \in Modes /\ pipe \in Seq(Piece) /\ cut \in BOOLEAN /\ lost = FALSE
      /\ WholeAfter(modes.half, pipe)
  BY <1>1 DEF TermInv, TermTyped
<1>3. PICK v : Goes(modes, ResetOf(modes), v) /\ Cleared(modes, v)
  BY <1>2, ResetClears, Zenon
<1>4. PICK t \in Seq(Piece) : t = Written(Reset) /\ TakenTo(modes, t, v)
  <2>1. ResetOf(modes) \in Seq(Token) /\ TakenTo(modes, Written(ResetOf(modes)), v)
    BY <1>3, Zenon DEF Goes
  <2>2. Written(ResetOf(modes)) \in Seq(Piece)
    BY <2>1, WrittenTyped, Zenon
  <2> QED
    BY <2>1, <2>2, ResetIs, Zenon
<1>5. obuf \o t \in Seq(Piece)
  BY <1>2, <1>4
<1>6. Drains(obuf \o t)
  BY <1>1, <1>4, Zenon
<1>7. /\ obuf' \in Seq(Piece) /\ term' \in Modes
      /\ \A u : TakenTo(term, obuf \o t, u) => TakenTo(term', obuf', u)
  BY <1>5, <1>6, DrainsTaken, Zenon
<1>8. cut' \in BOOLEAN
  BY <1>1
<1>9. TermTyped'
  BY <1>1, <1>2, <1>7, <1>8, Zenon DEF TermTyped
<1>10. ASSUME cut' = FALSE PROVE Handed(modes, term', obuf')
  <2>1. cut = FALSE /\ modes.half = NoToken
    BY <1>1, <1>2, <1>10
  <2>2. TakenTo(term, obuf, modes)
    BY <1>1, <2>1 DEF TermInv
  <2>3. TakenTo(term, obuf \o t, v)
    BY <1>2, <1>4, <2>2, TakenToJoined, Zenon
  <2>4. TakenTo(term', obuf', v)
    BY <1>7, <2>3, Zenon
  <2> QED
    BY <1>3, <2>1, <2>4, Zenon DEF Handed
<1>11. (at # "exited" => WholeAfter(modes.half, pipe) /\ lost = FALSE)'
  BY <1>1, <1>2
<1>12. (at = "stopped" /\ cut = FALSE => Handed(modes, term, obuf))'
  BY <1>1, <1>10
<1> QED
  BY <1>1, <1>9, <1>11, <1>12 DEF TermInv

LEMMA ReplayTyped == \A m \in Modes : ReplayOf(m) \in Seq(Token)
<1> SUFFICES ASSUME NEW m \in Modes PROVE ReplayOf(m) \in Seq(Token)
  OBVIOUS
<1>1. \A x, y \in Seq(Token) : x \o y \in Seq(Token)
  OBVIOUS
<1>2. \A t \in Token : <<t>> \in Seq(Token)
  OBVIOUS
<1>3. <<>> \in Seq(Token)
  OBVIOUS
<1>4. \A a \in {0, 1} : T("set", a) \in Token /\ T("alt", a) \in Token /\ T("mode", a) \in Token /\ T("push", a) \in Token
  BY DEF T, Token
<1>5. ASSUME NEW stack \in Stack PROVE KittyReplayOf(stack) \in Seq(Token)
  <2>1. PICK n \in Nat : Len(stack) - 1 = n
    BY DEF Stack
  <2>2. stack[1] \in {0, 1} /\ \A i \in 1 .. n : stack[i + 1] \in {0, 1}
    BY <2>1 DEF Stack
  <2>3. Pushes(stack) \in Seq(Token)
    <3>1. PICK q : q = [i \in 1 .. n |-> T("push", stack[i + 1])]
      OBVIOUS
    <3>2. \A i \in 1 .. n : T("push", stack[i + 1]) \in Token
      BY <1>4, <2>2, Zenon
    <3>3. q \in [1 .. n -> Token]
      BY <3>1, <3>2, Zenon
    <3>4. q \in Seq(Token)
      BY <3>3
    <3> QED
      BY <2>1, <3>1, <3>4, Zenon DEF Pushes
  <2>4. (IF stack[1] # 0 THEN <<T("set", stack[1])>> ELSE <<>>) \in Seq(Token)
    BY <1>2, <1>3, <1>4, <2>2
  <2> QED
    BY <1>1, <2>3, <2>4, Zenon DEF KittyReplayOf
<1>6. m.kitty[0] \in Stack /\ m.kitty[1] \in Stack
  BY DEF Modes
<1>7. ModeSetOf(m, 1) \in Seq(Token)
  BY <1>2, <1>3, <1>4 DEF ModeSetOf
<1>8. (IF m.alt = 1 THEN <<T("alt", 1)>> \o KittyReplayOf(m.kitty[1]) ELSE <<>>) \in Seq(Token)
  <2>1. <<T("alt", 1)>> \in Seq(Token)
    BY <1>2, <1>4
  <2>2. <<T("alt", 1)>> \o KittyReplayOf(m.kitty[1]) \in Seq(Token)
    BY <1>1, <1>5, <1>6, <2>1, Zenon
  <2> QED
    BY <1>3, <2>2
<1> QED
  BY <1>1, <1>5, <1>6, <1>7, <1>8, Zenon DEF ReplayOf

LEMMA ContinuesKeeps ==
    ASSUME TermInv, Continues
    PROVE  TermInv'
<1>1. /\ at = "stopped" /\ at' = "run" /\ obuf' = obuf \o Written(Replay)
      /\ pipe' = pipe /\ modes' = modes /\ term' = term /\ cut' = cut /\ lost' = lost
  BY DEF Continues
<1>2. /\ obuf \in Seq(Piece) /\ modes \in Modes /\ term \in Modes /\ pipe \in Seq(Piece)
      /\ cut \in BOOLEAN /\ lost \in BOOLEAN /\ lost = FALSE /\ WholeAfter(modes.half, pipe)
  BY <1>1 DEF TermInv, TermTyped
<1>3. Written(Replay) \in Seq(Piece)
  <2>1. ReplayOf(modes) \in Seq(Token)
    BY <1>2, ReplayTyped
  <2> QED
    BY <2>1, ResetIs, WrittenTyped, Zenon
<1>4. PICK t \in Seq(Piece) : t = Written(Replay)
  BY <1>3, Zenon
<1>5. obuf' \in Seq(Piece)
  BY <1>1, <1>2, <1>4
<1>6. TermTyped'
  BY <1>1, <1>2, <1>5 DEF TermTyped
<1>7. ASSUME cut = FALSE PROVE TakenTo(term, obuf', modes)
  <2>1. modes.half = NoToken
    BY <1>1, <1>7 DEF TermInv, Handed
  <2>2. PICK v : TakenTo(term, obuf, v) /\ Cleared(modes, v)
    BY <1>1, <1>7, Zenon DEF TermInv, Handed
  <2>3. Goes(v, ReplayOf(modes), modes)
    BY <1>2, <2>1, <2>2, ReplayRestores, Zenon
  <2>4. TakenTo(v, t, modes)
    BY <1>4, <2>3, ResetIs, Zenon DEF Goes
  <2> QED
    BY <1>1, <1>2, <1>4, <2>2, <2>4, TakenToJoined, Zenon
<1>8. (at # "exited" => WholeAfter(modes.half, pipe) /\ lost = FALSE)'
  BY <1>1, <1>2
<1>9. (at = "run" /\ cut = FALSE => TakenTo(term, obuf, modes))'
  BY <1>1, <1>7
<1> QED
  BY <1>1, <1>6, <1>8, <1>9 DEF TermInv

LEMMA EndsKeeps ==
    ASSUME TermInv, Ends
    PROVE  TermInv'
<1>1. /\ at = "run" /\ tty' = "saved" /\ at' = "exited" /\ cut' = cut
  BY DEF Ends
<1>2. PICK n \in 0 .. Len(pipe) :
          /\ modes' = FoldLeft(Fed, modes, SubSeq(pipe, 1, n))
          /\ pipe' = SubSeq(pipe, n + 1, Len(pipe))
          /\ obuf' = <<>>
          /\ IF stuck THEN lost' = TRUE /\ term' = term
             ELSE lost' = lost /\ term' = FoldLeft(Taken, term, (obuf \o SubSeq(pipe, 1, n)) \o Written(Reset'))
  BY DEF Ends
<1>3. PICK s : s = SubSeq(pipe, 1, n)
  OBVIOUS
<1>4. n \in Nat /\ n <= Len(pipe) /\ at # "exited"
  <2>1. Len(pipe) \in Nat
    BY DEF TermInv, TermTyped
  <2> QED
    BY <1>1, <2>1
<1>5. s \in Seq(Piece) /\ pipe' \in Seq(Piece) /\ modes' \in Modes /\ TakenTo(modes, s, modes')
  BY <1>2, <1>3, <1>4, PipeRead, Zenon
<1>6. obuf \in Seq(Piece) /\ term \in Modes /\ cut \in BOOLEAN /\ lost \in BOOLEAN
  BY DEF TermInv, TermTyped
<1>7. PICK m \in Modes : m = modes'
  BY <1>5, Zenon
<1>8. PICK v : Goes(m, ResetOf(m), v) /\ Cleared(m, v)
  BY <1>7, ResetClears, Zenon
<1>9. PICK t \in Seq(Piece) : t = Written(Reset') /\ TakenTo(m, t, v)
  <2>1. ResetOf(m) \in Seq(Token) /\ TakenTo(m, Written(ResetOf(m)), v)
    BY <1>8, Zenon DEF Goes
  <2>2. Written(ResetOf(m)) \in Seq(Piece)
    BY <2>1, WrittenTyped, Zenon
  <2>3. Reset' = ResetOf(modes')
    BY DEF Reset, ResetOf, KittyReset, KittyResetOf, ModeSet, ModeSetOf
  <2> QED
    BY <1>7, <2>1, <2>2, <2>3, Zenon
<1>10. obuf \o s \in Seq(Piece) /\ (obuf \o s) \o t \in Seq(Piece)
  BY <1>5, <1>6, <1>9
<1>11. CASE stuck
  <2>1. TermTyped'
    BY <1>1, <1>2, <1>5, <1>6, <1>11 DEF TermTyped
  <2> QED
    BY <1>1, <1>2, <1>11, <2>1 DEF TermInv
<1>12. CASE ~stuck
  <2>1. term' = FoldLeft(Taken, term, (obuf \o s) \o t) /\ lost' = lost
    BY <1>2, <1>3, <1>9, <1>12
  <2>2. TakenTo(term, (obuf \o s) \o t, term')
    BY <1>6, <1>10, <2>1, TakenFolds, Zenon DEF TakenTo
  <2>3. term' \in Modes
    BY <1>10, <2>2, TakenToOne, Zenon
  <2>4. TermTyped'
    BY <1>1, <1>2, <1>5, <1>6, <2>1, <2>3 DEF TermTyped
  <2>5. ASSUME cut = FALSE PROVE Cleared(modes', term')
    <3>1. TakenTo(term, obuf, modes)
      BY <1>1, <2>5 DEF TermInv
    <3>2. TakenTo(term, obuf \o s, m)
      BY <1>5, <1>6, <1>7, <3>1, TakenToJoined, Zenon
    <3>3. TakenTo(term, (obuf \o s) \o t, v)
      BY <1>9, <1>10, <3>2, TakenToJoined, Zenon
    <3>4. term' = v
      BY <1>10, <2>2, <3>3, TakenToOne, Zenon
    <3> QED
      BY <1>7, <1>8, <3>4, Zenon
  <2> QED
    BY <1>1, <2>4, <2>5 DEF TermInv
<1> QED
  BY <1>11, <1>12

LEMMA TermStep == TermInv /\ [TermNext]_termVars => TermInv'
<1> SUFFICES ASSUME TermInv, [TermNext]_termVars PROVE TermInv'
  OBVIOUS
<1>1. CASE UNCHANGED termVars
  BY <1>1, SameKeeps DEF termVars
<1>2. ASSUME NEW t \in Output, ChildWrites(t) PROVE TermInv'
  BY <1>2, ChildWritesKeeps, TerminalAssumption
<1>3. CASE TerminalStalls \/ ChildStops \/ Terminates \/ ForceKill \/ ChildExits
  <2>1. UNCHANGED <<at, pipe, modes, obuf, term, tty, cut, lost>>
    BY <1>3 DEF TerminalStalls, ChildStops, Terminates, ForceKill, ChildExits
  <2> QED
    BY <2>1, SameKeeps
<1> QED
  BY <1>1, <1>2, <1>3, ReadsKeeps, TerminalReadsKeeps, SuspendKeeps, ContinuesKeeps, EndsKeeps, Zenon DEF TermNext

\* OwnersTerminal: whatever claude writes and wherever reads cut it, the terminal that has taken what was
\* buffered shows claude's modes while the proxy runs, also after every fg, and the modes from before
\* claude while it is stopped and after its end; its attributes are the saved ones whenever the shell
\* has it.
THEOREM TerminalIsOwners == TermSpec => []OwnersTerminal
<1>1. TermSpec => []TermInv
  BY TermStarts, TermStep, PTL DEF TermSpec
<1> QED
  BY <1>1, TermShows, PTL

-----------------------------------------------------------------------------
(* Lines on their way. *)

ConnType ==
    [at : {"reads", "works", "left", "over"}, greeted : BOOLEAN, closed : BOOLEAN,
     topics : SUBSET {"events", "snapshot"}, queue : Seq(Line), id : Nat]
ClientType == [sync : BOOLEAN, here : BOOLEAN, asks : Nat, waits : Nat, pushes : Seq(Line)]

CastTyped ==
    /\ {doc, emitted, since} \subseteq Nat /\ {wanted, stale} \subseteq BOOLEAN
    /\ conn \in ConnType /\ client \in ClientType
    /\ asked \in Seq([op : {"hello", "subscribe", "other"}, id : Nat \ {0}])
    /\ wire \in Seq(Line)
    /\ seen \in [events : Seq(Nat), doc : Nat]

\* NoGap, LastSnapshot and Answered, of lines s on their way.
EventPlaces(s) == {i \in DOMAIN s : s[i].type = "event"}
SnapshotPlaces(s) == {i \in DOMAIN s : s[i].type = "snapshot"}
InTurn(s, got, top) == \A i \in EventPlaces(s) :
    /\ s[i].n \in got + 1 .. top
    /\ s[i].n = got + 1 \/ \E j \in EventPlaces(s) : j < i /\ s[j].n = s[i].n - 1
    /\ \A j \in EventPlaces(s) : j < i => s[j].n < s[i].n
UpTo(s, got, top) == got = top \/ \E i \in EventPlaces(s) : s[i].n = top
Showing(s, has, d) ==
    \/ SnapshotPlaces(s) = {} /\ has = d
    \/ \E i \in SnapshotPlaces(s) : s[i].n = d /\ \A j \in SnapshotPlaces(s) : j <= i
Replies(s, id) == \E i \in DOMAIN s : s[i] = Reply(id)

LEMMA LinesTyped ==
    /\ \A n \in Nat : Event(n) \in Line /\ Event(n).type = "event" /\ Event(n).n = n
    /\ \A n \in Nat : Snapshot(n) \in Line /\ Snapshot(n).type = "snapshot" /\ Snapshot(n).n = n
    /\ \A n \in Nat : Reply(n) \in Line /\ Reply(n).type = "reply" /\ Reply(n).n = n
    /\ \A l \in Line : l.n \in Nat /\ l.type \in {"event", "snapshot", "reply"}
    /\ \A l \in Line : l.type = "reply" => l = Reply(l.n)
  BY DEF Line, Event, Snapshot, Reply

LEMMA Appended ==
    ASSUME NEW s \in Seq(Line), NEW l \in Line
    PROVE  /\ Append(s, l) \in Seq(Line)
           /\ DOMAIN Append(s, l) = DOMAIN s \cup {Len(s) + 1}
           /\ DOMAIN s = 1 .. Len(s) /\ Len(s) \in Nat
           /\ \A i \in DOMAIN s : Append(s, l)[i] = s[i]
           /\ Append(s, l)[Len(s) + 1] = l
  OBVIOUS

LEMMA AppendedPlaces ==
    ASSUME NEW s \in Seq(Line), NEW l \in Line
    PROVE  /\ EventPlaces(Append(s, l)) = EventPlaces(s) \cup (IF l.type = "event" THEN {Len(s) + 1} ELSE {})
           /\ SnapshotPlaces(Append(s, l)) = SnapshotPlaces(s) \cup (IF l.type = "snapshot" THEN {Len(s) + 1} ELSE {})
           /\ \A i \in EventPlaces(s) \cup SnapshotPlaces(s) : i \in 1 .. Len(s) /\ Append(s, l)[i] = s[i] /\ s[i] \in Line
           /\ Append(s, l)[Len(s) + 1] = l /\ Len(s) \in Nat
<1> DEFINE t == Append(s, l)
<1>1. /\ DOMAIN t = DOMAIN s \cup {Len(s) + 1} /\ DOMAIN s = 1 .. Len(s) /\ Len(s) \in Nat
      /\ \A i \in DOMAIN s : t[i] = s[i] /\ s[i] \in Line
      /\ t[Len(s) + 1] = l
  BY Appended
<1> HIDE DEF t
<1>2. EventPlaces(t) = EventPlaces(s) \cup (IF l.type = "event" THEN {Len(s) + 1} ELSE {})
  BY <1>1 DEF EventPlaces
<1>3. SnapshotPlaces(t) = SnapshotPlaces(s) \cup (IF l.type = "snapshot" THEN {Len(s) + 1} ELSE {})
  BY <1>1 DEF SnapshotPlaces
<1>4. \A i \in EventPlaces(s) \cup SnapshotPlaces(s) : i \in 1 .. Len(s) /\ t[i] = s[i] /\ s[i] \in Line
  BY <1>1 DEF EventPlaces, SnapshotPlaces
<1> QED
  BY <1>1, <1>2, <1>3, <1>4 DEF t

\* A line that is no event, and the next event.
LEMMA TurnKept ==
    ASSUME NEW s \in Seq(Line), NEW l \in Line, NEW got \in Nat, NEW top \in Nat, InTurn(s, got, top)
    PROVE  /\ InTurn(s, got, top + 1)
           /\ l.type # "event" => InTurn(Append(s, l), got, top)
           /\ l.type # "event" /\ UpTo(s, got, top) => UpTo(Append(s, l), got, top)
           /\ l = Event(top + 1) /\ UpTo(s, got, top) =>
                InTurn(Append(s, l), got, top + 1) /\ UpTo(Append(s, l), got, top + 1)
<1> DEFINE t == Append(s, l)
<1>1. /\ EventPlaces(t) = EventPlaces(s) \cup (IF l.type = "event" THEN {Len(s) + 1} ELSE {})
      /\ \A i \in EventPlaces(s) : i \in 1 .. Len(s) /\ t[i] = s[i] /\ s[i].n \in Nat
      /\ t[Len(s) + 1] = l /\ Len(s) \in Nat
  BY AppendedPlaces, LinesTyped
<1> HIDE DEF t
<1>2. InTurn(s, got, top + 1)
  BY <1>1 DEF InTurn
<1>3. CASE l.type # "event"
  <2>1. EventPlaces(t) = EventPlaces(s)
    BY <1>1, <1>3
  <2>2. InTurn(t, got, top)
    BY <1>1, <2>1 DEF InTurn
  <2>3. UpTo(s, got, top) => UpTo(t, got, top)
    BY <1>1, <2>1 DEF UpTo
  <2>4. l # Event(top + 1)
    BY <1>3, LinesTyped
  <2> QED
    BY <1>2, <1>3, <2>2, <2>3, <2>4 DEF t
<1>4. CASE l.type = "event" /\ ~(l = Event(top + 1) /\ UpTo(s, got, top))
  BY <1>2, <1>4
<1>5. CASE l = Event(top + 1) /\ UpTo(s, got, top)
  <2>1. l.type = "event" /\ l.n = top + 1
    BY <1>5, LinesTyped
  <2>2. EventPlaces(t) = EventPlaces(s) \cup {Len(s) + 1} /\ t[Len(s) + 1].n = top + 1
    BY <1>1, <2>1
  <2>3. UpTo(t, got, top + 1)
    BY <2>2 DEF UpTo
  <2>4. ASSUME NEW i \in EventPlaces(t)
        PROVE  /\ t[i].n \in got + 1 .. top + 1
               /\ t[i].n = got + 1 \/ \E j \in EventPlaces(t) : j < i /\ t[j].n = t[i].n - 1
               /\ \A j \in EventPlaces(t) : j < i => t[j].n < t[i].n
    <3>1. CASE i \in EventPlaces(s)
      <4>1. i \in 1 .. Len(s) /\ t[i] = s[i] /\ s[i].n \in Nat
        BY <1>1, <3>1
      <4>2. t[i].n \in got + 1 .. top + 1
        BY <3>1, <4>1 DEF InTurn
      <4>3. t[i].n = got + 1 \/ \E j \in EventPlaces(t) : j < i /\ t[j].n = t[i].n - 1
        BY <1>1, <2>2, <3>1, <4>1 DEF InTurn
      <4>4. \A j \in EventPlaces(t) : j < i => j \in EventPlaces(s)
        BY <1>1, <2>2, <4>1
      <4>5. \A j \in EventPlaces(t) : j < i => t[j].n < t[i].n
        BY <1>1, <3>1, <4>1, <4>4 DEF InTurn
      <4> QED
        BY <4>2, <4>3, <4>5
    <3>2. CASE i = Len(s) + 1
      <4>1. \A j \in EventPlaces(s) : t[j].n \in got + 1 .. top
        BY <1>1 DEF InTurn
      <4>2. \A j \in EventPlaces(t) : j < i => j \in EventPlaces(s)
        BY <2>2, <3>2, <1>1
      <4>3. t[i].n = got + 1 \/ \E j \in EventPlaces(t) : j < i /\ t[j].n = t[i].n - 1
        <5>1. t[i].n = top + 1
          BY <2>2, <3>2
        <5>2. CASE got = top
          BY <5>1, <5>2
        <5>3. ASSUME NEW j \in EventPlaces(s), s[j].n = top
              PROVE  j \in EventPlaces(t) /\ j < i /\ t[j].n = t[i].n - 1
          <6>1. j \in 1 .. Len(s) /\ t[j] = s[j]
            BY <1>1
          <6> QED
            BY <1>1, <2>2, <3>2, <5>1, <5>3, <6>1
        <5> QED
          BY <1>5, <5>2, <5>3 DEF UpTo
      <4>4. t[i].n \in got + 1 .. top + 1
        <5>1. CASE got = top
          BY <2>2, <3>2, <5>1
        <5>2. CASE got # top
          <6>1. PICK j \in EventPlaces(s) : s[j].n = top
            BY <1>5, <5>2 DEF UpTo
          <6>2. t[j] = s[j]
            BY <1>1
          <6>3. top \in got + 1 .. top
            BY <4>1, <6>1, <6>2
          <6>4. t[i].n = top + 1
            BY <2>2, <3>2
          <6> QED
            BY <6>3, <6>4
        <5> QED
          BY <5>1, <5>2
      <4>5. ASSUME NEW j \in EventPlaces(t), j < i
            PROVE  t[j].n < t[i].n
        <5>1. t[j].n \in got + 1 .. top
          BY <4>1, <4>2, <4>5
        <5>2. t[i].n = top + 1
          BY <2>2, <3>2
        <5> QED
          BY <5>1, <5>2
      <4> QED
        BY <4>3, <4>4, <4>5
    <3> QED
      BY <2>2, <3>1, <3>2
  <2> QED
    BY <1>2, <2>1, <2>3, <2>4 DEF InTurn, t
<1> QED
  BY <1>3, <1>4, <1>5

LEMMA ShowingKept ==
    ASSUME NEW s \in Seq(Line), NEW l \in Line, NEW has \in Nat, NEW d \in Nat
    PROVE  /\ l.type # "snapshot" /\ Showing(s, has, d) => Showing(Append(s, l), has, d)
           /\ l = Snapshot(d) => Showing(Append(s, l), has, d)
<1> DEFINE t == Append(s, l)
<1>1. /\ SnapshotPlaces(t) = SnapshotPlaces(s) \cup (IF l.type = "snapshot" THEN {Len(s) + 1} ELSE {})
      /\ \A i \in SnapshotPlaces(s) : i \in 1 .. Len(s) /\ t[i] = s[i]
      /\ t[Len(s) + 1] = l /\ Len(s) \in Nat
  BY AppendedPlaces
<1> HIDE DEF t
<1>2. l.type # "snapshot" /\ Showing(s, has, d) => Showing(t, has, d)
  BY <1>1 DEF Showing
<1>3. ASSUME l = Snapshot(d)
      PROVE  Showing(t, has, d)
  <2>1. l.type = "snapshot" /\ l.n = d
    BY <1>3, LinesTyped
  <2> QED
    BY <1>1, <2>1 DEF Showing
<1> QED
  BY <1>2, <1>3 DEF t

LEMMA RepliesKept ==
    ASSUME NEW s \in Seq(Line), NEW l \in Line, NEW id \in Nat
    PROVE  /\ Replies(s, id) => Replies(Append(s, l), id)
           /\ Replies(Append(s, Reply(id)), id)
<1>1. Replies(s, id) => Replies(Append(s, l), id)
  BY Appended DEF Replies
<1>2. Reply(id) \in Line
  BY LinesTyped
<1> QED
  BY <1>1, <1>2, Appended DEF Replies

\* The client takes the first line.
LEMMA FirstTaken ==
    ASSUME NEW s \in Seq(Line), s # <<>>, NEW got \in Nat, NEW top \in Nat, InTurn(s, got, top),
           NEW has \in Nat, NEW d \in Nat
    PROVE  /\ Head(s).type = "event" =>
                /\ Head(s).n = got + 1
                /\ InTurn(Tail(s), got + 1, top)
                /\ UpTo(s, got, top) => UpTo(Tail(s), got + 1, top)
           /\ Head(s).type # "event" =>
                /\ InTurn(Tail(s), got, top)
                /\ UpTo(s, got, top) => UpTo(Tail(s), got, top)
           /\ Showing(s, has, d) => Showing(Tail(s), IF Head(s).type = "snapshot" THEN Head(s).n ELSE has, d)
           /\ \A id \in Nat : Replies(s, id) => Head(s) = Reply(id) \/ Replies(Tail(s), id)
<1> DEFINE t == Tail(s)
           h == Head(s)
<1>1. /\ Len(s) \in Nat \ {0} /\ DOMAIN s = 1 .. Len(s) /\ DOMAIN t = 1 .. Len(s) - 1
      /\ h = s[1] /\ \A i \in 1 .. Len(s) - 1 : t[i] = s[i + 1]
      /\ \A i \in DOMAIN s : s[i].n \in Nat
  BY LinesTyped
<1>2. \A i \in DOMAIN s : i # 1 => i - 1 \in DOMAIN t /\ t[i - 1] = s[i]
  BY <1>1
<1> HIDE DEF t, h
<1>3. /\ \A i \in EventPlaces(s) : i # 1 => i - 1 \in EventPlaces(t) /\ t[i - 1] = s[i]
      /\ \A i \in EventPlaces(t) : i + 1 \in EventPlaces(s) /\ t[i] = s[i + 1] /\ i \in Nat \ {0}
      /\ \A i \in EventPlaces(s) : i \in Nat \ {0} /\ s[i].n \in Nat
      /\ 1 \in EventPlaces(s) <=> h.type = "event"
  BY <1>1, <1>2 DEF EventPlaces
<1>4. /\ \A i \in SnapshotPlaces(s) : i # 1 => i - 1 \in SnapshotPlaces(t) /\ t[i - 1] = s[i]
      /\ \A i \in SnapshotPlaces(t) : i + 1 \in SnapshotPlaces(s) /\ t[i] = s[i + 1] /\ i \in Nat \ {0}
      /\ \A i \in SnapshotPlaces(s) : i \in Nat \ {0}
      /\ 1 \in SnapshotPlaces(s) <=> h.type = "snapshot"
  BY <1>1, <1>2 DEF SnapshotPlaces
<1>5. ASSUME h.type = "event"
      PROVE  h.n = got + 1 /\ InTurn(t, got + 1, top) /\ (UpTo(s, got, top) => UpTo(t, got + 1, top))
  <2>1. 1 \in EventPlaces(s)
    BY <1>3, <1>5
  <2>2. h.n = got + 1
    BY <1>1, <1>3, <2>1 DEF InTurn
  <2>3. ASSUME NEW i \in EventPlaces(t)
        PROVE  /\ t[i].n \in got + 2 .. top
               /\ t[i].n = got + 2 \/ \E j \in EventPlaces(t) : j < i /\ t[j].n = t[i].n - 1
               /\ \A j \in EventPlaces(t) : j < i => t[j].n < t[i].n
    <3>1. i + 1 \in EventPlaces(s) /\ t[i] = s[i + 1] /\ i \in Nat \ {0}
      BY <1>3
    <3>2. s[1].n < s[i + 1].n
      BY <2>1, <3>1 DEF InTurn
    <3>3. t[i].n \in got + 2 .. top
      BY <1>1, <1>3, <2>2, <3>1, <3>2 DEF InTurn
    <3>4. ASSUME NEW j \in EventPlaces(t), j < i
          PROVE  t[j].n < t[i].n
      <4>1. j + 1 \in EventPlaces(s) /\ t[j] = s[j + 1] /\ j + 1 < i + 1
        BY <1>3, <3>1, <3>4
      <4> QED
        BY <4>1, <3>1 DEF InTurn
    <3>5. \E j \in EventPlaces(s) : j < i + 1 /\ s[j].n = t[i].n - 1
      BY <1>3, <3>1, <3>3 DEF InTurn
    <3>6. PICK j \in EventPlaces(s) : j < i + 1 /\ s[j].n = t[i].n - 1
      BY <3>5
    <3>7. t[i].n = got + 2 \/ \E k \in EventPlaces(t) : k < i /\ t[k].n = t[i].n - 1
      <4>1. CASE j = 1
        BY <1>1, <2>2, <3>3, <3>6, <4>1
      <4>2. CASE j # 1
        BY <1>3, <3>1, <3>6, <4>2
      <4> QED
        BY <4>1, <4>2
    <3> QED
      BY <3>3, <3>4, <3>7
  <2>4. InTurn(t, got + 1, top)
    BY <2>3 DEF InTurn
  <2>5. UpTo(s, got, top) => UpTo(t, got + 1, top)
    <3>1. CASE got = top
      BY <1>1, <2>1, <2>2, <3>1 DEF InTurn
    <3>2. ASSUME NEW i \in EventPlaces(s), s[i].n = top
          PROVE  UpTo(t, got + 1, top)
      <4>1. CASE i = 1
        BY <1>1, <2>2, <3>2, <4>1 DEF UpTo
      <4>2. CASE i # 1
        <5>1. i - 1 \in EventPlaces(t) /\ t[i - 1].n = top
          BY <1>3, <3>2, <4>2
        <5> QED
          BY <5>1 DEF UpTo
      <4> QED
        BY <4>1, <4>2
    <3> QED
      BY <3>1, <3>2 DEF UpTo
  <2> QED
    BY <2>2, <2>4, <2>5
<1>6. ASSUME h.type # "event"
      PROVE  InTurn(t, got, top) /\ (UpTo(s, got, top) => UpTo(t, got, top))
  <2>1. /\ \A i \in EventPlaces(s) : i - 1 \in EventPlaces(t) /\ t[i - 1] = s[i]
    BY <1>3, <1>6
  <2>2. InTurn(t, got, top)
    <3>1. ASSUME NEW i \in EventPlaces(t)
          PROVE  /\ t[i].n \in got + 1 .. top
                 /\ t[i].n = got + 1 \/ \E j \in EventPlaces(t) : j < i /\ t[j].n = t[i].n - 1
                 /\ \A j \in EventPlaces(t) : j < i => t[j].n < t[i].n
      <4>1. i + 1 \in EventPlaces(s) /\ t[i] = s[i + 1] /\ i \in Nat \ {0}
        BY <1>3
      <4>2. t[i].n \in got + 1 .. top
        BY <4>1 DEF InTurn
      <4>3. ASSUME NEW j \in EventPlaces(t), j < i
            PROVE  t[j].n < t[i].n
        <5>1. j + 1 \in EventPlaces(s) /\ t[j] = s[j + 1] /\ j + 1 < i + 1
          BY <1>3, <4>1, <4>3
        <5> QED
          BY <5>1, <4>1 DEF InTurn
      <4>4. t[i].n = got + 1 \/ \E j \in EventPlaces(s) : j < i + 1 /\ s[j].n = t[i].n - 1
        BY <4>1 DEF InTurn
      <4>5. ASSUME NEW j \in EventPlaces(s), j < i + 1, s[j].n = t[i].n - 1
            PROVE  \E k \in EventPlaces(t) : k < i /\ t[k].n = t[i].n - 1
        BY <1>3, <2>1, <4>1, <4>5
      <4> QED
        BY <4>2, <4>3, <4>4, <4>5
    <3> QED
      BY <3>1 DEF InTurn
  <2>3. UpTo(s, got, top) => UpTo(t, got, top)
    <3>1. ASSUME NEW i \in EventPlaces(s), s[i].n = top
          PROVE  UpTo(t, got, top)
      <4>1. i - 1 \in EventPlaces(t) /\ t[i - 1].n = top
        BY <2>1, <3>1
      <4> QED
        BY <4>1 DEF UpTo
    <3> QED
      BY <3>1 DEF UpTo
  <2> QED
    BY <2>2, <2>3
<1>7. Showing(s, has, d) => Showing(t, IF h.type = "snapshot" THEN h.n ELSE has, d)
  <2>1. CASE SnapshotPlaces(s) = {} /\ has = d
    <3>1. SnapshotPlaces(t) = {} /\ h.type # "snapshot"
      BY <1>4, <2>1
    <3> QED
      BY <2>1, <3>1 DEF Showing
  <2>2. ASSUME NEW i \in SnapshotPlaces(s), s[i].n = d, \A j \in SnapshotPlaces(s) : j <= i
        PROVE  Showing(t, IF h.type = "snapshot" THEN h.n ELSE has, d)
    <3>1. CASE i = 1
      <4>1. \A j \in SnapshotPlaces(t) : j + 1 <= i /\ j \in Nat \ {0}
        BY <1>4, <2>2
      <4>2. \A j \in SnapshotPlaces(t) : FALSE
        BY <3>1, <4>1
      <4>3. SnapshotPlaces(t) = {}
        BY <4>2
      <4> QED
        BY <1>1, <1>4, <2>2, <3>1, <4>3 DEF Showing
    <3>2. CASE i # 1
      <4>1. i - 1 \in SnapshotPlaces(t) /\ t[i - 1].n = d /\ i \in Nat
        BY <1>4, <2>2, <3>2
      <4>2. ASSUME NEW j \in SnapshotPlaces(t)
            PROVE  j <= i - 1
        <5>1. j + 1 <= i /\ j \in Nat
          BY <1>4, <2>2
        <5> QED
          BY <4>1, <5>1
      <4> QED
        BY <4>1, <4>2 DEF Showing
    <3> QED
      BY <3>1, <3>2
  <2> QED
    BY <2>1, <2>2 DEF Showing
<1>8. \A id \in Nat : Replies(s, id) => h = Reply(id) \/ Replies(t, id)
  BY <1>1, <1>2 DEF Replies
<1> QED
  BY <1>5, <1>6, <1>7, <1>8 DEF t, h

\* A late reply is taken off from between, and the rest of the queue given up.
LEMMA ReplyTaken ==
    ASSUME NEW p \in Seq(Line), NEW q \in Seq(Line), q # <<>>, Head(q).type = "reply",
           NEW got \in Nat, NEW top \in Nat, NEW has \in Nat, NEW d \in Nat
    PROVE  /\ InTurn(p \o q, got, top) => InTurn(p \o Tail(q), got, top)
           /\ UpTo(p \o q, got, top) => UpTo(p \o Tail(q), got, top)
           /\ Showing(p \o q, has, d) => Showing(p \o Tail(q), has, d)
           /\ \A id \in Nat : Replies(p \o q, id) => Head(q) = Reply(id) \/ Replies(p \o Tail(q), id)
<1> DEFINE s == p \o q
           t == p \o Tail(q)
           n == Len(p)
           Old(i) == IF i <= n THEN i ELSE i + 1
           New(i) == IF i <= n THEN i ELSE i - 1
<1>1. /\ n \in Nat /\ Len(q) \in Nat \ {0} /\ DOMAIN s = 1 .. n + Len(q) /\ DOMAIN t = 1 .. n + Len(q) - 1
      /\ s[n + 1] = Head(q)
      /\ \A i \in DOMAIN s : s[i].n \in Nat
  <2>1. s \in Seq(Line) /\ Len(s) = n + Len(q) /\ Len(t) = n + Len(q) - 1 /\ Len(q) \in Nat \ {0}
    OBVIOUS
  <2> QED
    BY <2>1, LinesTyped
<1>2. \A i \in DOMAIN t : i <= n => i \in DOMAIN s /\ t[i] = s[i]
  OBVIOUS
<1>3. \A i \in DOMAIN t : i > n => i + 1 \in DOMAIN s /\ t[i] = s[i + 1]
  OBVIOUS
<1> HIDE DEF s, t, n
<1>4. \A i \in DOMAIN t : Old(i) \in DOMAIN s /\ t[i] = s[Old(i)] /\ i \in Nat \ {0}
  BY <1>1, <1>2, <1>3
<1>5. ASSUME NEW i \in DOMAIN s
      PROVE  i \in Nat \ {0} /\ (i # n + 1 => New(i) \in DOMAIN t /\ s[i] = t[New(i)])
  <2>1. i \in 1 .. n + Len(q)
    BY <1>1
  <2>2. CASE i <= n
    BY <1>1, <1>2, <2>1, <2>2
  <2>3. CASE i > n + 1
    <3>1. i - 1 \in DOMAIN t /\ i - 1 > n /\ (i - 1) + 1 = i
      BY <1>1, <2>1, <2>3
    <3> QED
      BY <1>1, <1>3, <2>1, <2>3, <3>1
  <2> QED
    BY <1>1, <2>1, <2>2, <2>3
<1>6. /\ \A i, j \in Nat : i < j <=> Old(i) < Old(j)
      /\ \A i, j \in Nat : i # n + 1 /\ j # n + 1 => (i < j <=> New(i) < New(j))
      /\ \A i, j \in Nat : i # n + 1 => (i < Old(j) <=> New(i) < j)
  <2>1. n \in Nat
    BY <1>1
  <2>2. ASSUME NEW i \in Nat, NEW j \in Nat
        PROVE  i < j <=> Old(i) < Old(j)
    BY <2>1
  <2>3. ASSUME NEW i \in Nat, NEW j \in Nat, i # n + 1, j # n + 1
        PROVE  i < j <=> New(i) < New(j)
    BY <2>1, <2>3
  <2>4. ASSUME NEW i \in Nat, NEW j \in Nat, i # n + 1
        PROVE  i < Old(j) <=> New(i) < j
    BY <2>1, <2>4
  <2> QED
    BY <2>2, <2>3, <2>4
<1>7. s[n + 1].type = "reply"
  BY <1>1
<1> HIDE DEF Old, New
<1>8. /\ \A i \in EventPlaces(t) : Old(i) \in EventPlaces(s) /\ t[i] = s[Old(i)] /\ i \in Nat
      /\ \A i \in EventPlaces(s) : /\ New(i) \in EventPlaces(t) /\ s[i] = t[New(i)]
                                   /\ i \in Nat /\ i # n + 1
  BY <1>4, <1>5, <1>7 DEF EventPlaces
<1>9. /\ \A i \in SnapshotPlaces(t) : Old(i) \in SnapshotPlaces(s) /\ t[i] = s[Old(i)] /\ i \in Nat
      /\ \A i \in SnapshotPlaces(s) : /\ New(i) \in SnapshotPlaces(t) /\ s[i] = t[New(i)]
                                      /\ i \in Nat /\ i # n + 1
  BY <1>4, <1>5, <1>7 DEF SnapshotPlaces
<1>10. ASSUME InTurn(s, got, top), NEW i \in EventPlaces(t)
       PROVE  /\ t[i].n \in got + 1 .. top
              /\ t[i].n = got + 1 \/ \E j \in EventPlaces(t) : j < i /\ t[j].n = t[i].n - 1
              /\ \A j \in EventPlaces(t) : j < i => t[j].n < t[i].n
  <2>1. Old(i) \in EventPlaces(s) /\ t[i] = s[Old(i)] /\ i \in Nat
    BY <1>8
  <2>2. t[i].n \in got + 1 .. top
    BY <1>10, <2>1 DEF InTurn
  <2>3. t[i].n = got + 1 \/ \E j \in EventPlaces(t) : j < i /\ t[j].n = t[i].n - 1
    <3>1. ASSUME NEW j \in EventPlaces(s), j < Old(i), s[j].n = s[Old(i)].n - 1
          PROVE  \E k \in EventPlaces(t) : k < i /\ t[k].n = t[i].n - 1
      <4>1. New(j) \in EventPlaces(t) /\ t[New(j)] = s[j] /\ j \in Nat /\ j # n + 1
        BY <1>8
      <4>2. New(j) < i
        BY <1>6, <2>1, <3>1, <4>1
      <4> QED
        BY <2>1, <3>1, <4>1, <4>2
    <3> QED
      BY <1>10, <2>1, <3>1 DEF InTurn
  <2>4. ASSUME NEW j \in EventPlaces(t), j < i
        PROVE  t[j].n < t[i].n
    <3>1. Old(j) \in EventPlaces(s) /\ t[j] = s[Old(j)] /\ j \in Nat
      BY <1>8
    <3>2. Old(j) < Old(i)
      BY <1>6, <2>1, <2>4, <3>1
    <3> QED
      BY <1>10, <2>1, <3>1, <3>2 DEF InTurn
  <2> QED
    BY <2>2, <2>3, <2>4
<1>11. InTurn(s, got, top) => InTurn(t, got, top)
  BY <1>10 DEF InTurn
<1>12. UpTo(s, got, top) => UpTo(t, got, top)
  <2>1. ASSUME NEW i \in EventPlaces(s), s[i].n = top
        PROVE  UpTo(t, got, top)
    <3>1. New(i) \in EventPlaces(t) /\ t[New(i)].n = top
      BY <1>8, <2>1
    <3> QED
      BY <3>1 DEF UpTo
  <2> QED
    BY <2>1 DEF UpTo
<1>13. Showing(s, has, d) => Showing(t, has, d)
  <2>1. CASE SnapshotPlaces(s) = {} /\ has = d
    <3>1. SnapshotPlaces(t) = {}
      BY <1>9, <2>1
    <3> QED
      BY <2>1, <3>1 DEF Showing
  <2>2. ASSUME NEW i \in SnapshotPlaces(s), s[i].n = d, \A j \in SnapshotPlaces(s) : j <= i
        PROVE  Showing(t, has, d)
    <3>1. New(i) \in SnapshotPlaces(t) /\ t[New(i)].n = d /\ i \in Nat /\ i # n + 1 /\ New(i) \in Nat
      BY <1>9, <2>2
    <3>2. ASSUME NEW j \in SnapshotPlaces(t)
          PROVE  j <= New(i)
      <4>1. Old(j) \in SnapshotPlaces(s) /\ j \in Nat
        BY <1>9
      <4>2. Old(j) <= i /\ Old(j) \in Nat
        BY <1>9, <2>2, <4>1
      <4>3. ~(New(i) < j)
        BY <1>6, <3>1, <4>1, <4>2
      <4> QED
        BY <3>1, <4>1, <4>3
    <3> QED
      BY <3>1, <3>2 DEF Showing
  <2> QED
    BY <2>1, <2>2 DEF Showing
<1>14. ASSUME NEW id \in Nat, Replies(s, id)
       PROVE  Head(q) = Reply(id) \/ Replies(t, id)
  <2>1. PICK i \in DOMAIN s : s[i] = Reply(id)
    BY <1>14 DEF Replies
  <2>2. CASE i = n + 1
    BY <1>1, <2>1, <2>2
  <2>3. CASE i # n + 1
    BY <1>5, <2>1, <2>3 DEF Replies
  <2> QED
    BY <2>2, <2>3
<1> QED
  BY <1>11, <1>12, <1>13, <1>14 DEF s, t

LEMMA QueueGivenUp ==
    ASSUME NEW p \in Seq(Line), NEW q \in Seq(Line), NEW got \in Nat, NEW top \in Nat,
           InTurn(p \o q, got, top)
    PROVE  InTurn(p \o <<>>, got, top)
<1>1. /\ p \o <<>> = p /\ Len(p) \in Nat /\ Len(q) \in Nat /\ DOMAIN p = 1 .. Len(p)
      /\ DOMAIN (p \o q) = 1 .. Len(p) + Len(q)
      /\ \A i \in DOMAIN p : (p \o q)[i] = p[i]
  OBVIOUS
<1> DEFINE s == p \o q
<1>2. \A i \in EventPlaces(s) : i \in Nat /\ (i <= Len(p) => i \in EventPlaces(p) /\ s[i] = p[i])
  BY <1>1 DEF EventPlaces
<1>3. \A i \in EventPlaces(p) : i \in EventPlaces(s) /\ s[i] = p[i] /\ i <= Len(p) /\ i \in Nat
  BY <1>1, <1>2 DEF EventPlaces
<1> HIDE DEF s
<1>4. InTurn(s, got, top)
  BY DEF s
<1>5. ASSUME NEW i \in EventPlaces(p)
      PROVE  /\ p[i].n \in got + 1 .. top
             /\ p[i].n = got + 1 \/ \E j \in EventPlaces(p) : j < i /\ p[j].n = p[i].n - 1
             /\ \A j \in EventPlaces(p) : j < i => p[j].n < p[i].n
  <2>1. i \in EventPlaces(s) /\ s[i] = p[i] /\ i <= Len(p) /\ i \in Nat
    BY <1>3
  <2>2. ASSUME NEW j \in EventPlaces(s), j < i
        PROVE  j \in EventPlaces(p) /\ s[j] = p[j]
    <3>1. j \in Nat /\ j <= Len(p)
      <4>1. j \in Nat
        BY <1>2, <2>2
      <4> QED
        BY <1>1, <2>1, <2>2, <4>1
    <3> QED
      BY <1>2, <3>1
  <2>3. p[i].n \in got + 1 .. top
    BY <1>4, <2>1 DEF InTurn
  <2>4. p[i].n = got + 1 \/ \E j \in EventPlaces(p) : j < i /\ p[j].n = p[i].n - 1
    BY <1>4, <2>1, <2>2 DEF InTurn
  <2>5. \A j \in EventPlaces(p) : j < i => p[j].n < p[i].n
    BY <1>3, <1>4, <2>1 DEF InTurn
  <2> QED
    BY <2>3, <2>4, <2>5
<1>6. InTurn(p, got, top)
  BY <1>5 DEF InTurn
<1> QED
  BY <1>1, <1>6

-----------------------------------------------------------------------------
(* What is on its way on a connection c. *)

OnWay(s, c, got, top) == InTurn(s, got, top) /\ (~c.closed /\ "events" \in c.topics => UpTo(s, got, top))
Unsubscribed(s, c, events) == "events" \notin c.topics => events = <<>> /\ EventPlaces(s) = {}
Shown(s, c, has, d) == ~c.closed /\ "snapshot" \in c.topics => Showing(s, has, d)
Awaited(s, c, requests, id) == id # 0 =>
    \/ c.closed
    \/ \E i \in DOMAIN requests : requests[i].id = id
    \/ c.at = "works" /\ c.id = id
    \/ Replies(s, id)

LEMMA PushedCases ==
    ASSUME NEW u \in Seq(Line), NEW c \in ConnType, NEW l \in Line
    PROVE  /\ Pushed(c, l) \in ConnType
           /\ Pushed(c, l).at = c.at /\ Pushed(c, l).greeted = c.greeted
           /\ Pushed(c, l).topics = c.topics /\ Pushed(c, l).id = c.id
           /\ Pushed(c, l).closed => u \o Pushed(c, l).queue \in {u \o c.queue, u \o <<>>}
           /\ ~Pushed(c, l).closed => ~c.closed /\ u \o Pushed(c, l).queue = Append(u \o c.queue, l)
<1> DEFINE e == Pushed(c, l)
<1>1. CASE c.closed
  BY <1>1 DEF Pushed
<1>2. CASE ~c.closed /\ Len(c.queue) >= QUEUE_MAX
  <2>1. e = [c EXCEPT !.closed = TRUE, !.queue = <<>>]
    BY <1>2 DEF Pushed
  <2> HIDE DEF e
  <2>2. /\ e \in ConnType /\ e.closed = TRUE /\ e.queue = <<>>
        /\ e.at = c.at /\ e.greeted = c.greeted /\ e.topics = c.topics /\ e.id = c.id
    <3>1. <<>> \in Seq(Line)
      OBVIOUS
    <3>2. /\ c.at \in {"reads", "works", "left", "over"} /\ c.greeted \in BOOLEAN
          /\ c.topics \in SUBSET {"events", "snapshot"} /\ c.id \in Nat
      BY DEF ConnType
    <3>3. /\ e.closed = TRUE /\ e.queue = <<>>
          /\ e.at = c.at /\ e.greeted = c.greeted /\ e.topics = c.topics /\ e.id = c.id
      BY <2>1 DEF ConnType
    <3>4. e \in [at : {c.at}, greeted : {c.greeted}, closed : {TRUE}, topics : {c.topics}, queue : {<<>>}, id : {c.id}]
      BY <2>1 DEF ConnType
    <3> QED
      BY <3>1, <3>2, <3>3, <3>4 DEF ConnType
  <2> QED
    BY <2>2 DEF e
<1>3. CASE ~c.closed /\ ~(Len(c.queue) >= QUEUE_MAX)
  <2>1. e = [c EXCEPT !.queue = Append(@, l)]
    BY <1>3 DEF Pushed
  <2>2. c.queue \in Seq(Line)
    BY DEF ConnType
  <2>3. Append(c.queue, l) \in Seq(Line) /\ u \o Append(c.queue, l) = Append(u \o c.queue, l)
    BY <2>2
  <2>4. e \in ConnType /\ e.queue = Append(c.queue, l) /\ e.closed = c.closed
    BY <2>1, <2>3 DEF ConnType
  <2> QED
    BY <1>3, <2>1, <2>3, <2>4 DEF ConnType
<1> QED
  BY <1>1, <1>2, <1>3

LEMMA GivenUp ==
    ASSUME NEW u \in Seq(Line), NEW q \in Seq(Line)
    PROVE  /\ u \o q \in Seq(Line) /\ u \o <<>> \in Seq(Line)
           /\ EventPlaces(u \o q) = {} => EventPlaces(u \o <<>>) = {}
<1>1. u \o q \in Seq(Line) /\ u \o <<>> = u
  OBVIOUS
<1>2. \A i \in DOMAIN u : i \in DOMAIN (u \o q) /\ (u \o q)[i] = u[i]
  OBVIOUS
<1> QED
  BY <1>1, <1>2 DEF EventPlaces

\* A push that is no event.
LEMMA PushedOther ==
    ASSUME NEW u \in Seq(Line), NEW c \in ConnType, NEW l \in Line, l.type # "event",
           NEW got \in Nat, NEW top \in Nat, NEW events
    PROVE  LET s == u \o c.queue
               e == Pushed(c, l)
               t == u \o e.queue
           IN  /\ OnWay(s, c, got, top) => OnWay(t, e, got, top)
               /\ Unsubscribed(s, c, events) => Unsubscribed(t, e, events)
<1> DEFINE s == u \o c.queue
           e == Pushed(c, l)
           t == u \o e.queue
<1>1. s \in Seq(Line) /\ c.queue \in Seq(Line)
  BY GivenUp DEF ConnType
<1>2. e.topics = c.topics /\ (e.closed => t \in {s, u \o <<>>}) /\ (~e.closed => ~c.closed /\ t = Append(s, l))
  BY PushedCases
<1>3. OnWay(s, c, got, top) => InTurn(u \o <<>>, got, top)
  BY <1>1, QueueGivenUp DEF OnWay
<1>4. EventPlaces(s) = {} => EventPlaces(u \o <<>>) = {}
  BY <1>1, GivenUp
<1>5. EventPlaces(Append(s, l)) = EventPlaces(s)
  <2> HIDE DEF s
  <2>1. EventPlaces(Append(s, l)) = EventPlaces(s) \cup {}
    BY <1>1, AppendedPlaces
  <2> QED
    BY <2>1
<1>6. /\ InTurn(s, got, top) => InTurn(Append(s, l), got, top)
      /\ InTurn(s, got, top) /\ UpTo(s, got, top) => UpTo(Append(s, l), got, top)
  BY <1>1, TurnKept
<1> HIDE DEF s, e, t
<1>7. OnWay(s, c, got, top) => OnWay(t, e, got, top)
  BY <1>2, <1>3, <1>6 DEF OnWay
<1>8. Unsubscribed(s, c, events) => Unsubscribed(t, e, events)
  BY <1>2, <1>4, <1>5 DEF Unsubscribed
<1> QED
  BY <1>7, <1>8 DEF s, e, t

LEMMA PushedEvent ==
    ASSUME NEW u \in Seq(Line), NEW c \in ConnType, NEW got \in Nat, NEW top \in Nat, "events" \in c.topics,
           OnWay(u \o c.queue, c, got, top)
    PROVE  OnWay(u \o Pushed(c, Event(top + 1)).queue, Pushed(c, Event(top + 1)), got, top + 1)
<1> DEFINE s == u \o c.queue
           l == Event(top + 1)
           e == Pushed(c, l)
           t == u \o e.queue
<1>0. l \in Line
  BY LinesTyped
<1>1. s \in Seq(Line) /\ c.queue \in Seq(Line) /\ u \o <<>> \in Seq(Line)
  BY GivenUp DEF ConnType
<1>2. e.topics = c.topics /\ (e.closed => t \in {s, u \o <<>>}) /\ (~e.closed => ~c.closed /\ t = Append(s, l))
  BY <1>0, PushedCases
<1>3. InTurn(u \o <<>>, got, top) /\ InTurn(s, got, top)
  BY <1>1, QueueGivenUp DEF OnWay
<1>4. InTurn(u \o <<>>, got, top + 1) /\ InTurn(s, got, top + 1)
  BY <1>0, <1>1, <1>3, TurnKept
<1>5. UpTo(s, got, top) => InTurn(Append(s, l), got, top + 1) /\ UpTo(Append(s, l), got, top + 1)
  BY <1>0, <1>1, <1>3, TurnKept
<1>6. ~c.closed => UpTo(s, got, top)
  BY DEF OnWay
<1> HIDE DEF s, e, t
<1> QED
  <2>1. CASE e.closed
    BY <1>2, <1>4, <2>1 DEF OnWay, s, e, t
  <2>2. CASE ~e.closed
    BY <1>2, <1>5, <1>6, <2>2 DEF OnWay, s, e, t
  <2> QED
    BY <2>1, <2>2

LEMMA PushedShown ==
    ASSUME NEW u \in Seq(Line), NEW c \in ConnType, NEW l \in Line, NEW has \in Nat, NEW d \in Nat,
           NEW id \in Nat
    PROVE  LET s == u \o c.queue
               e == Pushed(c, l)
               t == u \o e.queue
           IN  /\ l.type # "snapshot" /\ Shown(s, c, has, d) => Shown(t, e, has, d)
               /\ l = Snapshot(d) => Shown(t, e, has, d)
               /\ c.closed \/ Replies(s, id) => e.closed \/ Replies(t, id)
               /\ l = Reply(id) => e.closed \/ Replies(t, id)
<1> DEFINE s == u \o c.queue
           e == Pushed(c, l)
           t == u \o e.queue
<1>1. s \in Seq(Line)
  BY GivenUp DEF ConnType
<1>2. e.topics = c.topics /\ (~e.closed => ~c.closed /\ t = Append(s, l))
  BY PushedCases
<1>3. /\ l.type # "snapshot" /\ Showing(s, has, d) => Showing(Append(s, l), has, d)
      /\ l = Snapshot(d) => Showing(Append(s, l), has, d)
  BY <1>1, ShowingKept
<1>4. /\ Replies(s, id) => Replies(Append(s, l), id)
      /\ l = Reply(id) => Replies(Append(s, l), id)
  BY <1>1, RepliesKept
<1> HIDE DEF s, e, t
<1>5. /\ l.type # "snapshot" /\ Shown(s, c, has, d) => Shown(t, e, has, d)
      /\ l = Snapshot(d) => Shown(t, e, has, d)
  BY <1>2, <1>3 DEF Shown
<1>6. /\ c.closed \/ Replies(s, id) => e.closed \/ Replies(t, id)
      /\ l = Reply(id) => e.closed \/ Replies(t, id)
  BY <1>2, <1>4
<1> QED
  BY <1>5, <1>6 DEF s, e, t

-----------------------------------------------------------------------------
(* The steps. *)

CastInv ==
    /\ CastTyped
    /\ \A i \in DOMAIN client.pushes : client.pushes[i].type # "reply"
    /\ \A i \in DOMAIN seen.events : seen.events[i] = since + i
    /\ Unsubscribed(OnTheWay, conn, seen.events)
    /\ OnWay(OnTheWay, conn, since + Len(seen.events), emitted)
    /\ ~wanted /\ ~stale => Shown(OnTheWay, conn, seen.doc, doc)
    /\ Awaited(OnTheWay, conn, asked, client.waits)

LEMMA CastInvTyped ==
    ASSUME CastTyped
    PROVE  /\ client.pushes \in Seq(Line) /\ wire \in Seq(Line) /\ conn.queue \in Seq(Line)
           /\ client.pushes \o wire \in Seq(Line) /\ OnTheWay = (client.pushes \o wire) \o conn.queue
           /\ OnTheWay \in Seq(Line)
           /\ seen.events \in Seq(Nat) /\ Len(seen.events) \in Nat /\ since + Len(seen.events) \in Nat
           /\ seen.doc \in Nat /\ doc \in Nat /\ emitted \in Nat /\ client.waits \in Nat
<1>1. client.pushes \in Seq(Line) /\ wire \in Seq(Line) /\ conn.queue \in Seq(Line)
  BY DEF CastTyped, ClientType, ConnType
<1>2. client.pushes \o wire \in Seq(Line)
  BY <1>1
<1>3. seen.events \in Seq(Nat) /\ seen.doc \in Nat /\ doc \in Nat /\ emitted \in Nat /\ client.waits \in Nat /\ since \in Nat
  BY DEF CastTyped, ClientType
<1> QED
  BY <1>1, <1>2, <1>3 DEF OnTheWay

\* The daemon pushes, and nothing is read.
DaemonSide == UNCHANGED <<wire, client, seen>>

LEMMA ChangeKeeps ==
    ASSUME CastInv, Change
    PROVE  CastInv'
<1>1. CastTyped'
  BY DEF CastInv, Change, CastTyped, ClientKeeps
<1>2. wanted' = TRUE /\ OnTheWay' = OnTheWay /\ UNCHANGED <<conn, seen, asked, client, since, emitted>>
  BY DEF Change, OnTheWay, ClientKeeps
<1> QED
  BY <1>1, <1>2 DEF CastInv

LEMMA EmitKeeps ==
    ASSUME CastInv, Emit
    PROVE  CastInv'
<1> DEFINE u == client.pushes \o wire
           l == Event(emitted + 1)
           got == since + Len(seen.events)
<1>1. /\ CastTyped /\ conn \in ConnType /\ u \in Seq(Line) /\ OnTheWay = u \o conn.queue /\ OnTheWay \in Seq(Line)
      /\ got \in Nat /\ emitted \in Nat /\ seen.doc \in Nat /\ doc \in Nat /\ client.waits \in Nat
  BY CastInvTyped DEF CastInv, CastTyped
<1>2. l \in Line /\ l.type = "event"
  BY <1>1, LinesTyped
<1>3. /\ emitted' = emitted + 1 /\ conn' = (IF "events" \in conn.topics THEN Pushed(conn, l) ELSE conn)
      /\ OnTheWay' = u \o conn'.queue /\ UNCHANGED <<doc, wanted, stale, asked, wire, client, seen, since>>
  BY DEF Emit, Told, ClientKeeps, OnTheWay
<1>4. Pushed(conn, l) \in ConnType /\ Pushed(conn, l).topics = conn.topics /\ Pushed(conn, l).at = conn.at /\ Pushed(conn, l).id = conn.id
  BY <1>1, <1>2, PushedCases
<1>5. CastTyped'
  BY <1>1, <1>3, <1>4 DEF CastTyped
<1> HIDE DEF u, l
<1>6. Unsubscribed(OnTheWay', conn', seen'.events)
  BY <1>1, <1>3, <1>4 DEF CastInv, Unsubscribed
<1>7. OnWay(OnTheWay', conn', got, emitted + 1)
  <2>1. CASE "events" \in conn.topics
    BY <1>1, <1>3, <2>1, PushedEvent DEF CastInv, l
  <2>2. CASE "events" \notin conn.topics
    <3>1. InTurn(OnTheWay, got, emitted + 1)
      BY <1>1, <1>2, TurnKept DEF CastInv, OnWay
    <3> QED
      BY <1>1, <1>3, <2>2, <3>1 DEF OnWay
  <2> QED
    BY <2>1, <2>2
<1>8. ~wanted' /\ ~stale' => Shown(OnTheWay', conn', seen'.doc, doc')
  <2>1. Shown(u \o conn.queue, conn, seen.doc, doc) => Shown(u \o Pushed(conn, l).queue, Pushed(conn, l), seen.doc, doc)
    BY <1>1, <1>2, PushedShown
  <2> QED
    BY <1>1, <1>3, <2>1 DEF CastInv
<1>9. Awaited(OnTheWay', conn', asked', client'.waits)
  <2>1. conn.closed \/ Replies(u \o conn.queue, client.waits) =>
            Pushed(conn, l).closed \/ Replies(u \o Pushed(conn, l).queue, client.waits)
    BY <1>1, <1>2, PushedShown
  <2> QED
    BY <1>1, <1>3, <1>4, <2>1 DEF CastInv, Awaited
<1> QED
  BY <1>3, <1>5, <1>6, <1>7, <1>8, <1>9 DEF CastInv

LEMMA ThrottleKeeps ==
    ASSUME CastInv, Throttle
    PROVE  CastInv'
  BY DEF CastInv, CastTyped, Throttle, ClientKeeps, OnTheWay

\* What is pushed beside events, by the snapshot loop and by a handler, and what the handler becomes.
LEMMA HandlerKeeps ==
    ASSUME CastInv, NEW c \in ConnType, UNCHANGED <<wire, client, seen, emitted, doc>>,
           conn'.queue = c.queue, conn'.closed = c.closed, conn'.topics = c.topics,
           CastTyped', \A i \in DOMAIN seen.events : seen.events[i] = since' + i,
           LET s == (client.pushes \o wire) \o c.queue
           IN  /\ Unsubscribed(s, c, seen.events)
               /\ OnWay(s, c, since' + Len(seen.events), emitted)
               /\ ~wanted' /\ ~stale' => Shown(s, c, seen.doc, doc)
               /\ Awaited(s, conn', asked', client.waits)
    PROVE  CastInv'
<1>1. OnTheWay' = (client.pushes \o wire) \o c.queue
  BY DEF OnTheWay
<1> QED
  BY <1>1 DEF CastInv, Unsubscribed, OnWay, Shown

LEMMA WriteSnapshotKeeps ==
    ASSUME CastInv, WriteSnapshot
    PROVE  CastInv'
<1> DEFINE u == client.pushes \o wire
           l == Snapshot(doc)
           got == since + Len(seen.events)
<1>1. /\ CastTyped /\ conn \in ConnType /\ u \in Seq(Line) /\ OnTheWay = u \o conn.queue
      /\ got \in Nat /\ emitted \in Nat /\ seen.doc \in Nat /\ doc \in Nat /\ client.waits \in Nat
  BY CastInvTyped DEF CastInv, CastTyped
<1>2. l \in Line /\ l.type = "snapshot"
  BY <1>1, LinesTyped
<1>3. /\ conn' = (IF stale' THEN conn ELSE IF "snapshot" \in conn.topics THEN Pushed(conn, l) ELSE conn)
      /\ stale' \in BOOLEAN /\ wanted' = FALSE /\ UNCHANGED <<doc, emitted, asked, wire, client, seen, since>>
  BY DEF WriteSnapshot, Told, ClientKeeps
<1>4. /\ Pushed(conn, l) \in ConnType /\ Pushed(conn, l).topics = conn.topics
      /\ Pushed(conn, l).at = conn.at /\ Pushed(conn, l).id = conn.id
  BY <1>1, <1>2, PushedCases
<1>5. conn' \in ConnType
  BY <1>1, <1>3, <1>4
<1>6. CastTyped'
  BY <1>1, <1>3, <1>5 DEF CastTyped
<1>7. CASE conn' = conn
  <2>1. ~wanted' /\ ~stale' => Shown(u \o conn.queue, conn, seen.doc, doc)
    <3>1. CASE "snapshot" \notin conn.topics
      BY <3>1 DEF Shown
    <3>2. CASE "snapshot" \in conn.topics /\ ~stale'
      <4>1. Pushed(conn, l) = conn
        BY <1>3, <1>7, <3>2
      <4>2. Shown(u \o Pushed(conn, l).queue, Pushed(conn, l), seen.doc, doc)
        BY <1>1, <1>2, PushedShown
      <4> QED
        BY <4>1, <4>2
    <3> QED
      BY <3>1, <3>2
  <2> QED
    BY <1>1, <1>3, <1>6, <1>7, <2>1, HandlerKeeps DEF CastInv
<1>8. CASE conn' = Pushed(conn, l)
  <2>1. /\ OnWay(u \o conn'.queue, conn', got, emitted)
        /\ Unsubscribed(u \o conn'.queue, conn', seen.events)
    BY <1>1, <1>2, <1>8, PushedOther DEF CastInv
  <2>2. Shown(u \o conn'.queue, conn', seen.doc, doc)
    BY <1>1, <1>2, <1>8, PushedShown
  <2>3. Awaited(u \o conn'.queue, conn', asked, client.waits)
    <3>1. conn.closed \/ Replies(u \o conn.queue, client.waits) => conn'.closed \/ Replies(u \o conn'.queue, client.waits)
      BY <1>1, <1>2, <1>8, PushedShown
    <3> QED
      BY <1>1, <1>4, <1>8, <3>1 DEF CastInv, Awaited
  <2> QED
    BY <1>1, <1>3, <1>5, <1>6, <2>1, <2>2, <2>3, HandlerKeeps DEF CastInv
<1> QED
  BY <1>3, <1>7, <1>8

\* A request that is read is the client's or an older one.
LEMMA RequestRead ==
    ASSUME CastTyped, asked # <<>>
    PROVE  /\ Head(asked).id \in Nat \ {0} /\ Head(asked).op \in {"hello", "subscribe", "other"}
           /\ Tail(asked) \in Seq([op : {"hello", "subscribe", "other"}, id : Nat \ {0}])
           /\ \A id \in Nat : (\E i \in DOMAIN asked : asked[i].id = id) =>
                Head(asked).id = id \/ \E i \in DOMAIN Tail(asked) : Tail(asked)[i].id = id
<1> DEFINE A == [op : {"hello", "subscribe", "other"}, id : Nat \ {0}]
<1>1. asked \in Seq(A)
  BY DEF CastTyped
<1>2. \A a \in A : a.id \in Nat \ {0} /\ a.op \in {"hello", "subscribe", "other"}
  OBVIOUS
<1> HIDE DEF A
<1>3. Head(asked) \in A /\ Tail(asked) \in Seq(A)
  BY <1>1
<1>4. \A i \in DOMAIN asked : i = 1 \/ (i - 1 \in DOMAIN Tail(asked) /\ Tail(asked)[i - 1] = asked[i])
  BY <1>1
<1>5. Head(asked) = asked[1]
  BY <1>1
<1> QED
  BY <1>2, <1>3, <1>4, <1>5 DEF A

\* The reply to a request, after which the handler reads on or leaves.
LEMMA ReplyKeeps ==
    ASSUME CastInv, UNCHANGED <<wire, client, seen, emitted, doc, wanted>>, CastTyped',
           NEW c \in ConnType, NEW id \in Nat, NEW e, e = Pushed(c, Reply(id)),
           conn'.queue = e.queue, conn'.closed = e.closed, conn'.topics = e.topics,
           \A i \in DOMAIN seen.events : seen.events[i] = since' + i,
           LET s == (client.pushes \o wire) \o c.queue
           IN  /\ Unsubscribed(s, c, seen.events)
               /\ OnWay(s, c, since' + Len(seen.events), emitted)
               /\ ~wanted' /\ ~stale' => Shown(s, c, seen.doc, doc)
               /\ client.waits # 0 =>
                    \/ c.closed \/ client.waits = id
                    \/ \E i \in DOMAIN asked' : asked'[i].id = client.waits
                    \/ Replies(s, client.waits)
    PROVE  CastInv'
<1> DEFINE u == client.pushes \o wire
           s == u \o c.queue
           t == u \o e.queue
<1>1. /\ CastTyped /\ u \in Seq(Line) /\ since' + Len(seen.events) \in Nat
      /\ emitted \in Nat /\ seen.doc \in Nat /\ doc \in Nat /\ client.waits \in Nat
  <2>1. since' \in Nat
    BY DEF CastTyped
  <2>2. /\ CastTyped /\ u \in Seq(Line) /\ Len(seen.events) \in Nat
        /\ emitted \in Nat /\ seen.doc \in Nat /\ doc \in Nat /\ client.waits \in Nat
    BY CastInvTyped DEF CastInv
  <2> QED
    BY <2>1, <2>2
<1>2. Reply(id) \in Line /\ Reply(id).type = "reply"
  BY LinesTyped
<1>3. e \in ConnType /\ e.topics = c.topics
  BY <1>1, <1>2, PushedCases
<1>4. OnWay(t, e, since' + Len(seen.events), emitted) /\ Unsubscribed(t, e, seen.events)
  BY <1>1, <1>2, PushedOther
<1>5. ~wanted' /\ ~stale' => Shown(t, e, seen.doc, doc)
  BY <1>1, <1>2, PushedShown
<1>6. Awaited(t, conn', asked', client.waits)
  <2>1. c.closed \/ Replies(s, client.waits) => e.closed \/ Replies(t, client.waits)
    BY <1>1, <1>2, PushedShown
  <2>2. client.waits = id => e.closed \/ Replies(t, client.waits)
    BY <1>1, <1>2, PushedShown
  <2> QED
    BY <2>1, <2>2 DEF Awaited
<1> QED
  BY <1>3, <1>4, <1>5, <1>6, HandlerKeeps

LEMMA SubscribeKeeps ==
    ASSUME CastInv, NEW id \in Nat, Subscribe(id), conn.at = "reads", ~conn.closed, asked # <<>>,
           id = Head(asked).id, asked' = Tail(asked),
           UNCHANGED <<doc, emitted, wanted, wire, client, seen>>
    PROVE  CastInv'
<1> DEFINE u == client.pushes \o wire
           s == u \o conn.queue
<1>1. /\ CastTyped /\ conn \in ConnType /\ u \in Seq(Line) /\ OnTheWay = s
      /\ since \in Nat /\ since + Len(seen.events) \in Nat /\ stale \in BOOLEAN
      /\ emitted \in Nat /\ seen.doc \in Nat /\ doc \in Nat /\ client.waits \in Nat
  BY CastInvTyped DEF CastInv, CastTyped
<1>2. PICK topics \in (SUBSET {"events", "snapshot"}) \ {{}} :
        LET subscribed == [conn EXCEPT !.topics = @ \cup topics] IN
        /\ since' = IF "events" \in topics \ conn.topics THEN emitted ELSE since
        /\ \/ conn' = Pushed(IF "snapshot" \in topics THEN Pushed(subscribed, Snapshot(doc)) ELSE subscribed, Reply(id))
              /\ UNCHANGED stale
           \/ "snapshot" \in topics /\ conn' = Pushed(subscribed, Reply(id)) /\ stale' = TRUE
  BY DEF Subscribe
<1>3. PICK a : a = [conn EXCEPT !.topics = @ \cup topics]
  OBVIOUS
<1>4. /\ a \in ConnType /\ a.topics = conn.topics \cup topics /\ a.queue = conn.queue
      /\ a.closed = conn.closed /\ a.at = conn.at /\ a.id = conn.id
  BY <1>1, <1>3 DEF ConnType
<1>5. PICK b : b = (IF "snapshot" \in topics THEN Pushed(a, Snapshot(doc)) ELSE a)
  OBVIOUS
<1>6. \/ conn' = Pushed(b, Reply(id)) /\ stale' = stale
      \/ conn' = Pushed(a, Reply(id)) /\ stale' = TRUE
  BY <1>2, <1>3, <1>5
<1>7. Snapshot(doc) \in Line /\ Snapshot(doc).type = "snapshot" /\ Reply(id) \in Line
  BY <1>1, LinesTyped
<1>8. b \in ConnType /\ b.topics = a.topics
  BY <1>1, <1>4, <1>5, <1>7, PushedCases
<1>9. since' \in Nat /\ conn' \in ConnType /\ CastTyped'
  <2>1. since' \in Nat
    BY <1>1, <1>2
  <2>2. conn' \in ConnType /\ stale' \in BOOLEAN
    <3>1. Pushed(a, Reply(id)) \in ConnType
      BY <1>1, <1>4, <1>7, PushedCases
    <3>2. Pushed(b, Reply(id)) \in ConnType
      BY <1>1, <1>7, <1>8, PushedCases
    <3>3. conn' \in ConnType
      BY <1>6, <3>1, <3>2
    <3>4. stale' \in BOOLEAN
      BY <1>1, <1>6
    <3> QED
      BY <3>3, <3>4
  <2>3. asked' \in Seq([op : {"hello", "subscribe", "other"}, id : Nat \ {0}])
    BY <1>1, RequestRead
  <2> QED
    BY <1>1, <2>1, <2>2, <2>3 DEF CastTyped
<1> HIDE DEF u, s
<1>10. /\ \A i \in DOMAIN seen.events : seen.events[i] = since' + i
       /\ Unsubscribed(s, a, seen.events)
       /\ OnWay(s, a, since' + Len(seen.events), emitted)
  <2>1. CASE "events" \in topics \ conn.topics
    <3>1. seen.events = <<>> /\ EventPlaces(s) = {} /\ since' = emitted
      BY <1>1, <1>2, <2>1 DEF CastInv, Unsubscribed
    <3>2. since' + Len(seen.events) = emitted /\ DOMAIN seen.events = {}
      BY <1>1, <3>1
    <3> QED
      BY <1>4, <2>1, <3>1, <3>2 DEF Unsubscribed, OnWay, InTurn, UpTo
  <2>2. CASE "events" \notin topics \ conn.topics
    <3>1. since' = since /\ ("events" \in a.topics <=> "events" \in conn.topics)
      BY <1>2, <1>4, <2>2
    <3> QED
      BY <1>1, <1>4, <3>1 DEF CastInv, Unsubscribed, OnWay
  <2> QED
    BY <2>1, <2>2
<1>11. /\ Unsubscribed(u \o b.queue, b, seen.events)
       /\ OnWay(u \o b.queue, b, since' + Len(seen.events), emitted)
  <2>1. CASE b = a
    BY <1>4, <1>10, <2>1 DEF s
  <2>2. CASE b = Pushed(a, Snapshot(doc))
    <3>1. since' + Len(seen.events) \in Nat
      <4>1. since' \in Nat
        BY <1>9 DEF CastTyped
      <4>2. Len(seen.events) \in Nat
        BY <1>1, CastInvTyped
      <4> QED
        BY <4>1, <4>2
    <3> QED
      BY <1>1, <1>4, <1>7, <1>10, <2>2, <3>1, PushedOther DEF s
  <2> QED
    BY <1>5, <2>1, <2>2
<1>12. ~wanted /\ ~stale => Shown(u \o b.queue, b, seen.doc, doc)
  <2>1. CASE "snapshot" \in topics
    BY <1>1, <1>4, <1>5, <1>7, <2>1, PushedShown
  <2>2. CASE "snapshot" \notin topics
    <3>1. b = a /\ ("snapshot" \in a.topics => "snapshot" \in conn.topics)
      BY <1>4, <1>5, <2>2
    <3> QED
      BY <1>1, <1>4, <3>1 DEF CastInv, Shown, s
  <2> QED
    BY <2>1, <2>2
<1>13. client.waits # 0 =>
         \/ client.waits = id
         \/ \E i \in DOMAIN asked' : asked'[i].id = client.waits
         \/ Replies(s, client.waits)
  BY <1>1, RequestRead DEF CastInv, Awaited
<1>14. Replies(s, client.waits) => b.closed \/ Replies(u \o b.queue, client.waits)
  <2>1. CASE b = a
    BY <1>4, <2>1 DEF s
  <2>2. CASE b = Pushed(a, Snapshot(doc))
    BY <1>1, <1>4, <1>7, <2>2, PushedShown DEF s
  <2> QED
    BY <1>5, <2>1, <2>2
<1>15. CASE conn' = Pushed(b, Reply(id)) /\ stale' = stale
  BY <1>8, <1>9, <1>10, <1>11, <1>12, <1>13, <1>14, <1>15, ReplyKeeps DEF u
<1>16. CASE conn' = Pushed(a, Reply(id)) /\ stale' = TRUE
  <2>1. u \o a.queue = s
    BY <1>4 DEF s
  <2> QED
    BY <1>4, <1>9, <1>10, <1>13, <1>16, <2>1, ReplyKeeps DEF u
<1> QED
  BY <1>6, <1>15, <1>16

LEMMA ReadRequestKeeps ==
    ASSUME CastInv, ReadRequest
    PROVE  CastInv'
<1> DEFINE u == client.pushes \o wire
           s == u \o conn.queue
<1>1. /\ CastTyped /\ conn \in ConnType /\ u \in Seq(Line) /\ OnTheWay = s
      /\ client.waits \in Nat
  BY CastInvTyped DEF CastInv, CastTyped
<1>2. /\ conn.at = "reads" /\ ~conn.closed /\ asked # <<>> /\ asked' = Tail(asked)
      /\ UNCHANGED <<doc, emitted, wanted, wire, client, seen>>
  BY DEF ReadRequest
<1>3. PICK id : id = Head(asked).id
  OBVIOUS
<1>4. id \in Nat \ {0} /\ asked' \in Seq([op : {"hello", "subscribe", "other"}, id : Nat \ {0}])
  BY <1>1, <1>2, <1>3, RequestRead
<1>5. client.waits # 0 =>
         \/ client.waits = id
         \/ \E i \in DOMAIN asked' : asked'[i].id = client.waits
         \/ Replies(s, client.waits)
  BY <1>1, <1>2, <1>3, RequestRead DEF CastInv, Awaited
<1>6. \/ conn' = [Pushed(conn, Reply(id)) EXCEPT !.at = "left"] /\ UNCHANGED <<since, stale>>
      \/ conn' = [Pushed(conn, Reply(id)) EXCEPT !.greeted = TRUE] /\ UNCHANGED <<since, stale>>
      \/ Subscribe(id)
      \/ conn' = [conn EXCEPT !.at = "works", !.id = id] /\ UNCHANGED <<since, stale>>
  BY <1>3 DEF ReadRequest
<1>7. PICK e : e = Pushed(conn, Reply(id))
  OBVIOUS
<1>8. Reply(id) \in Line /\ e \in ConnType
  BY <1>1, <1>4, <1>7, LinesTyped, PushedCases
<1>9. ASSUME conn' = [e EXCEPT !.at = "left"] \/ conn' = [e EXCEPT !.greeted = TRUE], UNCHANGED <<since, stale>>
      PROVE  CastInv'
  <2>1. /\ conn' \in ConnType /\ conn'.queue = e.queue /\ conn'.closed = e.closed
        /\ conn'.topics = e.topics
    BY <1>8, <1>9 DEF ConnType
  <2>2. CastTyped'
    BY <1>1, <1>2, <1>4, <1>9, <2>1 DEF CastTyped
  <2> QED
    BY <1>1, <1>2, <1>4, <1>5, <1>7, <1>9, <2>1, <2>2, ReplyKeeps DEF CastInv
<1>10. CASE Subscribe(id)
  BY <1>2, <1>3, <1>4, <1>10, SubscribeKeeps
<1>11. CASE conn' = [conn EXCEPT !.at = "works", !.id = id] /\ UNCHANGED <<since, stale>>
  <2>1. /\ conn' \in ConnType /\ conn'.queue = conn.queue /\ conn'.closed = conn.closed
        /\ conn'.topics = conn.topics /\ conn'.at = "works" /\ conn'.id = id
    BY <1>1, <1>4, <1>11 DEF ConnType
  <2>2. CastTyped'
    BY <1>1, <1>2, <1>4, <1>11, <2>1 DEF CastTyped
  <2>3. Awaited(s, conn', asked', client.waits)
    BY <1>5, <2>1 DEF Awaited
  <2> QED
    BY <1>1, <1>2, <1>11, <2>1, <2>2, <2>3, HandlerKeeps DEF CastInv
<1> QED
  BY <1>6, <1>7, <1>9, <1>10, <1>11

LEMMA AnswersKeeps ==
    ASSUME CastInv, Answers
    PROVE  CastInv'
<1> DEFINE u == client.pushes \o wire
           s == u \o conn.queue
<1>1. /\ CastTyped /\ conn \in ConnType /\ u \in Seq(Line) /\ OnTheWay = s /\ conn.id \in Nat
  BY CastInvTyped DEF CastInv, CastTyped, ConnType
<1>2. /\ conn' = [Pushed(conn, Reply(conn.id)) EXCEPT !.at = "reads"]
      /\ UNCHANGED <<doc, emitted, wanted, stale, asked, wire, client, since, seen>>
  BY DEF Answers, DaemonKeeps, ClientKeeps
<1>3. PICK e : e = Pushed(conn, Reply(conn.id))
  OBVIOUS
<1>4. e \in ConnType
  BY <1>1, <1>3, LinesTyped, PushedCases
<1>5. /\ conn' \in ConnType /\ conn'.queue = e.queue /\ conn'.closed = e.closed
      /\ conn'.topics = e.topics
  BY <1>2, <1>3, <1>4 DEF ConnType
<1>6. CastTyped'
  BY <1>1, <1>2, <1>5 DEF CastTyped
<1>7. client.waits # 0 =>
        \/ conn.closed \/ client.waits = conn.id
        \/ \E i \in DOMAIN asked' : asked'[i].id = client.waits
        \/ Replies(s, client.waits)
  BY <1>1, <1>2 DEF CastInv, Awaited
<1> QED
  BY <1>1, <1>2, <1>3, <1>5, <1>6, <1>7, ReplyKeeps DEF CastInv

LEMMA HandlerEndsKeeps ==
    ASSUME CastInv, HandlerEnds
    PROVE  CastInv'
<1>1. conn' = [conn EXCEPT !.at = "over", !.closed = TRUE]
      /\ UNCHANGED <<doc, emitted, wanted, stale, asked, wire, client, since, seen>>
  BY DEF HandlerEnds, DaemonKeeps, ClientKeeps
<1>2. /\ conn' \in ConnType /\ conn'.queue = conn.queue /\ conn'.closed = TRUE /\ conn'.topics = conn.topics
  BY <1>1 DEF CastInv, CastTyped, ConnType
<1>3. CastTyped'
  BY <1>1, <1>2 DEF CastInv, CastTyped
<1>4. OnTheWay' = OnTheWay
  BY <1>1, <1>2 DEF OnTheWay
<1> QED
  BY <1>1, <1>2, <1>3, <1>4 DEF CastInv, Unsubscribed, OnWay, Shown, Awaited

\* Three parts of what is on the way, whichever two are put together first.
Joined(p, q, r) == (p \o q) \o r = p \o (q \o r)

LEMMA LinesJoin == \A p, q, r \in Seq(Line) : Joined(p, q, r)
<1> SUFFICES ASSUME NEW p \in Seq(Line), NEW q \in Seq(Line), NEW r \in Seq(Line)
             PROVE  Joined(p, q, r)
  BY Zenon
<1> QED
  BY ConcatAssociative, SMT DEF Joined

LEMMA HeadMoves ==
    \A p, w, q \in Seq(Line) : q # <<>> =>
        (p \o Append(w, Head(q))) \o Tail(q) = (p \o w) \o q
<1> SUFFICES ASSUME NEW p \in Seq(Line), NEW w \in Seq(Line), NEW q \in Seq(Line), q # <<>>
             PROVE  (p \o Append(w, Head(q))) \o Tail(q) = (p \o w) \o q
  BY Zenon
<1>0. Head(q) \in Line /\ Tail(q) \in Seq(Line)
  OBVIOUS
<1>1. PICK h \in Line : h = Head(q)
  BY <1>0, Zenon
<1>2. PICK r \in Seq(Line) : r = Tail(q)
  BY <1>0, Zenon
<1>3. <<h>> \in Seq(Line)
  OBVIOUS
<1>4. PICK o \in Seq(Line) : o = <<h>>
  BY <1>3, Zenon
<1>5. q = o \o r
  BY <1>1, <1>2, <1>4
<1>6. Append(w, h) = w \o o /\ w \o o \in Seq(Line) /\ p \o w \in Seq(Line)
  <2>1. Append(w, h) = w \o <<h>>
    BY AppendIsConcat
  <2>2. w \o o \in Seq(Line)
    OBVIOUS
  <2>3. p \o w \in Seq(Line)
    OBVIOUS
  <2> QED
    BY <1>4, <2>1, <2>2, <2>3
<1>7. (p \o w) \o o = p \o (w \o o)
  <2>1. Joined(p, w, o)
    BY LinesJoin, Zenon
  <2> QED
    BY <2>1 DEF Joined
<1>8. PICK v \in Seq(Line) : v = p \o w
  BY <1>6, Zenon
<1>9. (v \o o) \o r = v \o (o \o r)
  <2>1. Joined(v, o, r)
    BY LinesJoin, Zenon
  <2> QED
    BY <2>1 DEF Joined
<1> QED
  BY <1>1, <1>2, <1>5, <1>6, <1>7, <1>8, <1>9

LEMMA PushMoves ==
    ASSUME NEW p \in Seq(Line), NEW w \in Seq(Line), w # <<>>
    PROVE  Append(p, Head(w)) \o Tail(w) = p \o w
<1>1. /\ (<<>> \o Append(p, Head(w))) \o Tail(w) = (<<>> \o p) \o w
      /\ Append(p, Head(w)) \in Seq(Line)
  <2>1. <<>> \in Seq(Line)
    OBVIOUS
  <2>2. ASSUME NEW e \in Seq(Line)
        PROVE  /\ Append(p, Head(w)) \in Seq(Line)
               /\ (e \o Append(p, Head(w))) \o Tail(w) = (e \o p) \o w
    <3>1. (e \o Append(p, Head(w))) \o Tail(w) = (e \o p) \o w
      BY HeadMoves, Zenon
    <3>2. Append(p, Head(w)) \in Seq(Line)
      OBVIOUS
    <3> QED
      BY <3>1, <3>2, Zenon
  <2> QED
    BY <2>1, <2>2, Zenon
<1>2. <<>> \o Append(p, Head(w)) = Append(p, Head(w)) /\ <<>> \o p = p
  BY <1>1
<1> QED
  BY <1>1, <1>2, Zenon

LEMMA HeadTaken ==
    ASSUME NEW p \in Seq(Line), NEW q \in Seq(Line), p # <<>>
    PROVE  p \o q # <<>> /\ Head(p \o q) = Head(p) /\ Tail(p \o q) = Tail(p) \o q
<1>1. p \o q # <<>> /\ Head(p \o q) = Head(p)
  OBVIOUS
<1>2. /\ Tail(p) \in Seq(Line) /\ Len(Tail(p)) = Len(p) - 1 /\ Len(p) \in Nat \ {0} /\ Len(q) \in Nat
      /\ \A i \in 1 .. Len(p) - 1 : Tail(p)[i] = p[i + 1]
  BY HeadTailProperties, LenProperties, EmptySeq
<1>3. PICK r \in Seq(Line) : r = Tail(p)
  BY <1>2
<1>4. PICK s \in Seq(Line) : s = p \o q
  BY ConcatProperties
<1>5. Len(s) = Len(p) + Len(q) /\ s # <<>> /\ \A i \in 1 .. Len(s) : s[i] = IF i <= Len(p) THEN p[i] ELSE q[i - Len(p)]
  BY <1>1, <1>4, ConcatProperties
<1>6. Tail(s) \in Seq(Line) /\ Len(Tail(s)) = Len(s) - 1 /\ \A i \in 1 .. Len(s) - 1 : Tail(s)[i] = s[i + 1]
  BY <1>5, HeadTailProperties
<1>7. /\ r \o q \in Seq(Line) /\ Len(r \o q) = Len(p) - 1 + Len(q)
      /\ \A i \in 1 .. Len(p) - 1 + Len(q) : (r \o q)[i] = IF i <= Len(p) - 1 THEN r[i] ELSE q[i - (Len(p) - 1)]
  BY <1>2, <1>3, ConcatProperties
<1>8. ASSUME NEW i \in 1 .. Len(Tail(s))
      PROVE  Tail(s)[i] = (r \o q)[i]
  <2>1. i \in 1 .. Len(p) - 1 + Len(q) /\ i + 1 \in 1 .. Len(s) /\ Tail(s)[i] = s[i + 1]
    BY <1>2, <1>5, <1>6
  <2>2. CASE i <= Len(p) - 1
    BY <1>2, <1>3, <1>5, <1>7, <2>1, <2>2
  <2>3. CASE ~(i <= Len(p) - 1)
    <3>1. ~(i + 1 <= Len(p)) /\ i + 1 - Len(p) = i - (Len(p) - 1)
      BY <1>2, <2>1, <2>3
    <3> QED
      BY <1>5, <1>7, <2>1, <2>3, <3>1
  <2> QED
    BY <2>2, <2>3
<1>9. Len(Tail(s)) = Len(r \o q)
  BY <1>2, <1>5, <1>6, <1>7
<1>10. Tail(s) = r \o q
  BY <1>6, <1>7, <1>8, <1>9, SeqEqual
<1> QED
  BY <1>1, <1>3, <1>4, <1>10

LEMMA WriteKeeps ==
    ASSUME CastInv, Write
    PROVE  CastInv'
<1>1. /\ CastTyped /\ conn \in ConnType /\ client.pushes \in Seq(Line) /\ wire \in Seq(Line) /\ conn.queue \in Seq(Line)
      /\ emitted \in Nat /\ since + Len(seen.events) \in Nat
  BY CastInvTyped DEF CastInv, CastTyped
<1>2. conn.queue # <<>> /\ UNCHANGED <<doc, emitted, wanted, stale, asked, client, since, seen>>
  BY DEF Write, DaemonKeeps, ClientKeeps
<1>3. CASE wire' = Append(wire, Head(conn.queue)) /\ conn' = [conn EXCEPT !.queue = Tail(@)]
  <2>1. /\ Tail(conn.queue) \in Seq(Line) /\ wire' \in Seq(Line)
        /\ (client.pushes \o wire') \o Tail(conn.queue) = (client.pushes \o wire) \o conn.queue
    <3>1. PICK p \in Seq(Line) : p = client.pushes
      BY <1>1
    <3>2. PICK w \in Seq(Line) : w = wire
      BY <1>1
    <3>3. PICK q \in Seq(Line) : q = conn.queue
      BY <1>1
    <3>4. q # <<>> /\ wire' = Append(w, Head(q))
      BY <1>2, <1>3, <3>2, <3>3
    <3>5. /\ Append(w, Head(q)) \in Seq(Line) /\ Tail(q) \in Seq(Line)
          /\ (p \o Append(w, Head(q))) \o Tail(q) = (p \o w) \o q
      <4>1. (p \o Append(w, Head(q))) \o Tail(q) = (p \o w) \o q
        BY <3>4, HeadMoves, Zenon
      <4>2. Append(w, Head(q)) \in Seq(Line) /\ Tail(q) \in Seq(Line)
        BY <3>4
      <4> QED
        BY <4>1, <4>2, Zenon
    <3> QED
      BY <3>1, <3>2, <3>3, <3>4, <3>5
  <2>2. /\ conn' \in ConnType /\ conn'.queue = Tail(conn.queue) /\ conn'.closed = conn.closed
        /\ conn'.topics = conn.topics /\ conn'.at = conn.at /\ conn'.id = conn.id
    BY <1>1, <1>3, <2>1 DEF ConnType
  <2>3. OnTheWay' = OnTheWay
    BY <1>2, <2>1, <2>2 DEF OnTheWay
  <2>4. CastTyped'
    BY <1>1, <1>2, <2>1, <2>2 DEF CastTyped
  <2> QED
    BY <1>2, <2>2, <2>3, <2>4 DEF CastInv, Unsubscribed, OnWay, Shown, Awaited
<1>4. CASE conn' = [conn EXCEPT !.queue = <<>>, !.closed = TRUE] /\ wire' = wire
  <2>1. <<>> \in Seq(Line)
    OBVIOUS
  <2>2. /\ conn' \in ConnType /\ conn'.queue = <<>> /\ conn'.closed = TRUE
        /\ conn'.topics = conn.topics
    BY <1>1, <1>4, <2>1 DEF ConnType
  <2>3. OnTheWay' = (client.pushes \o wire) \o <<>>
    BY <1>2, <1>4, <2>2 DEF OnTheWay
  <2>4. CastTyped'
    BY <1>1, <1>2, <1>4, <2>2 DEF CastTyped
  <2>5. /\ InTurn(OnTheWay', since + Len(seen.events), emitted)
        /\ EventPlaces(OnTheWay) = {} => EventPlaces(OnTheWay') = {}
    <3>1. client.pushes \o wire \in Seq(Line) /\ OnTheWay = (client.pushes \o wire) \o conn.queue
      BY <1>1 DEF OnTheWay
    <3>2. InTurn(OnTheWay, since + Len(seen.events), emitted)
      BY DEF CastInv, OnWay
    <3> QED
      BY <1>1, <2>3, <3>1, <3>2, QueueGivenUp, GivenUp
  <2> QED
    BY <1>2, <2>2, <2>4, <2>5 DEF CastInv, Unsubscribed, OnWay, Shown, Awaited
<1> QED
  BY <1>3, <1>4 DEF Write

LEMMA AskKeeps ==
    ASSUME CastInv, Ask
    PROVE  CastInv'
<1> DEFINE A == [op : {"hello", "subscribe", "other"}, id : Nat \ {0}]
<1>1. /\ UNCHANGED <<conn, wire, since, seen, doc, emitted, wanted, stale>>
      /\ client' = [client EXCEPT !.asks = client.asks + 1, !.waits = client.asks + 1]
      /\ \E op \in {"hello", "subscribe", "other"} : asked' = Append(asked, [op |-> op, id |-> client.asks + 1])
  BY DEF Ask, DaemonKeeps
<1>0. client \in ClientType /\ client.asks + 1 \in Nat \ {0}
  BY DEF CastInv, CastTyped, ClientType
<1>2. client' \in ClientType /\ client'.pushes = client.pushes /\ client'.waits = client.asks + 1
  BY <1>0, <1>1 DEF ClientType
<1>3. PICK a \in A : a.id = client.asks + 1 /\ asked' = Append(asked, a)
  BY <1>0, <1>1
<1>4. asked \in Seq(A)
  BY DEF CastInv, CastTyped
<1> HIDE DEF A
<1>5. asked' \in Seq(A) /\ \E i \in DOMAIN asked' : asked'[i] = a
  BY <1>3, <1>4
<1>6. CastTyped'
  BY <1>1, <1>2, <1>5 DEF CastInv, CastTyped, A
<1>7. OnTheWay' = OnTheWay
  BY <1>1, <1>2 DEF OnTheWay
<1> QED
  BY <1>1, <1>2, <1>3, <1>5, <1>6, <1>7 DEF CastInv, Awaited

\* The client gives up waiting, or leaves.
LEMMA ClientStopsKeeps ==
    ASSUME CastInv, TimesOut \/ Leave
    PROVE  CastInv'
<1>1. /\ UNCHANGED <<conn, asked, wire, since, seen, doc, emitted, wanted, stale>>
      /\ client' = [client EXCEPT !.waits = 0] \/ client' = [client EXCEPT !.here = FALSE, !.waits = 0]
  BY DEF TimesOut, Leave, DaemonKeeps
<1>0. client \in ClientType
  BY DEF CastInv, CastTyped
<1>2. client' \in ClientType /\ client'.pushes = client.pushes /\ client'.waits = 0
  <2>1. CASE client' = [client EXCEPT !.waits = 0]
    BY <1>0, <2>1 DEF ClientType
  <2>2. CASE client' = [client EXCEPT !.here = FALSE, !.waits = 0]
    BY <1>0, <2>2 DEF ClientType
  <2> QED
    BY <1>1, <2>1, <2>2
<1>3. CastTyped'
  BY <1>1, <1>2 DEF CastInv, CastTyped
<1>4. OnTheWay' = OnTheWay
  BY <1>1, <1>2 DEF OnTheWay
<1> QED
  BY <1>1, <1>2, <1>3, <1>4 DEF CastInv, Awaited

LEMMA GetsLineKeeps ==
    ASSUME CastInv, GetsLine
    PROVE  CastInv'
<1>1. /\ CastTyped /\ conn \in ConnType /\ client \in ClientType
      /\ client.pushes \in Seq(Line) /\ wire \in Seq(Line) /\ conn.queue \in Seq(Line)
      /\ OnTheWay = (client.pushes \o wire) \o conn.queue
      /\ since + Len(seen.events) \in Nat /\ emitted \in Nat /\ seen.doc \in Nat /\ doc \in Nat
      /\ client.waits \in Nat
  BY CastInvTyped DEF CastInv, CastTyped
<1>2. /\ wire # <<>> /\ wire' = Tail(wire) /\ client' = Received(Head(wire))
      /\ UNCHANGED <<conn, asked, since, seen, doc, emitted, wanted, stale>>
  BY DEF GetsLine, DaemonKeeps
<1>3. PICK l \in Line : l = Head(wire)
  BY <1>1, <1>2
<1>4. wire' \in Seq(Line)
  BY <1>1, <1>2
<1>5. CASE l.type # "reply"
  <2>1. client' = [client EXCEPT !.pushes = Append(@, l)]
    BY <1>2, <1>3, <1>5 DEF Received
  <2>2. Append(client.pushes, l) \in Seq(Line)
    BY <1>1
  <2>3. client' \in ClientType /\ client'.pushes = Append(client.pushes, l) /\ client'.waits = client.waits
    BY <1>1, <2>1, <2>2 DEF ClientType
  <2>4. CastTyped'
    BY <1>1, <1>2, <1>4, <2>3 DEF CastTyped
  <2>5. Append(client.pushes, l) \o Tail(wire) = client.pushes \o wire
    <3>1. PICK p \in Seq(Line) : p = client.pushes
      BY <1>1
    <3>2. PICK w \in Seq(Line) : w = wire
      BY <1>1
    <3>3. w # <<>> /\ l = Head(w)
      BY <1>2, <1>3, <3>2
    <3>4. Append(p, Head(w)) \o Tail(w) = p \o w
      BY <3>3, PushMoves
    <3> QED
      BY <3>1, <3>2, <3>3, <3>4
  <2>6. OnTheWay' = OnTheWay
    <3>1. OnTheWay' = (Append(client.pushes, l) \o Tail(wire)) \o conn.queue
      BY <1>2, <2>3 DEF OnTheWay
    <3> QED
      BY <2>5, <3>1 DEF OnTheWay
  <2>7. \A i \in DOMAIN client'.pushes : client'.pushes[i].type # "reply"
    BY <1>1, <1>5, <2>3 DEF CastInv
  <2> QED
    BY <1>2, <2>3, <2>4, <2>6, <2>7 DEF CastInv
<1>6. CASE l.type = "reply"
  <2>1. client' = (IF l.n = client.waits THEN [client EXCEPT !.waits = 0] ELSE client)
    BY <1>2, <1>3, <1>6 DEF Received
  <2>2. /\ client' \in ClientType /\ client'.pushes = client.pushes
        /\ client'.waits \in {0, client.waits} /\ (client'.waits = 0 \/ l.n # client.waits)
    <3>1. CASE l.n = client.waits
      BY <1>1, <2>1, <3>1 DEF ClientType
    <3>2. CASE l.n # client.waits
      BY <1>1, <2>1, <3>2
    <3> QED
      BY <3>1, <3>2
  <2>3. CastTyped'
    BY <1>1, <1>2, <1>4, <2>2 DEF CastTyped
  <2>4. wire \o conn.queue \in Seq(Line)
    BY <1>1
  <2>5. PICK q \in Seq(Line) : q = wire \o conn.queue
    BY <2>4, Zenon
  <2> DEFINE out == conn.queue
             p == client.pushes
  <2> HIDE DEF out, p
  <2>6. out \in Seq(Line) /\ p \in Seq(Line) /\ wire \in Seq(Line) /\ wire # <<>> /\ Tail(wire) \in Seq(Line)
    BY <1>1, <1>2, <1>4 DEF out, p
  <2>7. /\ q # <<>> /\ Head(q) = l /\ OnTheWay = client.pushes \o q
        /\ OnTheWay' = client.pushes \o Tail(q)
    <3>1. wire \o out # <<>> /\ Head(wire \o out) = Head(wire) /\ Tail(wire \o out) = Tail(wire) \o out
      BY <2>6, HeadTaken
    <3>2. (p \o wire) \o out = p \o (wire \o out)
      <4>1. Joined(p, wire, out)
        BY <2>6, LinesJoin, Zenon
      <4> QED
        BY <4>1, Zenon DEF Joined
    <3>3. (p \o Tail(wire)) \o out = p \o (Tail(wire) \o out)
      <4>1. Joined(p, Tail(wire), out)
        BY <2>6, LinesJoin, Zenon
      <4> QED
        BY <4>1, Zenon DEF Joined
    <3>4. q = wire \o out
      BY <2>5 DEF out
    <3>5. OnTheWay = (p \o wire) \o out /\ OnTheWay' = (p \o Tail(wire)) \o out
      BY <1>2, <2>2 DEF OnTheWay, out, p
    <3> QED
      BY <1>3, <3>1, <3>2, <3>3, <3>4, <3>5 DEF p
  <2>8. PICK got \in Nat : got = since + Len(seen.events)
    BY <1>1
  <2>9. /\ InTurn(OnTheWay, got, emitted) => InTurn(OnTheWay', got, emitted)
        /\ UpTo(OnTheWay, got, emitted) => UpTo(OnTheWay', got, emitted)
        /\ Showing(OnTheWay, seen.doc, doc) => Showing(OnTheWay', seen.doc, doc)
        /\ Replies(OnTheWay, client.waits) => Head(q) = Reply(client.waits) \/ Replies(OnTheWay', client.waits)
    <3>1. p \in Seq(Line) /\ q # <<>> /\ Head(q).type = "reply" /\ OnTheWay = p \o q /\ OnTheWay' = p \o Tail(q)
      BY <1>6, <2>6, <2>7 DEF p
    <3>2. /\ InTurn(p \o q, got, emitted) => InTurn(p \o Tail(q), got, emitted)
          /\ UpTo(p \o q, got, emitted) => UpTo(p \o Tail(q), got, emitted)
          /\ Showing(p \o q, seen.doc, doc) => Showing(p \o Tail(q), seen.doc, doc)
          /\ \A id \in Nat : Replies(p \o q, id) => Head(q) = Reply(id) \/ Replies(p \o Tail(q), id)
      BY <1>1, <2>5, <2>8, <3>1, ReplyTaken
    <3> QED
      BY <1>1, <3>1, <3>2
  <2>10. EventPlaces(OnTheWay) = {} => EventPlaces(OnTheWay') = {}
    <3>1. InTurn(OnTheWay, 0, 0) => InTurn(OnTheWay', 0, 0)
      BY <1>1, <1>6, <2>5, <2>7, ReplyTaken
    <3>2. EventPlaces(OnTheWay) = {} => InTurn(OnTheWay, 0, 0)
      BY DEF InTurn
    <3>3. InTurn(OnTheWay', 0, 0) => \A i \in EventPlaces(OnTheWay') : FALSE
      BY DEF InTurn
    <3> QED
      BY <3>1, <3>2, <3>3
  <2>11. Head(q) # Reply(client.waits) \/ client'.waits = 0
    BY <1>1, <1>3, <2>2, <2>7, LinesTyped
  <2>12. OnWay(OnTheWay', conn', since' + Len(seen'.events), emitted') /\ Unsubscribed(OnTheWay', conn', seen'.events)
    BY <1>2, <2>8, <2>9, <2>10 DEF CastInv, OnWay, Unsubscribed
  <2>13. ~wanted' /\ ~stale' => Shown(OnTheWay', conn', seen'.doc, doc')
    BY <1>2, <2>9 DEF CastInv, Shown
  <2>14. Awaited(OnTheWay', conn', asked', client'.waits)
    BY <1>2, <2>2, <2>9, <2>11 DEF CastInv, Awaited
  <2> QED
    BY <1>2, <2>2, <2>3, <2>12, <2>13, <2>14 DEF CastInv
<1> QED
  BY <1>5, <1>6

LEMMA TakesKeeps ==
    ASSUME CastInv, Takes
    PROVE  CastInv'
<1>1. /\ CastTyped /\ conn \in ConnType /\ client \in ClientType
      /\ client.pushes \in Seq(Line) /\ wire \in Seq(Line) /\ conn.queue \in Seq(Line)
      /\ OnTheWay = (client.pushes \o wire) \o conn.queue /\ OnTheWay \in Seq(Line)
      /\ since \in Nat /\ since + Len(seen.events) \in Nat /\ emitted \in Nat /\ seen.doc \in Nat /\ doc \in Nat
      /\ client.waits \in Nat /\ seen.events \in Seq(Nat) /\ Len(seen.events) \in Nat
      /\ seen \in [events : Seq(Nat), doc : Nat]
  BY CastInvTyped DEF CastInv, CastTyped
<1>2. /\ client.pushes # <<>> /\ client' = [client EXCEPT !.pushes = Tail(@)]
      /\ UNCHANGED <<conn, asked, wire, since, doc, emitted, wanted, stale>>
  BY DEF Takes, DaemonKeeps
<1>3. PICK l \in Line : l = Head(client.pushes)
  BY <1>1, <1>2
<1>4. seen' = IF l.type = "event" THEN [seen EXCEPT !.events = Append(@, l.n)] ELSE [seen EXCEPT !.doc = l.n]
  BY <1>3 DEF Takes
<1>5. l.n \in Nat /\ l.type \in {"event", "snapshot"}
  <2>1. client.pushes[1].type # "reply" /\ l = client.pushes[1]
    BY <1>1, <1>2, <1>3 DEF CastInv
  <2> QED
    BY <2>1, LinesTyped
<1>6. Tail(client.pushes) \in Seq(Line)
  BY <1>1, <1>2
<1>7. client' \in ClientType /\ client'.pushes = Tail(client.pushes) /\ client'.waits = client.waits
  BY <1>1, <1>2, <1>6 DEF ClientType
<1>8. /\ seen' \in [events : Seq(Nat), doc : Nat]
      /\ seen'.events = (IF l.type = "event" THEN Append(seen.events, l.n) ELSE seen.events)
      /\ seen'.doc = (IF l.type = "snapshot" THEN l.n ELSE seen.doc)
  <2>1. CASE l.type = "event"
    <3>1. Append(seen.events, l.n) \in Seq(Nat)
      BY <1>1, <1>5
    <3> QED
      BY <1>1, <1>4, <2>1, <3>1
  <2>2. CASE l.type = "snapshot"
    BY <1>1, <1>4, <1>5, <2>2
  <2> QED
    BY <1>5, <2>1, <2>2
<1>9. CastTyped'
  BY <1>1, <1>2, <1>7, <1>8 DEF CastTyped
<1>10. OnTheWay # <<>> /\ Head(OnTheWay) = l /\ OnTheWay' = Tail(OnTheWay)
  <2>1. OnTheWay # <<>> /\ Head(OnTheWay) = l /\ Tail(OnTheWay) = (Tail(client.pushes) \o wire) \o conn.queue
    <3>1. PICK p \in Seq(Line) : p = client.pushes
      BY <1>1
    <3>2. PICK out \in Seq(Line) : out = conn.queue
      BY <1>1
    <3>3. p # <<>> /\ l = Head(p) /\ wire \in Seq(Line)
      BY <1>1, <1>2, <1>3, <3>1
    <3>4. p \o wire # <<>> /\ Head(p \o wire) = Head(p) /\ Tail(p \o wire) = Tail(p) \o wire
      BY <3>3, HeadTaken
    <3>5. p \o wire \in Seq(Line)
      BY <3>3
    <3>7. /\ (p \o wire) \o out # <<>> /\ Head((p \o wire) \o out) = Head(p \o wire)
          /\ Tail((p \o wire) \o out) = Tail(p \o wire) \o out
      <4>1. PICK q \in Seq(Line) : q = p \o wire
        BY <3>5, Zenon
      <4>2. q # <<>>
        BY <3>4, <4>1
      <4>3. q \o out # <<>> /\ Head(q \o out) = Head(q) /\ Tail(q \o out) = Tail(q) \o out
        BY <4>2, HeadTaken
      <4> QED
        BY <4>1, <4>3, Zenon
    <3>6. /\ (p \o wire) \o out # <<>> /\ Head((p \o wire) \o out) = Head(p)
          /\ Tail((p \o wire) \o out) = (Tail(p) \o wire) \o out
      BY <3>4, <3>7, Zenon
    <3> QED
      BY <1>1, <3>1, <3>2, <3>3, <3>6
  <2> QED
    BY <1>2, <1>7, <2>1 DEF OnTheWay
<1>11. PICK got \in Nat : got = since + Len(seen.events)
  BY <1>1
<1>12. InTurn(OnTheWay, got, emitted)
  BY <1>11 DEF CastInv, OnWay
<1>13. /\ l.type = "event" =>
            /\ l.n = got + 1
            /\ InTurn(OnTheWay', got + 1, emitted)
            /\ UpTo(OnTheWay, got, emitted) => UpTo(OnTheWay', got + 1, emitted)
       /\ l.type # "event" =>
            /\ InTurn(OnTheWay', got, emitted)
            /\ UpTo(OnTheWay, got, emitted) => UpTo(OnTheWay', got, emitted)
       /\ Showing(OnTheWay, seen.doc, doc) => Showing(OnTheWay', seen'.doc, doc)
       /\ \A id \in Nat : Replies(OnTheWay, id) => l = Reply(id) \/ Replies(OnTheWay', id)
  BY <1>1, <1>8, <1>10, <1>12, FirstTaken
<1>14. since' + Len(seen'.events) = (IF l.type = "event" THEN got + 1 ELSE got)
  BY <1>1, <1>2, <1>5, <1>8, <1>11
<1>15. OnWay(OnTheWay', conn', since' + Len(seen'.events), emitted')
  <2>1. ~conn.closed /\ "events" \in conn.topics => UpTo(OnTheWay, got, emitted)
    BY <1>11 DEF CastInv, OnWay
  <2> QED
    BY <1>2, <1>13, <1>14, <2>1 DEF OnWay
<1>16. Unsubscribed(OnTheWay', conn', seen'.events)
  <2>1. SUFFICES ASSUME "events" \notin conn.topics
                 PROVE  seen'.events = <<>> /\ EventPlaces(OnTheWay') = {}
    BY <1>2 DEF Unsubscribed
  <2>2. seen.events = <<>> /\ EventPlaces(OnTheWay) = {}
    BY <2>1 DEF CastInv, Unsubscribed
  <2>3. l.type # "event"
    <3>0. PICK s \in Seq(Line) : s = OnTheWay
      BY <1>1
    <3>1. 1 \in DOMAIN OnTheWay /\ OnTheWay[1] = l
      <4>1. s # <<>> /\ Head(s) = l
        BY <1>10, <3>0
      <4>2. 1 \in DOMAIN s /\ s[1] = l
        BY <4>1
      <4> QED
        BY <3>0, <4>2
    <3> QED
      BY <2>2, <3>1 DEF EventPlaces
  <2>4. \A i \in DOMAIN Tail(OnTheWay) : i + 1 \in DOMAIN OnTheWay /\ Tail(OnTheWay)[i] = OnTheWay[i + 1]
    <3>1. PICK s \in Seq(Line) : s = OnTheWay
      BY <1>1
    <3>2. s # <<>>
      BY <1>10, <3>1
    <3>3. \A i \in DOMAIN Tail(s) : i + 1 \in DOMAIN s /\ Tail(s)[i] = s[i + 1]
      BY <3>2
    <3> QED
      BY <3>1, <3>3
  <2> QED
    BY <1>8, <1>10, <2>2, <2>3, <2>4 DEF EventPlaces
<1>17. \A i \in DOMAIN seen'.events : seen'.events[i] = since' + i
  <2>1. CASE l.type # "event"
    BY <1>2, <1>8, <2>1 DEF CastInv
  <2>2. CASE l.type = "event"
    <3>1. seen'.events = Append(seen.events, since + Len(seen.events) + 1)
      BY <1>8, <1>11, <1>13, <2>2
    <3>2. \A i \in DOMAIN seen'.events : i \in DOMAIN seen.events \/ i = Len(seen.events) + 1
      BY <1>1, <3>1
    <3>3. \A i \in DOMAIN seen.events : seen'.events[i] = seen.events[i]
      BY <1>1, <3>1
    <3>4. seen'.events[Len(seen.events) + 1] = since + (Len(seen.events) + 1)
      BY <1>1, <3>1
    <3> QED
      BY <1>2, <3>2, <3>3, <3>4 DEF CastInv
  <2> QED
    BY <2>1, <2>2
<1>18. \A i \in DOMAIN client'.pushes : client'.pushes[i].type # "reply"
  BY <1>1, <1>2, <1>7 DEF CastInv
<1>19. ~wanted' /\ ~stale' => Shown(OnTheWay', conn', seen'.doc, doc')
  BY <1>2, <1>13 DEF CastInv, Shown
<1>20. Awaited(OnTheWay', conn', asked', client'.waits)
  <2>1. l # Reply(client.waits)
    BY <1>1, <1>5, LinesTyped
  <2> QED
    BY <1>1, <1>2, <1>7, <1>13, <2>1 DEF CastInv, Awaited
<1> QED
  BY <1>9, <1>15, <1>16, <1>17, <1>18, <1>19, <1>20 DEF CastInv

LEMMA CastStep ==
    ASSUME CastInv, [CastNext]_castVars
    PROVE  CastInv'
<1>1. CASE UNCHANGED castVars
  BY <1>1 DEF CastInv, CastTyped, OnTheWay, castVars
<1>2. ASSUME ReadLine \/ ReadLoop \/ IterPushes \/ NextPush
      PROVE  CastInv'
  BY <1>2, GetsLineKeeps, TakesKeeps DEF ReadLine, ReadLoop, IterPushes, NextPush
<1> QED
  BY <1>1, <1>2, ChangeKeeps, EmitKeeps, ThrottleKeeps, WriteSnapshotKeeps, ReadRequestKeeps, AnswersKeeps,
     HandlerEndsKeeps, WriteKeeps, AskKeeps, ClientStopsKeeps DEF CastNext

LEMMA CastStarts ==
    ASSUME CastInit
    PROVE  CastInv
<1>1. <<>> \in Seq(Line) /\ <<>> \in Seq(Nat) /\ <<>> \in Seq([op : {"hello", "subscribe", "other"}, id : Nat \ {0}])
  OBVIOUS
<1>2. /\ conn = [at |-> "reads", greeted |-> FALSE, closed |-> FALSE, topics |-> {}, queue |-> <<>>, id |-> 0]
      /\ client \in [sync : BOOLEAN, here : {TRUE}, asks : {0}, waits : {0}, pushes : {<<>>}]
      /\ seen = [events |-> <<>>, doc |-> 0]
      /\ asked = <<>> /\ wire = <<>> /\ doc = 0 /\ emitted = 0 /\ since = 0 /\ wanted = FALSE /\ stale = FALSE
  BY DEF CastInit
<1>3. conn \in ConnType /\ conn.queue = <<>> /\ conn.topics = {}
  <2>1. conn.queue = <<>> /\ conn.topics = {}
    BY <1>2
  <2>2. PICK q : q = <<>> /\ q \in Seq(Line)
    BY <1>1, Zenon
  <2>6. {} \in SUBSET {"events", "snapshot"}
    OBVIOUS
  <2>3. PICK none : none = {} /\ none \in SUBSET {"events", "snapshot"}
    BY <2>6, Zenon
  <2>4. conn = [at |-> "reads", greeted |-> FALSE, closed |-> FALSE, topics |-> none, queue |-> q, id |-> 0]
    BY <1>2, <2>2, <2>3
  <2>5. conn \in ConnType
    BY <2>2, <2>3, <2>4 DEF ConnType
  <2> QED
    BY <2>1, <2>5
<1>4. client \in ClientType /\ client.pushes = <<>> /\ client.waits = 0
  <2>1. PICK q : q = <<>> /\ q \in Seq(Line)
    BY <1>1, Zenon
  <2>2. client \in [sync : BOOLEAN, here : {TRUE}, asks : {0}, waits : {0}, pushes : {q}]
    BY <1>2, <2>1, Zenon
  <2>3. PICK b \in BOOLEAN : client = [sync |-> b, here |-> TRUE, asks |-> 0, waits |-> 0, pushes |-> q]
    BY <2>2
  <2>4. client \in ClientType /\ client.pushes = q /\ client.waits = 0
    BY <2>1, <2>3 DEF ClientType
  <2> QED
    BY <2>1, <2>4
<1>5. seen \in [events : Seq(Nat), doc : Nat] /\ seen.events = <<>> /\ seen.doc = 0
  BY <1>1, <1>2
<1>6. CastTyped
  BY <1>1, <1>2, <1>3, <1>4, <1>5 DEF CastTyped
<1>7. OnTheWay = <<>>
  BY <1>2, <1>3, <1>4 DEF OnTheWay
<1>8. EventPlaces(OnTheWay) = {} /\ DOMAIN seen.events = {} /\ DOMAIN client.pushes = {}
  BY <1>4, <1>5, <1>7 DEF EventPlaces
<1> QED
  BY <1>3, <1>4, <1>5, <1>6, <1>8 DEF CastInv, Unsubscribed, OnWay, InTurn, Shown, Awaited

LEMMA CastShows ==
    ASSUME CastInv
    PROVE  KeepsUp
<1>1. Places("event") = EventPlaces(OnTheWay) /\ Places("snapshot") = SnapshotPlaces(OnTheWay)
  BY DEF Places, EventPlaces, SnapshotPlaces
<1>2. NoGap
  BY <1>1 DEF CastInv, OnWay, InTurn, UpTo, NoGap, Got
<1>3. LastSnapshot
  BY <1>1 DEF CastInv, Shown, Showing, LastSnapshot
<1>4. Answered
  BY DEF CastInv, Awaited, Replies, Answered
<1> QED
  BY <1>2, <1>3, <1>4 DEF KeepsUp

\* KeepsUp: whatever the sizes of the queue and of the socket, a subscriber that is not cut off gets every
\* event since it subscribed in turn and ends with the current snapshot, and its request is on its way,
\* in work, answered or cut off with the connection.
THEOREM SubscriberKeepsUp == CastSpec => []KeepsUp
<1>1. CastInv /\ [CastNext]_castVars => CastInv'
  BY CastStep
<1> QED
  BY <1>1, CastStarts, CastShows, PTL DEF CastSpec

-----------------------------------------------------------------------------
(* Sequences of sequences, made one.                                       *)

\* r has what the first elements of s make in one sequence.
Flattens(s, r) == \A i \in 1 .. Len(s) : r[i] = IF i = 1 THEN s[1] ELSE r[i - 1] \o s[i]

LEMMA FlattenExists ==
    ASSUME NEW n \in Nat, NEW s, Len(s) = n
    PROVE  \E r : r = [i \in 1 .. n |-> IF i = 1 THEN s[i] ELSE r[i - 1] \o s[i]]
<1> DEFINE G(k, r) == r = [i \in 1 .. k |-> IF i = 1 THEN s[i] ELSE r[i - 1] \o s[i]]
           S == {k \in 0 .. n : \E r : G(k, r)}
<1>1. 0 \in S
  <2>1. PICK r : r = [i \in 1 .. 0 |-> s[i]]
    OBVIOUS
  <2>2. r = [i \in 1 .. 0 |-> IF i = 1 THEN s[i] ELSE r[i - 1] \o s[i]]
    BY <2>1
  <2>3. G(0, r)
    BY <2>2
  <2>4. 0 \in 0 .. n
    OBVIOUS
  <2> QED
    BY <2>3, <2>4
<1>2. ASSUME NEW k \in 0 .. n - 1, k \in S PROVE k + 1 \in S
  <2>1. PICK r : G(k, r)
    BY <1>2
  <2>2. PICK g : g = [i \in 1 .. k + 1 |-> IF i = k + 1 THEN (IF k = 0 THEN s[1] ELSE r[k] \o s[k + 1]) ELSE r[i]]
    OBVIOUS
  <2>3. ASSUME NEW i \in 1 .. k + 1 PROVE g[i] = IF i = 1 THEN s[i] ELSE g[i - 1] \o s[i]
    <3>1. CASE i = k + 1
      <4>1. g[i] = IF k = 0 THEN s[1] ELSE r[k] \o s[k + 1]
        BY <2>2, <3>1
      <4>2. k # 0 => g[i - 1] = r[k]
        BY <2>2, <3>1
      <4> QED
        BY <3>1, <4>1, <4>2
    <3>2. CASE i # k + 1
      <4>1. i \in 1 .. k /\ g[i] = r[i]
        BY <2>2, <3>2
      <4>2. r[i] = IF i = 1 THEN s[i] ELSE r[i - 1] \o s[i]
        BY <2>1, <4>1
      <4>3. i # 1 => g[i - 1] = r[i - 1]
        BY <2>2, <3>2
      <4> QED
        BY <4>1, <4>2, <4>3
    <3> QED
      BY <3>1, <3>2
  <2>4. G(k + 1, g)
    <3>1. g = [i \in 1 .. k + 1 |-> g[i]]
      BY <2>2
    <3> QED
      BY <2>3, <3>1, Zenon
  <2>5. k + 1 \in 0 .. n
    OBVIOUS
  <2> QED
    BY <2>4, <2>5, Zenon
<1> HIDE DEF S
<1>3. 0 .. n \subseteq S
  BY <1>1, <1>2, Induction
<1>4. n \in S
  BY <1>3
<1> USE DEF S
<1> QED
  BY <1>4

LEMMA FlattenIs ==
    ASSUME NEW n \in Nat \ {0}, NEW s, Len(s) = n
    PROVE  \E r : Flattens(s, r) /\ FlattenSeq(s) = r[n]
<1> DEFINE G(r) == r = [i \in 1 .. n |-> IF i = 1 THEN s[i] ELSE r[i - 1] \o s[i]]
<1>1. PICK f : f = CHOOSE r : G(r)
  OBVIOUS
<1>2. G(f)
  <2>1. \E r : G(r)
    BY FlattenExists
  <2> QED
    BY <1>1, <2>1
<1>3. FlattenSeq(s) = f[n]
  <2>1. n # 0
    OBVIOUS
  <2>2. FlattenSeq(s) = IF Len(s) = 0 THEN s
                        ELSE (CHOOSE r : r = [i \in 1 .. Len(s) |-> IF i = 1 THEN s[i] ELSE r[i - 1] \o s[i]])[Len(s)]
    BY Zenon DEF FlattenSeq
  <2>3. FlattenSeq(s) = (CHOOSE r : r = [i \in 1 .. n |-> IF i = 1 THEN s[i] ELSE r[i - 1] \o s[i]])[n]
    BY <2>1, <2>2, Zenon
  <2> QED
    BY <1>1, <2>3, Zenon
<1>4. Flattens(s, f)
  BY <1>2 DEF Flattens
<1> QED
  BY <1>3, <1>4, Zenon

\* As far as two sequences agree, so does what they make.
Agree(s, t, n) ==
    /\ Len(s) \in Nat /\ Len(t) \in Nat /\ Len(s) >= n /\ Len(t) >= n
    /\ \A i \in 1 .. n : s[i] = t[i]

SameAt(n, r, q) == r[n] = q[n]

LEMMA FlattenAgrees ==
    ASSUME NEW s, NEW t, NEW r, NEW q, NEW n \in Nat \ {0}, Agree(s, t, n),
           Flattens(s, r), Flattens(t, q)
    PROVE  SameAt(n, r, q)
<1> DEFINE S == {k \in 0 .. n : k # 0 => r[k] = q[k]}
<1>1. 0 \in S
  OBVIOUS
<1>2. ASSUME NEW k \in 0 .. n - 1, k \in S PROVE k + 1 \in S
  <2>1. k + 1 \in 1 .. n /\ k + 1 \in 1 .. Len(s) /\ k + 1 \in 1 .. Len(t) /\ k + 1 \in 0 .. n /\ (k + 1) - 1 = k
        /\ (k + 1 = 1 <=> k = 0)
    BY DEF Agree
  <2>2. r[k + 1] = IF k = 0 THEN s[1] ELSE r[k] \o s[k + 1]
    BY <2>1 DEF Flattens
  <2>3. q[k + 1] = IF k = 0 THEN t[1] ELSE q[k] \o t[k + 1]
    BY <2>1 DEF Flattens
  <2>4. s[k + 1] = t[k + 1]
    BY <2>1 DEF Agree
  <2>5. r[k + 1] = q[k + 1]
    BY <1>2, <2>2, <2>3, <2>4
  <2> QED
    BY <2>1, <2>5
<1> HIDE DEF S
<1>3. 0 .. n \subseteq S
  BY <1>1, <1>2, Induction
<1>4. n \in S
  BY <1>3
<1> QED
  BY <1>4 DEF S, SameAt

LEMMA NoneThere ==
    ASSUME NEW B, NEW s \in Seq(B), Len(s) = 0
    PROVE  s = <<>>
OBVIOUS

LEMMA FlattenTyped ==
    ASSUME NEW A, NEW s \in Seq(Seq(A))
    PROVE  FlattenSeq(s) \in Seq(A)
<1>1. PICK n \in Nat : n = Len(s)
  OBVIOUS
<1>2. CASE n = 0
  <2>0. <<>> \in Seq(A)
    OBVIOUS
  <2>1. s = <<>>
    BY <1>1, <1>2, NoneThere, Zenon
  <2>2. FlattenSeq(s) = s
    BY <1>1, <1>2 DEF FlattenSeq
  <2> QED
    BY <2>0, <2>1, <2>2, Zenon
<1>3. CASE n # 0
  <2>1. PICK r : Flattens(s, r) /\ FlattenSeq(s) = r[n]
    BY <1>1, <1>3, FlattenIs
  <2> DEFINE S == {k \in 0 .. n : k # 0 => r[k] \in Seq(A)}
  <2>2. 0 \in S
    OBVIOUS
  <2>3. ASSUME NEW k \in 0 .. n - 1, k \in S PROVE k + 1 \in S
    <3>1. k + 1 \in 1 .. n /\ k + 1 \in 0 .. n /\ (k + 1) - 1 = k /\ (k + 1 = 1 <=> k = 0)
      OBVIOUS
    <3>2. r[k + 1] = IF k = 0 THEN s[1] ELSE r[k] \o s[k + 1]
      BY <1>1, <2>1, <3>1 DEF Flattens
    <3>3. s[k + 1] \in Seq(A)
      BY <1>1, <3>1
    <3>4. \A x, y \in Seq(A) : x \o y \in Seq(A)
      OBVIOUS
    <3>5. k # 0 => r[k] \in Seq(A)
      BY <2>3
    <3>6. r[k + 1] \in Seq(A)
      <4>1. k = 0 => r[k + 1] = s[k + 1]
        BY <3>2
      <4>2. k # 0 => r[k + 1] = r[k] \o s[k + 1]
        BY <3>2
      <4> QED
        BY <3>3, <3>4, <3>5, <4>1, <4>2, Zenon
    <3> QED
      BY <3>1, <3>6
  <2> HIDE DEF S
  <2>4. 0 .. n \subseteq S
    BY <2>2, <2>3, Induction
  <2>5. n \in 0 .. n
    OBVIOUS
  <2>6. n \in S
    BY <2>4, <2>5
  <2> QED
    BY <1>3, <2>1, <2>6 DEF S
<1> QED
  BY <1>2, <1>3

\* One more sequence at the end.
LEMMA FlattenMore ==
    ASSUME NEW A, NEW s \in Seq(Seq(A)), NEW e \in Seq(A)
    PROVE  FlattenSeq(Append(s, e)) = FlattenSeq(s) \o e
<1>1. PICK n \in Nat : n = Len(s)
  OBVIOUS
<1>2. PICK t : t = Append(s, e)
  OBVIOUS
<1>3. Len(t) = n + 1 /\ t[n + 1] = e /\ \A i \in 1 .. n : t[i] = s[i]
  BY <1>1, <1>2
<1>4. PICK q : Flattens(t, q) /\ FlattenSeq(t) = q[n + 1]
  <2>1. n + 1 \in Nat \ {0}
    OBVIOUS
  <2> QED
    BY <1>3, <2>1, FlattenIs
<1>5. CASE n = 0
  <2>1. s = <<>>
    BY <1>1, <1>5, NoneThere, Zenon
  <2>2. FlattenSeq(s) = <<>>
    BY <1>1, <1>5, <2>1 DEF FlattenSeq
  <2>3. q[1] = t[1]
    BY <1>3, <1>4, <1>5 DEF Flattens
  <2>4. q[n + 1] = e
    BY <1>3, <1>5, <2>3
  <2> QED
    BY <1>2, <1>4, <2>2, <2>4
<1>6. CASE n # 0
  <2>1. PICK r : Flattens(s, r) /\ FlattenSeq(s) = r[n]
    BY <1>1, <1>6, FlattenIs
  <2>2. r[n] = q[n]
    <3>1. Len(t) >= n /\ Len(s) >= n /\ Len(t) \in Nat /\ Len(s) \in Nat /\ n \in 1 .. n
      BY <1>1, <1>3, <1>6
    <3>2. Agree(s, t, n)
      BY <1>3, <3>1 DEF Agree
    <3>3. n \in Nat \ {0}
      BY <1>6
    <3>4. Flattens(s, r) /\ Flattens(t, q)
      BY <1>4, <2>1
    <3>5. SameAt(n, r, q)
      BY <3>2, <3>3, <3>4, FlattenAgrees, Zenon
    <3> QED
      BY <3>5 DEF SameAt
  <2>3. q[n + 1] = q[n] \o e
    <3>1. n + 1 \in 1 .. n + 1 /\ n + 1 # 1 /\ (n + 1) - 1 = n
      BY <1>6
    <3>2. q[n + 1] = q[n] \o t[n + 1]
      BY <1>3, <1>4, <3>1 DEF Flattens
    <3> QED
      BY <1>3, <3>2
  <2> QED
    BY <1>2, <1>4, <2>1, <2>2, <2>3, Zenon
<1> QED
  BY <1>5, <1>6

LEMMA FlattenNothing == FlattenSeq(<<>>) = <<>>
BY DEF FlattenSeq

LEMMA Empties ==
    /\ \A A : <<>> \in Seq(A)
    /\ Len(<<>>) = 0
OBVIOUS

Longer(t, s, a, n) == t = [l \in 1 .. n + 1 |-> IF l <= n THEN s[l] ELSE a]

LEMMA OneMore ==
    ASSUME NEW B, NEW s \in Seq(B), NEW a, NEW n \in Nat, Len(s) = n
    PROVE  Longer(Append(s, a), s, a, n)
<1>1. PICK C : C = B \cup {a}
  OBVIOUS
<1>2. s \in Seq(C) /\ a \in C
  BY <1>1
<1>3. PICK t \in Seq(C) : t = Append(s, a)
  <2>1. Append(s, a) \in Seq(C)
    BY <1>2
  <2> QED
    BY <2>1, Zenon
<1>4. Len(t) = n + 1 /\ t[n + 1] = a /\ \A l \in 1 .. n : t[l] = s[l]
  BY <1>2, <1>3
<1>5. t = [l \in 1 .. n + 1 |-> t[l]]
  <2>1. \A A : \A x \in Seq(A) : x = [l \in 1 .. Len(x) |-> x[l]]
    OBVIOUS
  <2> QED
    BY <1>3, <1>4, <2>1, Zenon
<1>6. \A l \in 1 .. n + 1 : t[l] = IF l <= n THEN s[l] ELSE a
  BY <1>4
<1>7. t = [l \in 1 .. n + 1 |-> IF l <= n THEN s[l] ELSE a]
  BY <1>5, <1>6, Zenon
<1> QED
  BY <1>3, <1>7, Zenon DEF Longer

-----------------------------------------------------------------------------
(* What the filter makes of a piece.                                       *)

Starts == {<<>>} \cup {<<c>> : c \in {d \in KeyPiece : MayStart(d)}}
Taking == [out : Seq(KeyPiece), in_paste : BOOLEAN, prev : KeyPiece \cup {Nothing}, submit : BOOLEAN,
           ctrl_z : BOOLEAN, start : Starts]

LEMMA PieceIs ==
    ASSUME NEW c \in KeyPiece
    PROVE  /\ c = <<c[1], c[2]>>
           /\ (c[1] \in Single /\ c[2] = 0) \/ (c[1] \in Split /\ c[2] \in {1, 2})
<1>1. CASE \E t \in Single : c = <<t, 0>>
  <2>1. PICK t \in Single : c = <<t, 0>>
    BY <1>1
  <2>2. c[1] = t /\ c[2] = 0 /\ c = <<c[1], c[2]>>
    BY <2>1
  <2> QED
    BY <2>1, <2>2
<1>2. CASE c \in Split \X {1, 2}
  <2>1. PICK t \in Split, i \in {1, 2} : c = <<t, i>>
    BY <1>2
  <2>2. c[1] = t /\ c[2] = i /\ c = <<c[1], c[2]>>
    BY <2>1
  <2> QED
    BY <2>1, <2>2
<1> QED
  BY <1>1, <1>2 DEF KeyPiece

LEMMA StartIs ==
    ASSUME NEW s \in Starts, s # <<>>
    PROVE  /\ s = <<s[1]>> /\ Len(s) = 1 /\ s[1] \in KeyPiece /\ s \in Seq(KeyPiece)
           /\ s[1] = <<"esc", 0>> \/ (s[1][1] \in Split /\ s[1][2] = 1)
<1>1. PICK c \in KeyPiece : MayStart(c) /\ s = <<c>>
  BY DEF Starts
<1>2. s[1] = c /\ Len(s) = 1
  BY <1>1
<1>3. c = <<"esc", 0>> \/ (c[1] \in Split /\ c[2] = 1)
  BY <1>1, PieceIs DEF MayStart, Split, Single
<1> QED
  BY <1>1, <1>2, <1>3

LEMMA StartSeq ==
    ASSUME NEW s \in Starts
    PROVE  s \in Seq(KeyPiece)
<1>1. <<>> \in Seq(KeyPiece)
  BY Empties
<1> QED
  BY <1>1, StartIs

LEMMA StartOne ==
    ASSUME NEW c \in KeyPiece, MayStart(c)
    PROVE  <<c>> \in Starts
BY DEF Starts

LEMMA SameTaking ==
    ASSUME NEW r \in Taking, NEW q \in Taking, r.out = q.out, r.in_paste <=> q.in_paste, r.prev = q.prev,
           r.submit <=> q.submit, r.ctrl_z <=> q.ctrl_z, r.start = q.start
    PROVE  r = q
<1>1. r.in_paste = q.in_paste /\ r.submit = q.submit /\ r.ctrl_z = q.ctrl_z
  BY DEF Taking
<1> QED
  BY <1>1 DEF Taking

LEMMA TakingIs ==
    ASSUME NEW r \in Taking
    PROVE  /\ r.out \in Seq(KeyPiece) /\ r.in_paste \in BOOLEAN /\ r.prev \in KeyPiece \cup {Nothing}
           /\ r.submit \in BOOLEAN /\ r.ctrl_z \in BOOLEAN /\ r.start \in Starts
BY DEF Taking

LEMMA OnePiece ==
    ASSUME NEW s \in Seq(KeyPiece), NEW c \in KeyPiece
    PROVE  s \o <<c>> \in Seq(KeyPiece) /\ <<c>> \in Seq(KeyPiece) /\ <<c>> # <<>> /\ Last(<<c>>) = c
<1>1. <<c>> \in Seq(KeyPiece) /\ <<c>> # <<>> /\ Len(<<c>>) = 1
  OBVIOUS
<1>2. s \o <<c>> \in Seq(KeyPiece)
  BY <1>1
<1> QED
  BY <1>1, <1>2 DEF Last

\* Only the last three fields of q may differ from those of r.
Passes(q, r, s, prev) ==
    /\ q \in Taking /\ q.out = r.out \o s /\ q.in_paste = r.in_paste /\ q.prev = prev
    /\ q.ctrl_z = r.ctrl_z /\ q.start = r.start

LEMMA PassIs ==
    ASSUME NEW r \in Taking, NEW c \in KeyPiece
    PROVE  Passes(Pass(r, <<c>>), r, <<c>>, c) /\ Pass(r, <<c>>).submit = r.submit
<1>1. PICK s \in Seq(KeyPiece) : s = r.out \o <<c>>
  BY TakingIs, OnePiece, Zenon
<1>2. <<c>> # <<>> /\ Last(<<c>>) = c
  BY TakingIs, OnePiece
<1>3. Pass(r, <<c>>) = [r EXCEPT !.out = r.out \o <<c>>, !.prev = c]
  BY <1>2 DEF Pass
<1>4. PICK q : q = [r EXCEPT !.out = s, !.prev = c]
  OBVIOUS
<1>5. /\ q \in Taking /\ q.out = s /\ q.in_paste = r.in_paste /\ q.prev = c /\ q.submit = r.submit
      /\ q.ctrl_z = r.ctrl_z /\ q.start = r.start
  BY <1>1, <1>4 DEF Taking
<1> QED
  BY <1>1, <1>3, <1>4, <1>5, Zenon DEF Passes

LEMMA PassTwo ==
    ASSUME NEW r \in Taking, NEW b \in KeyPiece, NEW c \in KeyPiece
    PROVE  Passes(Pass(r, <<b, c>>), r, <<b, c>>, c) /\ Pass(r, <<b, c>>).submit = r.submit
<1>1. <<b, c>> \in Seq(KeyPiece) /\ <<b, c>> # <<>> /\ Last(<<b, c>>) = c
  BY DEF Last
<1>2. PICK s \in Seq(KeyPiece) : s = r.out \o <<b, c>>
  <2>1. r.out \o <<b, c>> \in Seq(KeyPiece)
    BY <1>1, TakingIs
  <2> QED
    BY <2>1, Zenon
<1>3. Pass(r, <<b, c>>) = [r EXCEPT !.out = r.out \o <<b, c>>, !.prev = c]
  BY <1>1 DEF Pass
<1>4. PICK q : q = [r EXCEPT !.out = s, !.prev = c]
  OBVIOUS
<1>5. /\ q \in Taking /\ q.out = s /\ q.in_paste = r.in_paste /\ q.prev = c /\ q.submit = r.submit
      /\ q.ctrl_z = r.ctrl_z /\ q.start = r.start
  BY <1>2, <1>4 DEF Taking
<1> QED
  BY <1>2, <1>3, <1>4, <1>5, Zenon DEF Passes

Same(q, r) == q.out = r.out /\ q.in_paste = r.in_paste /\ q.prev = r.prev /\ q.submit = r.submit

LEMMA KeyIs ==
    ASSUME NEW r \in Taking, NEW c \in KeyPiece, NEW q, q = Key(r, c)
    PROVE  /\ q \in Taking /\ q.start = r.start
           /\ ~r.in_paste /\ c[1] = "ctrl_z" => Same(q, r) /\ q.ctrl_z
           /\ ~(~r.in_paste /\ c[1] = "ctrl_z") => Passes(q, r, <<c>>, c)
                /\ (q.submit <=> r.submit \/ (~r.in_paste /\ c[1] = "cr" /\ ~Newline(r.prev)))
<1>1. PICK p : p = Pass(r, <<c>>) /\ Passes(p, r, <<c>>, c) /\ p.submit = r.submit
  BY PassIs, Zenon
<1>2. CASE r.in_paste
  <2>1. q = p
    BY <1>1, <1>2 DEF Key
  <2> QED
    BY <1>1, <1>2, <2>1 DEF Passes
<1>3. CASE ~r.in_paste /\ c[1] = "ctrl_z"
  <2>1. q = [r EXCEPT !.ctrl_z = TRUE]
    BY <1>3 DEF Key
  <2>2. q \in Taking /\ q.start = r.start /\ Same(q, r) /\ q.ctrl_z
    BY <2>1 DEF Taking, Same
  <2> QED
    BY <1>3, <2>2
<1>4. CASE ~r.in_paste /\ c[1] # "ctrl_z"
  <2>1. PICK x \in BOOLEAN : x = (p.submit \/ (c[1] = "cr" /\ ~Newline(r.prev)))
    OBVIOUS
  <2>2. q = [p EXCEPT !.submit = x]
    BY <1>1, <1>4, <2>1 DEF Key
  <2>3. /\ q \in Taking /\ q.out = p.out /\ q.in_paste = p.in_paste /\ q.prev = p.prev /\ q.ctrl_z = p.ctrl_z
        /\ q.start = p.start /\ q.submit = x
    BY <1>1, <2>2 DEF Taking, Passes
  <2>4. Passes(q, r, <<c>>, c) /\ q.start = r.start
    BY <1>1, <2>3, Zenon DEF Passes
  <2>5. q.submit <=> r.submit \/ (~r.in_paste /\ c[1] = "cr" /\ ~Newline(r.prev))
    BY <1>1, <1>4, <2>1, <2>3
  <2> QED
    BY <1>4, <2>3, <2>4, <2>5
<1> QED
  BY <1>2, <1>3, <1>4

-----------------------------------------------------------------------------
(* What was held is released; a piece is taken.                            *)

KeyOp == [x \in Taking \X KeyPiece |-> Key(x[1], x[2])]

LEMMA KeyFolds ==
    ASSUME NEW m \in Taking, NEW s \in Seq(KeyPiece)
    PROVE  FoldsTo(KeyOp, Taking, m, s, FoldLeft(Key, m, s))
<1> DEFINE D == SUBSET (DOMAIN s)
           G(f) == f = [x \in D |-> IF x = {} THEN m ELSE Key(f[x \ {Max(x)}], s[Max(x)])]
<1>1. FoldLeft(Key, m, s) = (CHOOSE f : G(f))[DOMAIN s]
  BY Zenon DEF FoldLeft, MapThenFoldSet
<1>2. KeyOp \in [Taking \X KeyPiece -> Taking]
  BY KeyIs DEF KeyOp
<1>3. PICK f \in [D -> Taking] : IsFold(KeyOp, m, s, f)
  BY <1>2, FoldExists, Zenon
<1>4. ASSUME NEW x \in D, x # {}, NEW g \in [D -> Taking]
      PROVE  KeyOp[g[x \ {Max(x)}], s[Max(x)]] = Key(g[x \ {Max(x)}], s[Max(x)])
  <2>1. PICK n \in Nat : n = Len(s) /\ DOMAIN s = 1 .. n
    OBVIOUS
  <2>2. Max(x) \in 1 .. n /\ x \ {Max(x)} \in D
    BY <1>4, <2>1, MaxIsGreatest
  <2>3. g[x \ {Max(x)}] \in Taking /\ s[Max(x)] \in KeyPiece
    BY <2>1, <2>2
  <2> QED
    BY <2>3 DEF KeyOp
<1>5. G(f)
  <2>1. f = [x \in D |-> IF x = {} THEN m ELSE KeyOp[f[x \ {Max(x)}], s[Max(x)]]]
    BY <1>3, Zenon DEF IsFold
  <2>2. \A x \in D : f[x] = IF x = {} THEN m ELSE Key(f[x \ {Max(x)}], s[Max(x)])
    BY <1>4, <2>1
  <2> QED
    BY <2>2
<1>6. PICK g : g = (CHOOSE f1 : G(f1)) /\ G(g)
  BY <1>5, Zenon
<1>7. g[{}] = m
  <2>1. {} \in D
    OBVIOUS
  <2> QED
    BY <1>6, <2>1, Zenon
<1>8. ASSUME NEW i \in 1 .. Len(s), g[1 .. i - 1] \in Taking
      PROVE  g[1 .. i] = KeyOp[g[1 .. i - 1], s[i]]
  <2>1. PICK n \in Nat : n = Len(s) /\ DOMAIN s = 1 .. n /\ i \in 1 .. n
    OBVIOUS
  <2>2. 1 .. i \in D /\ 1 .. i # {} /\ (1 .. i) \ {i} = 1 .. i - 1 /\ Max(1 .. i) = i
    BY <2>1, Segments, Zenon
  <2>3. g[1 .. i] = Key(g[(1 .. i) \ {Max(1 .. i)}], s[Max(1 .. i)])
    BY <1>6, <2>2, Zenon
  <2>4. g[1 .. i] = Key(g[1 .. i - 1], s[i])
    BY <2>2, <2>3, Zenon
  <2>5. s[i] \in KeyPiece
    OBVIOUS
  <2>6. KeyOp[g[1 .. i - 1], s[i]] = Key(g[1 .. i - 1], s[i])
    BY <1>8, <2>5 DEF KeyOp
  <2> QED
    BY <2>4, <2>6, Zenon
<1> HIDE DEF D, G
<1>a. Accumulates(g, KeyOp, Taking, m, s)
  BY <1>7, <1>8, Zenon DEF Accumulates
<1>9. FoldsTo(KeyOp, Taking, m, s, g[DOMAIN s])
  BY <1>2, <1>a, FoldRun, Zenon
<1> QED
  BY <1>1, <1>6, <1>9, Zenon

\* What was the start of nothing passes as a key of its own.
Let(q, r) ==
    /\ q \in Taking /\ q.out = r.out \o r.start /\ q.in_paste = r.in_paste
    /\ q.prev = (IF r.start = <<>> THEN r.prev ELSE r.start[1])
    /\ q.ctrl_z = r.ctrl_z /\ q.submit = r.submit /\ q.start = <<>>

LEMMA ReleasedIs ==
    ASSUME NEW r \in Taking
    PROVE  Let(Released(r), r)
<1>0. r.start \in Starts /\ r.start \in Seq(KeyPiece) /\ r.out \in Seq(KeyPiece) /\ <<>> \in Starts
  BY TakingIs, StartSeq DEF Starts
<1>1. PICK v \in Taking : v = FoldLeft(Key, r, r.start) /\ FoldsTo(KeyOp, Taking, r, r.start, v)
  <2>1. FoldsTo(KeyOp, Taking, r, r.start, FoldLeft(Key, r, r.start))
    BY <1>0, KeyFolds, Zenon
  <2>2. Len(r.start) \in Nat
    BY <1>0
  <2> QED
    BY <2>1, <2>2, FoldsToOne
<1>2. PICK q : q = [v EXCEPT !.start = <<>>] /\ q = Released(r)
  BY <1>1, Zenon DEF Released
<1>3. /\ q \in Taking /\ q.out = v.out /\ q.in_paste = v.in_paste /\ q.prev = v.prev /\ q.submit = v.submit
      /\ q.ctrl_z = v.ctrl_z /\ q.start = <<>>
  BY <1>0, <1>2 DEF Taking
<1>4. CASE r.start = <<>>
  <2>1. v = r
    <3>1. FoldsTo(KeyOp, Taking, r, r.start, r)
      BY <1>4, FoldsToNothing
    <3>2. Len(r.start) \in Nat
      BY <1>0
    <3> QED
      BY <1>1, <3>1, <3>2, FoldsToOne
  <2>2. r.out \o r.start = r.out
    BY <1>0, <1>4, ConcatEmptySeq
  <2> QED
    BY <1>2, <1>3, <1>4, <2>1, <2>2 DEF Let
<1>5. CASE r.start # <<>>
  <2>1. PICK c \in KeyPiece : r.start = <<c>> /\ c = r.start[1] /\ (c = <<"esc", 0>> \/ c[1] \in Split)
    BY <1>0, <1>5, StartIs
  <2>2. KeyOp \in [Taking \X KeyPiece -> Taking] /\ KeyOp[r, c] = Key(r, c)
    BY KeyIs DEF KeyOp
  <2>3. v = Key(r, c)
    <3>0. PICK u : u = Key(r, c)
      OBVIOUS
    <3>1. FoldsTo(KeyOp, Taking, r, r.start, u)
      <4>1. FoldsTo(KeyOp, Taking, r, <<c>>, KeyOp[r, c])
        BY <2>2, FoldsToNext, Zenon
      <4> QED
        BY <2>1, <2>2, <3>0, <4>1, Zenon
    <3>2. Len(r.start) \in Nat
      BY <1>0
    <3>3. v = u
      BY <1>1, <3>1, <3>2, FoldsToOne
    <3> QED
      BY <3>0, <3>3
  <2>4. c[1] # "ctrl_z" /\ c[1] # "cr"
    BY <2>1 DEF Split
  <2>5. Passes(v, r, <<c>>, c) /\ (v.submit <=> r.submit)
    BY <2>3, <2>4, KeyIs
  <2>6. v.submit = r.submit
    BY <2>5, TakingIs DEF Passes
  <2> QED
    BY <1>2, <1>3, <1>5, <2>1, <2>5, <2>6 DEF Let, Passes
<1> QED
  BY <1>4, <1>5

LEMMA ReleasedNone ==
    ASSUME NEW r \in Taking, r.start = <<>>
    PROVE  Released(r) = r
<1>1. PICK q \in Taking : q = Released(r) /\ Let(q, r)
  BY ReleasedIs, Zenon DEF Let
<1>2. q.out = r.out
  BY <1>1, TakingIs, ConcatEmptySeq DEF Let
<1>3. q.start = r.start /\ q.prev = r.prev /\ q.in_paste = r.in_paste /\ q.ctrl_z = r.ctrl_z /\ q.submit = r.submit
  BY <1>1 DEF Let
<1> QED
  BY <1>1, <1>2, <1>3, SameTaking

\* A sequence that is there as a whole.
WholeTaken(q, r, t) ==
    /\ q \in Taking /\ q.start = r.start
    /\ ~r.in_paste /\ t = "kitty_ctrl_z" => Same(q, r) /\ q.ctrl_z
    /\ ~(~r.in_paste /\ t = "kitty_ctrl_z") =>
        /\ q.out = r.out \o << <<t, 1>>, <<t, 2>> >> /\ q.prev = <<t, 2>> /\ q.ctrl_z = r.ctrl_z
        /\ q.in_paste <=> IF r.in_paste THEN t # "paste_end" ELSE t = "paste_start"
        /\ q.submit <=> r.submit \/ (~r.in_paste /\ t = "kitty_enter")

LEMMA SplitPieces ==
    ASSUME NEW t \in Split
    PROVE  <<t, 1>> \in KeyPiece /\ <<t, 2>> \in KeyPiece /\ Pieces(t) = << <<t, 1>>, <<t, 2>> >>
BY DEF KeyPiece, Pieces

LEMMA WholeIs ==
    ASSUME NEW r \in Taking, NEW t \in Split
    PROVE  WholeTaken(WholeKey(r, t), r, t)
<1>1. PICK b \in KeyPiece, c \in KeyPiece : b = <<t, 1>> /\ c = <<t, 2>> /\ Pieces(t) = <<b, c>>
  BY SplitPieces
<1>2. PICK p : p = Pass(r, Pieces(t)) /\ Passes(p, r, <<b, c>>, c) /\ p.submit = r.submit
  BY <1>1, PassTwo
<1>3. PICK q : q = WholeKey(r, t)
  OBVIOUS
<1>4. p \in Taking /\ r.in_paste \in BOOLEAN
  BY <1>2, TakingIs DEF Passes
<1>5. CASE r.in_paste
  <2>1. PICK x \in BOOLEAN : x = (t # "paste_end")
    OBVIOUS
  <2>2. q = [p EXCEPT !.in_paste = x]
    BY <1>2, <1>3, <1>5, <2>1 DEF WholeKey
  <2>3. /\ q \in Taking /\ q.out = p.out /\ q.in_paste = x /\ q.prev = p.prev /\ q.submit = p.submit
        /\ q.ctrl_z = p.ctrl_z /\ q.start = p.start
    BY <1>4, <2>2 DEF Taking
  <2> QED
    BY <1>1, <1>2, <1>3, <1>5, <2>1, <2>3 DEF WholeTaken, Passes
<1>6. CASE ~r.in_paste /\ t = "paste_start"
  <2>1. q = [p EXCEPT !.in_paste = TRUE]
    BY <1>2, <1>3, <1>6 DEF WholeKey
  <2>2. /\ q \in Taking /\ q.out = p.out /\ q.in_paste /\ q.prev = p.prev /\ q.submit = p.submit
        /\ q.ctrl_z = p.ctrl_z /\ q.start = p.start
    BY <1>4, <2>1 DEF Taking
  <2> QED
    BY <1>1, <1>2, <1>3, <1>6, <2>2 DEF WholeTaken, Passes
<1>7. CASE ~r.in_paste /\ t = "kitty_ctrl_z"
  <2>1. q = [r EXCEPT !.ctrl_z = TRUE]
    BY <1>3, <1>7 DEF WholeKey
  <2>2. q \in Taking /\ q.start = r.start /\ Same(q, r) /\ q.ctrl_z
    BY <2>1 DEF Taking, Same
  <2> QED
    BY <1>3, <1>7, <2>2 DEF WholeTaken
<1>8. CASE ~r.in_paste /\ t = "kitty_enter"
  <2>1. q = [p EXCEPT !.submit = TRUE]
    BY <1>2, <1>3, <1>8 DEF WholeKey
  <2>2. /\ q \in Taking /\ q.out = p.out /\ q.in_paste = p.in_paste /\ q.prev = p.prev /\ q.submit
        /\ q.ctrl_z = p.ctrl_z /\ q.start = p.start
    BY <1>4, <2>1 DEF Taking
  <2> QED
    BY <1>1, <1>2, <1>3, <1>8, <2>2 DEF WholeTaken, Passes
<1>9. CASE ~r.in_paste /\ t \notin {"paste_start", "kitty_ctrl_z", "kitty_enter"}
  <2>1. q = p
    BY <1>2, <1>3, <1>9 DEF WholeKey
  <2> QED
    BY <1>1, <1>2, <1>3, <1>9, <2>1 DEF WholeTaken, Passes
<1> QED
  BY <1>5, <1>6, <1>7, <1>8, <1>9

Begun(r, start) == [r EXCEPT !.start = start]

LEMMA BegunIs ==
    ASSUME NEW r \in Taking, NEW s \in Starts, NEW q, q = Begun(r, s)
    PROVE  /\ q \in Taking /\ q.out = r.out /\ q.in_paste = r.in_paste /\ q.prev = r.prev
           /\ q.submit = r.submit /\ q.ctrl_z = r.ctrl_z /\ q.start = s
BY DEF Begun, Taking

Completes(r, c) == r.start # <<>> /\ RestOf(r.start[1], c)

LEMMA CompletesIs ==
    ASSUME NEW r \in Taking, NEW c \in KeyPiece, Completes(r, c)
    PROVE  /\ c[1] \in Split /\ r.start = << <<c[1], 1>> >> /\ c = <<c[1], 2>> /\ ~MayStart(c)
           /\ r.start[1] \in KeyPiece
<1>1. PICK s : s = r.start[1]
  OBVIOUS
<1>2. s \in KeyPiece /\ r.start = <<s>>
  BY <1>1, TakingIs, StartIs DEF Completes
<1>3. s[1] = c[1] /\ s[2] = 1 /\ c[2] = 2
  BY <1>1 DEF Completes, RestOf
<1>4. c[1] \in Split /\ c = <<c[1], c[2]>>
  BY <1>3, PieceIs
<1>5. s = <<s[1], s[2]>>
  BY <1>2, PieceIs
<1>6. c[1] # "esc"
  BY <1>4 DEF Split
<1> QED
  BY <1>1, <1>2, <1>3, <1>4, <1>5, <1>6 DEF MayStart

LEMMA TakePieceIs ==
    ASSUME NEW r \in Taking, NEW c \in KeyPiece
    PROVE  /\ Completes(r, c) => TakePiece(r, c) = WholeKey(Begun(r, <<>>), c[1])
           /\ ~Completes(r, c) /\ MayStart(c) => TakePiece(r, c) = Begun(Released(r), <<c>>)
           /\ ~Completes(r, c) /\ ~MayStart(c) => TakePiece(r, c) = Key(Released(r), c)
<1>1. Completes(r, c) => TakePiece(r, c) = WholeKey(Begun(r, <<>>), c[1])
  BY DEF Completes, TakePiece, Begun
<1>2. ~Completes(r, c) /\ MayStart(c) => TakePiece(r, c) = Begun(Released(r), <<c>>)
  BY DEF Completes, TakePiece, Begun
<1>3. ~Completes(r, c) /\ ~MayStart(c) => TakePiece(r, c) = Key(Released(r), c)
  BY DEF Completes, TakePiece
<1> QED
  BY <1>1, <1>2, <1>3

LEMMA TakePieceTyped ==
    ASSUME NEW r \in Taking, NEW c \in KeyPiece
    PROVE  TakePiece(r, c) \in Taking
<1>1. CASE Completes(r, c)
  <2>1. c[1] \in Split /\ <<>> \in Starts
    BY <1>1, CompletesIs DEF Starts
  <2>2. Begun(r, <<>>) \in Taking
    BY <2>1, BegunIs
  <2>3. WholeKey(Begun(r, <<>>), c[1]) \in Taking
    BY <2>1, <2>2, WholeIs DEF WholeTaken
  <2> QED
    BY <1>1, <2>3, TakePieceIs, Zenon
<1>2. Released(r) \in Taking
  BY ReleasedIs DEF Let
<1>3. CASE ~Completes(r, c) /\ MayStart(c)
  <2>1. Begun(Released(r), <<c>>) \in Taking
    BY <1>2, <1>3, StartOne, BegunIs
  <2> QED
    BY <1>3, <2>1, TakePieceIs, Zenon
<1>4. CASE ~Completes(r, c) /\ ~MayStart(c)
  <2>1. Key(Released(r), c) \in Taking
    BY <1>2, KeyIs
  <2> QED
    BY <1>4, <2>1, TakePieceIs, Zenon
<1> QED
  BY <1>1, <1>3, <1>4

TakeOp == [x \in Taking \X KeyPiece |-> TakePiece(x[1], x[2])]

LEMMA TakeFolds ==
    ASSUME NEW m \in Taking, NEW s \in Seq(KeyPiece)
    PROVE  FoldsTo(TakeOp, Taking, m, s, FoldLeft(TakePiece, m, s))
<1> DEFINE D == SUBSET (DOMAIN s)
           G(f) == f = [x \in D |-> IF x = {} THEN m ELSE TakePiece(f[x \ {Max(x)}], s[Max(x)])]
<1>1. FoldLeft(TakePiece, m, s) = (CHOOSE f : G(f))[DOMAIN s]
  BY Zenon DEF FoldLeft, MapThenFoldSet
<1>2. TakeOp \in [Taking \X KeyPiece -> Taking]
  BY TakePieceTyped DEF TakeOp
<1>3. PICK f \in [D -> Taking] : IsFold(TakeOp, m, s, f)
  BY <1>2, FoldExists, Zenon
<1>4. ASSUME NEW x \in D, x # {}, NEW g \in [D -> Taking]
      PROVE  TakeOp[g[x \ {Max(x)}], s[Max(x)]] = TakePiece(g[x \ {Max(x)}], s[Max(x)])
  <2>1. PICK n \in Nat : n = Len(s) /\ DOMAIN s = 1 .. n
    OBVIOUS
  <2>2. Max(x) \in 1 .. n /\ x \ {Max(x)} \in D
    BY <1>4, <2>1, MaxIsGreatest
  <2>3. g[x \ {Max(x)}] \in Taking /\ s[Max(x)] \in KeyPiece
    BY <2>1, <2>2
  <2> QED
    BY <2>3 DEF TakeOp
<1>5. G(f)
  <2>1. f = [x \in D |-> IF x = {} THEN m ELSE TakeOp[f[x \ {Max(x)}], s[Max(x)]]]
    BY <1>3, Zenon DEF IsFold
  <2>2. \A x \in D : f[x] = IF x = {} THEN m ELSE TakePiece(f[x \ {Max(x)}], s[Max(x)])
    BY <1>4, <2>1
  <2> QED
    BY <2>2
<1>6. PICK g : g = (CHOOSE f1 : G(f1)) /\ G(g)
  BY <1>5, Zenon
<1>7. g[{}] = m
  <2>1. {} \in D
    OBVIOUS
  <2> QED
    BY <1>6, <2>1, Zenon
<1>8. ASSUME NEW i \in 1 .. Len(s), g[1 .. i - 1] \in Taking
      PROVE  g[1 .. i] = TakeOp[g[1 .. i - 1], s[i]]
  <2>1. PICK n \in Nat : n = Len(s) /\ DOMAIN s = 1 .. n /\ i \in 1 .. n
    OBVIOUS
  <2>2. 1 .. i \in D /\ 1 .. i # {} /\ (1 .. i) \ {i} = 1 .. i - 1 /\ Max(1 .. i) = i
    BY <2>1, Segments, Zenon
  <2>3. g[1 .. i] = TakePiece(g[(1 .. i) \ {Max(1 .. i)}], s[Max(1 .. i)])
    BY <1>6, <2>2, Zenon
  <2>4. g[1 .. i] = TakePiece(g[1 .. i - 1], s[i])
    BY <2>2, <2>3, Zenon
  <2>5. s[i] \in KeyPiece
    OBVIOUS
  <2>6. TakeOp[g[1 .. i - 1], s[i]] = TakePiece(g[1 .. i - 1], s[i])
    BY <1>8, <2>5 DEF TakeOp
  <2> QED
    BY <2>4, <2>6, Zenon
<1> HIDE DEF D, G
<1>a. Accumulates(g, TakeOp, Taking, m, s)
  BY <1>7, <1>8, Zenon DEF Accumulates
<1>9. FoldsTo(TakeOp, Taking, m, s, g[DOMAIN s])
  BY <1>2, <1>a, FoldRun, Zenon
<1> QED
  BY <1>1, <1>6, <1>9, Zenon

\* Piece by piece, v is what becomes of r.
TakesTo(r, s, v) == FoldsTo(TakeOp, Taking, r, s, v)

LEMMA TakeOpIs ==
    /\ TakeOp \in [Taking \X KeyPiece -> Taking]
    /\ \A r \in Taking, c \in KeyPiece : TakeOp[r, c] = TakePiece(r, c)
BY TakePieceTyped DEF TakeOp

LEMMA TakesToOne ==
    ASSUME NEW r, NEW s \in Seq(KeyPiece), NEW v, NEW u, TakesTo(r, s, v), TakesTo(r, s, u)
    PROVE  v = u /\ v \in Taking
<1>1. Len(s) \in Nat
  OBVIOUS
<1> QED
  BY <1>1, FoldsToOne DEF TakesTo

LEMMA TakesToThat ==
    ASSUME NEW r \in Taking, NEW s \in Seq(KeyPiece)
    PROVE  TakesTo(r, s, FoldLeft(TakePiece, r, s)) /\ FoldLeft(TakePiece, r, s) \in Taking
<1>1. TakesTo(r, s, FoldLeft(TakePiece, r, s))
  BY TakeFolds, Zenon DEF TakesTo
<1>2. FoldLeft(TakePiece, r, s) \in Taking
  BY <1>1, TakesToOne, Zenon
<1> QED
  BY <1>1, <1>2

LEMMA TakesToJoined ==
    ASSUME NEW r, NEW s \in Seq(KeyPiece), NEW t \in Seq(KeyPiece), NEW v, NEW u,
           TakesTo(r, s, v), TakesTo(v, t, u)
    PROVE  TakesTo(r, s \o t, u)
BY FoldsToJoined, Zenon DEF TakesTo

LEMMA TakesToNothing == \A r \in Taking : TakesTo(r, <<>>, r)
BY FoldsToNothing, Zenon DEF TakesTo

LEMMA TakesToNext ==
    ASSUME NEW r \in Taking, NEW c \in KeyPiece
    PROVE  TakesTo(r, <<c>>, TakePiece(r, c))
<1>1. FoldsTo(TakeOp, Taking, r, <<c>>, TakeOp[r, c])
  BY TakeOpIs, FoldsToNext, Zenon
<1>2. PICK u : u = TakePiece(r, c)
  OBVIOUS
<1>3. TakeOp[r, c] = u
  BY <1>2, TakeOpIs
<1>4. TakesTo(r, <<c>>, u)
  BY <1>1, <1>3, Zenon DEF TakesTo
<1> QED
  BY <1>2, <1>4, Zenon

LEMMA TakesToRest ==
    ASSUME NEW r \in Taking, NEW s \in Seq(KeyPiece), s # <<>>, NEW v, TakesTo(r, s, v)
    PROVE  TakesTo(TakePiece(r, Head(s)), Tail(s), v)
<1>1. FoldsTo(TakeOp, Taking, TakeOp[r, Head(s)], Tail(s), v)
  BY FoldsToRest, Zenon DEF TakesTo
<1>2. PICK u : u = TakePiece(r, Head(s))
  OBVIOUS
<1>3. Head(s) \in KeyPiece
  OBVIOUS
<1>4. TakeOp[r, Head(s)] = u
  BY <1>2, <1>3, TakeOpIs
<1>5. TakesTo(u, Tail(s), v)
  BY <1>1, <1>4, Zenon DEF TakesTo
<1> QED
  BY <1>2, <1>5, Zenon

\* What holds after each piece if it did before it holds of the end.
LEMMA RunStays ==
    ASSUME NEW r, NEW s \in Seq(KeyPiece), NEW v, TakesTo(r, s, v), NEW P, r \in P,
           \A p \in P \cap Taking : \A c \in KeyPiece : TakePiece(p, c) \in P
    PROVE  v \in P
<1>1. PICK n \in Nat : n = Len(s)
  OBVIOUS
<1>2. PICK f \in [0 .. n -> Taking] : IsRun(TakeOp, r, s, f) /\ v = f[n]
  BY <1>1, Zenon DEF TakesTo, FoldsTo
<1> DEFINE S == {i \in 0 .. n : f[i] \in P}
<1>3. 0 \in S
  <2>1. 0 \in 0 .. n
    OBVIOUS
  <2>2. f[0] = r
    BY <1>2, Zenon DEF IsRun
  <2> QED
    BY <2>1, <2>2
<1>4. ASSUME NEW k \in 0 .. n - 1, k \in S PROVE k + 1 \in S
  <2>1. k + 1 \in 1 .. n /\ k + 1 \in 0 .. n /\ (k + 1) - 1 = k /\ k \in 0 .. n /\ k + 1 \in 1 .. Len(s)
    BY <1>1
  <2>2. f[k + 1] = TakeOp[f[k], s[k + 1]]
    BY <1>2, <2>1 DEF IsRun
  <2>3. s[k + 1] \in KeyPiece /\ f[k] \in Taking /\ f[k] \in P
    BY <1>1, <1>2, <1>4, <2>1
  <2>4. f[k + 1] = TakePiece(f[k], s[k + 1])
    BY <2>2, <2>3, TakeOpIs
  <2>5. f[k + 1] \in P
    BY <2>3, <2>4
  <2> QED
    BY <2>1, <2>5
<1> HIDE DEF S
<1>5. 0 .. n \subseteq S
  BY <1>3, <1>4, Induction
<1>6. n \in S
  BY <1>5
<1> QED
  BY <1>2, <1>6 DEF S

\* What a function of the state commutes with, piece by piece, it commutes with at the end.
LEMMA RunMapped ==
    ASSUME NEW h \in [Taking -> Taking], \A p \in Taking : \A c \in KeyPiece : TakePiece(h[p], c) = h[TakePiece(p, c)],
           NEW r \in Taking, NEW s \in Seq(KeyPiece), NEW v, TakesTo(r, s, v)
    PROVE  TakesTo(h[r], s, h[v])
<1>1. PICK n \in Nat : n = Len(s)
  OBVIOUS
<1>2. PICK f \in [0 .. n -> Taking] : IsRun(TakeOp, r, s, f) /\ v = f[n]
  BY <1>1, Zenon DEF TakesTo, FoldsTo
<1>3. PICK g : g = [i \in 0 .. n |-> h[f[i]]]
  OBVIOUS
<1>4. g \in [0 .. n -> Taking] /\ \A i \in 0 .. n : g[i] = h[f[i]]
  BY <1>2, <1>3
<1>5. ASSUME NEW i \in 1 .. n PROVE g[i] = TakeOp[g[i - 1], s[i]]
  <2>1. i \in 0 .. n /\ i - 1 \in 0 .. n /\ i \in 1 .. Len(s) /\ s[i] \in KeyPiece
    BY <1>1
  <2>2. f[i] = TakeOp[f[i - 1], s[i]] /\ f[i - 1] \in Taking
    BY <1>2, <2>1 DEF IsRun
  <2>3. f[i] = TakePiece(f[i - 1], s[i])
    BY <2>1, <2>2, TakeOpIs
  <2>4. TakePiece(h[f[i - 1]], s[i]) = h[TakePiece(f[i - 1], s[i])]
    BY <2>1, <2>2, Zenon
  <2>5. TakeOp[g[i - 1], s[i]] = TakePiece(g[i - 1], s[i])
    BY <1>4, <2>1, TakeOpIs
  <2> QED
    BY <1>4, <2>1, <2>3, <2>4, <2>5
<1>6. g[0] = h[r] /\ g[n] = h[v]
  <2>1. 0 \in 0 .. n /\ n \in 0 .. n
    OBVIOUS
  <2>2. f[0] = r
    BY <1>2, Zenon DEF IsRun
  <2> QED
    BY <1>2, <1>4, <2>1, <2>2
<1>7. IsRun(TakeOp, h[r], s, g)
  BY <1>1, <1>5, <1>6, Zenon DEF IsRun
<1> QED
  BY <1>1, <1>4, <1>6, <1>7, Zenon DEF TakesTo, FoldsTo

LEMMA LetIs ==
    ASSUME NEW r \in Taking
    PROVE  Released(r) \in Taking /\ Let(Released(r), r)
BY ReleasedIs, Zenon DEF Let

\* It makes no difference whether what was the start of nothing is released before the next piece ...
LEMMA ReleasedBefore ==
    ASSUME NEW r \in Taking, NEW c \in KeyPiece, ~Completes(r, c)
    PROVE  TakePiece(Released(r), c) = TakePiece(r, c)
<1>1. PICK x \in Taking : x = Released(r) /\ x.start = <<>>
  BY LetIs, Zenon DEF Let
<1>2. ~Completes(x, c)
  BY <1>1 DEF Completes
<1>3. Released(x) = x
  BY <1>1, ReleasedNone
<1>4. CASE MayStart(c)
  <2>1. TakePiece(x, c) = Begun(Released(x), <<c>>) /\ TakePiece(r, c) = Begun(x, <<c>>)
    BY <1>1, <1>2, <1>4, TakePieceIs
  <2> QED
    BY <1>1, <1>3, <2>1
<1>5. CASE ~MayStart(c)
  <2>1. TakePiece(x, c) = Key(Released(x), c) /\ TakePiece(r, c) = Key(x, c)
    BY <1>1, <1>2, <1>5, TakePieceIs
  <2> QED
    BY <1>1, <1>3, <2>1
<1> QED
  BY <1>4, <1>5

LEMMA TwoJoined ==
    ASSUME NEW s \in Seq(KeyPiece), NEW b \in KeyPiece, NEW c \in KeyPiece
    PROVE  (s \o <<b>>) \o <<c>> = s \o <<b, c>>
<1>1. PICK n \in Nat : n = Len(s)
  OBVIOUS
<1>2. PICK x \in Seq(KeyPiece) : x = s \o <<b>>
  BY OnePiece, Zenon
<1>3. PICK y \in Seq(KeyPiece) : y = x \o <<c>>
  BY OnePiece, Zenon
<1>4. PICK z \in Seq(KeyPiece) : z = s \o <<b, c>>
  <2>1. <<b, c>> \in Seq(KeyPiece)
    OBVIOUS
  <2>2. s \o <<b, c>> \in Seq(KeyPiece)
    BY <2>1
  <2> QED
    BY <2>2, Zenon
<1>5. Len(x) = n + 1 /\ x[n + 1] = b /\ \A i \in 1 .. n : x[i] = s[i]
  BY <1>1, <1>2
<1>6. Len(y) = n + 2 /\ y[n + 2] = c /\ \A i \in 1 .. n + 1 : y[i] = x[i]
  BY <1>3, <1>5
<1>7. Len(z) = n + 2 /\ z[n + 1] = b /\ z[n + 2] = c /\ \A i \in 1 .. n : z[i] = s[i]
  BY <1>1, <1>4
<1>8. \A i \in 1 .. n + 2 : y[i] = z[i]
  <2>1. \A i \in 1 .. n + 2 : i = n + 1 \/ i = n + 2 \/ i \in 1 .. n
    OBVIOUS
  <2>2. \A i \in 1 .. n : y[i] = z[i]
    BY <1>5, <1>6, <1>7
  <2>3. y[n + 1] = z[n + 1] /\ y[n + 2] = z[n + 2]
    BY <1>5, <1>6, <1>7
  <2> QED
    BY <2>1, <2>2, <2>3
<1>9. y = z
  <2>1. Len(y) = Len(z) /\ \A i \in 1 .. Len(y) : y[i] = z[i]
    BY <1>6, <1>7, <1>8
  <2> QED
    BY <2>1, SeqEqual, Zenon
<1> QED
  BY <1>2, <1>3, <1>4, <1>9, Zenon

\* ... and none if it is the start of a sequence that has no meaning here.
LEMMA ReleasedEarly ==
    ASSUME NEW r \in Taking, ~Holds(r.start, r.in_paste), NEW c \in KeyPiece, Completes(r, c)
    PROVE  TakePiece(Released(r), c) = TakePiece(r, c)
<1>1. PICK t \in Split : t = c[1]
  BY CompletesIs
<1>2. PICK b \in KeyPiece : b = <<t, 1>> /\ r.start = <<b>> /\ c = <<t, 2>> /\ ~MayStart(c)
  BY <1>1, CompletesIs
<1>3. t \notin Markers(r.in_paste)
  BY <1>2 DEF Holds
<1>4. PICK x \in Taking : x = Released(r) /\ Let(x, r)
  BY LetIs, Zenon
<1>5. x.start = <<>> /\ x.out = r.out \o <<b>> /\ x.in_paste = r.in_paste /\ x.submit = r.submit /\ x.ctrl_z = r.ctrl_z
  BY <1>2, <1>4 DEF Let
<1>6. ~Completes(x, c) /\ Released(x) = x
  BY <1>5, ReleasedNone DEF Completes
<1>7. PICK u \in Taking : u = TakePiece(x, c) /\ u = Key(x, c)
  <2>1. TakePiece(x, c) = Key(x, c)
    BY <1>2, <1>6, TakePieceIs
  <2> QED
    BY <2>1, TakePieceTyped
<1>8. c[1] # "ctrl_z" /\ c[1] # "cr" /\ <<>> \in Starts
  BY <1>1 DEF Split, Starts
<1>9. Passes(u, x, <<c>>, c) /\ (u.submit <=> x.submit)
  BY <1>7, <1>8, KeyIs
<1>10. PICK z \in Taking : z = Begun(r, <<>>) /\ z.out = r.out /\ z.in_paste = r.in_paste /\ z.prev = r.prev
           /\ z.submit = r.submit /\ z.ctrl_z = r.ctrl_z /\ z.start = <<>>
  BY <1>8, BegunIs
<1>11. PICK v \in Taking : v = TakePiece(r, c) /\ WholeTaken(v, z, t)
  <2>1. TakePiece(r, c) = WholeKey(z, t)
    BY <1>1, <1>10, TakePieceIs
  <2>2. WholeTaken(WholeKey(z, t), z, t)
    BY WholeIs
  <2> QED
    BY <2>1, <2>2, TakePieceTyped
<1>12. /\ v.start = <<>> /\ v.out = r.out \o <<b, c>> /\ v.prev = c /\ v.ctrl_z = r.ctrl_z
       /\ (v.in_paste <=> r.in_paste) /\ (v.submit <=> r.submit)
  <2>1. ~(~z.in_paste /\ t = "kitty_ctrl_z")
    BY <1>3, <1>10 DEF Markers
  <2>2. z.in_paste => t # "paste_end"
    BY <1>3, <1>10 DEF Markers
  <2>3. ~z.in_paste => t # "paste_start" /\ t # "kitty_enter"
    BY <1>3, <1>10 DEF Markers
  <2>4. /\ v.start = z.start
        /\ v.out = z.out \o << <<t, 1>>, <<t, 2>> >> /\ v.prev = <<t, 2>> /\ v.ctrl_z = z.ctrl_z
        /\ (v.in_paste <=> IF z.in_paste THEN t # "paste_end" ELSE t = "paste_start")
        /\ (v.submit <=> z.submit \/ (~z.in_paste /\ t = "kitty_enter"))
    BY <1>11, <2>1 DEF WholeTaken
  <2>5. (v.in_paste <=> z.in_paste) /\ (v.submit <=> z.submit)
    BY <2>2, <2>3, <2>4
  <2> QED
    BY <1>2, <1>10, <2>4, <2>5
<1>13. u.out = v.out
  <2>1. r.out \in Seq(KeyPiece)
    BY TakingIs
  <2>2. (r.out \o <<b>>) \o <<c>> = r.out \o <<b, c>>
    BY <2>1, TwoJoined, Zenon
  <2>3. u.out = x.out \o <<c>>
    BY <1>9 DEF Passes
  <2> QED
    BY <1>5, <1>12, <2>2, <2>3, Zenon
<1>14. u = v
  BY <1>5, <1>9, <1>12, <1>13, SameTaking DEF Passes
<1> QED
  BY <1>4, <1>7, <1>11, <1>14

LEMMA ReleasedAny ==
    ASSUME NEW r \in Taking, ~Holds(r.start, r.in_paste), NEW w \in Seq(KeyPiece),
           NEW v, TakesTo(r, w, v), NEW u, TakesTo(Released(r), w, u)
    PROVE  Released(u) = Released(v)
<1>1. PICK x \in Taking : x = Released(r) /\ x.start = <<>>
  BY LetIs, Zenon DEF Let
<1>2. CASE w = <<>>
  <2>1. TakesTo(r, w, r) /\ TakesTo(x, w, x)
    BY <1>2, TakesToNothing
  <2>2. v = r /\ u = x
    BY <1>1, <2>1, TakesToOne
  <2>3. Released(x) = x
    BY <1>1, ReleasedNone
  <2> QED
    BY <1>1, <2>2, <2>3
<1>3. CASE w # <<>>
  <2>1. Head(w) \in KeyPiece /\ Tail(w) \in Seq(KeyPiece)
    BY <1>3
  <2>2. PICK c \in KeyPiece : c = Head(w)
    BY <2>1
  <2>3. TakePiece(x, c) = TakePiece(r, c)
    BY <1>1, ReleasedBefore, ReleasedEarly
  <2>4. TakesTo(TakePiece(r, c), Tail(w), v)
    BY <1>3, <2>2, TakesToRest
  <2>5. TakesTo(TakePiece(x, c), Tail(w), u)
    BY <1>1, <1>3, <2>2, TakesToRest
  <2>6. PICK y : y = TakePiece(r, c)
    OBVIOUS
  <2>7. TakesTo(y, Tail(w), v) /\ TakesTo(y, Tail(w), u)
    BY <2>3, <2>4, <2>5, <2>6, Zenon
  <2>8. u = v
    BY <2>1, <2>7, TakesToOne
  <2> QED
    BY <2>8
<1> QED
  BY <1>2, <1>3

-----------------------------------------------------------------------------
(* A read starts with nothing passed: what came before is put in front.    *)

Before == [out : Seq(KeyPiece), submit : BOOLEAN, ctrl_z : BOOLEAN]
Over(b, r) == [r EXCEPT !.out = b.out \o r.out, !.submit = b.submit \/ r.submit, !.ctrl_z = b.ctrl_z \/ r.ctrl_z]
IsOver(q, b, r) ==
    /\ q \in Taking /\ q.out = b.out \o r.out /\ q.in_paste = r.in_paste /\ q.prev = r.prev /\ q.start = r.start
    /\ q.submit <=> b.submit \/ r.submit
    /\ q.ctrl_z <=> b.ctrl_z \/ r.ctrl_z

LEMMA OverIs ==
    ASSUME NEW b \in Before, NEW r \in Taking
    PROVE  IsOver(Over(b, r), b, r)
<1>1. PICK o \in Seq(KeyPiece) : o = b.out \o r.out
  <2>1. b.out \in Seq(KeyPiece) /\ r.out \in Seq(KeyPiece)
    BY TakingIs DEF Before
  <2>2. b.out \o r.out \in Seq(KeyPiece)
    BY <2>1
  <2> QED
    BY <2>2, Zenon
<1>2. PICK s \in BOOLEAN, z \in BOOLEAN : s = (b.submit \/ r.submit) /\ z = (b.ctrl_z \/ r.ctrl_z)
  OBVIOUS
<1>3. PICK q : q = [r EXCEPT !.out = o, !.submit = s, !.ctrl_z = z]
  OBVIOUS
<1>4. Over(b, r) = q
  BY <1>1, <1>2, <1>3, Zenon DEF Over
<1>5. /\ q \in Taking /\ q.out = o /\ q.in_paste = r.in_paste /\ q.prev = r.prev /\ q.submit = s
      /\ q.ctrl_z = z /\ q.start = r.start
  BY <1>3 DEF Taking
<1> QED
  BY <1>1, <1>2, <1>4, <1>5 DEF IsOver

LEMMA SameOver ==
    ASSUME NEW b \in Before, NEW r \in Taking, NEW q \in Taking, IsOver(q, b, r)
    PROVE  q = Over(b, r)
<1>1. PICK p \in Taking : p = Over(b, r) /\ IsOver(p, b, r)
  BY OverIs, Zenon DEF IsOver
<1>2. p.out = q.out /\ p.in_paste = q.in_paste /\ p.prev = q.prev /\ p.start = q.start
  BY <1>1 DEF IsOver
<1>3. (p.submit <=> q.submit) /\ (p.ctrl_z <=> q.ctrl_z)
  BY <1>1, Zenon DEF IsOver
<1>4. q = p
  BY <1>2, <1>3, SameTaking
<1> QED
  BY <1>1, <1>4

Grouped(s, t, u) == (s \o t) \o u = s \o (t \o u)

LEMMA Regroups ==
    ASSUME NEW s \in Seq(KeyPiece), NEW t \in Seq(KeyPiece), NEW u \in Seq(KeyPiece)
    PROVE  Grouped(s, t, u)
BY ConcatAssociative, SMT DEF Grouped

Ahead(b, x, y) == Over(b, x) = y

LEMMA OverKeeps ==
    ASSUME NEW b \in Before, NEW r \in Taking, NEW q \in Taking, IsOver(q, b, r)
    PROVE  /\ Ahead(b, Released(r), Released(q))
           /\ \A s \in Starts : Ahead(b, Begun(r, s), Begun(q, s))
           /\ \A c \in KeyPiece : Ahead(b, Key(r, c), Key(q, c))
           /\ \A t \in Split : Ahead(b, WholeKey(r, t), WholeKey(q, t))
<1>1. b.out \in Seq(KeyPiece) /\ r.out \in Seq(KeyPiece)
  BY TakingIs DEF Before
<1>2. ASSUME NEW s \in Seq(KeyPiece)
      PROVE  b.out \o (r.out \o s) = (b.out \o r.out) \o s
  BY <1>1, Regroups, Zenon DEF Grouped
<1>3. Over(b, Released(r)) = Released(q)
  <2>1. PICK u \in Taking : u = Released(r) /\ Let(u, r)
    BY LetIs, ReleasedIs, Zenon
  <2>2. PICK v \in Taking : v = Released(q) /\ Let(v, q)
    BY LetIs, ReleasedIs, Zenon
  <2>3. r.start \in Seq(KeyPiece) /\ r.start = q.start
    BY TakingIs, StartSeq DEF IsOver
  <2>4. v.out = b.out \o u.out
    <3>1. u.out = r.out \o r.start /\ v.out = (b.out \o r.out) \o r.start
      BY <2>1, <2>2, <2>3 DEF Let, IsOver
    <3> QED
      BY <1>2, <2>3, <3>1, Zenon
  <2>5. v.in_paste = u.in_paste /\ v.prev = u.prev /\ v.start = u.start
    BY <2>1, <2>2, <2>3 DEF Let, IsOver
  <2>6. (v.submit <=> b.submit \/ u.submit) /\ (v.ctrl_z <=> b.ctrl_z \/ u.ctrl_z)
    BY <2>1, <2>2 DEF Let, IsOver
  <2>7. IsOver(v, b, u)
    BY <2>4, <2>5, <2>6 DEF IsOver
  <2> QED
    BY <2>1, <2>2, <2>7, SameOver
<1>4. ASSUME NEW s \in Starts
      PROVE  Over(b, Begun(r, s)) = Begun(q, s)
  <2>1. PICK u \in Taking : u = Begun(r, s)
    BY BegunIs
  <2>2. PICK v \in Taking : v = Begun(q, s)
    BY BegunIs
  <2>3. /\ u.out = r.out /\ u.in_paste = r.in_paste /\ u.prev = r.prev /\ u.submit = r.submit
        /\ u.ctrl_z = r.ctrl_z /\ u.start = s
    BY <2>1, BegunIs
  <2>4. /\ v.out = q.out /\ v.in_paste = q.in_paste /\ v.prev = q.prev /\ v.submit = q.submit
        /\ v.ctrl_z = q.ctrl_z /\ v.start = s
    BY <2>2, BegunIs
  <2>5. IsOver(v, b, u)
    BY <2>3, <2>4 DEF IsOver
  <2> QED
    BY <2>1, <2>2, <2>5, SameOver
<1>5. ASSUME NEW c \in KeyPiece
      PROVE  Over(b, Key(r, c)) = Key(q, c)
  <2>1. PICK u \in Taking : u = Key(r, c)
    BY KeyIs
  <2>2. PICK v \in Taking : v = Key(q, c)
    BY KeyIs
  <2>3. q.in_paste = r.in_paste /\ q.prev = r.prev /\ q.start = r.start /\ q.out = b.out \o r.out
        /\ (q.submit <=> b.submit \/ r.submit) /\ (q.ctrl_z <=> b.ctrl_z \/ r.ctrl_z)
    BY DEF IsOver
  <2>4. CASE ~r.in_paste /\ c[1] = "ctrl_z"
    <3>0. ~q.in_paste /\ c[1] = "ctrl_z"
      BY <2>3, <2>4
    <3>1. Same(u, r) /\ u.ctrl_z /\ u.start = r.start
      BY <2>1, <2>4, KeyIs
    <3>2. Same(v, q) /\ v.ctrl_z /\ v.start = q.start
      BY <2>2, <3>0, KeyIs
    <3>3. IsOver(v, b, u)
      BY <2>3, <3>1, <3>2 DEF IsOver, Same
    <3> QED
      BY <2>1, <2>2, <3>3, SameOver
  <2>5. CASE ~(~r.in_paste /\ c[1] = "ctrl_z")
    <3>1. Passes(u, r, <<c>>, c) /\ (u.submit <=> r.submit \/ (~r.in_paste /\ c[1] = "cr" /\ ~Newline(r.prev)))
      BY <2>1, <2>5, KeyIs
    <3>2. Passes(v, q, <<c>>, c) /\ (v.submit <=> q.submit \/ (~q.in_paste /\ c[1] = "cr" /\ ~Newline(q.prev)))
      BY <2>2, <2>3, <2>5, KeyIs
    <3>3. v.out = b.out \o u.out
      <4>1. u.out = r.out \o <<c>> /\ v.out = (b.out \o r.out) \o <<c>> /\ <<c>> \in Seq(KeyPiece)
        BY <2>3, <3>1, <3>2 DEF Passes
      <4> QED
        BY <1>2, <4>1, Zenon
    <3>4. v.in_paste = u.in_paste /\ v.prev = u.prev /\ v.start = u.start
      BY <2>3, <3>1, <3>2 DEF Passes
    <3>5. (v.submit <=> b.submit \/ u.submit) /\ (v.ctrl_z <=> b.ctrl_z \/ u.ctrl_z)
      BY <2>3, <3>1, <3>2 DEF Passes
    <3>6. IsOver(v, b, u)
      BY <3>3, <3>4, <3>5 DEF IsOver
    <3> QED
      BY <2>1, <2>2, <3>6, SameOver
  <2> QED
    BY <2>4, <2>5
<1>6. ASSUME NEW t \in Split
      PROVE  Over(b, WholeKey(r, t)) = WholeKey(q, t)
  <2>1. PICK u \in Taking : u = WholeKey(r, t) /\ WholeTaken(u, r, t)
    BY WholeIs, Zenon DEF WholeTaken
  <2>2. PICK v \in Taking : v = WholeKey(q, t) /\ WholeTaken(v, q, t)
    BY WholeIs, Zenon DEF WholeTaken
  <2>3. q.in_paste = r.in_paste /\ q.prev = r.prev /\ q.start = r.start /\ q.out = b.out \o r.out
        /\ (q.submit <=> b.submit \/ r.submit) /\ (q.ctrl_z <=> b.ctrl_z \/ r.ctrl_z)
    BY DEF IsOver
  <2>4. u.start = r.start /\ v.start = q.start
    BY <2>1, <2>2 DEF WholeTaken
  <2>5. CASE ~r.in_paste /\ t = "kitty_ctrl_z"
    <3>1. Same(u, r) /\ u.ctrl_z
      BY <2>1, <2>5 DEF WholeTaken
    <3>2. Same(v, q) /\ v.ctrl_z
      BY <2>2, <2>3, <2>5 DEF WholeTaken
    <3>3. IsOver(v, b, u)
      BY <2>3, <2>4, <3>1, <3>2 DEF IsOver, Same
    <3> QED
      BY <2>1, <2>2, <3>3, SameOver
  <2>6. CASE ~(~r.in_paste /\ t = "kitty_ctrl_z")
    <3>0. PICK s \in Seq(KeyPiece) : s = << <<t, 1>>, <<t, 2>> >>
      <4>1. << <<t, 1>>, <<t, 2>> >> \in Seq(KeyPiece)
        BY SplitPieces
      <4> QED
        BY <4>1, Zenon
    <3>1. /\ u.out = r.out \o s /\ u.prev = <<t, 2>> /\ u.ctrl_z = r.ctrl_z
          /\ (u.in_paste <=> IF r.in_paste THEN t # "paste_end" ELSE t = "paste_start")
          /\ (u.submit <=> r.submit \/ (~r.in_paste /\ t = "kitty_enter"))
      BY <2>1, <2>6, <3>0 DEF WholeTaken
    <3>2. /\ v.out = q.out \o s /\ v.prev = <<t, 2>> /\ v.ctrl_z = q.ctrl_z
          /\ (v.in_paste <=> IF q.in_paste THEN t # "paste_end" ELSE t = "paste_start")
          /\ (v.submit <=> q.submit \/ (~q.in_paste /\ t = "kitty_enter"))
      BY <2>2, <2>3, <2>6, <3>0 DEF WholeTaken
    <3>3. v.out = b.out \o u.out
      <4>1. u.out = r.out \o s /\ v.out = (b.out \o r.out) \o s
        BY <2>3, <3>1, <3>2
      <4> QED
        BY <1>2, <4>1, Zenon
    <3>4. v.in_paste = u.in_paste
      <4>1. v.in_paste <=> u.in_paste
        BY <2>3, <3>1, <3>2
      <4> QED
        BY <4>1, TakingIs
    <3>5. v.prev = u.prev /\ v.start = u.start
      BY <2>3, <2>4, <3>1, <3>2
    <3>6. (v.submit <=> b.submit \/ u.submit) /\ (v.ctrl_z <=> b.ctrl_z \/ u.ctrl_z)
      BY <2>3, <3>1, <3>2
    <3>7. IsOver(v, b, u)
      BY <3>3, <3>4, <3>5, <3>6 DEF IsOver
    <3> QED
      BY <2>1, <2>2, <3>7, SameOver
  <2> QED
    BY <2>5, <2>6
<1> QED
  BY <1>3, <1>4, <1>5, <1>6, Zenon DEF Ahead

LEMMA OverTakes ==
    ASSUME NEW b \in Before, NEW r \in Taking, NEW c \in KeyPiece
    PROVE  TakePiece(Over(b, r), c) = Over(b, TakePiece(r, c))
<1>1. PICK q \in Taking : q = Over(b, r) /\ IsOver(q, b, r)
  BY OverIs, Zenon DEF IsOver
<1>2. q.start = r.start
  BY <1>1 DEF IsOver
<1>3. Completes(q, c) <=> Completes(r, c)
  BY <1>2 DEF Completes
<1>4. CASE Completes(r, c)
  <2>1. c[1] \in Split /\ <<>> \in Starts
    BY <1>4, CompletesIs DEF Starts
  <2>2. PICK r0 \in Taking : r0 = Begun(r, <<>>)
    BY <2>1, BegunIs
  <2>3. PICK q0 \in Taking : q0 = Begun(q, <<>>)
    BY <2>1, BegunIs
  <2>4. Ahead(b, r0, q0)
    BY <1>1, <2>1, <2>2, <2>3, OverKeeps, Zenon
  <2>5. IsOver(q0, b, r0)
    BY <2>4, OverIs, Zenon DEF Ahead
  <2>6. Ahead(b, WholeKey(r0, c[1]), WholeKey(q0, c[1]))
    BY <2>1, <2>5, OverKeeps, Zenon
  <2>7. TakePiece(r, c) = WholeKey(r0, c[1]) /\ TakePiece(q, c) = WholeKey(q0, c[1])
    BY <1>3, <1>4, <2>2, <2>3, TakePieceIs, Zenon
  <2> QED
    BY <1>1, <2>6, <2>7, Zenon DEF Ahead
<1>5. PICK r1 \in Taking : r1 = Released(r)
  BY LetIs, Zenon
<1>6. PICK q1 \in Taking : q1 = Released(q)
  BY LetIs, Zenon
<1>7. IsOver(q1, b, r1)
  <2>1. Ahead(b, r1, q1)
    BY <1>1, <1>5, <1>6, OverKeeps, Zenon
  <2> QED
    BY <2>1, OverIs, Zenon DEF Ahead
<1>8. CASE ~Completes(r, c) /\ MayStart(c)
  <2>1. <<c>> \in Starts
    BY <1>8, StartOne
  <2>2. Ahead(b, Begun(r1, <<c>>), Begun(q1, <<c>>))
    BY <1>7, <2>1, OverKeeps, Zenon
  <2>3. TakePiece(r, c) = Begun(r1, <<c>>) /\ TakePiece(q, c) = Begun(q1, <<c>>)
    BY <1>3, <1>5, <1>6, <1>8, TakePieceIs, Zenon
  <2> QED
    BY <1>1, <2>2, <2>3, Zenon DEF Ahead
<1>9. CASE ~Completes(r, c) /\ ~MayStart(c)
  <2>1. Ahead(b, Key(r1, c), Key(q1, c))
    BY <1>7, OverKeeps, Zenon
  <2>2. TakePiece(r, c) = Key(r1, c) /\ TakePiece(q, c) = Key(q1, c)
    BY <1>3, <1>5, <1>6, <1>9, TakePieceIs, Zenon
  <2> QED
    BY <1>1, <2>1, <2>2, Zenon DEF Ahead
<1> QED
  BY <1>4, <1>8, <1>9

\* What a read makes of its data does not depend on what was passed before.
LEMMA OverRun ==
    ASSUME NEW b \in Before, NEW r \in Taking, NEW s \in Seq(KeyPiece), NEW v, TakesTo(r, s, v)
    PROVE  TakesTo(Over(b, r), s, Over(b, v))
<1>1. PICK h \in [Taking -> Taking] : \A p \in Taking : h[p] = Over(b, p)
  <2>1. PICK h : h = [p \in Taking |-> Over(b, p)]
    OBVIOUS
  <2>2. \A p \in Taking : Over(b, p) \in Taking
    BY OverIs, Zenon DEF IsOver
  <2>3. h \in [Taking -> Taking]
    BY <2>1, <2>2
  <2>4. \A p \in Taking : h[p] = Over(b, p)
    BY <2>1
  <2> QED
    BY <2>3, <2>4
<1>2. ASSUME NEW p \in Taking, NEW c \in KeyPiece
      PROVE  TakePiece(h[p], c) = h[TakePiece(p, c)]
  <2>1. TakePiece(p, c) \in Taking
    BY TakePieceTyped
  <2>2. h[TakePiece(p, c)] = Over(b, TakePiece(p, c)) /\ h[p] = Over(b, p)
    BY <1>1, <2>1, Zenon
  <2> QED
    BY <2>2, OverTakes, Zenon
<1>3. TakesTo(h[r], s, h[v])
  BY <1>2, RunMapped, Zenon
<1>4. v \in Taking
  BY TakesToOne
<1> QED
  BY <1>1, <1>3, <1>4, Zenon

-----------------------------------------------------------------------------
(* A key as a whole.                                                       *)

Gone(z, t) == ~z.in_paste /\ t \in {"ctrl_z", "kitty_ctrl_z"}
Submits(z, t) == ~z.in_paste /\ (t = "kitty_enter" \/ (t = "cr" /\ ~Newline(z.prev)))
Typed(w, z, t) ==
    /\ w \in Taking
    /\ w.out = IF Gone(z, t) THEN z.out ELSE z.out \o Pieces(t)
    /\ w.in_paste <=> IF z.in_paste THEN t # "paste_end" ELSE t = "paste_start"
    /\ Newline(w.prev) <=> IF Gone(z, t) THEN Newline(z.prev) ELSE t \in {"esc", "backslash"}
    /\ w.submit <=> z.submit \/ Submits(z, t)
    /\ w.ctrl_z <=> z.ctrl_z \/ Gone(z, t)

LEMMA SingleTaken ==
    ASSUME NEW x \in Taking, NEW t \in Single, NEW v, TakesTo(x, Pieces(t), v)
    PROVE  Typed(Released(v), Released(x), t)
<1>1. PICK c \in KeyPiece : c = <<t, 0>> /\ Pieces(t) = <<c>> /\ t \notin Split
  BY DEF KeyPiece, Pieces, Split, Single
<1>2. PICK z \in Taking : z = Released(x) /\ z.start = <<>>
  BY LetIs, Zenon DEF Let
<1>3. v = TakePiece(x, c) /\ v \in Taking
  <2>1. <<c>> \in Seq(KeyPiece)
    OBVIOUS
  <2>2. PICK u : u = TakePiece(x, c)
    OBVIOUS
  <2>3. TakesTo(x, <<c>>, u)
    BY <2>2, TakesToNext, Zenon
  <2>4. TakesTo(x, <<c>>, v)
    BY <1>1
  <2> QED
    BY <2>1, <2>2, <2>3, <2>4, TakesToOne
<1>4. c[1] = t /\ c[2] = 0 /\ ~Completes(x, c) /\ t # "kitty_enter" /\ t # "kitty_ctrl_z" /\ t # "paste_end" /\ t # "paste_start"
  BY <1>1 DEF Completes, RestOf, Single, Split
<1>5. PICK w \in Taking : w = Released(v) /\ Let(w, v)
  BY <1>3, LetIs, Zenon
<1>6. CASE t = "esc"
  <2>1. MayStart(c) /\ <<c>> \in Starts /\ <<c>> # <<>>
    BY <1>4, <1>6, StartOne DEF MayStart
  <2>2. v = Begun(z, <<c>>)
    BY <1>2, <1>3, <1>4, <2>1, TakePieceIs
  <2>3. /\ v.out = z.out /\ v.in_paste = z.in_paste /\ v.prev = z.prev
        /\ v.submit = z.submit /\ v.ctrl_z = z.ctrl_z /\ v.start = <<c>>
    BY <2>1, <2>2, BegunIs
  <2>4. w.out = z.out \o <<c>> /\ w.in_paste = z.in_paste /\ w.prev = c /\ w.submit = z.submit /\ w.ctrl_z = z.ctrl_z
    BY <1>5, <2>1, <2>3 DEF Let
  <2>5. Newline(w.prev) /\ ~Gone(z, t) /\ ~Submits(z, t)
    BY <1>4, <1>6, <2>4 DEF Newline, Gone, Submits
  <2> QED
    BY <1>1, <1>2, <1>4, <1>5, <1>6, <2>4, <2>5 DEF Typed
<1>7. CASE t # "esc"
  <2>1. ~MayStart(c)
    BY <1>4, <1>7 DEF MayStart
  <2>2. v = Key(z, c)
    BY <1>2, <1>3, <1>4, <2>1, TakePieceIs
  <2>3. w = v
    <3>1. v.start = <<>>
      <4>1. v.start = z.start
        BY <2>2, KeyIs
      <4> QED
        BY <1>2, <4>1
    <3> QED
      BY <1>3, <1>5, <3>1, ReleasedNone
  <2>4. CASE ~z.in_paste /\ t = "ctrl_z"
    <3>1. Same(v, z) /\ v.ctrl_z
      BY <1>4, <2>2, <2>4, KeyIs
    <3>2. Gone(z, t) /\ ~Submits(z, t)
      BY <1>4, <2>4 DEF Gone, Submits
    <3> QED
      BY <1>2, <1>4, <1>5, <2>3, <2>4, <3>1, <3>2 DEF Typed, Same
  <2>5. CASE ~(~z.in_paste /\ t = "ctrl_z")
    <3>1. Passes(v, z, <<c>>, c) /\ (v.submit <=> z.submit \/ (~z.in_paste /\ t = "cr" /\ ~Newline(z.prev)))
      BY <1>4, <2>2, <2>5, KeyIs
    <3>2. ~Gone(z, t) /\ (v.submit <=> z.submit \/ Submits(z, t))
      BY <1>4, <2>5, <3>1 DEF Gone, Submits
    <3>3. v.out = z.out \o Pieces(t) /\ v.in_paste = z.in_paste /\ v.prev = c /\ v.ctrl_z = z.ctrl_z
      BY <1>1, <3>1 DEF Passes
    <3>4. Newline(v.prev) <=> t \in {"esc", "backslash"}
      BY <1>4, <3>3 DEF Newline
    <3> QED
      BY <1>2, <1>4, <1>5, <2>3, <3>2, <3>3, <3>4 DEF Typed
  <2> QED
    BY <2>4, <2>5
<1> QED
  BY <1>6, <1>7

LEMMA PairJoined ==
    ASSUME NEW b \in KeyPiece, NEW c \in KeyPiece
    PROVE  <<b>> \in Seq(KeyPiece) /\ <<c>> \in Seq(KeyPiece) /\ <<b, c>> \in Seq(KeyPiece) /\ <<b>> \o <<c>> = <<b, c>>
<1>1. PICK x \in Seq(KeyPiece) : x = <<>>
  BY Empties, Zenon
<1>2. (x \o <<b>>) \o <<c>> = x \o <<b, c>>
  BY TwoJoined, Zenon
<1>3. <<b>> \in Seq(KeyPiece) /\ <<c>> \in Seq(KeyPiece) /\ <<b, c>> \in Seq(KeyPiece)
  OBVIOUS
<1>4. \A s \in Seq(KeyPiece) : x \o s = s
  BY <1>1, ConcatEmptySeq
<1> QED
  BY <1>2, <1>3, <1>4, Zenon

LEMMA SplitTaken ==
    ASSUME NEW x \in Taking, NEW t \in Split, NEW v, TakesTo(x, Pieces(t), v)
    PROVE  Typed(Released(v), Released(x), t)
<1>1. PICK b \in KeyPiece, c \in KeyPiece : b = <<t, 1>> /\ c = <<t, 2>> /\ Pieces(t) = <<b, c>>
  BY SplitPieces
<1>2. PICK z \in Taking : z = Released(x) /\ z.start = <<>>
  BY LetIs, Zenon DEF Let
<1>3. PICK y \in Taking : y = Begun(z, <<b>>) /\ y = TakePiece(x, b)
  <2>1. MayStart(b) /\ ~Completes(x, b)
    BY <1>1 DEF MayStart, Completes, RestOf
  <2>2. TakePiece(x, b) = Begun(z, <<b>>)
    BY <1>2, <2>1, TakePieceIs
  <2> QED
    BY <2>2, TakePieceTyped
<1>4. /\ y.out = z.out /\ y.in_paste = z.in_paste /\ y.prev = z.prev
      /\ y.submit = z.submit /\ y.ctrl_z = z.ctrl_z /\ y.start = <<b>>
  <2>1. <<b>> \in Starts
    BY <1>1, StartOne DEF MayStart
  <2>2. y = Begun(z, <<b>>)
    BY <1>3
  <2> QED
    BY <2>1, <2>2, BegunIs
<1>5. Completes(y, c)
  BY <1>1, <1>4 DEF Completes, RestOf
<1>6. Begun(y, <<>>) = z
  <2>1. <<>> \in Starts
    BY DEF Starts
  <2>2. PICK q \in Taking : q = Begun(y, <<>>)
    BY <2>1, BegunIs
  <2>3. /\ q.out = y.out /\ q.in_paste = y.in_paste /\ q.prev = y.prev
        /\ q.submit = y.submit /\ q.ctrl_z = y.ctrl_z /\ q.start = <<>>
    BY <2>1, <2>2, BegunIs
  <2>4. q = z
    BY <1>2, <1>4, <2>3, SameTaking
  <2> QED
    BY <2>2, <2>4
<1>7. PICK u : u = WholeKey(z, t) /\ WholeTaken(u, z, t)
  BY WholeIs, Zenon
<1>8. v = u
  <2>1. TakePiece(y, c) = u
    BY <1>1, <1>5, <1>6, <1>7, TakePieceIs
  <2>2. TakesTo(x, <<b>>, y)
    BY <1>3, TakesToNext
  <2>3. TakesTo(y, <<c>>, u)
    BY <2>1, TakesToNext
  <2>4. <<b>> \in Seq(KeyPiece) /\ <<c>> \in Seq(KeyPiece) /\ <<b, c>> \in Seq(KeyPiece) /\ <<b>> \o <<c>> = <<b, c>>
    BY PairJoined
  <2>5. TakesTo(x, <<b>> \o <<c>>, u)
    BY <2>2, <2>3, <2>4, TakesToJoined, Zenon
  <2>6. TakesTo(x, <<b, c>>, u)
    BY <2>4, <2>5, Zenon
  <2>7. TakesTo(x, <<b, c>>, v)
    BY <1>1
  <2> QED
    BY <2>4, <2>6, <2>7, TakesToOne
<1>9. u \in Taking /\ u.start = <<>>
  BY <1>2, <1>7 DEF WholeTaken
<1>10. Released(v) = u
  BY <1>8, <1>9, ReleasedNone
<1>11. t # "ctrl_z" /\ t # "cr" /\ t # "esc" /\ t # "backslash"
  BY DEF Split
<1>12. CASE ~z.in_paste /\ t = "kitty_ctrl_z"
  <2>1. Same(u, z) /\ u.ctrl_z
    BY <1>7, <1>12 DEF WholeTaken
  <2>2. Gone(z, t) /\ ~Submits(z, t)
    BY <1>12 DEF Gone, Submits
  <2> QED
    BY <1>2, <1>9, <1>10, <1>12, <2>1, <2>2 DEF Typed, Same
<1>13. CASE ~(~z.in_paste /\ t = "kitty_ctrl_z")
  <2>1. /\ u.out = z.out \o << <<t, 1>>, <<t, 2>> >> /\ u.prev = <<t, 2>> /\ u.ctrl_z = z.ctrl_z
        /\ (u.in_paste <=> IF z.in_paste THEN t # "paste_end" ELSE t = "paste_start")
        /\ (u.submit <=> z.submit \/ (~z.in_paste /\ t = "kitty_enter"))
    BY <1>7, <1>13 DEF WholeTaken
  <2>2. ~Gone(z, t) /\ (u.submit <=> z.submit \/ Submits(z, t))
    BY <1>11, <1>13, <2>1 DEF Gone, Submits
  <2>3. ~Newline(u.prev)
    BY <1>11, <2>1 DEF Newline
  <2>4. u.out = z.out \o Pieces(t)
    BY <1>1, <2>1
  <2> QED
    BY <1>2, <1>9, <1>10, <1>11, <2>1, <2>2, <2>3, <2>4 DEF Typed
<1> QED
  BY <1>12, <1>13

LEMMA StrokeTaken ==
    ASSUME NEW x \in Taking, NEW t \in Stroke, NEW v, TakesTo(x, Pieces(t), v)
    PROVE  Typed(Released(v), Released(x), t)
BY SingleTaken, SplitTaken, Zenon DEF Stroke

-----------------------------------------------------------------------------
(* What was passed stays.                                                  *)

Begins(s, r) == \E e \in Seq(KeyPiece) : r = s \o e

LEMMA BeginsItself == ASSUME NEW s \in Seq(KeyPiece) PROVE Begins(s, s)
<1>1. <<>> \in Seq(KeyPiece) /\ s \o <<>> = s
  BY ConcatEmptySeq
<1> QED
  BY <1>1, Zenon DEF Begins

LEMMA BeginsMore ==
    ASSUME NEW s \in Seq(KeyPiece), NEW r, Begins(s, r), NEW t \in Seq(KeyPiece)
    PROVE  Begins(s, r \o t)
<1>1. PICK e \in Seq(KeyPiece) : r = s \o e
  BY DEF Begins
<1>2. e \o t \in Seq(KeyPiece)
  OBVIOUS
<1>3. r \o t = s \o (e \o t)
  BY <1>1, Regroups, Zenon DEF Grouped
<1> QED
  BY <1>2, <1>3, Zenon DEF Begins

LEMMA TakePieceGrows ==
    ASSUME NEW p \in Taking, NEW c \in KeyPiece
    PROVE  \E e \in Seq(KeyPiece) : TakePiece(p, c).out = p.out \o e
<1>0. p.out \in Seq(KeyPiece) /\ p.start \in Seq(KeyPiece) /\ <<>> \in Seq(KeyPiece) /\ p.out \o <<>> = p.out
  BY TakingIs, StartSeq, ConcatEmptySeq
<1>1. CASE Completes(p, c)
  <2>1. c[1] \in Split /\ <<>> \in Starts
    BY <1>1, CompletesIs DEF Starts
  <2>2. PICK q \in Taking : q = Begun(p, <<>>) /\ q.out = p.out
    BY <2>1, BegunIs
  <2>3. PICK u : u = WholeKey(q, c[1]) /\ WholeTaken(u, q, c[1])
    BY <2>1, WholeIs, Zenon
  <2>4. u = TakePiece(p, c)
    BY <1>1, <2>2, <2>3, TakePieceIs
  <2>5. PICK s \in Seq(KeyPiece) : s = << <<c[1], 1>>, <<c[1], 2>> >>
    <3>1. << <<c[1], 1>>, <<c[1], 2>> >> \in Seq(KeyPiece)
      BY <2>1, SplitPieces
    <3> QED
      BY <3>1, Zenon
  <2>6. u.out = p.out \/ u.out = p.out \o s
    BY <2>2, <2>3, <2>5 DEF WholeTaken, Same
  <2> QED
    BY <1>0, <2>4, <2>5, <2>6, Zenon
<1>2. PICK z \in Taking : z = Released(p) /\ z.out = p.out \o p.start
  BY LetIs, Zenon DEF Let
<1>3. CASE ~Completes(p, c) /\ MayStart(c)
  <2>0. <<c>> \in Starts
    BY <1>3, StartOne
  <2>1. PICK u : u = Begun(z, <<c>>)
    OBVIOUS
  <2>3. u.out = z.out
    BY <2>0, <2>1, BegunIs
  <2>2. u = TakePiece(p, c)
    BY <1>2, <1>3, <2>1, TakePieceIs
  <2> QED
    BY <1>0, <1>2, <2>2, <2>3
<1>4. CASE ~Completes(p, c) /\ ~MayStart(c)
  <2>1. PICK u : u = Key(z, c)
    OBVIOUS
  <2>2. u.out = z.out \/ u.out = z.out \o <<c>>
    <3>1. Same(u, z) \/ Passes(u, z, <<c>>, c)
      BY <2>1, KeyIs
    <3> QED
      BY <3>1 DEF Passes, Same
  <2>3. u = TakePiece(p, c)
    BY <1>2, <1>4, <2>1, TakePieceIs
  <2>4. (p.out \o p.start) \o <<c>> = p.out \o (p.start \o <<c>>) /\ p.start \o <<c>> \in Seq(KeyPiece)
    BY <1>0, Regroups, OnePiece DEF Grouped
  <2> QED
    BY <1>0, <1>2, <2>2, <2>3, <2>4
<1> QED
  BY <1>1, <1>3, <1>4

LEMMA TakenGrows ==
    ASSUME NEW r \in Taking, NEW s \in Seq(KeyPiece), NEW v, TakesTo(r, s, v)
    PROVE  Begins(r.out, v.out) /\ Begins(r.out, Released(v).out)
<1> DEFINE P == {p \in Taking : Begins(r.out, p.out)}
<1>1. r \in P
  BY BeginsItself, TakingIs
<1>2. ASSUME NEW p \in P \cap Taking, NEW c \in KeyPiece
      PROVE  TakePiece(p, c) \in P
  <2>1. PICK u \in Taking : u = TakePiece(p, c)
    BY TakePieceTyped
  <2>2. PICK e \in Seq(KeyPiece) : u.out = p.out \o e
    BY <2>1, TakePieceGrows
  <2>3. Begins(r.out, p.out) /\ r.out \in Seq(KeyPiece)
    BY TakingIs
  <2>4. Begins(r.out, u.out)
    BY <2>2, <2>3, BeginsMore
  <2> QED
    BY <2>1, <2>4
<1> HIDE DEF P
<1>3. v \in P
  BY <1>1, <1>2, RunStays
<1>4. v \in Taking /\ Begins(r.out, v.out)
  BY <1>3 DEF P
<1>5. Released(v).out = v.out \o v.start
  BY <1>4, LetIs, Zenon DEF Let
<1>6. v.start \in Seq(KeyPiece) /\ r.out \in Seq(KeyPiece)
  BY <1>4, TakingIs, StartSeq
<1> QED
  BY <1>4, <1>5, <1>6, BeginsMore

-----------------------------------------------------------------------------
(* What is left when Ctrl-Z is taken out.                                  *)

\* By induction over the length.
LEMMA SeqGrows ==
    ASSUME NEW A, NEW P, <<>> \in P, \A s \in Seq(A) : s \in P => \A a \in A : Append(s, a) \in P
    PROVE  Seq(A) \subseteq P
<1> SUFFICES ASSUME NEW t \in Seq(A) PROVE t \in P
  OBVIOUS
<1>1. PICK n \in Nat : n = Len(t)
  OBVIOUS
<1> DEFINE S == {k \in 0 .. n : \A s \in Seq(A) : Len(s) = k => s \in P}
<1>2. 0 \in S
  <2>1. \A s \in Seq(A) : Len(s) = 0 => s = <<>>
    BY NoneThere, Zenon
  <2> QED
    BY <2>1
<1>3. ASSUME NEW k \in 0 .. n - 1, k \in S PROVE k + 1 \in S
  <2>1. ASSUME NEW s \in Seq(A), Len(s) = k + 1 PROVE s \in P
    <3>1. s # <<>>
      BY <2>1
    <3>2. PICK f \in Seq(A), a \in A : s = Append(f, a) /\ Len(f) = k
      <4>1. PICK f \in Seq(A) : f = [i \in 1 .. k |-> s[i]] /\ Len(f) = k
        <5>1. \A i \in 1 .. k : s[i] \in A
          BY <2>1
        <5>2. [i \in 1 .. k |-> s[i]] \in Seq(A) /\ Len([i \in 1 .. k |-> s[i]]) = k
          BY <5>1
        <5> QED
          BY <5>2, Zenon
      <4>2. s[k + 1] \in A
        BY <2>1
      <4>3. Append(f, s[k + 1]) = [l \in 1 .. k + 1 |-> IF l <= k THEN f[l] ELSE s[k + 1]]
        <5>1. k \in Nat
          OBVIOUS
        <5>2. Longer(Append(f, s[k + 1]), f, s[k + 1], k)
          BY <4>1, <5>1, OneMore, Zenon
        <5> QED
          BY <5>2, Zenon DEF Longer
      <4>4. s = [l \in 1 .. k + 1 |-> s[l]]
        <5>1. \A B : \A x \in Seq(B) : x = [l \in 1 .. Len(x) |-> x[l]]
          OBVIOUS
        <5>2. s = [l \in 1 .. Len(s) |-> s[l]]
          BY <5>1, Zenon
        <5> QED
          BY <2>1, <5>2
      <4>5. \A l \in 1 .. k + 1 : s[l] = IF l <= k THEN f[l] ELSE s[k + 1]
        BY <4>1
      <4>6. s = Append(f, s[k + 1])
        BY <4>3, <4>4, <4>5, Zenon
      <4> QED
        BY <4>1, <4>2, <4>6, Zenon
    <3>3. f \in P
      BY <1>3, <3>2
    <3> QED
      BY <3>2, <3>3
  <2>2. k + 1 \in 0 .. n
    OBVIOUS
  <2> QED
    BY <2>1, <2>2
<1> HIDE DEF S
<1>4. 0 .. n \subseteq S
  BY <1>2, <1>3, Induction
<1>5. n \in S
  BY <1>4
<1> QED
  BY <1>1, <1>5 DEF S

NotZ(c) == IF c[1] \in {"ctrl_z", "kitty_ctrl_z"} THEN <<>> ELSE <<c>>
NotZs(s) == [i \in DOMAIN s |-> NotZ(s[i])]

LEMMA NoCtrlZIs == \A s : NoCtrlZ(s) = FlattenSeq(NotZs(s))
BY DEF NoCtrlZ, NotZs, NotZ

LEMMA NotZTyped ==
    ASSUME NEW c \in KeyPiece
    PROVE  NotZ(c) \in Seq(KeyPiece)
BY DEF NotZ

LEMMA NotZsTyped ==
    ASSUME NEW s \in Seq(KeyPiece)
    PROVE  NotZs(s) \in Seq(Seq(KeyPiece)) /\ Len(NotZs(s)) = Len(s)
<1>1. PICK n \in Nat : n = Len(s) /\ DOMAIN s = 1 .. n
  OBVIOUS
<1>2. \A i \in 1 .. n : NotZ(s[i]) \in Seq(KeyPiece)
  BY <1>1, NotZTyped
<1>3. NotZs(s) = [i \in 1 .. n |-> NotZ(s[i])]
  BY <1>1 DEF NotZs
<1>4. [i \in 1 .. n |-> NotZ(s[i])] \in Seq(Seq(KeyPiece)) /\ Len([i \in 1 .. n |-> NotZ(s[i])]) = n
  BY <1>2
<1> QED
  BY <1>1, <1>3, <1>4, Zenon

LEMMA NoCtrlZTyped ==
    ASSUME NEW s \in Seq(KeyPiece)
    PROVE  NoCtrlZ(s) \in Seq(KeyPiece)
BY NoCtrlZIs, NotZsTyped, FlattenTyped, Zenon

LEMMA NoCtrlZNothing == NoCtrlZ(<<>>) = <<>>
<1>1. NotZs(<<>>) = <<>>
  BY DEF NotZs
<1> QED
  BY <1>1, NoCtrlZIs, FlattenNothing, Zenon

LEMMA NoCtrlZMore ==
    ASSUME NEW s \in Seq(KeyPiece), NEW c \in KeyPiece
    PROVE  NoCtrlZ(Append(s, c)) = NoCtrlZ(s) \o NotZ(c)
<1>1. PICK n \in Nat : n = Len(s) /\ DOMAIN s = 1 .. n
  OBVIOUS
<1>2. PICK t \in Seq(KeyPiece) : t = Append(s, c)
  <2>1. Append(s, c) \in Seq(KeyPiece)
    OBVIOUS
  <2> QED
    BY <2>1, Zenon
<1>3. Len(t) = n + 1 /\ DOMAIN t = 1 .. n + 1 /\ t[n + 1] = c /\ \A i \in 1 .. n : t[i] = s[i]
  BY <1>1, <1>2
<1>4. PICK z \in Seq(Seq(KeyPiece)) : z = NotZs(s) /\ Len(z) = n
  BY <1>1, NotZsTyped, Zenon
<1>5. PICK e \in Seq(KeyPiece) : e = NotZ(c)
  BY NotZTyped, Zenon
<1>6. Append(z, e) = [l \in 1 .. n + 1 |-> IF l <= n THEN z[l] ELSE e]
  <2>1. Longer(Append(z, e), z, e, n)
    BY <1>1, <1>4, OneMore, Zenon
  <2> QED
    BY <2>1, Zenon DEF Longer
<1>7. NotZs(t) = [l \in 1 .. n + 1 |-> NotZ(t[l])]
  BY <1>3 DEF NotZs
<1>8. \A l \in 1 .. n + 1 : NotZ(t[l]) = IF l <= n THEN z[l] ELSE e
  <2>1. \A l \in 1 .. n : z[l] = NotZ(s[l])
    BY <1>1, <1>4 DEF NotZs
  <2>2. \A l \in 1 .. n + 1 : (l <= n => l \in 1 .. n) /\ (~(l <= n) => l = n + 1)
    OBVIOUS
  <2> QED
    BY <1>3, <1>5, <2>1, <2>2, Zenon
<1>9. NotZs(t) = Append(z, e)
  BY <1>6, <1>7, <1>8, Zenon
<1>10. FlattenSeq(Append(z, e)) = FlattenSeq(z) \o e
  BY FlattenMore, Zenon
<1> QED
  BY <1>2, <1>4, <1>5, <1>9, <1>10, NoCtrlZIs, Zenon

LEMMA AppendJoined ==
    ASSUME NEW s \in Seq(KeyPiece), NEW t \in Seq(KeyPiece), NEW c \in KeyPiece
    PROVE  s \o Append(t, c) = Append(s \o t, c) /\ Append(t, c) \in Seq(KeyPiece)
OBVIOUS

LEMMA NoCtrlZJoined ==
    ASSUME NEW s \in Seq(KeyPiece), NEW t \in Seq(KeyPiece)
    PROVE  NoCtrlZ(s \o t) = NoCtrlZ(s) \o NoCtrlZ(t)
<1> DEFINE P == {u \in Seq(KeyPiece) : NoCtrlZ(s \o u) = NoCtrlZ(s) \o NoCtrlZ(u)}
<1>1. NoCtrlZ(s) \in Seq(KeyPiece)
  BY NoCtrlZTyped
<1>2. <<>> \in P
  <2>1. s \o <<>> = s /\ NoCtrlZ(s) \o <<>> = NoCtrlZ(s) /\ <<>> \in Seq(KeyPiece)
    BY <1>1, ConcatEmptySeq
  <2>2. NoCtrlZ(s \o <<>>) = NoCtrlZ(s) \o NoCtrlZ(<<>>)
    BY <2>1, NoCtrlZNothing, Zenon
  <2> QED
    BY <2>1, <2>2
<1>3. ASSUME NEW u \in Seq(KeyPiece), u \in P, NEW c \in KeyPiece
      PROVE  Append(u, c) \in P
  <2>1. PICK w \in Seq(KeyPiece) : w = s \o u
    <3>1. s \o u \in Seq(KeyPiece)
      OBVIOUS
    <3> QED
      BY <3>1, Zenon
  <2>2. s \o Append(u, c) = Append(w, c) /\ Append(u, c) \in Seq(KeyPiece)
    BY <2>1, AppendJoined
  <2>3. NoCtrlZ(Append(w, c)) = NoCtrlZ(w) \o NotZ(c) /\ NoCtrlZ(Append(u, c)) = NoCtrlZ(u) \o NotZ(c)
    BY NoCtrlZMore, Zenon
  <2>4. NoCtrlZ(w) = NoCtrlZ(s) \o NoCtrlZ(u)
    BY <1>3, <2>1
  <2>5. NoCtrlZ(u) \in Seq(KeyPiece) /\ NotZ(c) \in Seq(KeyPiece)
    BY NoCtrlZTyped, NotZTyped
  <2>6. (NoCtrlZ(s) \o NoCtrlZ(u)) \o NotZ(c) = NoCtrlZ(s) \o (NoCtrlZ(u) \o NotZ(c))
    BY <1>1, <2>5, Regroups, Zenon DEF Grouped
  <2>7. NoCtrlZ(s \o Append(u, c)) = NoCtrlZ(s) \o NoCtrlZ(Append(u, c))
    BY <2>2, <2>3, <2>4, <2>6, Zenon
  <2> QED
    BY <2>2, <2>7
<1> HIDE DEF P
<1>4. Seq(KeyPiece) \subseteq P
  BY <1>2, <1>3, SeqGrows
<1>5. t \in P
  BY <1>4
<1> QED
  BY <1>5 DEF P

LEMMA NoCtrlZOne ==
    ASSUME NEW s \in Seq(KeyPiece), NEW c \in KeyPiece
    PROVE  NoCtrlZ(s \o <<c>>) = NoCtrlZ(s) \o NotZ(c)
<1>1. s \o <<c>> = Append(s, c)
  OBVIOUS
<1>2. NoCtrlZ(Append(s, c)) = NoCtrlZ(s) \o NotZ(c)
  BY NoCtrlZMore, Zenon
<1> QED
  BY <1>1, <1>2, Zenon

Content(v) == NoCtrlZ(v.out \o v.start)
Gains(v, r, s) == Content(v) = Content(r) \o s

LEMMA TakenOne ==
    ASSUME NEW p \in Taking, NEW c \in KeyPiece
    PROVE  Gains(TakePiece(p, c), p, NotZ(c))
<1>0. p.out \in Seq(KeyPiece) /\ p.start \in Seq(KeyPiece)
  BY TakingIs, StartSeq
<1>1. PICK u \in Taking : u = TakePiece(p, c)
  BY TakePieceTyped
<1>2. \A s \in Seq(KeyPiece) : s \o <<>> = s
  BY ConcatEmptySeq
<1>3. CASE Completes(p, c)
  <2>1. PICK t \in Split : t = c[1] /\ c = <<t, 2>>
    BY <1>3, CompletesIs
  <2>2. PICK b \in KeyPiece : b = <<t, 1>> /\ p.start = <<b>>
    BY <1>3, <2>1, CompletesIs
  <2>3. <<>> \in Starts
    BY DEF Starts
  <2>4. PICK q \in Taking : q = Begun(p, <<>>) /\ q.out = p.out /\ q.start = <<>>
    BY <2>3, BegunIs
  <2>5. WholeTaken(u, q, t) /\ u = WholeKey(q, t)
    <3>1. u = WholeKey(q, t)
      BY <1>1, <1>3, <2>1, <2>4, TakePieceIs
    <3>2. WholeTaken(WholeKey(q, t), q, t)
      BY WholeIs, Zenon
    <3> QED
      BY <3>1, <3>2
  <2>6. u.start = <<>> /\ u.out \in Seq(KeyPiece) /\ u.out \o u.start = u.out
    <3>1. u.start = <<>> /\ u.out \in Seq(KeyPiece)
      BY <2>4, <2>5, TakingIs DEF WholeTaken
    <3> QED
      BY <1>2, <3>1
  <2>7. NoCtrlZ(p.out \o <<b>>) = NoCtrlZ(p.out) \o NotZ(b) /\ p.out \o <<b>> \in Seq(KeyPiece)
    BY <1>0, NoCtrlZOne, OnePiece
  <2>8. NoCtrlZ((p.out \o <<b>>) \o <<c>>) = NoCtrlZ(p.out \o <<b>>) \o NotZ(c)
    BY <2>7, NoCtrlZOne, Zenon
  <2>9. CASE ~q.in_paste /\ t = "kitty_ctrl_z"
    <3>1. u.out = p.out
      BY <2>4, <2>5, <2>9 DEF WholeTaken, Same
    <3>2. NotZ(b) = <<>> /\ NotZ(c) = <<>>
      BY <2>1, <2>2, <2>9 DEF NotZ
    <3>3. NoCtrlZ(p.out) \in Seq(KeyPiece)
      BY <1>0, NoCtrlZTyped
    <3>4. (NoCtrlZ(p.out) \o <<>>) \o <<>> = NoCtrlZ(p.out)
      BY <1>2, <3>3
    <3>5. Content(u) = NoCtrlZ(p.out) /\ Content(p) = NoCtrlZ(p.out) \o NotZ(b)
      BY <2>2, <2>6, <2>7, <3>1 DEF Content
    <3> QED
      BY <1>1, <3>2, <3>4, <3>5 DEF Gains
  <2>10. CASE ~(~q.in_paste /\ t = "kitty_ctrl_z")
    <3>1. u.out = p.out \o <<b, c>>
      BY <2>1, <2>2, <2>4, <2>5, <2>10 DEF WholeTaken
    <3>2. (p.out \o <<b>>) \o <<c>> = p.out \o <<b, c>>
      BY <1>0, TwoJoined, Zenon
    <3>3. Content(u) = NoCtrlZ((p.out \o <<b>>) \o <<c>>) /\ Content(p) = NoCtrlZ(p.out \o <<b>>)
      BY <2>2, <2>6, <3>1, <3>2, Zenon DEF Content
    <3> QED
      BY <1>1, <2>8, <3>3, Zenon DEF Gains
  <2> QED
    BY <2>9, <2>10
<1>4. PICK z \in Taking : z = Released(p) /\ z.out = p.out \o p.start /\ z.start = <<>>
  BY LetIs, Zenon DEF Let
<1>5. z.out \in Seq(KeyPiece) /\ NoCtrlZ(z.out \o <<c>>) = NoCtrlZ(z.out) \o NotZ(c)
  BY TakingIs, NoCtrlZOne
<1>6. Content(p) = NoCtrlZ(z.out)
  BY <1>4, Zenon DEF Content
<1>7. CASE ~Completes(p, c) /\ MayStart(c)
  <2>1. <<c>> \in Starts
    BY <1>7, StartOne
  <2>2. u = Begun(z, <<c>>)
    BY <1>1, <1>4, <1>7, TakePieceIs, Zenon
  <2>3. u.out = z.out /\ u.start = <<c>>
    BY <2>1, <2>2, BegunIs
  <2>4. Content(u) = NoCtrlZ(z.out \o <<c>>)
    BY <2>3, Zenon DEF Content
  <2> QED
    BY <1>1, <1>5, <1>6, <2>4, Zenon DEF Gains
<1>8. CASE ~Completes(p, c) /\ ~MayStart(c)
  <2>1. u = Key(z, c)
    BY <1>1, <1>4, <1>8, TakePieceIs, Zenon
  <2>2. u.start = <<>>
    <3>1. u.start = z.start
      BY <2>1, KeyIs
    <3> QED
      BY <1>4, <3>1
  <2>3. u.out \o u.start = u.out
    BY <1>2, <2>2, TakingIs
  <2>4. Content(u) = NoCtrlZ(u.out)
    BY <2>3, Zenon DEF Content
  <2>5. CASE ~z.in_paste /\ c[1] = "ctrl_z"
    <3>1. u.out = z.out
      <4>1. Same(u, z)
        BY <2>1, <2>5, KeyIs
      <4> QED
        BY <4>1 DEF Same
    <3>2. NotZ(c) = <<>>
      BY <2>5 DEF NotZ
    <3>3. NoCtrlZ(z.out) \o <<>> = NoCtrlZ(z.out)
      BY <1>2, <1>5, NoCtrlZTyped
    <3> QED
      BY <1>1, <1>6, <2>4, <3>1, <3>2, <3>3, Zenon DEF Gains
  <2>6. CASE ~(~z.in_paste /\ c[1] = "ctrl_z")
    <3>1. u.out = z.out \o <<c>>
      <4>1. Passes(u, z, <<c>>, c)
        BY <2>1, <2>6, KeyIs
      <4> QED
        BY <4>1 DEF Passes
    <3> QED
      BY <1>1, <1>5, <1>6, <2>4, <3>1, Zenon DEF Gains
  <2> QED
    BY <2>5, <2>6
<1> QED
  BY <1>3, <1>7, <1>8

\* Nothing but Ctrl-Z is lost, and nothing is doubled or reordered.
LEMMA TakenAll ==
    ASSUME NEW r \in Taking, NEW s \in Seq(KeyPiece), NEW v, TakesTo(r, s, v)
    PROVE  Gains(v, r, NoCtrlZ(s))
<1> DEFINE P == {t \in Seq(KeyPiece) : \A u : TakesTo(r, t, u) => Gains(u, r, NoCtrlZ(t))}
<1>0. Content(r) \in Seq(KeyPiece)
  <2>1. r.out \in Seq(KeyPiece) /\ r.start \in Seq(KeyPiece)
    BY TakingIs, StartSeq
  <2>2. r.out \o r.start \in Seq(KeyPiece)
    BY <2>1
  <2> QED
    BY <2>2, NoCtrlZTyped DEF Content
<1>1. <<>> \in P
  <2>1. ASSUME NEW u, TakesTo(r, <<>>, u) PROVE Gains(u, r, NoCtrlZ(<<>>))
    <3>1. <<>> \in Seq(KeyPiece) /\ TakesTo(r, <<>>, r)
      BY Empties, TakesToNothing, Zenon
    <3>2. u = r
      BY <2>1, <3>1, TakesToOne
    <3>3. Content(r) \o <<>> = Content(r)
      BY <1>0, ConcatEmptySeq
    <3> QED
      BY <3>2, <3>3, NoCtrlZNothing, Zenon DEF Gains
  <2>2. <<>> \in Seq(KeyPiece)
    OBVIOUS
  <2> QED
    BY <2>1, <2>2
<1>2. ASSUME NEW t \in Seq(KeyPiece), t \in P, NEW c \in KeyPiece
      PROVE  Append(t, c) \in P
  <2>1. PICK w \in Taking : TakesTo(r, t, w)
    BY TakesToThat, Zenon
  <2>2. PICK q \in Taking : q = TakePiece(w, c)
    BY TakePieceTyped
  <2>3. t \o <<c>> = Append(t, c) /\ <<c>> \in Seq(KeyPiece) /\ Append(t, c) \in Seq(KeyPiece)
    OBVIOUS
  <2>4. TakesTo(r, Append(t, c), q)
    <3>1. TakesTo(w, <<c>>, q)
      BY <2>2, TakesToNext
    <3>2. TakesTo(r, t \o <<c>>, q)
      BY <2>1, <2>3, <3>1, TakesToJoined, Zenon
    <3> QED
      BY <2>3, <3>2, Zenon
  <2>5. Gains(q, r, NoCtrlZ(Append(t, c)))
    <3>1. Gains(w, r, NoCtrlZ(t))
      BY <1>2, <2>1
    <3>2. Gains(q, w, NotZ(c))
      BY <2>2, TakenOne
    <3>3. NoCtrlZ(t) \in Seq(KeyPiece) /\ NotZ(c) \in Seq(KeyPiece)
      BY NoCtrlZTyped, NotZTyped
    <3>4. (Content(r) \o NoCtrlZ(t)) \o NotZ(c) = Content(r) \o (NoCtrlZ(t) \o NotZ(c))
      BY <1>0, <3>3, Regroups, Zenon DEF Grouped
    <3>5. NoCtrlZ(Append(t, c)) = NoCtrlZ(t) \o NotZ(c)
      BY NoCtrlZMore, Zenon
    <3> QED
      BY <3>1, <3>2, <3>4, <3>5, Zenon DEF Gains
  <2>6. ASSUME NEW u, TakesTo(r, Append(t, c), u) PROVE u = q
    BY <2>3, <2>4, <2>6, TakesToOne
  <2> QED
    BY <2>3, <2>5, <2>6, Zenon
<1> HIDE DEF P
<1>3. Seq(KeyPiece) \subseteq P
  BY <1>1, <1>2, SeqGrows
<1>4. s \in P
  BY <1>3
<1> QED
  BY <1>4 DEF P

-----------------------------------------------------------------------------
(* One stroke more.                                                        *)

History == Seq(Stroke \cup {"gap"})

PasteOf(h, i) == \E j \in 1 .. i - 1 : h[j] = "paste_start" /\ \A k \in j + 1 .. i - 1 : h[k] # "paste_end"
CtrlZOf(h, i) == h[i] \in {"ctrl_z", "kitty_ctrl_z"} /\ ~PasteOf(h, i)
SentBefore(h, i) == {j \in 1 .. i - 1 : ~CtrlZOf(h, j)}
NewlineOf(h, i) ==
    \E j \in SentBefore(h, i) : h[j] \in {"esc", "backslash"} /\ \A k \in SentBefore(h, i) : k <= j
SubmitOf(h, i) == ~PasteOf(h, i) /\ (h[i] = "kitty_enter" \/ (h[i] = "cr" /\ ~NewlineOf(h, i)))
TypingOf(h, i) == h[i] \notin {"gap", "report"} /\ ~CtrlZOf(h, i)
StrokeOf(h, i) == IF h[i] = "gap" THEN <<>> ELSE Pieces(h[i])
SentOf(h, i) == IF CtrlZOf(h, i) \/ h[i] = "gap" THEN <<>> ELSE Pieces(h[i])
StrokesOf(h) == FlattenSeq([i \in DOMAIN h |-> StrokeOf(h, i)])
PassedOf(h) == FlattenSeq([i \in DOMAIN h |-> SentOf(h, i)])
MeantOf(h) == [submit |-> \E i \in DOMAIN h : SubmitOf(h, i), ctrl_z |-> \E i \in DOMAIN h : CtrlZOf(h, i),
               typing |-> \E i \in DOMAIN h : TypingOf(h, i)]

\* g is h and the stroke u.
Grown(g, h, u, n) ==
    /\ h \in History /\ g \in History /\ u \in Stroke \cup {"gap"} /\ n \in Nat /\ Len(h) = n /\ Len(g) = n + 1
    /\ DOMAIN h = 1 .. n /\ DOMAIN g = 1 .. n + 1 /\ g[n + 1] = u /\ \A i \in 1 .. n : g[i] = h[i]

LEMMA GrownByOne ==
    ASSUME NEW h \in History, NEW u \in Stroke \cup {"gap"}, NEW g, g = Append(h, u)
    PROVE  \E n \in Nat : Grown(g, h, u, n)
<1>1. PICK n \in Nat : n = Len(h) /\ DOMAIN h = 1 .. n
  BY DEF History
<1>2. g \in History
  BY DEF History
<1>3. Len(g) = n + 1 /\ DOMAIN g = 1 .. n + 1 /\ g[n + 1] = u
  BY <1>1 DEF History
<1>4. \A i \in 1 .. n : g[i] = h[i]
  BY <1>1 DEF History
<1>5. Grown(g, h, u, n)
  BY <1>1, <1>2, <1>3, <1>4, Zenon DEF Grown
<1> QED
  BY <1>5

LEMMA PasteGrows ==
    ASSUME NEW g, NEW h, NEW u, NEW n, Grown(g, h, u, n)
    PROVE  /\ \A i \in 1 .. n + 1 : PasteOf(g, i) <=> PasteOf(h, i)
           /\ PasteOf(g, n + 2) <=> IF PasteOf(h, n + 1) THEN u # "paste_end" ELSE u = "paste_start"
<1>0. n \in Nat /\ g[n + 1] = u /\ \A i \in 1 .. n : g[i] = h[i]
  BY DEF Grown
<1>1. ASSUME NEW i \in 1 .. n + 1
      PROVE  PasteOf(g, i) <=> PasteOf(h, i)
  <2>1. \A j \in 1 .. i - 1 : g[j] = h[j]
    BY <1>0
  <2>2. \A j \in 1 .. i - 1 : \A k \in j + 1 .. i - 1 : k \in 1 .. i - 1
    BY <1>0
  <2> QED
    BY <2>1, <2>2, Zenon DEF PasteOf
<1>2. (n + 2) - 1 = n + 1 /\ (n + 1) - 1 = n /\ n + 1 \in 1 .. n + 1 /\ 1 .. n + 1 = (1 .. n) \cup {n + 1}
  BY <1>0
<1>3. \A j \in 1 .. n : j + 1 .. n + 1 = (j + 1 .. n) \cup {n + 1}
  BY <1>0
<1>4. (n + 1) + 1 .. n + 1 = {}
  BY <1>0
<1>5. PasteOf(g, n + 2) <=> \/ u = "paste_start"
                            \/ u # "paste_end" /\ PasteOf(h, n + 1)
  <2>1. \A j \in 1 .. n : \A k \in j + 1 .. n : k \in 1 .. n
    BY <1>0
  <2>2. PasteOf(g, n + 2) <=> \E j \in 1 .. n + 1 : g[j] = "paste_start" /\ \A k \in j + 1 .. n + 1 : g[k] # "paste_end"
    BY <1>2 DEF PasteOf
  <2>3. PasteOf(h, n + 1) <=> \E j \in 1 .. n : h[j] = "paste_start" /\ \A k \in j + 1 .. n : h[k] # "paste_end"
    BY <1>2 DEF PasteOf
  <2>4. ASSUME u = "paste_start" PROVE PasteOf(g, n + 2)
    BY <1>0, <1>2, <1>4, <2>2, <2>4
  <2>5. ASSUME u # "paste_end", PasteOf(h, n + 1) PROVE PasteOf(g, n + 2)
    <3>1. PICK j \in 1 .. n : h[j] = "paste_start" /\ \A k \in j + 1 .. n : h[k] # "paste_end"
      BY <2>3, <2>5
    <3>2. \A k \in j + 1 .. n + 1 : g[k] # "paste_end"
      BY <1>0, <1>3, <2>1, <2>5, <3>1
    <3>3. j \in 1 .. n + 1 /\ g[j] = "paste_start"
      BY <1>0, <1>2, <3>1
    <3> QED
      BY <2>2, <3>2, <3>3
  <2>6. ASSUME PasteOf(g, n + 2), u # "paste_start" PROVE u # "paste_end" /\ PasteOf(h, n + 1)
    <3>1. PICK j \in 1 .. n + 1 : g[j] = "paste_start" /\ \A k \in j + 1 .. n + 1 : g[k] # "paste_end"
      BY <2>2, <2>6
    <3>2. j \in 1 .. n
      BY <1>0, <1>2, <2>6, <3>1
    <3>3. \A k \in j + 1 .. n : h[k] # "paste_end"
      BY <1>0, <1>3, <2>1, <3>1, <3>2
    <3>4. u # "paste_end"
      BY <1>0, <1>3, <3>1, <3>2
    <3> QED
      BY <1>0, <2>3, <3>1, <3>2, <3>3, <3>4
  <2> QED
    BY <2>4, <2>5, <2>6
<1>6. PasteOf(g, n + 2) <=> IF PasteOf(h, n + 1) THEN u # "paste_end" ELSE u = "paste_start"
  BY <1>5
<1> QED
  BY <1>1, <1>6

GoneOf(h, n, u) == u \in {"ctrl_z", "kitty_ctrl_z"} /\ ~PasteOf(h, n + 1)

LEMMA CtrlZGrows ==
    ASSUME NEW g, NEW h, NEW u, NEW n, Grown(g, h, u, n)
    PROVE  /\ \A i \in 1 .. n : CtrlZOf(g, i) <=> CtrlZOf(h, i)
           /\ CtrlZOf(g, n + 1) <=> GoneOf(h, n, u)
<1>0. n \in Nat /\ g[n + 1] = u /\ \A i \in 1 .. n : g[i] = h[i]
  BY DEF Grown
<1>1. n + 1 \in 1 .. n + 1 /\ \A i \in 1 .. n : i \in 1 .. n + 1
  BY <1>0
<1>2. \A i \in 1 .. n + 1 : PasteOf(g, i) <=> PasteOf(h, i)
  BY PasteGrows
<1>3. \A i \in 1 .. n : CtrlZOf(g, i) <=> CtrlZOf(h, i)
  BY <1>0, <1>1, <1>2, Zenon DEF CtrlZOf
<1>4. CtrlZOf(g, n + 1) <=> GoneOf(h, n, u)
  BY <1>0, <1>1, <1>2, Zenon DEF CtrlZOf, GoneOf
<1> QED
  BY <1>3, <1>4

LEMMA NewlineGrows ==
    ASSUME NEW g, NEW h, NEW u, NEW n, Grown(g, h, u, n)
    PROVE  /\ \A i \in 1 .. n + 1 : NewlineOf(g, i) <=> NewlineOf(h, i)
           /\ NewlineOf(g, n + 2) <=> IF GoneOf(h, n, u) THEN NewlineOf(h, n + 1) ELSE u \in {"esc", "backslash"}
<1>0. n \in Nat /\ g[n + 1] = u /\ \A i \in 1 .. n : g[i] = h[i]
  BY DEF Grown
<1>1. \A i \in 1 .. n : CtrlZOf(g, i) <=> CtrlZOf(h, i)
  BY CtrlZGrows
<1>2. CtrlZOf(g, n + 1) <=> GoneOf(h, n, u)
  BY CtrlZGrows
<1>3. ASSUME NEW i \in 1 .. n + 1
      PROVE  SentBefore(g, i) = SentBefore(h, i) /\ \A j \in SentBefore(h, i) : g[j] = h[j]
  <2>1. \A j \in 1 .. i - 1 : j \in 1 .. n
    BY <1>0
  <2> QED
    BY <1>0, <1>1, <2>1 DEF SentBefore
<1>4. \A i \in 1 .. n + 1 : NewlineOf(g, i) <=> NewlineOf(h, i)
  BY <1>3, Zenon DEF NewlineOf
<1>5. SentBefore(g, n + 2) = {j \in 1 .. n + 1 : ~CtrlZOf(g, j)} /\ SentBefore(g, n + 1) = {j \in 1 .. n : ~CtrlZOf(g, j)}
  <2>1. (n + 2) - 1 = n + 1 /\ (n + 1) - 1 = n
    BY <1>0
  <2> QED
    BY <2>1 DEF SentBefore
<1>6. 1 .. n + 1 = (1 .. n) \cup {n + 1} /\ n + 1 \in 1 .. n + 1 /\ \A k \in 1 .. n + 1 : k <= n + 1 /\ (k >= n + 1 => k = n + 1)
  BY <1>0
<1>7. CASE GoneOf(h, n, u)
  <2>1. SentBefore(g, n + 2) = SentBefore(g, n + 1)
    BY <1>2, <1>5, <1>6, <1>7
  <2>2. NewlineOf(g, n + 2) <=> NewlineOf(g, n + 1)
    BY <2>1, Zenon DEF NewlineOf
  <2> QED
    BY <1>4, <1>6, <1>7, <2>2
<1>8. CASE ~GoneOf(h, n, u)
  <2>1. n + 1 \in SentBefore(g, n + 2) /\ SentBefore(g, n + 2) \subseteq 1 .. n + 1
    BY <1>2, <1>5, <1>6, <1>8
  <2>2. ASSUME NewlineOf(g, n + 2) PROVE u \in {"esc", "backslash"}
    <3>1. PICK j \in SentBefore(g, n + 2) : g[j] \in {"esc", "backslash"} /\ \A k \in SentBefore(g, n + 2) : k <= j
      BY <2>2 DEF NewlineOf
    <3>2. j = n + 1
      <4>1. j \in 1 .. n + 1 /\ n + 1 <= j
        BY <2>1, <3>1
      <4> QED
        BY <1>0, <4>1
    <3> QED
      BY <1>0, <3>1, <3>2
  <2>3. ASSUME u \in {"esc", "backslash"} PROVE NewlineOf(g, n + 2)
    <3>1. \A k \in SentBefore(g, n + 2) : k <= n + 1
      BY <1>6, <2>1
    <3> QED
      BY <1>0, <2>1, <2>3, <3>1 DEF NewlineOf
  <2> QED
    BY <1>4, <1>8, <2>2, <2>3
<1> QED
  BY <1>7, <1>8

LEMMA MeantGrows ==
    ASSUME NEW g, NEW h, NEW u, NEW n, Grown(g, h, u, n), NEW x, x = MeantOf(h), NEW y, y = MeantOf(g)
    PROVE  /\ y.submit <=> x.submit \/ (~PasteOf(h, n + 1) /\ (u = "kitty_enter" \/ (u = "cr" /\ ~NewlineOf(h, n + 1))))
           /\ y.ctrl_z <=> x.ctrl_z \/ GoneOf(h, n, u)
           /\ y.typing <=> x.typing \/ (u \notin {"gap", "report"} /\ ~GoneOf(h, n, u))
<1>0. n \in Nat /\ g[n + 1] = u /\ (\A i \in 1 .. n : g[i] = h[i]) /\ DOMAIN h = 1 .. n /\ DOMAIN g = 1 .. n + 1
  BY DEF Grown
<1>1. n + 1 \in 1 .. n + 1 /\ (\A i \in 1 .. n : i \in 1 .. n + 1) /\ 1 .. n + 1 = (1 .. n) \cup {n + 1}
  BY <1>0
<1>2. ASSUME NEW i \in 1 .. n
      PROVE  /\ SubmitOf(g, i) <=> SubmitOf(h, i)
             /\ CtrlZOf(g, i) <=> CtrlZOf(h, i)
             /\ TypingOf(g, i) <=> TypingOf(h, i)
  <2>1. g[i] = h[i] /\ i \in 1 .. n + 1
    BY <1>0, <1>1
  <2>2. PasteOf(g, i) <=> PasteOf(h, i)
    BY <2>1, PasteGrows
  <2>3. NewlineOf(g, i) <=> NewlineOf(h, i)
    BY <2>1, NewlineGrows
  <2>4. CtrlZOf(g, i) <=> CtrlZOf(h, i)
    BY CtrlZGrows
  <2>5. SubmitOf(g, i) <=> SubmitOf(h, i)
    BY <2>1, <2>2, <2>3, Zenon DEF SubmitOf
  <2>6. TypingOf(g, i) <=> TypingOf(h, i)
    BY <2>1, <2>4, Zenon DEF TypingOf
  <2> QED
    BY <2>4, <2>5, <2>6
<1>3. SubmitOf(g, n + 1) <=> ~PasteOf(h, n + 1) /\ (u = "kitty_enter" \/ (u = "cr" /\ ~NewlineOf(h, n + 1)))
  <2>1. PasteOf(g, n + 1) <=> PasteOf(h, n + 1)
    BY <1>1, PasteGrows
  <2>2. NewlineOf(g, n + 1) <=> NewlineOf(h, n + 1)
    BY <1>1, NewlineGrows
  <2> QED
    BY <1>0, <2>1, <2>2, Zenon DEF SubmitOf
<1>4. CtrlZOf(g, n + 1) <=> GoneOf(h, n, u)
  BY CtrlZGrows
<1>5. TypingOf(g, n + 1) <=> u \notin {"gap", "report"} /\ ~GoneOf(h, n, u)
  BY <1>0, <1>4, Zenon DEF TypingOf
<1>6. /\ x.submit <=> \E i \in 1 .. n : SubmitOf(h, i)
      /\ x.ctrl_z <=> \E i \in 1 .. n : CtrlZOf(h, i)
      /\ x.typing <=> \E i \in 1 .. n : TypingOf(h, i)
  BY <1>0 DEF MeantOf
<1>7. /\ y.submit <=> \E i \in 1 .. n + 1 : SubmitOf(g, i)
      /\ y.ctrl_z <=> \E i \in 1 .. n + 1 : CtrlZOf(g, i)
      /\ y.typing <=> \E i \in 1 .. n + 1 : TypingOf(g, i)
  BY <1>0 DEF MeantOf
<1>8. y.submit <=> x.submit \/ SubmitOf(g, n + 1)
  BY <1>1, <1>2, <1>6, <1>7
<1>9. y.ctrl_z <=> x.ctrl_z \/ CtrlZOf(g, n + 1)
  BY <1>1, <1>2, <1>6, <1>7
<1>10. y.typing <=> x.typing \/ TypingOf(g, n + 1)
  BY <1>1, <1>2, <1>6, <1>7
<1> QED
  BY <1>3, <1>4, <1>5, <1>8, <1>9, <1>10

LEMMA PiecesTyped ==
    ASSUME NEW t \in Stroke
    PROVE  Pieces(t) \in Seq(KeyPiece)
<1>1. CASE t \in Split
  <2>1. PICK b \in KeyPiece, c \in KeyPiece : Pieces(t) = <<b, c>>
    BY <1>1, SplitPieces
  <2>2. <<b, c>> \in Seq(KeyPiece)
    BY PairJoined
  <2> QED
    BY <2>1, <2>2
<1>2. CASE t \in Single /\ t \notin Split
  BY <1>2 DEF Pieces, KeyPiece
<1> QED
  BY <1>1, <1>2 DEF Stroke

StrokesIn(h) == [i \in DOMAIN h |-> StrokeOf(h, i)]
PassedIn(h) == [i \in DOMAIN h |-> SentOf(h, i)]

LEMMA SentTyped ==
    ASSUME NEW h \in History, NEW i \in DOMAIN h
    PROVE  StrokeOf(h, i) \in Seq(KeyPiece) /\ SentOf(h, i) \in Seq(KeyPiece)
<1>1. h[i] \in Stroke \cup {"gap"}
  BY DEF History
<1>2. <<>> \in Seq(KeyPiece)
  BY Empties
<1>3. h[i] # "gap" => Pieces(h[i]) \in Seq(KeyPiece)
  BY <1>1, PiecesTyped
<1> QED
  BY <1>2, <1>3 DEF StrokeOf, SentOf

LEMMA SentsTyped ==
    ASSUME NEW h \in History, NEW n \in Nat, Len(h) = n, DOMAIN h = 1 .. n
    PROVE  /\ StrokesIn(h) \in Seq(Seq(KeyPiece)) /\ Len(StrokesIn(h)) = n
           /\ PassedIn(h) \in Seq(Seq(KeyPiece)) /\ Len(PassedIn(h)) = n
<1>1. \A i \in 1 .. n : StrokeOf(h, i) \in Seq(KeyPiece) /\ SentOf(h, i) \in Seq(KeyPiece)
  BY SentTyped
<1>2. [i \in 1 .. n |-> StrokeOf(h, i)] \in Seq(Seq(KeyPiece)) /\ Len([i \in 1 .. n |-> StrokeOf(h, i)]) = n
  BY <1>1
<1>3. [i \in 1 .. n |-> SentOf(h, i)] \in Seq(Seq(KeyPiece)) /\ Len([i \in 1 .. n |-> SentOf(h, i)]) = n
  BY <1>1
<1>4. StrokesIn(h) = [i \in 1 .. n |-> StrokeOf(h, i)] /\ PassedIn(h) = [i \in 1 .. n |-> SentOf(h, i)]
  BY DEF StrokesIn, PassedIn
<1> QED
  BY <1>2, <1>3, <1>4, Zenon

\* What one sequence more makes of a flattened sequence.
Flattened(t, s, e) == FlattenSeq(t) = FlattenSeq(s) \o e

LEMMA FlattenedMore ==
    ASSUME NEW s \in Seq(Seq(KeyPiece)), NEW n \in Nat, Len(s) = n, NEW e \in Seq(KeyPiece), NEW t,
           t = [i \in 1 .. n + 1 |-> t[i]], t[n + 1] = e, \A i \in 1 .. n : t[i] = s[i]
    PROVE  Flattened(t, s, e)
<1>1. Longer(Append(s, e), s, e, n)
  BY OneMore, Zenon
<1>2. \A i \in 1 .. n + 1 : (i <= n => i \in 1 .. n) /\ (~(i <= n) => i = n + 1)
  OBVIOUS
<1>3. \A i \in 1 .. n + 1 : t[i] = IF i <= n THEN s[i] ELSE e
  BY <1>2, Zenon
<1>4. t = [i \in 1 .. n + 1 |-> IF i <= n THEN s[i] ELSE e]
  BY <1>3, Zenon
<1>5. t = Append(s, e)
  BY <1>1, <1>4, Zenon DEF Longer
<1>6. FlattenSeq(Append(s, e)) = FlattenSeq(s) \o e
  BY FlattenMore, Zenon
<1> QED
  BY <1>5, <1>6, Zenon DEF Flattened

LEMMA PassedGrows ==
    ASSUME NEW g, NEW h, NEW u, NEW n, Grown(g, h, u, n)
    PROVE  /\ StrokesOf(g) = StrokesOf(h) \o (IF u = "gap" THEN <<>> ELSE Pieces(u))
           /\ PassedOf(g) = PassedOf(h) \o (IF u = "gap" \/ GoneOf(h, n, u) THEN <<>> ELSE Pieces(u))
           /\ StrokesOf(h) \in Seq(KeyPiece) /\ PassedOf(h) \in Seq(KeyPiece)
<1>0. /\ n \in Nat /\ g[n + 1] = u /\ \A i \in 1 .. n : g[i] = h[i]
      /\ DOMAIN h = 1 .. n /\ DOMAIN g = 1 .. n + 1 /\ h \in History /\ g \in History /\ Len(h) = n /\ Len(g) = n + 1
  BY DEF Grown
<1>1. n + 1 \in 1 .. n + 1 /\ n + 1 \in Nat /\ \A i \in 1 .. n : i \in 1 .. n + 1
  BY <1>0
<1>2. PICK s \in Seq(Seq(KeyPiece)) : s = StrokesIn(h) /\ Len(s) = n
  BY <1>0, SentsTyped, Zenon
<1>3. PICK p \in Seq(Seq(KeyPiece)) : p = PassedIn(h) /\ Len(p) = n
  BY <1>0, SentsTyped, Zenon
<1>4. PICK t : t = StrokesIn(g)
  OBVIOUS
<1>5. PICK q : q = PassedIn(g)
  OBVIOUS
<1>6. t = [i \in 1 .. n + 1 |-> t[i]] /\ \A i \in 1 .. n + 1 : t[i] = StrokeOf(g, i)
  BY <1>0, <1>4 DEF StrokesIn
<1>7. q = [i \in 1 .. n + 1 |-> q[i]] /\ \A i \in 1 .. n + 1 : q[i] = SentOf(g, i)
  BY <1>0, <1>5 DEF PassedIn
<1>8. \A i \in 1 .. n : t[i] = s[i]
  <2>1. \A i \in 1 .. n : s[i] = StrokeOf(h, i)
    BY <1>0, <1>2 DEF StrokesIn
  <2>2. ASSUME NEW i \in 1 .. n PROVE t[i] = s[i]
    <3>1. t[i] = StrokeOf(g, i) /\ s[i] = StrokeOf(h, i) /\ g[i] = h[i]
      BY <1>0, <1>1, <1>6, <2>1
    <3> QED
      BY <3>1 DEF StrokeOf
  <2> QED
    BY <2>2
<1>9. \A i \in 1 .. n : q[i] = p[i]
  <2>1. \A i \in 1 .. n : p[i] = SentOf(h, i)
    BY <1>0, <1>3 DEF PassedIn
  <2>2. \A i \in 1 .. n : CtrlZOf(g, i) <=> CtrlZOf(h, i)
    BY CtrlZGrows
  <2>3. ASSUME NEW i \in 1 .. n PROVE q[i] = p[i]
    <3>1. q[i] = SentOf(g, i) /\ p[i] = SentOf(h, i) /\ g[i] = h[i] /\ (CtrlZOf(g, i) <=> CtrlZOf(h, i))
      BY <1>0, <1>1, <1>7, <2>1, <2>2
    <3> QED
      BY <3>1 DEF SentOf
  <2> QED
    BY <2>3
<1>10. PICK e : e = IF u = "gap" THEN <<>> ELSE Pieces(u)
  OBVIOUS
<1>11. PICK d : d = IF u = "gap" \/ GoneOf(h, n, u) THEN <<>> ELSE Pieces(u)
  OBVIOUS
<1>12. t[n + 1] = e /\ e \in Seq(KeyPiece)
  <2>1. t[n + 1] = StrokeOf(g, n + 1) /\ StrokeOf(g, n + 1) = e
    BY <1>0, <1>1, <1>6, <1>10, Zenon DEF StrokeOf
  <2>2. StrokeOf(g, n + 1) \in Seq(KeyPiece)
    BY <1>0, <1>1, SentTyped
  <2> QED
    BY <2>1, <2>2, Zenon
<1>13. q[n + 1] = d /\ d \in Seq(KeyPiece)
  <2>1. CtrlZOf(g, n + 1) <=> GoneOf(h, n, u)
    BY CtrlZGrows
  <2>2. q[n + 1] = SentOf(g, n + 1) /\ SentOf(g, n + 1) = d
    BY <1>0, <1>1, <1>7, <1>11, <2>1 DEF SentOf
  <2>3. SentOf(g, n + 1) \in Seq(KeyPiece)
    BY <1>0, <1>1, SentTyped
  <2> QED
    BY <2>2, <2>3, Zenon
<1>14. FlattenSeq(t) = FlattenSeq(s) \o e
  <2>1. t = [i \in 1 .. n + 1 |-> t[i]] /\ t[n + 1] = e /\ e \in Seq(KeyPiece)
    BY <1>6, <1>12
  <2>2. Flattened(t, s, e)
    BY <1>0, <1>2, <1>8, <2>1, FlattenedMore, Zenon
  <2> QED
    BY <2>2, Zenon DEF Flattened
<1>15. FlattenSeq(q) = FlattenSeq(p) \o d
  <2>1. q = [i \in 1 .. n + 1 |-> q[i]] /\ q[n + 1] = d /\ d \in Seq(KeyPiece)
    BY <1>7, <1>13
  <2>2. Flattened(q, p, d)
    BY <1>0, <1>3, <1>9, <2>1, FlattenedMore, Zenon
  <2> QED
    BY <2>2, Zenon DEF Flattened
<1>16. FlattenSeq(s) \in Seq(KeyPiece) /\ FlattenSeq(p) \in Seq(KeyPiece)
  BY FlattenTyped, Zenon
<1>17. \A x : StrokesOf(x) = FlattenSeq(StrokesIn(x)) /\ PassedOf(x) = FlattenSeq(PassedIn(x))
  BY Zenon DEF StrokesOf, PassedOf, StrokesIn, PassedIn
<1> QED
  BY <1>2, <1>3, <1>4, <1>5, <1>10, <1>11, <1>14, <1>15, <1>16, <1>17, Zenon

-----------------------------------------------------------------------------
(* Reports are told from keys by whole sequences.                          *)

R1 == <<"report", 1>>
R2 == <<"report", 2>>
Paired(s) == \A i \in DOMAIN s : /\ s[i] = R1 => i < Len(s) /\ s[i + 1] = R2
                                 /\ s[i] = R2 => i > 1 /\ s[i - 1] = R1
Other(s) == \E i \in DOMAIN s : s[i][1] # "report"
NotHalf(s) == s = <<>> \/ s[Len(s)] # R1

\* s and then t, by places.
Laid(r, s, t, m, k) ==
    /\ r \in Seq(KeyPiece) /\ s \in Seq(KeyPiece) /\ t \in Seq(KeyPiece) /\ m \in Nat /\ k \in Nat
    /\ Len(s) = m /\ Len(t) = k /\ Len(r) = m + k /\ DOMAIN s = 1 .. m /\ DOMAIN t = 1 .. k /\ DOMAIN r = 1 .. m + k
    /\ \A i \in 1 .. m : r[i] = s[i]
    /\ \A i \in 1 .. k : r[m + i] = t[i]

LEMMA LaidIs ==
    ASSUME NEW s \in Seq(KeyPiece), NEW t \in Seq(KeyPiece), NEW r, r = s \o t
    PROVE  Laid(r, s, t, Len(s), Len(t))
<1>1. PICK m \in Nat : m = Len(s) /\ DOMAIN s = 1 .. m
  OBVIOUS
<1>2. PICK k \in Nat : k = Len(t) /\ DOMAIN t = 1 .. k
  OBVIOUS
<1>3. r \in Seq(KeyPiece) /\ Len(r) = m + k /\ DOMAIN r = 1 .. m + k
  BY <1>1, <1>2
<1>4. \A i \in 1 .. m : r[i] = s[i]
  BY <1>1, <1>2
<1>5. \A i \in 1 .. k : r[m + i] = t[i]
  BY <1>1, <1>2
<1>6. Laid(r, s, t, m, k)
  BY <1>1, <1>2, <1>3, <1>4, <1>5 DEF Laid
<1> QED
  BY <1>1, <1>2, <1>6

LEMMA LaidPlaces ==
    ASSUME NEW m \in Nat, NEW k \in Nat, NEW i \in 1 .. m + k
    PROVE  i \in 1 .. m \/ \E j \in 1 .. k : i = m + j
<1>1. CASE i > m
  <2>1. i - m \in 1 .. k /\ i = m + (i - m)
    BY <1>1
  <2> QED
    BY <2>1
<1>2. CASE ~(i > m)
  BY <1>2
<1> QED
  BY <1>1, <1>2

LEMMA NextPlace ==
    ASSUME NEW m \in Nat, NEW k \in Nat, NEW j \in 1 .. k
    PROVE  /\ j < k => j + 1 \in 1 .. k /\ (m + j) + 1 = m + (j + 1) /\ m + j < m + k
           /\ j > 1 => j - 1 \in 1 .. k /\ (m + j) - 1 = m + (j - 1) /\ m + j > 1
OBVIOUS

LEMMA OtherJoined ==
    ASSUME NEW s \in Seq(KeyPiece), NEW t \in Seq(KeyPiece)
    PROVE  Other(s \o t) <=> Other(s) \/ Other(t)
<1>1. PICK r, m, k : r = s \o t /\ Laid(r, s, t, m, k)
  BY LaidIs, Zenon
<1> USE <1>1 DEF Laid
<1>2. ASSUME Other(r) PROVE Other(s) \/ Other(t)
  <2>1. PICK i \in 1 .. m + k : r[i][1] # "report"
    BY <1>2 DEF Other
  <2>2. CASE i \in 1 .. m
    BY <2>1, <2>2 DEF Other
  <2>3. ASSUME NEW j \in 1 .. k, i = m + j PROVE Other(t)
    <3>1. t[j][1] # "report" /\ j \in DOMAIN t
      BY <2>1, <2>3
    <3> QED
      BY <3>1 DEF Other
  <2> QED
    BY <2>2, <2>3, LaidPlaces
<1>3. ASSUME Other(s) PROVE Other(r)
  <2>1. PICK i \in 1 .. m : s[i][1] # "report"
    BY <1>3 DEF Other
  <2>2. i \in 1 .. m + k /\ r[i] = s[i]
    BY <2>1
  <2> QED
    BY <2>1, <2>2 DEF Other
<1>4. ASSUME Other(t) PROVE Other(r)
  <2>1. PICK i \in 1 .. k : t[i][1] # "report"
    BY <1>4 DEF Other
  <2>2. m + i \in 1 .. m + k /\ r[m + i] = t[i]
    BY <2>1
  <2> QED
    BY <2>1, <2>2 DEF Other
<1> QED
  BY <1>2, <1>3, <1>4

LEMMA PairedJoined ==
    ASSUME NEW s \in Seq(KeyPiece), NEW t \in Seq(KeyPiece), Paired(s), Paired(t)
    PROVE  Paired(s \o t)
<1>1. PICK r, m, k : r = s \o t /\ Laid(r, s, t, m, k)
  BY LaidIs, Zenon
<1> USE <1>1 DEF Laid
<1>2. ASSUME NEW i \in 1 .. m + k
      PROVE  /\ r[i] = R1 => i < m + k /\ r[i + 1] = R2
             /\ r[i] = R2 => i > 1 /\ r[i - 1] = R1
  <2>1. CASE i \in 1 .. m
    <3>1. r[i] = s[i]
      BY <2>1
    <3>2. r[i] = R1 => i < m /\ s[i + 1] = R2
      BY <2>1, <3>1 DEF Paired
    <3>3. r[i] = R2 => i > 1 /\ s[i - 1] = R1
      BY <2>1, <3>1 DEF Paired
    <3>4. i < m => i + 1 \in 1 .. m /\ r[i + 1] = s[i + 1]
      BY <2>1
    <3>5. i > 1 => i - 1 \in 1 .. m /\ r[i - 1] = s[i - 1]
      BY <2>1
    <3>6. i < m => i < m + k
      OBVIOUS
    <3> QED
      BY <3>2, <3>3, <3>4, <3>5, <3>6
  <2>2. ASSUME NEW j \in 1 .. k, i = m + j
        PROVE  /\ r[i] = R1 => i < m + k /\ r[i + 1] = R2
               /\ r[i] = R2 => i > 1 /\ r[i - 1] = R1
    <3>1. r[i] = t[j]
      BY <2>2
    <3>2. r[i] = R1 => j < k /\ t[j + 1] = R2
      BY <2>2, <3>1 DEF Paired
    <3>3. r[i] = R2 => j > 1 /\ t[j - 1] = R1
      BY <2>2, <3>1 DEF Paired
    <3>4. j < k => i < m + k /\ r[i + 1] = t[j + 1]
      <4>1. j < k => j + 1 \in 1 .. k /\ i + 1 = m + (j + 1) /\ i < m + k
        BY <2>2, NextPlace, Zenon
      <4> QED
        BY <4>1
    <3>5. j > 1 => i > 1 /\ r[i - 1] = t[j - 1]
      <4>1. j > 1 => j - 1 \in 1 .. k /\ i - 1 = m + (j - 1) /\ i > 1
        BY <2>2, NextPlace, Zenon
      <4> QED
        BY <4>1
    <3> QED
      BY <3>2, <3>3, <3>4, <3>5
  <2> QED
    BY <2>1, <2>2, LaidPlaces
<1>3. Paired(r)
  BY <1>2 DEF Paired
<1> QED
  BY <1>3

LEMMA PiecesPaired ==
    ASSUME NEW t \in Stroke
    PROVE  Paired(Pieces(t)) /\ (Other(Pieces(t)) <=> t # "report")
<1>1. CASE t \in Split
  <2>1. PICK b \in KeyPiece, c \in KeyPiece : b = <<t, 1>> /\ c = <<t, 2>> /\ Pieces(t) = <<b, c>>
    BY <1>1, SplitPieces
  <2>2. PICK s : s = <<b, c>>
    OBVIOUS
  <2>3. Len(s) = 2 /\ DOMAIN s = 1 .. 2 /\ s[1] = b /\ s[2] = c
    BY <2>2
  <2>4. \A i \in 1 .. 2 : i = 1 \/ i = 2
    OBVIOUS
  <2>5. b # R2 /\ c # R1 /\ (b = R1 => c = R2) /\ (c = R2 => b = R1) /\ b[1] = t /\ c[1] = t
    BY <2>1 DEF R1, R2
  <2>6. Paired(s)
    BY <2>3, <2>4, <2>5 DEF Paired
  <2>7. Other(s) <=> t # "report"
    BY <2>3, <2>4, <2>5 DEF Other
  <2> QED
    BY <2>1, <2>2, <2>6, <2>7
<1>2. CASE t \in Single /\ t \notin Split
  <2>1. PICK s : s = Pieces(t) /\ s = << <<t, 0>> >>
    BY <1>2 DEF Pieces
  <2>2. Len(s) = 1 /\ DOMAIN s = 1 .. 1 /\ s[1] = <<t, 0>> /\ t # "report"
    BY <1>2, <2>1 DEF Single
  <2>3. \A i \in 1 .. 1 : i = 1
    OBVIOUS
  <2>4. s[1] # R1 /\ s[1] # R2 /\ s[1][1] # "report"
    BY <2>2 DEF R1, R2
  <2> QED
    BY <2>1, <2>2, <2>3, <2>4 DEF Paired, Other
<1> QED
  BY <1>1, <1>2 DEF Stroke

\* Of what is told from reports, nothing is half a report at either end.
LEMMA PartTyping ==
    ASSUME NEW looked \in Seq(KeyPiece), NEW part \in Seq(KeyPiece), NEW e \in Seq(KeyPiece),
           Paired((looked \o part) \o e), NotHalf(looked), NotHalf(part)
    PROVE  IsTyping(part) <=> Other(part)
<1>1. PICK w, m, k : w = looked \o part /\ Laid(w, looked, part, m, k)
  BY LaidIs, Zenon
<1>2. PICK r, l : r = w \o e /\ Laid(r, w, e, m + k, l)
  <2>1. w \in Seq(KeyPiece) /\ Len(w) = m + k
    BY <1>1 DEF Laid
  <2>2. PICK r : r = w \o e
    OBVIOUS
  <2> QED
    BY <2>1, <2>2, LaidIs
<1>3. Paired(r) /\ m \in Nat /\ k \in Nat /\ l \in Nat /\ Len(part) = k /\ DOMAIN part = 1 .. k /\ DOMAIN r = 1 .. m + k + l
      /\ Len(looked) = m
  BY <1>1, <1>2 DEF Laid
<1>4. ASSUME NEW i \in 1 .. k PROVE m + i \in 1 .. m + k + l /\ r[m + i] = part[i]
  <2>1. m + i \in 1 .. m + k /\ m + i \in 1 .. m + k + l
    BY <1>3
  <2>2. r[m + i] = w[m + i]
    BY <1>2, <2>1 DEF Laid
  <2>3. w[m + i] = part[i]
    BY <1>1 DEF Laid
  <2> QED
    BY <2>1, <2>2, <2>3
<1>5. ASSUME m > 0 PROVE r[m] = looked[m]
  <2>1. m \in 1 .. m /\ m \in 1 .. m + k
    BY <1>3, <1>5
  <2> QED
    BY <1>1, <1>2, <2>1 DEF Laid
<1>6. ASSUME NEW i \in 1 .. k, part[i] = R1 PROVE i < k /\ part[i + 1] = R2
  <2>1. r[m + i] = R1
    BY <1>4, <1>6
  <2>2. r[(m + i) + 1] = R2
    BY <1>3, <1>4, <2>1 DEF Paired
  <2>3. i # k
    <3>1. part # <<>>
      BY <1>3
    <3> QED
      BY <1>3, <1>6, <3>1 DEF NotHalf
  <2>4. i < k /\ i + 1 \in 1 .. k /\ (m + i) + 1 = m + (i + 1)
    BY <1>3, <2>3
  <2> QED
    BY <1>4, <2>2, <2>4
<1>7. ASSUME NEW i \in 1 .. k, part[i] = R2 PROVE i > 1 /\ part[i - 1] = R1
  <2>1. r[m + i] = R2
    BY <1>4, <1>7
  <2>2. m + i > 1 /\ r[(m + i) - 1] = R1
    BY <1>3, <1>4, <2>1 DEF Paired
  <2>3. i # 1
    <3>1. SUFFICES ASSUME i = 1 PROVE FALSE
      OBVIOUS
    <3>2. m > 0 /\ r[m] = R1
      BY <1>3, <2>2, <3>1
    <3>3. looked[m] = R1 /\ looked # <<>>
      BY <1>3, <1>5, <3>2
    <3> QED
      BY <1>3, <3>3 DEF NotHalf
  <2>4. i > 1 /\ i - 1 \in 1 .. k /\ (m + i) - 1 = m + (i - 1)
    BY <1>3, <2>3
  <2> QED
    BY <1>4, <2>2, <2>4
<1>8. \A i \in 1 .. k : (part[i][1] = "report" <=> part[i] = R1 \/ part[i] = R2)
  <2>1. \A i \in 1 .. k : part[i] \in KeyPiece
    BY <1>3
  <2>2. ASSUME NEW c \in KeyPiece PROVE c[1] = "report" <=> c = R1 \/ c = R2
    BY PieceIs DEF R1, R2, Single
  <2> QED
    BY <2>1, <2>2
<1>9. IsTyping(part) <=> \E i \in 1 .. k :
          ~ \/ part[i] = R1 /\ i < k /\ part[i + 1] = R2
            \/ part[i] = R2 /\ i > 1 /\ part[i - 1] = R1
  BY <1>3 DEF IsTyping, R1, R2
<1>10. IsTyping(part) <=> \E i \in 1 .. k : ~(part[i] = R1 \/ part[i] = R2)
  BY <1>6, <1>7, <1>9
<1>11. Other(part) <=> \E i \in 1 .. k : part[i][1] # "report"
  BY <1>3 DEF Other
<1> QED
  BY <1>8, <1>10, <1>11

LEMMA LastOff ==
    ASSUME NEW s \in Seq(KeyPiece), s # <<>>
    PROVE  /\ Front(s) \in Seq(KeyPiece) /\ Last(s) \in KeyPiece /\ Front(s) \o <<Last(s)>> = s
           /\ Last(s) = s[Len(s)]
<1>1. PICK n \in Nat : n = Len(s) /\ n # 0
  OBVIOUS
<1>2. PICK f \in Seq(KeyPiece) : f = Front(s) /\ Len(f) = n - 1 /\ \A i \in 1 .. n - 1 : f[i] = s[i]
  <2>1. PICK f : f = SubSeq(s, 1, n - 1)
    OBVIOUS
  <2>2. f \in Seq(KeyPiece) /\ Len(f) = n - 1
    BY <1>1, <2>1
  <2>3. \A i \in 1 .. n - 1 : f[i] = s[i]
    BY <1>1, <2>1
  <2> QED
    BY <1>1, <2>1, <2>2, <2>3, Zenon DEF Front
<1>3. PICK a \in KeyPiece : a = Last(s) /\ a = s[n]
  <2>1. s[n] \in KeyPiece
    BY <1>1
  <2> QED
    BY <1>1, <2>1, Zenon DEF Last
<1>4. PICK r \in Seq(KeyPiece) : r = f \o <<a>>
  BY OnePiece, Zenon
<1>5. Len(r) = n /\ r[n] = a /\ \A i \in 1 .. n - 1 : r[i] = f[i]
  <2>1. <<a>> \in Seq(KeyPiece) /\ Len(<<a>>) = 1 /\ <<a>>[1] = a
    OBVIOUS
  <2>2. Laid(r, f, <<a>>, n - 1, 1)
    BY <1>2, <1>4, <2>1, LaidIs
  <2>3. (n - 1) + 1 = n /\ 1 \in 1 .. 1
    BY <1>1
  <2> QED
    BY <2>1, <2>2, <2>3 DEF Laid
<1>6. \A i \in 1 .. n : r[i] = s[i]
  <2>1. \A i \in 1 .. n : i = n \/ i \in 1 .. n - 1
    BY <1>1
  <2> QED
    BY <1>2, <1>3, <1>5, <2>1
<1>7. r = s
  BY <1>1, <1>5, <1>6
<1> QED
  BY <1>1, <1>2, <1>3, <1>4, <1>7, Zenon

\* What the detector looks at is what it held and the data, up to what it holds now.
Looks(d, held, data, final, part) ==
    /\ part \in Seq(KeyPiece) /\ held \o data = part \o d.held /\ d.typing = IsTyping(part)
    /\ d.held \in Starts /\ (final => d.held = <<>>)
    /\ d.held = <<>> /\ ~final /\ part # <<>> => ~MayStart(part[Len(part)])
    /\ d.held # <<>> => MayStart(d.held[1])

LEMMA DetectIs ==
    ASSUME detector \in Seq(KeyPiece), NEW data \in Seq(KeyPiece), NEW final \in BOOLEAN
    PROVE  \E part : Looks(Detect(data, final), detector, data, final, part)
<1>1. PICK b \in Seq(KeyPiece) : b = detector \o data
  <2>1. detector \o data \in Seq(KeyPiece)
    OBVIOUS
  <2> QED
    BY <2>1, Zenon
<1>2. PICK d : d = Detect(data, final)
  OBVIOUS
<1>3. CASE ~final /\ b # <<>> /\ MayStart(Last(b))
  <2>1. d = [typing |-> IsTyping(Front(b)), held |-> <<Last(b)>>]
    BY <1>1, <1>2, <1>3, Zenon DEF Detect
  <2>2. d.typing = IsTyping(Front(b)) /\ d.held = <<Last(b)>>
    BY <2>1
  <2>3. Front(b) \in Seq(KeyPiece) /\ Last(b) \in KeyPiece /\ Front(b) \o <<Last(b)>> = b
    BY <1>3, LastOff
  <2>4. <<Last(b)>> \in Starts
    BY <1>3, <2>3, StartOne
  <2>5. d.held # <<>> /\ d.held[1] = Last(b)
    BY <2>2
  <2>6. Looks(d, detector, data, final, Front(b))
    BY <1>1, <1>3, <2>2, <2>3, <2>4, <2>5, Zenon DEF Looks
  <2> QED
    BY <1>2, <2>6
<1>4. CASE ~(~final /\ b # <<>> /\ MayStart(Last(b)))
  <2>1. d = [typing |-> IsTyping(b), held |-> <<>>]
    BY <1>1, <1>2, <1>4, Zenon DEF Detect
  <2>2. d.typing = IsTyping(b) /\ d.held = <<>>
    BY <2>1
  <2>3. b \o <<>> = b /\ <<>> \in Starts
    BY ConcatEmptySeq DEF Starts
  <2>4. ~final /\ b # <<>> => ~MayStart(b[Len(b)])
    BY <1>4 DEF Last
  <2>5. Looks(d, detector, data, final, b)
    BY <1>1, <2>2, <2>3, <2>4, Zenon DEF Looks
  <2> QED
    BY <1>2, <2>5
<1> QED
  BY <1>3, <1>4

\* Nothing but the whole reports of what was looked at so far is no typing.
ToldSoFar(passed, held, typing) ==
    \E looked \in Seq(KeyPiece) : passed = looked \o held /\ NotHalf(looked) /\ typing = Other(looked)

LEMMA StartIsNoRest ==
    ASSUME NEW s \in Starts, s # <<>>
    PROVE  s[1] # R2
BY StartIs, PieceIs DEF R2, Split

LEMMA ToldMore ==
    ASSUME NEW passed \in Seq(KeyPiece), NEW held \in Starts, NEW typing \in BOOLEAN, ToldSoFar(passed, held, typing),
           NEW data \in Seq(KeyPiece), NEW final \in BOOLEAN, NEW d, NEW part, Looks(d, held, data, final, part),
           NEW e \in Seq(KeyPiece), Paired((passed \o data) \o e), final => e = <<>>
    PROVE  ToldSoFar(passed \o data, d.held, typing \/ d.typing)
<1>0. held \in Seq(KeyPiece) /\ d.held \in Seq(KeyPiece) /\ part \in Seq(KeyPiece) /\ d.held \in Starts
  BY StartSeq DEF Looks
<1>1. PICK looked \in Seq(KeyPiece) : passed = looked \o held /\ NotHalf(looked) /\ typing = Other(looked)
  BY DEF ToldSoFar
<1>2. PICK new \in Seq(KeyPiece) : new = looked \o part
  <2>1. looked \o part \in Seq(KeyPiece)
    BY <1>0
  <2> QED
    BY <2>1, Zenon
<1>3. passed \o data = new \o d.held
  <2>1. Grouped(looked, held, data) /\ Grouped(looked, part, d.held)
    BY <1>0, <1>1, Regroups, Zenon
  <2>2. (looked \o held) \o data = looked \o (held \o data) /\ (looked \o part) \o d.held = looked \o (part \o d.held)
    BY <2>1, Zenon DEF Grouped
  <2>3. held \o data = part \o d.held
    BY Zenon DEF Looks
  <2> QED
    BY <1>1, <1>2, <2>2, <2>3, Zenon
<1>4. PICK f \in Seq(KeyPiece) : f = d.held \o e
  <2>1. d.held \o e \in Seq(KeyPiece)
    BY <1>0
  <2> QED
    BY <2>1, Zenon
<1>5. (passed \o data) \o e = new \o f
  <2>1. Grouped(new, d.held, e)
    BY <1>0, <1>2, Regroups, Zenon
  <2>2. (new \o d.held) \o e = new \o (d.held \o e)
    BY <2>1, Zenon DEF Grouped
  <2> QED
    BY <1>3, <1>4, <2>2, Zenon
<1>6. Paired(new \o f)
  BY <1>5, Zenon
<1>7. NotHalf(part)
  <2>1. SUFFICES ASSUME part # <<>>, part[Len(part)] = R1 PROVE FALSE
    BY DEF NotHalf
  <2>2. PICK m, k : Laid(new, looked, part, m, k)
    BY <1>0, <1>1, <1>2, LaidIs
  <2>3. PICK r, l : r = new \o f /\ Laid(r, new, f, m + k, l)
    <3>1. Len(new) = m + k
      BY <2>2 DEF Laid
    <3>2. PICK r : r = new \o f
      OBVIOUS
    <3> QED
      BY <1>2, <1>4, <3>1, <3>2, LaidIs
  <2>4. /\ m \in Nat /\ k \in Nat /\ l \in Nat /\ Len(part) = k /\ DOMAIN r = 1 .. m + k + l /\ Len(r) = m + k + l /\ Paired(r)
        /\ Len(f) = l
    BY <1>6, <2>2, <2>3 DEF Laid
  <2>5. k > 0
    BY <1>0, <2>1, <2>4
  <2>6. r[m + k] = R1
    <3>1. m + k \in 1 .. m + k /\ k \in 1 .. k
      BY <2>4, <2>5
    <3>2. r[m + k] = new[m + k] /\ new[m + k] = part[k]
      BY <2>2, <2>3, <3>1 DEF Laid
    <3> QED
      BY <2>1, <2>4, <3>2
  <2>7. m + k < m + k + l /\ r[(m + k) + 1] = R2
    <3>1. m + k \in 1 .. m + k + l
      BY <2>4, <2>5
    <3> QED
      BY <2>4, <2>6, <3>1 DEF Paired
  <2>8. f[1] = R2 /\ l > 0
    <3>1. 1 \in 1 .. l
      BY <2>4, <2>7
    <3>2. r[(m + k) + 1] = f[1]
      BY <2>3, <3>1 DEF Laid
    <3> QED
      BY <2>4, <2>7, <3>1, <3>2
  <2>9. CASE d.held # <<>>
    <3>1. PICK c \in KeyPiece : d.held = <<c>> /\ c = d.held[1]
      BY <1>0, <2>9, StartIs
    <3>2. f[1] = c
      BY <1>4, <3>1
    <3> QED
      BY <1>0, <2>8, <2>9, <3>1, <3>2, StartIsNoRest
  <2>10. CASE d.held = <<>> /\ ~final
    <3>1. ~MayStart(part[Len(part)])
      BY <2>1, <2>10 DEF Looks
    <3> QED
      BY <2>1, <3>1 DEF MayStart, R1
  <2>11. CASE d.held = <<>> /\ final
    <3>1. f = <<>>
      BY <1>0, <1>4, <2>11, ConcatEmptySeq
    <3> QED
      BY <2>4, <2>8, <3>1
  <2> QED
    BY <2>9, <2>10, <2>11
<1>8. IsTyping(part) <=> Other(part)
  <2>1. Paired((looked \o part) \o f)
    BY <1>2, <1>6, Zenon
  <2> QED
    BY <1>0, <1>1, <1>4, <1>7, <2>1, PartTyping
<1>9. (typing \/ d.typing) <=> Other(new)
  <2>1. Other(looked \o part) <=> Other(looked) \/ Other(part)
    BY <1>0, OtherJoined
  <2>2. d.typing = IsTyping(part)
    BY DEF Looks
  <2> QED
    BY <1>1, <1>2, <1>8, <2>1, <2>2
<1>10. NotHalf(new)
  <2>1. CASE part = <<>>
    <3>1. new = looked
      BY <1>1, <1>2, <2>1, ConcatEmptySeq
    <3> QED
      BY <1>1, <3>1
  <2>2. CASE part # <<>>
    <3>1. PICK m, k : Laid(new, looked, part, m, k)
      BY <1>0, <1>1, <1>2, LaidIs
    <3>2. k > 0 /\ Len(new) = m + k /\ Len(part) = k /\ m \in Nat /\ k \in Nat
      BY <1>0, <2>2, <3>1 DEF Laid
    <3>3. new[m + k] = part[k]
      <4>1. k \in 1 .. k
        BY <3>2
      <4> QED
        BY <3>1, <4>1 DEF Laid
    <3> QED
      BY <1>7, <2>2, <3>2, <3>3 DEF NotHalf
  <2> QED
    BY <2>1, <2>2
<1>11. (typing \/ d.typing) = Other(new)
  BY <1>1, <1>9 DEF Looks, IsTyping, Other
<1> QED
  BY <1>2, <1>3, <1>10, <1>11, Zenon DEF ToldSoFar

-----------------------------------------------------------------------------
(* The keys that are read and those that are not yet mean what was typed.  *)

\* What the filter has done when the history is h and nothing is to be read any more.
AsMeant(h, r) ==
    /\ r \in Taking /\ r.out = PassedOf(h)
    /\ r.submit <=> MeantOf(h).submit
    /\ r.ctrl_z <=> MeantOf(h).ctrl_z
    /\ r.in_paste <=> PasteOf(h, Len(h) + 1)
    /\ Newline(r.prev) <=> NewlineOf(h, Len(h) + 1)
    /\ Paired(r.out)
    /\ Other(r.out) <=> MeantOf(h).typing

InState(passed, flt, rep) ==
    [out |-> passed, in_paste |-> flt.in_paste, prev |-> flt.prev, submit |-> rep.submit, ctrl_z |-> rep.ctrl_z,
     start |-> flt.held]

Filters == [in_paste : BOOLEAN, held : Starts, prev : KeyPiece \cup {Nothing}]
Reports == [submit : BOOLEAN, ctrl_z : BOOLEAN, typing : BOOLEAN]
KeysTyped ==
    /\ typed \in History /\ coming \in Seq(KeyPiece) /\ unread \in Seq(KeyPiece) /\ toChild \in Seq(KeyPiece)
    /\ filter \in Filters /\ detector \in Starts /\ reported \in Reports /\ gaveUp \in BOOLEAN
KeysInv ==
    /\ KeysTyped
    /\ NoCtrlZ((toChild \o filter.held) \o (unread \o coming)) = NoCtrlZ(StrokesOf(typed))
    /\ ~gaveUp => ToldSoFar(toChild, detector, reported.typing)
    /\ ~gaveUp => \E v \in Taking : TakesTo(InState(toChild, filter, reported), unread \o coming, v)
                                    /\ AsMeant(typed, Released(v))

LEMMA InStateIs ==
    ASSUME NEW p \in Seq(KeyPiece), NEW f \in Filters, NEW q \in Reports, NEW r, r = InState(p, f, q)
    PROVE  /\ r \in Taking /\ r.out = p /\ r.in_paste = f.in_paste /\ r.prev = f.prev /\ r.submit = q.submit
           /\ r.ctrl_z = q.ctrl_z /\ r.start = f.held
BY DEF InState, Filters, Reports, Taking

LEMMA MeantGoesOn ==
    ASSUME NEW g, NEW h, NEW t \in Stroke, NEW n, Grown(g, h, t, n), NEW z, AsMeant(h, z), NEW w, Typed(w, z, t)
    PROVE  AsMeant(g, w)
<1>1. n \in Nat /\ Len(h) = n /\ Len(g) = n + 1 /\ (n + 1) + 1 = n + 2
  BY DEF Grown
<1>2. t # "gap"
  BY DEF Stroke, Single, Split
<1>3. PICK x : x = MeantOf(h)
  OBVIOUS
<1>4. PICK y : y = MeantOf(g)
  OBVIOUS
<1>5. /\ z \in Taking /\ z.out = PassedOf(h) /\ (z.submit <=> x.submit) /\ (z.ctrl_z <=> x.ctrl_z)
      /\ (z.in_paste <=> PasteOf(h, n + 1)) /\ (Newline(z.prev) <=> NewlineOf(h, n + 1))
      /\ Paired(z.out) /\ (Other(z.out) <=> x.typing)
  BY <1>1, <1>3 DEF AsMeant
<1>6. Gone(z, t) <=> GoneOf(h, n, t)
  BY <1>5 DEF Gone, GoneOf
<1>7. Submits(z, t) <=> ~PasteOf(h, n + 1) /\ (t = "kitty_enter" \/ (t = "cr" /\ ~NewlineOf(h, n + 1)))
  BY <1>5 DEF Submits
<1>8. w \in Taking
  BY DEF Typed
<1>9. w.out = PassedOf(g) /\ z.out \in Seq(KeyPiece) /\ Pieces(t) \in Seq(KeyPiece)
  <2>1. PassedOf(g) = PassedOf(h) \o (IF GoneOf(h, n, t) THEN <<>> ELSE Pieces(t))
    BY <1>2, PassedGrows
  <2>2. w.out = IF Gone(z, t) THEN z.out ELSE z.out \o Pieces(t)
    BY DEF Typed
  <2>3. z.out \o <<>> = z.out /\ z.out \in Seq(KeyPiece)
    BY <1>5, TakingIs, ConcatEmptySeq
  <2>4. Pieces(t) \in Seq(KeyPiece)
    BY PiecesTyped
  <2> QED
    BY <1>5, <1>6, <2>1, <2>2, <2>3, <2>4
<1>10. w.submit <=> y.submit
  <2>1. w.submit <=> z.submit \/ Submits(z, t)
    BY DEF Typed
  <2>2. y.submit <=> x.submit \/ (~PasteOf(h, n + 1) /\ (t = "kitty_enter" \/ (t = "cr" /\ ~NewlineOf(h, n + 1))))
    BY <1>3, <1>4, MeantGrows
  <2> QED
    BY <1>5, <1>7, <2>1, <2>2
<1>11. w.ctrl_z <=> y.ctrl_z
  <2>1. w.ctrl_z <=> z.ctrl_z \/ Gone(z, t)
    BY DEF Typed
  <2>2. y.ctrl_z <=> x.ctrl_z \/ GoneOf(h, n, t)
    BY <1>3, <1>4, MeantGrows
  <2> QED
    BY <1>5, <1>6, <2>1, <2>2
<1>12. w.in_paste <=> PasteOf(g, n + 2)
  <2>1. w.in_paste <=> IF z.in_paste THEN t # "paste_end" ELSE t = "paste_start"
    BY DEF Typed
  <2>2. PasteOf(g, n + 2) <=> IF PasteOf(h, n + 1) THEN t # "paste_end" ELSE t = "paste_start"
    BY PasteGrows
  <2> QED
    BY <1>5, <2>1, <2>2
<1>13. Newline(w.prev) <=> NewlineOf(g, n + 2)
  <2>1. Newline(w.prev) <=> IF Gone(z, t) THEN Newline(z.prev) ELSE t \in {"esc", "backslash"}
    BY DEF Typed
  <2>2. NewlineOf(g, n + 2) <=> IF GoneOf(h, n, t) THEN NewlineOf(h, n + 1) ELSE t \in {"esc", "backslash"}
    BY NewlineGrows
  <2> QED
    BY <1>5, <1>6, <2>1, <2>2
<1>14. Paired(w.out) /\ (Other(w.out) <=> y.typing)
  <2>1. y.typing <=> x.typing \/ (t # "report" /\ ~GoneOf(h, n, t))
    BY <1>2, <1>3, <1>4, MeantGrows
  <2>2. w.out = IF Gone(z, t) THEN z.out ELSE z.out \o Pieces(t)
    BY DEF Typed
  <2>3. Paired(Pieces(t)) /\ (Other(Pieces(t)) <=> t # "report")
    BY PiecesPaired
  <2>4. Paired(z.out \o Pieces(t))
    BY <1>5, <1>9, <2>3, PairedJoined
  <2>5. Other(z.out \o Pieces(t)) <=> Other(z.out) \/ Other(Pieces(t))
    BY <1>9, OtherJoined
  <2> QED
    BY <1>5, <1>6, <2>1, <2>2, <2>3, <2>4, <2>5
<1>15. Len(g) + 1 = n + 2
  BY <1>1
<1> QED
  BY <1>4, <1>8, <1>9, <1>10, <1>11, <1>12, <1>13, <1>14, <1>15 DEF AsMeant

\* The gap after which the timer gave up.
LEMMA MeantAfterGap ==
    ASSUME NEW g, NEW h, NEW n, Grown(g, h, "gap", n), NEW z, AsMeant(h, z), NEW w \in Taking,
           w.out = z.out, w.in_paste = z.in_paste, w.submit = z.submit, w.ctrl_z = z.ctrl_z, w.prev = Nothing
    PROVE  AsMeant(g, w)
<1>1. n \in Nat /\ Len(h) = n /\ Len(g) = n + 1 /\ Len(g) + 1 = n + 2
  BY DEF Grown
<1>2. PICK x : x = MeantOf(h)
  OBVIOUS
<1>3. PICK y : y = MeantOf(g)
  OBVIOUS
<1>4. /\ z \in Taking /\ z.out = PassedOf(h) /\ (z.submit <=> x.submit) /\ (z.ctrl_z <=> x.ctrl_z)
      /\ (z.in_paste <=> PasteOf(h, n + 1)) /\ Paired(z.out) /\ (Other(z.out) <=> x.typing)
  BY <1>1, <1>2 DEF AsMeant
<1>5. ~GoneOf(h, n, "gap")
  BY DEF GoneOf
<1>6. w.out = PassedOf(g)
  <2>1. PassedOf(g) = PassedOf(h) \o <<>>
    BY PassedGrows
  <2>2. z.out \o <<>> = z.out
    BY <1>4, TakingIs, ConcatEmptySeq
  <2> QED
    BY <1>4, <2>1, <2>2
<1>7. /\ y.submit <=> x.submit
      /\ y.ctrl_z <=> x.ctrl_z
      /\ y.typing <=> x.typing
  BY <1>2, <1>3, <1>5, MeantGrows
<1>8. PasteOf(g, n + 2) <=> PasteOf(h, n + 1)
  BY PasteGrows
<1>9. ~NewlineOf(g, n + 2)
  BY <1>5, NewlineGrows
<1>10. ~Newline(w.prev)
  BY DEF Newline, Nothing
<1> QED
  BY <1>1, <1>3, <1>4, <1>6, <1>7, <1>8, <1>9, <1>10 DEF AsMeant

Passing(p, rep) == [out |-> p, submit |-> rep.submit, ctrl_z |-> rep.ctrl_z]

\* A read, as far as x, and what it gives back.
FedBy(r, x, p, flt, rep, data) ==
    /\ x \in Taking /\ TakesTo(InState(p, flt, rep), data, Over(Passing(p, rep), x))
    /\ r = IF Holds(x.start, x.in_paste) THEN x ELSE Released(x)
    /\ Content(x) = NoCtrlZ(flt.held \o data)

LEMMA FeedIs ==
    ASSUME filter \in Filters, NEW data \in Seq(KeyPiece), NEW p \in Seq(KeyPiece), NEW rep \in Reports
    PROVE  \E x : FedBy(Feed(data), x, p, filter, rep, data)
<1>1. PICK s \in Starts, i \in BOOLEAN, v \in KeyPiece \cup {Nothing} :
          s = filter.held /\ i = filter.in_paste /\ v = filter.prev
  BY DEF Filters
<1>2. s \in Seq(KeyPiece) /\ <<>> \in Seq(KeyPiece) /\ <<>> \in Starts
  BY StartSeq, Empties DEF Starts
<1>3. PICK m \in Taking : m = [out |-> <<>>, in_paste |-> i, prev |-> v, submit |-> FALSE, ctrl_z |-> FALSE, start |-> <<>>]
  BY <1>1, <1>2 DEF Taking
<1>4. /\ m.out = <<>> /\ m.in_paste = i /\ m.prev = v /\ m.submit = FALSE /\ m.ctrl_z = FALSE /\ m.start = <<>>
  BY <1>3
<1>5. PICK all \in Seq(KeyPiece) : all = s \o data
  <2>1. s \o data \in Seq(KeyPiece)
    BY <1>2
  <2> QED
    BY <2>1, Zenon
<1>6. PICK x \in Taking : x = FoldLeft(TakePiece, m, all) /\ TakesTo(m, all, x)
  BY TakesToThat, Zenon
<1>7. Feed(data) = IF Holds(x.start, x.in_paste) THEN x ELSE Released(x)
  BY <1>1, <1>3, <1>5, <1>6, Zenon DEF Feed
<1>8. PICK q \in Taking : q = Begun(m, s)
  BY <1>1, BegunIs
<1>9. /\ q.out = <<>> /\ q.in_paste = i /\ q.prev = v /\ q.submit = FALSE /\ q.ctrl_z = FALSE /\ q.start = s
  BY <1>1, <1>4, <1>8, BegunIs
<1>10. TakesTo(m, s, q)
  <2>1. CASE s = <<>>
    <3>1. q = m
      BY <1>4, <1>9, <2>1, SameTaking
    <3>2. TakesTo(m, <<>>, m)
      BY TakesToNothing, Zenon
    <3> QED
      BY <2>1, <3>1, <3>2
  <2>2. CASE s # <<>>
    <3>1. PICK c \in KeyPiece : s = <<c>> /\ MayStart(c)
      BY <1>1, <2>2 DEF Starts
    <3>2. ~Completes(m, c)
      BY <1>4 DEF Completes
    <3>3. Released(m) = m
      BY <1>4, ReleasedNone
    <3>4. TakePiece(m, c) = q
      BY <1>8, <3>1, <3>2, <3>3, TakePieceIs
    <3>5. TakesTo(m, <<c>>, q)
      BY <3>4, TakesToNext
    <3> QED
      BY <3>1, <3>5
  <2> QED
    BY <2>1, <2>2
<1>11. TakesTo(q, data, x)
  <2>1. PICK y : TakesTo(q, data, y)
    BY TakesToThat, Zenon
  <2>2. TakesTo(m, s \o data, y)
    BY <1>2, <1>10, <2>1, TakesToJoined, Zenon
  <2>3. y = x
    BY <1>5, <1>6, <2>2, TakesToOne
  <2> QED
    BY <2>1, <2>3
<1>12. PICK b \in Before : b = Passing(p, rep) /\ b.out = p /\ b.submit = rep.submit /\ b.ctrl_z = rep.ctrl_z
  <2>1. PICK b : b = Passing(p, rep)
    OBVIOUS
  <2>2. b.out = p /\ b.submit = rep.submit /\ b.ctrl_z = rep.ctrl_z
    BY <2>1 DEF Passing
  <2>3. b \in Before
    BY <2>1 DEF Passing, Before, Reports
  <2> QED
    BY <2>1, <2>2, <2>3
<1>13. PICK k \in Taking : /\ k = InState(p, filter, rep)
                           /\ k.out = p /\ k.in_paste = i /\ k.prev = v /\ k.submit = rep.submit
                           /\ k.ctrl_z = rep.ctrl_z /\ k.start = s
  <2>1. PICK k : k = InState(p, filter, rep)
    OBVIOUS
  <2>2. /\ k \in Taking /\ k.out = p /\ k.in_paste = filter.in_paste /\ k.prev = filter.prev
        /\ k.submit = rep.submit /\ k.ctrl_z = rep.ctrl_z /\ k.start = filter.held
    BY <2>1, InStateIs
  <2> QED
    BY <1>1, <2>1, <2>2
<1>14. k = Over(b, q)
  <2>1. b.out \o q.out = p
    BY <1>9, <1>12, ConcatEmptySeq
  <2>2. IsOver(k, b, q)
    BY <1>9, <1>12, <1>13, <2>1 DEF IsOver
  <2> QED
    BY <2>2, SameOver
<1>15. TakesTo(k, data, Over(b, x))
  BY <1>11, <1>14, OverRun, Zenon
<1>16. Content(x) = NoCtrlZ(s \o data)
  <2>1. Gains(x, m, NoCtrlZ(all))
    BY <1>6, TakenAll
  <2>2. Content(m) = <<>>
    <3>1. m.out \o m.start = <<>>
      BY <1>2, <1>4, ConcatEmptySeq
    <3> QED
      BY <3>1, NoCtrlZNothing, Zenon DEF Content
  <2>3. NoCtrlZ(all) \in Seq(KeyPiece)
    BY NoCtrlZTyped
  <2>4. <<>> \o NoCtrlZ(all) = NoCtrlZ(all)
    BY <2>3, ConcatEmptySeq
  <2> QED
    BY <1>5, <2>1, <2>2, <2>4, Zenon DEF Gains
<1> QED
  BY <1>1, <1>7, <1>12, <1>13, <1>15, <1>16, Zenon DEF FedBy

\* What the history says, as Keys says it.
LEMMA HistorySays ==
    /\ Stroked = StrokesOf(typed) /\ Passed = PassedOf(typed) /\ Meant = MeantOf(typed)
<1>1. \A i : InPaste(i) <=> PasteOf(typed, i)
  BY Zenon DEF InPaste, PasteOf
<1>2. \A i : IsCtrlZ(i) <=> CtrlZOf(typed, i)
  BY <1>1, Zenon DEF IsCtrlZ, CtrlZOf
<1>3. \A i : PassedBefore(i) = SentBefore(typed, i)
  BY <1>2 DEF PassedBefore, SentBefore
<1>4. \A i : NewlineAt(i) <=> NewlineOf(typed, i)
  BY <1>3, Zenon DEF NewlineAt, NewlineOf
<1>5. \A i : IsSubmit(i) <=> SubmitOf(typed, i)
  BY <1>1, <1>4, Zenon DEF IsSubmit, SubmitOf
<1>6. Stroked = StrokesOf(typed)
  BY Zenon DEF Stroked, StrokesOf, StrokeOf
<1>7. Passed = PassedOf(typed)
  <2>1. \A i : (IF IsCtrlZ(i) \/ typed[i] = "gap" THEN <<>> ELSE Pieces(typed[i])) = SentOf(typed, i)
    BY <1>2 DEF SentOf
  <2>2. [i \in DOMAIN typed |-> IF IsCtrlZ(i) \/ typed[i] = "gap" THEN <<>> ELSE Pieces(typed[i])]
            = [i \in DOMAIN typed |-> SentOf(typed, i)]
    BY <2>1
  <2> QED
    BY <2>2, Zenon DEF Passed, PassedOf
<1>8. Meant = MeantOf(typed)
  BY <1>2, <1>5 DEF Meant, MeantOf, TypingOf
<1> QED
  BY <1>6, <1>7, <1>8

LEMMA KeysBegin == KeysInit => KeysInv
<1> SUFFICES ASSUME KeysInit PROVE KeysInv
  OBVIOUS
<1>1. /\ typed = <<>> /\ coming = <<>> /\ unread = <<>> /\ detector = <<>> /\ toChild = <<>> /\ gaveUp = FALSE
      /\ filter = [in_paste |-> FALSE, held |-> <<>>, prev |-> Nothing]
      /\ reported = [submit |-> FALSE, ctrl_z |-> FALSE, typing |-> FALSE]
  BY DEF KeysInit
<1>2. <<>> \in Seq(KeyPiece) /\ <<>> \in Starts /\ <<>> \in History /\ <<>> \o <<>> = <<>>
  BY Empties, ConcatEmptySeq DEF Starts, History
<1>3. filter \in Filters /\ reported \in Reports /\ filter.held = <<>> /\ reported.typing = FALSE
  BY <1>1, <1>2 DEF Filters, Reports
<1>4. KeysTyped
  BY <1>1, <1>2, <1>3 DEF KeysTyped
<1>5. DOMAIN <<>> = {}
  OBVIOUS
<1>6. StrokesOf(<<>>) = <<>> /\ PassedOf(<<>>) = <<>>
  <2>1. [i \in DOMAIN <<>> |-> StrokeOf(<<>>, i)] = <<>> /\ [i \in DOMAIN <<>> |-> SentOf(<<>>, i)] = <<>>
    OBVIOUS
  <2> QED
    BY <2>1, FlattenNothing, Zenon DEF StrokesOf, PassedOf
<1>7. NoCtrlZ((toChild \o filter.held) \o (unread \o coming)) = NoCtrlZ(StrokesOf(typed))
  BY <1>1, <1>2, <1>3, <1>6
<1>8. ToldSoFar(toChild, detector, reported.typing)
  <2>1. NotHalf(<<>>) /\ ~Other(<<>>)
    BY <1>5 DEF NotHalf, Other
  <2>2. Other(<<>>) \in BOOLEAN
    BY DEF Other
  <2>3. FALSE = Other(<<>>)
    BY <2>1, <2>2
  <2>4. ToldSoFar(<<>>, <<>>, FALSE)
    BY <1>2, <2>1, <2>3, Zenon DEF ToldSoFar
  <2> QED
    BY <1>1, <1>3, <2>4, Zenon
<1>9. PICK v \in Taking : /\ v = InState(toChild, filter, reported)
                          /\ v.out = <<>> /\ v.in_paste = FALSE /\ v.prev = Nothing /\ v.submit = FALSE
                          /\ v.ctrl_z = FALSE /\ v.start = <<>>
  <2>1. PICK v : v = InState(toChild, filter, reported)
    OBVIOUS
  <2>2. toChild \in Seq(KeyPiece)
    BY <1>1, <1>2
  <2>3. /\ v \in Taking /\ v.out = toChild /\ v.in_paste = filter.in_paste /\ v.prev = filter.prev
        /\ v.submit = reported.submit /\ v.ctrl_z = reported.ctrl_z /\ v.start = filter.held
    BY <1>3, <2>1, <2>2, InStateIs
  <2> QED
    BY <1>1, <2>1, <2>3
<1>10. TakesTo(v, unread \o coming, v)
  BY <1>1, <1>2, TakesToNothing
<1>11. AsMeant(<<>>, v)
  <2>1. PICK x : x = MeantOf(<<>>)
    OBVIOUS
  <2>2. ~x.submit /\ ~x.ctrl_z /\ ~x.typing
    BY <1>5, <2>1 DEF MeantOf
  <2>3. Len(<<>>) + 1 = 1 /\ 1 .. 1 - 1 = {}
    OBVIOUS
  <2>4. ~PasteOf(<<>>, 1) /\ ~NewlineOf(<<>>, 1)
    BY <2>3 DEF PasteOf, NewlineOf, SentBefore
  <2>5. ~Newline(v.prev)
    BY <1>9 DEF Newline, Nothing
  <2>6. Paired(v.out) /\ ~Other(v.out)
    BY <1>5, <1>9 DEF Paired, Other
  <2> QED
    BY <1>6, <1>9, <2>1, <2>2, <2>3, <2>4, <2>5, <2>6 DEF AsMeant
<1>12. AsMeant(typed, Released(v))
  BY <1>1, <1>9, <1>11, ReleasedNone
<1> QED
  BY <1>4, <1>7, <1>8, <1>9, <1>10, <1>12 DEF KeysInv

SameKeys(s, t) == NoCtrlZ(s) = NoCtrlZ(t)

\* s and then t, by a name of its own.
LEMMA JoinedIs ==
    ASSUME NEW s \in Seq(KeyPiece), NEW t \in Seq(KeyPiece)
    PROVE  \E r \in Seq(KeyPiece) : r = s \o t
<1>1. s \o t \in Seq(KeyPiece)
  OBVIOUS
<1> QED
  BY <1>1, Zenon

LEMMA SameKeysJoined ==
    ASSUME NEW s \in Seq(KeyPiece), NEW t \in Seq(KeyPiece), SameKeys(s, t), NEW u \in Seq(KeyPiece)
    PROVE  SameKeys(s \o u, t \o u) /\ SameKeys(u \o s, u \o t)
<1>1. NoCtrlZ(s \o u) = NoCtrlZ(s) \o NoCtrlZ(u) /\ NoCtrlZ(t \o u) = NoCtrlZ(t) \o NoCtrlZ(u)
  BY NoCtrlZJoined, Zenon
<1>2. NoCtrlZ(u \o s) = NoCtrlZ(u) \o NoCtrlZ(s) /\ NoCtrlZ(u \o t) = NoCtrlZ(u) \o NoCtrlZ(t)
  BY NoCtrlZJoined, Zenon
<1> QED
  BY <1>1, <1>2, Zenon DEF SameKeys

\* A read takes from what is left, and holds or passes all of it.
LEMMA SameKeysRead ==
    ASSUME NEW p \in Seq(KeyPiece), NEW held \in Seq(KeyPiece), NEW data \in Seq(KeyPiece), NEW left \in Seq(KeyPiece),
           NEW out \in Seq(KeyPiece), NEW start \in Seq(KeyPiece), SameKeys(out \o start, held \o data)
    PROVE  SameKeys(((p \o out) \o start) \o left, (p \o held) \o (data \o left))
<1>1. PICK a \in Seq(KeyPiece) : a = out \o start
  BY JoinedIs, Zenon
<1>2. PICK b \in Seq(KeyPiece) : b = held \o data
  BY JoinedIs, Zenon
<1>3. PICK f \in Seq(KeyPiece) : f = p \o held
  BY JoinedIs, Zenon
<1>4. PICK c \in Seq(KeyPiece) : c = p \o a
  BY JoinedIs, Zenon
<1>5. PICK d \in Seq(KeyPiece) : d = p \o b
  BY JoinedIs, Zenon
<1>6. Grouped(p, out, start) /\ Grouped(f, data, left) /\ Grouped(p, held, data)
  BY Regroups, Zenon
<1>7. (p \o out) \o start = c
  BY <1>1, <1>4, <1>6, Zenon DEF Grouped
<1>8. f \o data = d
  BY <1>2, <1>3, <1>5, <1>6, Zenon DEF Grouped
<1>9. (p \o held) \o (data \o left) = d \o left
  BY <1>3, <1>6, <1>8, Zenon DEF Grouped
<1>10. SameKeys(a, b)
  BY <1>1, <1>2
<1>11. SameKeys(c, d)
  BY <1>4, <1>5, <1>10, SameKeysJoined, Zenon
<1>12. SameKeys(c \o left, d \o left)
  BY <1>11, SameKeysJoined, Zenon
<1> QED
  BY <1>7, <1>9, <1>12, Zenon

\* What _pass_input leaves.
LEMMA PassInputIs ==
    ASSUME KeysTyped, NEW data \in Seq(KeyPiece), NEW s \in BOOLEAN, NEW z \in BOOLEAN, NEW final \in BOOLEAN,
           PassInput(data, s, z, final)
    PROVE  /\ toChild' = toChild \o data /\ toChild' \in Seq(KeyPiece) /\ detector' \in Starts /\ reported' \in Reports
           /\ reported'.submit <=> reported.submit \/ s
           /\ reported'.ctrl_z <=> reported.ctrl_z \/ z
           /\ final => detector' = <<>>
<1>1. PICK d : d = IF data # <<>> \/ final THEN Detect(data, final) ELSE [typing |-> FALSE, held |-> detector]
  OBVIOUS
<1>2. /\ detector' = d.held /\ toChild' = toChild \o data
      /\ reported' = [submit |-> reported.submit \/ s, ctrl_z |-> reported.ctrl_z \/ z,
                      typing |-> reported.typing \/ d.typing]
  BY <1>1 DEF PassInput
<1>3. detector \in Starts /\ toChild \in Seq(KeyPiece) /\ reported \in Reports
  BY DEF KeysTyped
<1>4. d.held \in Starts /\ d.typing \in BOOLEAN /\ (final => d.held = <<>>)
  <2>1. CASE data # <<>> \/ final
    <3>1. PICK part : Looks(d, detector, data, final, part)
      BY <1>1, <1>3, <2>1, StartSeq, DetectIs
    <3>2. IsTyping(part) \in BOOLEAN
      BY DEF IsTyping
    <3> QED
      BY <3>1, <3>2 DEF Looks
  <2>2. CASE ~(data # <<>> \/ final)
    BY <1>1, <1>3, <2>2
  <2> QED
    BY <2>1, <2>2
<1>5. reported' \in Reports
  BY <1>2, <1>3, <1>4 DEF Reports
<1>6. /\ reported'.submit <=> reported.submit \/ s
      /\ reported'.ctrl_z <=> reported.ctrl_z \/ z
  BY <1>2
<1> QED
  BY <1>2, <1>3, <1>4, <1>5, <1>6

LEMMA PassInputTold ==
    ASSUME KeysTyped, NEW data \in Seq(KeyPiece), NEW s \in BOOLEAN, NEW z \in BOOLEAN, NEW final \in BOOLEAN,
           PassInput(data, s, z, final), ToldSoFar(toChild, detector, reported.typing),
           NEW e \in Seq(KeyPiece), Paired((toChild \o data) \o e), final => e = <<>>
    PROVE  ToldSoFar(toChild', detector', reported'.typing)
<1>1. PICK d : d = IF data # <<>> \/ final THEN Detect(data, final) ELSE [typing |-> FALSE, held |-> detector]
  OBVIOUS
<1>2. /\ detector' = d.held /\ toChild' = toChild \o data
      /\ reported'.typing = (reported.typing \/ d.typing)
  BY <1>1 DEF PassInput
<1>3. /\ detector \in Starts /\ toChild \in Seq(KeyPiece) /\ detector \in Seq(KeyPiece)
      /\ reported.typing \in BOOLEAN
  BY StartSeq DEF KeysTyped, Reports
<1>4. ToldSoFar(toChild \o data, d.held, reported.typing \/ d.typing)
  <2>1. CASE data # <<>> \/ final
    <3>1. PICK part : Looks(d, detector, data, final, part)
      BY <1>1, <1>3, <2>1, DetectIs
    <3> QED
      BY <1>3, <3>1, ToldMore
  <2>2. CASE ~(data # <<>> \/ final)
    <3>1. d.held = detector /\ d.typing = FALSE /\ data = <<>>
      BY <1>1, <2>2
    <3>2. (reported.typing \/ d.typing) = reported.typing
      BY <1>3, <3>1
    <3>3. toChild \o data = toChild
      BY <1>3, <3>1, ConcatEmptySeq
    <3> QED
      BY <3>1, <3>2, <3>3
  <2> QED
    BY <2>1, <2>2
<1> QED
  BY <1>2, <1>4

LEMMA StrokeFirst ==
    ASSUME NEW t \in Stroke
    PROVE  /\ Pieces(t)[1] \in KeyPiece /\ Tail(Pieces(t)) \in Seq(KeyPiece)
           /\ <<Pieces(t)[1]>> \o Tail(Pieces(t)) = Pieces(t) /\ Pieces(t) \in Seq(KeyPiece)
<1>1. CASE t \in Split
  <2>1. PICK b \in KeyPiece, c \in KeyPiece : Pieces(t) = <<b, c>>
    BY <1>1, SplitPieces
  <2>2. Pieces(t)[1] = b /\ Tail(Pieces(t)) = <<c>>
    BY <2>1
  <2> QED
    BY <2>1, <2>2, PairJoined
<1>2. CASE t \notin Split
  <2>1. PICK b \in KeyPiece : Pieces(t) = <<b>>
    BY <1>2 DEF Stroke, Pieces, KeyPiece
  <2>2. Pieces(t)[1] = b /\ Tail(Pieces(t)) = <<>>
    BY <2>1
  <2>3. <<b>> \in Seq(KeyPiece) /\ <<>> \in Seq(KeyPiece) /\ <<b>> \o <<>> = <<b>>
    BY ConcatEmptySeq
  <2> QED
    BY <2>1, <2>2, <2>3
<1> QED
  BY <1>1, <1>2

\* What is left to read grows by the pieces of the key.
LEMMA LeftGrows ==
    ASSUME NEW s \in Seq(KeyPiece), NEW t \in Stroke
    PROVE  /\ Append(s, Pieces(t)[1]) \o Tail(Pieces(t)) = s \o Pieces(t)
           /\ Append(s, Pieces(t)[1]) \in Seq(KeyPiece)
<1>1. PICK b \in KeyPiece : b = Pieces(t)[1]
  BY StrokeFirst
<1>2. PICK r \in Seq(KeyPiece) : r = Tail(Pieces(t))
  BY StrokeFirst
<1>3. <<b>> \in Seq(KeyPiece) /\ <<b>> \o r = Pieces(t)
  BY <1>1, <1>2, StrokeFirst
<1>4. Append(s, b) = s \o <<b>> /\ Append(s, b) \in Seq(KeyPiece)
  BY AppendIsConcat
<1>5. Grouped(s, <<b>>, r)
  BY <1>2, <1>3, Regroups
<1>6. (s \o <<b>>) \o r = s \o Pieces(t)
  BY <1>3, <1>5 DEF Grouped
<1> QED
  BY <1>1, <1>2, <1>4, <1>6

KeysKept == NoCtrlZ((toChild \o filter.held) \o (unread \o coming)) = NoCtrlZ(StrokesOf(typed))
KeysTold == ~gaveUp => ToldSoFar(toChild, detector, reported.typing)
KeysMean ==
    ~gaveUp => \E v \in Taking : TakesTo(InState(toChild, filter, reported), unread \o coming, v)
                                 /\ AsMeant(typed, Released(v))

LEMMA KeysInvIs == KeysInv <=> KeysTyped /\ KeysKept /\ KeysTold /\ KeysMean
BY DEF KeysInv, KeysKept, KeysTold, KeysMean

LEMMA KeysTypedIs ==
    ASSUME KeysTyped
    PROVE  /\ typed \in History /\ coming \in Seq(KeyPiece) /\ unread \in Seq(KeyPiece) /\ toChild \in Seq(KeyPiece)
           /\ filter \in Filters /\ filter.held \in Starts /\ filter.held \in Seq(KeyPiece)
           /\ detector \in Starts /\ reported \in Reports
           /\ InState(toChild, filter, reported) \in Taking
<1>1. /\ typed \in History /\ coming \in Seq(KeyPiece) /\ unread \in Seq(KeyPiece) /\ toChild \in Seq(KeyPiece)
      /\ filter \in Filters /\ detector \in Starts /\ reported \in Reports
  BY DEF KeysTyped
<1>2. filter.held \in Starts
  BY <1>1 DEF Filters
<1> QED
  BY <1>1, <1>2, StartSeq, InStateIs

LEMMA KeysType ==
    ASSUME KeysInv, NEW t \in Stroke, Type(t)
    PROVE  KeysInv'
<1>1. /\ coming = <<>> /\ typed' = Append(typed, t) /\ unread' = Append(unread, Pieces(t)[1])
      /\ coming' = Tail(Pieces(t)) /\ UNCHANGED <<filter, detector, toChild, reported, gaveUp>>
  BY DEF Type
<1>2. KeysTyped /\ KeysKept /\ KeysTold /\ KeysMean
  BY KeysInvIs
<1>3. PICK k \in Taking : k = InState(toChild, filter, reported)
  BY <1>2, KeysTypedIs
<1>4. PICK n \in Nat : Grown(typed', typed, t, n)
  BY <1>1, <1>2, KeysTypedIs, GrownByOne DEF Stroke
<1>5. t # "gap"
  BY DEF Stroke, Single, Split
<1>6. /\ unread \in Seq(KeyPiece) /\ unread \o coming = unread
      /\ unread' \o coming' = unread \o Pieces(t) /\ unread' \in Seq(KeyPiece) /\ coming' \in Seq(KeyPiece)
      /\ Pieces(t) \in Seq(KeyPiece)
  BY <1>1, <1>2, KeysTypedIs, LeftGrows, StrokeFirst, ConcatEmptySeq
<1>7. KeysTyped'
  <2>1. typed' \in History
    BY <1>4 DEF Grown
  <2> QED
    BY <1>1, <1>2, <1>6, <2>1 DEF KeysTyped
<1>8. KeysKept'
  <2>1. PICK s \in Seq(KeyPiece) : s = toChild \o filter.held
    BY <1>2, KeysTypedIs, JoinedIs, Zenon
  <2>2. StrokesOf(typed') = StrokesOf(typed) \o Pieces(t)
    BY <1>4, <1>5, PassedGrows
  <2>3. PICK q \in Seq(KeyPiece) : q = s \o unread
    BY <1>6, JoinedIs, Zenon
  <2>4. NoCtrlZ(q) = NoCtrlZ(StrokesOf(typed)) /\ StrokesOf(typed) \in Seq(KeyPiece)
    BY <1>2, <1>4, <1>6, <2>1, <2>3, PassedGrows DEF KeysKept
  <2>5. SameKeys(q, StrokesOf(typed))
    BY <2>4 DEF SameKeys
  <2>6. SameKeys(q \o Pieces(t), StrokesOf(typed) \o Pieces(t))
    BY <1>6, <2>4, <2>5, SameKeysJoined
  <2>7. q \o Pieces(t) = s \o (unread \o Pieces(t))
    <3>1. Grouped(s, unread, Pieces(t))
      BY <1>6, Regroups, Zenon
    <3> QED
      BY <2>3, <3>1, Zenon DEF Grouped
  <2>8. NoCtrlZ((toChild \o filter.held) \o (unread' \o coming')) = NoCtrlZ(StrokesOf(typed'))
    BY <1>6, <2>1, <2>2, <2>6, <2>7, Zenon DEF SameKeys
  <2> QED
    BY <1>1, <2>8 DEF KeysKept
<1>9. KeysTold'
  BY <1>1, <1>2 DEF KeysTold
<1>10. KeysMean'
  <2> SUFFICES ASSUME ~gaveUp
               PROVE  \E v \in Taking : TakesTo(k, unread \o Pieces(t), v) /\ AsMeant(typed', Released(v))
    BY <1>1, <1>3, <1>6 DEF KeysMean
  <2>1. PICK v \in Taking : TakesTo(k, unread, v) /\ AsMeant(typed, Released(v))
    BY <1>2, <1>3, <1>6 DEF KeysMean
  <2>2. PICK w \in Taking : TakesTo(v, Pieces(t), w)
    BY <1>6, TakesToThat
  <2>3. TakesTo(k, unread \o Pieces(t), w)
    BY <1>6, <2>1, <2>2, TakesToJoined
  <2>4. Typed(Released(w), Released(v), t)
    BY <2>2, StrokeTaken
  <2>5. AsMeant(typed', Released(w))
    BY <1>4, <2>1, <2>4, MeantGoesOn
  <2> QED
    BY <2>3, <2>5
<1> QED
  BY <1>7, <1>8, <1>9, <1>10 DEF KeysInv, KeysKept, KeysTold, KeysMean

LEMMA KeysRest ==
    ASSUME KeysInv, Rest
    PROVE  KeysInv'
<1>1. unread' = unread \o coming /\ coming' = <<>> /\ UNCHANGED <<typed, filter, detector, toChild, reported, gaveUp>>
  BY DEF Rest
<1>2. KeysTyped /\ KeysKept /\ KeysTold /\ KeysMean
  BY KeysInvIs
<1>3. unread' \in Seq(KeyPiece) /\ coming' \in Seq(KeyPiece) /\ unread' \o coming' = unread \o coming
  <2>1. PICK s \in Seq(KeyPiece) : s = unread \o coming
    BY <1>2, KeysTypedIs, JoinedIs, Zenon
  <2>2. <<>> \in Seq(KeyPiece) /\ s \o <<>> = s
    BY ConcatEmptySeq
  <2> QED
    BY <1>1, <2>1, <2>2
<1>4. KeysTyped'
  BY <1>1, <1>2, <1>3 DEF KeysTyped
<1>5. KeysKept' /\ KeysTold' /\ KeysMean'
  BY <1>1, <1>2, <1>3 DEF KeysKept, KeysTold, KeysMean
<1> QED
  BY <1>4, <1>5 DEF KeysInv, KeysKept, KeysTold, KeysMean

\* A read that is as far as x gives back r: what is held and what was passed are all of it.
LEMMA FedIs ==
    ASSUME NEW p \in Seq(KeyPiece), NEW flt \in Filters, NEW rep \in Reports, NEW data \in Seq(KeyPiece),
           NEW r, NEW x, FedBy(r, x, p, flt, rep, data)
    PROVE  /\ r \in Taking /\ x \in Taking
           /\ SameKeys(r.out \o r.start, flt.held \o data)
<1>1. x \in Taking /\ r = (IF Holds(x.start, x.in_paste) THEN x ELSE Released(x))
      /\ Content(x) = NoCtrlZ(flt.held \o data)
  BY DEF FedBy
<1>2. CASE Holds(x.start, x.in_paste)
  BY <1>1, <1>2, Zenon DEF Content, SameKeys
<1>3. CASE ~Holds(x.start, x.in_paste)
  <2>1. r = Released(x)
    BY <1>1, <1>3
  <2>2. r \in Taking /\ Let(r, x)
    BY <1>1, <2>1, LetIs
  <2>3. PICK s \in Seq(KeyPiece) : s = x.out \o x.start
    BY <1>1, TakingIs, StartSeq, JoinedIs, Zenon
  <2>4. r.out = s /\ r.start = <<>>
    BY <2>2, <2>3 DEF Let
  <2>5. r.out \o r.start = x.out \o x.start
    BY <2>3, <2>4, ConcatEmptySeq
  <2> QED
    BY <1>1, <2>2, <2>5, Zenon DEF Content, SameKeys
<1> QED
  BY <1>2, <1>3

\* Where the run goes on after a read.
LEMMA FedGoesOn ==
    ASSUME NEW p \in Seq(KeyPiece), NEW flt \in Filters, NEW rep \in Reports, NEW data \in Seq(KeyPiece),
           NEW r, NEW x, FedBy(r, x, p, flt, rep, data),
           NEW left \in Seq(KeyPiece), NEW v, TakesTo(InState(p, flt, rep), data \o left, v),
           NEW k \in Taking, k = Over(Passing(p, rep), r)
    PROVE  \E w \in Taking : TakesTo(k, left, w) /\ Released(w) = Released(v)
<1>1. PICK b \in Before : b = Passing(p, rep)
  <2>1. Passing(p, rep) \in Before
    BY DEF Passing, Before, Reports
  <2> QED
    BY <2>1
<1>2. x \in Taking /\ r = (IF Holds(x.start, x.in_paste) THEN x ELSE Released(x))
      /\ TakesTo(InState(p, flt, rep), data, Over(b, x))
  BY <1>1 DEF FedBy
<1>3. PICK o \in Taking : o = Over(b, x) /\ IsOver(o, b, x)
  <2>1. IsOver(Over(b, x), b, x)
    BY <1>1, <1>2, OverIs
  <2> QED
    BY <2>1 DEF IsOver
<1>4. TakesTo(o, left, v) /\ v \in Taking
  <2>1. PICK y : TakesTo(o, left, y)
    BY <1>3, TakesToThat, Zenon
  <2>2. TakesTo(InState(p, flt, rep), data \o left, y)
    BY <1>2, <1>3, <2>1, TakesToJoined
  <2>3. data \o left \in Seq(KeyPiece)
    OBVIOUS
  <2>4. y = v /\ v \in Taking
    BY <2>2, <2>3, TakesToOne
  <2> QED
    BY <2>1, <2>4
<1>5. CASE Holds(x.start, x.in_paste)
  <2>1. k = o
    BY <1>1, <1>2, <1>3, <1>5
  <2> QED
    BY <1>4, <2>1
<1>6. CASE ~Holds(x.start, x.in_paste)
  <2>1. Ahead(b, Released(x), Released(o))
    BY <1>1, <1>2, <1>3, OverKeeps
  <2>2. k = Released(o)
    BY <1>1, <1>2, <1>6, <2>1 DEF Ahead
  <2>3. ~Holds(o.start, o.in_paste)
    BY <1>3, <1>6 DEF IsOver
  <2>4. PICK u \in Taking : TakesTo(k, left, u)
    BY TakesToThat, Zenon
  <2>5. Released(u) = Released(v)
    BY <1>3, <1>4, <2>2, <2>3, <2>4, ReleasedAny
  <2> QED
    BY <2>4, <2>5
<1> QED
  BY <1>5, <1>6

LEMMA KeysRead ==
    ASSUME KeysInv, Read
    PROVE  KeysInv'
<1>1. PICK r : r = Feed(unread)
  OBVIOUS
<1>2. /\ filter' = [in_paste |-> r.in_paste, held |-> r.start, prev |-> r.prev]
      /\ PassInput(r.out, r.submit, r.ctrl_z, FALSE)
      /\ unread' = <<>> /\ UNCHANGED <<typed, coming, gaveUp>>
  BY <1>1 DEF Read
<1>3. KeysTyped /\ KeysKept /\ KeysTold /\ KeysMean
  BY KeysInvIs
<1>4. /\ typed \in History /\ coming \in Seq(KeyPiece) /\ unread \in Seq(KeyPiece) /\ toChild \in Seq(KeyPiece)
      /\ filter \in Filters /\ filter.held \in Starts /\ filter.held \in Seq(KeyPiece)
      /\ detector \in Starts /\ reported \in Reports
  BY <1>3, KeysTypedIs
<1>5. PICK x : FedBy(r, x, toChild, filter, reported, unread)
  BY <1>1, <1>4, FeedIs
<1>6. r \in Taking /\ x \in Taking /\ SameKeys(r.out \o r.start, filter.held \o unread)
  BY <1>4, <1>5, FedIs
<1>7. /\ r.out \in Seq(KeyPiece) /\ r.in_paste \in BOOLEAN /\ r.prev \in KeyPiece \cup {Nothing}
      /\ r.submit \in BOOLEAN /\ r.ctrl_z \in BOOLEAN /\ r.start \in Starts /\ r.start \in Seq(KeyPiece)
  BY <1>6, TakingIs, StartSeq
<1>8. /\ toChild' = toChild \o r.out /\ toChild' \in Seq(KeyPiece) /\ detector' \in Starts /\ reported' \in Reports
      /\ reported'.submit <=> reported.submit \/ r.submit
      /\ reported'.ctrl_z <=> reported.ctrl_z \/ r.ctrl_z
  BY <1>2, <1>3, <1>7, PassInputIs
<1>9. filter' \in Filters /\ filter'.held = r.start /\ filter'.in_paste = r.in_paste /\ filter'.prev = r.prev
  BY <1>2, <1>7 DEF Filters
<1>10. unread' \in Seq(KeyPiece) /\ unread' \o coming' = coming
  BY <1>2, <1>4, Empties, ConcatEmptySeq
<1>11. KeysTyped'
  BY <1>2, <1>3, <1>8, <1>9, <1>10 DEF KeysTyped
<1>12. KeysKept'
  <2>1. SameKeys(((toChild \o r.out) \o r.start) \o coming, (toChild \o filter.held) \o (unread \o coming))
    BY <1>4, <1>6, <1>7, SameKeysRead
  <2>2. NoCtrlZ((toChild' \o filter'.held) \o (unread' \o coming')) = NoCtrlZ(StrokesOf(typed))
    BY <1>3, <1>8, <1>9, <1>10, <2>1, Zenon DEF SameKeys, KeysKept
  <2> QED
    BY <1>2, <2>2 DEF KeysKept
<1>13. ASSUME ~gaveUp
       PROVE  \E v \in Taking : /\ TakesTo(InState(toChild', filter', reported'), coming, v)
                                /\ AsMeant(typed, Released(v))
                                /\ Begins(toChild', Released(v).out)
  <2>1. PICK v \in Taking : TakesTo(InState(toChild, filter, reported), unread \o coming, v) /\ AsMeant(typed, Released(v))
    BY <1>3, <1>13 DEF KeysMean
  <2>2. PICK b \in Before : /\ b = Passing(toChild, reported)
                            /\ b.out = toChild /\ b.submit = reported.submit /\ b.ctrl_z = reported.ctrl_z
    <3>1. PICK b : b = Passing(toChild, reported)
      OBVIOUS
    <3>2. b.out = toChild /\ b.submit = reported.submit /\ b.ctrl_z = reported.ctrl_z
      BY <3>1 DEF Passing
    <3>3. b \in Before
      BY <1>4, <3>1 DEF Passing, Before, Reports
    <3> QED
      BY <3>1, <3>2, <3>3
  <2>3. PICK k : k = InState(toChild', filter', reported')
    OBVIOUS
  <2>4. /\ k \in Taking /\ k.out = toChild' /\ k.in_paste = filter'.in_paste /\ k.prev = filter'.prev
        /\ k.submit = reported'.submit /\ k.ctrl_z = reported'.ctrl_z /\ k.start = filter'.held
    <3>1. PICK p \in Seq(KeyPiece), f \in Filters, q \in Reports : p = toChild' /\ f = filter' /\ q = reported'
      BY <1>8, <1>9
    <3>2. k = InState(p, f, q)
      BY <2>3, <3>1
    <3>3. /\ k \in Taking /\ k.out = p /\ k.in_paste = f.in_paste /\ k.prev = f.prev /\ k.submit = q.submit
          /\ k.ctrl_z = q.ctrl_z /\ k.start = f.held
      BY <3>1, <3>2, InStateIs
    <3> QED
      BY <3>1, <3>3
  <2>5. IsOver(k, b, r)
    BY <1>8, <1>9, <2>2, <2>4 DEF IsOver
  <2>6. k = Over(b, r)
    BY <1>6, <2>2, <2>4, <2>5, SameOver
  <2>7. PICK w \in Taking : TakesTo(k, coming, w) /\ Released(w) = Released(v)
    BY <1>4, <1>5, <2>1, <2>2, <2>4, <2>6, FedGoesOn
  <2>8. Begins(k.out, Released(w).out)
    BY <1>4, <2>4, <2>7, TakenGrows
  <2> QED
    BY <2>1, <2>3, <2>4, <2>7, <2>8
<1>14. KeysMean'
  BY <1>2, <1>10, <1>13 DEF KeysMean
<1>15. KeysTold'
  <2> SUFFICES ASSUME ~gaveUp
               PROVE  ToldSoFar(toChild', detector', reported'.typing)
    BY <1>2 DEF KeysTold
  <2>1. PICK v \in Taking : AsMeant(typed, Released(v)) /\ Begins(toChild', Released(v).out)
    BY <1>13
  <2>2. PICK e \in Seq(KeyPiece) : Released(v).out = toChild' \o e
    BY <2>1 DEF Begins
  <2>3. Paired((toChild \o r.out) \o e)
    BY <1>8, <2>1, <2>2 DEF AsMeant
  <2>4. ToldSoFar(toChild, detector, reported.typing)
    BY <1>3 DEF KeysTold
  <2> QED
    BY <1>2, <1>3, <1>7, <2>2, <2>3, <2>4, PassInputTold
<1> QED
  BY <1>11, <1>12, <1>14, <1>15 DEF KeysInv, KeysKept, KeysTold, KeysMean

LEMMA KeysFlushHeld ==
    ASSUME KeysInv, FlushHeld
    PROVE  KeysInv'
<1>1. /\ PassInput(filter.held, FALSE, FALSE, TRUE)
      /\ filter' = [filter EXCEPT !.held = <<>>, !.prev = Nothing]
      /\ typed' = Append(typed, "gap")
      /\ gaveUp' = (gaveUp \/ coming # <<>> \/ unread # <<>>)
      /\ UNCHANGED <<coming, unread>>
  BY DEF FlushHeld
<1>2. KeysTyped /\ KeysKept /\ KeysTold /\ KeysMean
  BY KeysInvIs
<1>3. /\ typed \in History /\ coming \in Seq(KeyPiece) /\ unread \in Seq(KeyPiece) /\ toChild \in Seq(KeyPiece)
      /\ filter \in Filters /\ filter.held \in Starts /\ filter.held \in Seq(KeyPiece)
      /\ detector \in Starts /\ reported \in Reports
  BY <1>2, KeysTypedIs
<1>4. /\ toChild' = toChild \o filter.held /\ toChild' \in Seq(KeyPiece) /\ detector' \in Starts
      /\ reported' \in Reports
      /\ reported'.submit <=> reported.submit
      /\ reported'.ctrl_z <=> reported.ctrl_z
  BY <1>1, <1>2, <1>3, PassInputIs
<1>5. filter' \in Filters /\ filter'.held = <<>> /\ filter'.in_paste = filter.in_paste /\ filter'.prev = Nothing
  BY <1>1, <1>3, Empties DEF Filters, Starts
<1>6. PICK n \in Nat : Grown(typed', typed, "gap", n)
  BY <1>1, <1>3, GrownByOne
<1>7. KeysTyped'
  <2>1. typed' \in History /\ gaveUp' \in BOOLEAN
    BY <1>1, <1>2, <1>6 DEF Grown, KeysTyped
  <2> QED
    BY <1>1, <1>3, <1>4, <1>5, <2>1 DEF KeysTyped
<1>8. KeysKept'
  <2>1. StrokesOf(typed') = StrokesOf(typed) \o <<>> /\ StrokesOf(typed) \in Seq(KeyPiece)
    BY <1>6, PassedGrows
  <2>2. StrokesOf(typed') = StrokesOf(typed)
    BY <2>1, ConcatEmptySeq
  <2>3. toChild' \o filter'.held = toChild \o filter.held
    BY <1>4, <1>5, ConcatEmptySeq
  <2> QED
    BY <1>1, <1>2, <2>2, <2>3 DEF KeysKept
<1>9. ASSUME ~gaveUp'
      PROVE  /\ TakesTo(InState(toChild', filter', reported'), unread' \o coming', InState(toChild', filter', reported'))
             /\ AsMeant(typed', Released(InState(toChild', filter', reported')))
             /\ InState(toChild', filter', reported') \in Taking
             /\ ToldSoFar(toChild', detector', reported'.typing)
  <2>1. ~gaveUp /\ coming = <<>> /\ unread = <<>> /\ unread \o coming = <<>> /\ unread' \o coming' = <<>>
    <3>1. ~gaveUp /\ coming = <<>> /\ unread = <<>>
      BY <1>1, <1>9
    <3>2. <<>> \o <<>> = <<>>
      BY Empties, ConcatEmptySeq
    <3> QED
      BY <1>1, <3>1, <3>2
  <2>2. PICK k : k = InState(toChild, filter, reported)
    OBVIOUS
  <2>3. /\ k \in Taking /\ k.out = toChild /\ k.in_paste = filter.in_paste
        /\ k.submit = reported.submit /\ k.ctrl_z = reported.ctrl_z /\ k.start = filter.held
    BY <1>3, <2>2, InStateIs
  <2>4. AsMeant(typed, Released(k))
    <3>1. PICK v \in Taking : TakesTo(k, <<>>, v) /\ AsMeant(typed, Released(v))
      BY <1>2, <2>1, <2>2 DEF KeysMean
    <3>2. TakesTo(k, <<>>, k) /\ <<>> \in Seq(KeyPiece)
      BY <2>3, TakesToNothing, Empties
    <3>3. v = k
      BY <3>1, <3>2, TakesToOne
    <3> QED
      BY <3>1, <3>3
  <2>5. PICK z : z = Released(k)
    OBVIOUS
  <2>6. Let(z, k)
    BY <2>3, <2>5, LetIs
  <2>7. PICK w : w = InState(toChild', filter', reported')
    OBVIOUS
  <2>8. /\ w \in Taking /\ w.out = toChild' /\ w.in_paste = filter'.in_paste /\ w.prev = filter'.prev
        /\ w.submit = reported'.submit /\ w.ctrl_z = reported'.ctrl_z /\ w.start = filter'.held
    <3>1. PICK p \in Seq(KeyPiece), f \in Filters, q \in Reports : p = toChild' /\ f = filter' /\ q = reported'
      BY <1>4, <1>5
    <3>2. w = InState(p, f, q)
      BY <2>7, <3>1
    <3>3. /\ w \in Taking /\ w.out = p /\ w.in_paste = f.in_paste /\ w.prev = f.prev /\ w.submit = q.submit
          /\ w.ctrl_z = q.ctrl_z /\ w.start = f.held
      BY <3>1, <3>2, InStateIs
    <3> QED
      BY <3>1, <3>3
  <2>9. w.out = z.out /\ w.in_paste = z.in_paste /\ w.submit = z.submit /\ w.ctrl_z = z.ctrl_z /\ w.prev = Nothing
    <3>1. reported'.submit = reported.submit /\ reported'.ctrl_z = reported.ctrl_z
      BY <1>3, <1>4 DEF Reports
    <3> QED
      BY <1>4, <1>5, <2>3, <2>6, <2>8, <3>1 DEF Let
  <2>10. AsMeant(typed', w)
    BY <1>6, <2>4, <2>5, <2>8, <2>9, MeantAfterGap
  <2>11. Released(w) = w
    BY <1>5, <2>8, ReleasedNone
  <2>12. TakesTo(w, <<>>, w)
    BY <2>8, TakesToNothing
  <2>13. ToldSoFar(toChild', detector', reported'.typing)
    <3>1. ToldSoFar(toChild, detector, reported.typing)
      BY <1>2, <2>1 DEF KeysTold
    <3>2. Paired(w.out) /\ w.out = toChild \o filter.held
      BY <1>4, <2>8, <2>10 DEF AsMeant
    <3>3. (toChild \o filter.held) \o <<>> = toChild \o filter.held /\ <<>> \in Seq(KeyPiece)
      BY <1>4, Empties, ConcatEmptySeq
    <3>4. Paired((toChild \o filter.held) \o <<>>)
      BY <3>2, <3>3
    <3> QED
      BY <1>1, <1>2, <1>3, <3>1, <3>3, <3>4, PassInputTold
  <2> QED
    BY <2>1, <2>7, <2>8, <2>10, <2>11, <2>12, <2>13
<1>10. KeysMean' /\ KeysTold'
  BY <1>9 DEF KeysMean, KeysTold
<1> QED
  BY <1>7, <1>8, <1>10 DEF KeysInv, KeysKept, KeysTold, KeysMean

LEMMA KeysStays == KeysInv /\ [KeysNext]_keysVars => KeysInv'
<1> SUFFICES ASSUME KeysInv, [KeysNext]_keysVars
             PROVE  KeysInv'
  OBVIOUS
<1>1. CASE \E t \in Stroke : Type(t)
  BY <1>1, KeysType
<1>2. CASE Rest
  BY <1>2, KeysRest
<1>3. CASE Read
  BY <1>3, KeysRead
<1>4. CASE FlushHeld
  BY <1>4, KeysFlushHeld
<1>5. CASE UNCHANGED keysVars
  BY <1>5 DEF KeysInv, KeysTyped, keysVars
<1> QED
  BY <1>1, <1>2, <1>3, <1>4, <1>5 DEF KeysNext

LEMMA KeysInvSays == KeysInv => AsTyped
<1> SUFFICES ASSUME KeysInv, unread = <<>>, coming = <<>>, filter.held = <<>>, detector = <<>>
             PROVE  IF gaveUp THEN NoCtrlZ(toChild) = NoCtrlZ(Stroked) ELSE toChild = Passed /\ reported = Meant
  BY DEF AsTyped
<1>1. KeysTyped /\ KeysKept /\ KeysTold /\ KeysMean
  BY KeysInvIs
<1>2. toChild \in Seq(KeyPiece) /\ filter \in Filters /\ reported \in Reports
  BY <1>1, KeysTypedIs
<1>3. Stroked = StrokesOf(typed) /\ Passed = PassedOf(typed) /\ Meant = MeantOf(typed)
  BY HistorySays
<1>4. unread \o coming = <<>> /\ toChild \o <<>> = toChild
  BY <1>2, Empties, ConcatEmptySeq
<1>5. NoCtrlZ(toChild) = NoCtrlZ(Stroked)
  BY <1>1, <1>3, <1>4 DEF KeysKept
<1>6. ASSUME ~gaveUp
      PROVE  toChild = Passed /\ reported = Meant
  <2>1. PICK k : k = InState(toChild, filter, reported)
    OBVIOUS
  <2>2. /\ k \in Taking /\ k.out = toChild /\ k.submit = reported.submit /\ k.ctrl_z = reported.ctrl_z
        /\ k.start = <<>>
    BY <1>2, <2>1, InStateIs
  <2>3. AsMeant(typed, k)
    <3>1. PICK v \in Taking : TakesTo(k, <<>>, v) /\ AsMeant(typed, Released(v))
      BY <1>1, <1>4, <1>6, <2>1 DEF KeysMean
    <3>2. TakesTo(k, <<>>, k) /\ <<>> \in Seq(KeyPiece)
      BY <2>2, TakesToNothing, Empties
    <3>3. v = k
      BY <3>1, <3>2, TakesToOne
    <3>4. Released(k) = k
      BY <2>2, ReleasedNone
    <3> QED
      BY <3>1, <3>3, <3>4
  <2>4. PICK x : x = MeantOf(typed)
    OBVIOUS
  <2>5. /\ toChild = PassedOf(typed) /\ (reported.submit <=> x.submit) /\ (reported.ctrl_z <=> x.ctrl_z)
        /\ (Other(toChild) <=> x.typing)
    BY <2>2, <2>3, <2>4 DEF AsMeant
  <2>6. reported.typing <=> Other(toChild)
    <3>1. PICK looked \in Seq(KeyPiece) : toChild = looked \o <<>> /\ reported.typing = Other(looked)
      BY <1>1, <1>6 DEF KeysTold, ToldSoFar
    <3>2. looked = toChild
      BY <3>1, ConcatEmptySeq
    <3> QED
      BY <3>1, <3>2
  <2>7. reported = x
    <3>1. x \in Reports
      BY <2>4 DEF MeantOf, Reports
    <3> QED
      BY <1>2, <2>5, <2>6, <3>1 DEF Reports
  <2> QED
    BY <1>3, <2>4, <2>5, <2>7
<1> QED
  BY <1>5, <1>6

\* Wherever the reads end, claude gets the keys as they were typed but for Ctrl-Z, and a submit, a Ctrl-Z
\* and typing are reported if and only if the user did that; if the timer gave up within a sequence, still
\* nothing is lost, doubled or reordered (InputFilter.feed and TypingDetector.feed, however the input is cut).
THEOREM KeysAsTyped == KeysSpec => []AsTyped
<1>1. KeysInit => KeysInv
  BY KeysBegin
<1>2. KeysInv /\ [KeysNext]_keysVars => KeysInv'
  BY KeysStays
<1>3. KeysInv => AsTyped
  BY KeysInvSays
<1> QED
  BY <1>1, <1>2, <1>3, PTL DEF KeysSpec
=============================================================================
