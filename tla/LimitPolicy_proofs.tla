------------------------- MODULE LimitPolicy_proofs -------------------------
(***************************************************************************)
(* What the limit policy promises of the holds of usage windows, for any   *)
(* window kinds, sessions, levels, jitter and bounds that satisfy          *)
(* LimitPolicyAssumption: a window warns and is held once, a full one is   *)
(* held, no hold ends before its window, none lasts for ever, and none     *)
(* pauses a session that it was overridden in.                             *)
(*                                                                         *)
(* The policy never sees a real window: it sees reset times that jitter,   *)
(* and keys that it rounded from them.  The invariant follows the real     *)
(* windows in a record R of all that there have been, which the state does *)
(* not hold: each key that the policy knows belongs to exactly one of      *)
(* them, each of them has at most one key, and each hold was full whenever *)
(* it was seen.  That two windows of a kind start a period apart, and that *)
(* the tolerance covers the jitter and the rounding, is what makes this    *)
(* true, and the assumption states both.                                   *)
(***************************************************************************)
EXTENDS LimitPolicy, TLAPS

-----------------------------------------------------------------------------
(* What the variables hold.                                                *)

Kinds == Kind \cup {"manual", "extra_usage"}
KeySet == [kind : Kinds, scope : {"all"} \cup Session, at : Int]
WindowSet == [kind : Kind, no : Nat, resets : Int, level : Levels, observed : Int]
SnapSet == [status : {"none", "ok", "bad"}, windows : SUBSET WindowSet, fetched : Int,
            credit : Credit]
HoldSet == [inst : KeySet, no : Nat, resets : Int, started : Int]
WarningSet == [level : {Warn, Pause}, inst : KeySet, no : Nat]
StateSet == [holds : SUBSET HoldSet, warned : SUBSET WarningSet, paused : SUBSET KeySet,
             released : SUBSET KeySet, arm : Nat]
RecordSet == [on : BOOLEAN, state : {"running", "paused", "overridden"}, model : Models,
              over : SUBSET KeySet, pend : SUBSET KeySet, done : SUBSET (Kinds \X Nat)]
ConfSet == [enabled : BOOLEAN, spill : BOOLEAN, warnOnly : BOOLEAN]
RealSet == [no : Nat, active : BOOLEAN, resets : Int, level : Levels]

LimitTypeOK ==
    /\ now \in Nat
    /\ real \in [Kind -> RealSet]
    /\ credit \in Credit
    /\ conf \in ConfSet
    /\ snap \in SnapSet
    /\ st \in StateSet
    /\ sess \in [Session -> RecordSet]
    /\ left \in 0 .. MaxOps
    /\ paused \in SUBSET (Kinds \X Nat)

-----------------------------------------------------------------------------
(* The real windows.  R.at[k][n] is when window `n` of kind `k` resets.    *)

History == [at : [Kind -> [Nat -> Int]], real : [Kind -> RealSet]]
Born(R, k, n) == n \in 1 .. R.real[k].no
SeenAs(R, k, n, t) == Born(R, k, n) /\ \E j \in Jitter : t = R.at[k][n] + j
KeyOf(R, k, n, i) ==
    /\ i.kind = k /\ i.scope = "all"
    /\ Born(R, k, n) /\ \E j \in Jitter : i.at = KeyTime(R.at[k][n] + j)

\* Windows of a kind follow each other: a window starts when the one before it has reset.
RealOK(R) ==
    \A k \in Kind :
        /\ R.real[k].active => R.real[k].no # 0
        /\ R.real[k].no # 0 => R.at[k][R.real[k].no] = R.real[k].resets
        /\ \A m, n \in 1 .. R.real[k].no : m < n => R.at[k][m] + Period <= R.at[k][n]

\* Every key is one of a real window, and a window has at most one.
Keys(R, K) ==
    /\ \A a \in K : a.kind \in Kind => \E n \in Nat : KeyOf(R, a.kind, n, a)
    /\ \A a, b \in K : a.kind \in Kind => \A n \in Nat :
          KeyOf(R, a.kind, n, a) /\ KeyOf(R, a.kind, n, b) => a = b
SnapOK(R, sn) ==
    \A v \in sn.windows :
        /\ SeenAs(R, v.kind, v.no, v.resets)
        /\ v.no = R.real[v.kind].no => v.level <= R.real[v.kind].level
        /\ \A u \in sn.windows : u.kind = v.kind => u = v

-----------------------------------------------------------------------------
(* Window keys.                                                            *)

LEMMA KeyTimeNear ==
    ASSUME NEW t \in Int
    PROVE  KeyTime(t) \in Int /\ 2 * KeyTime(t) <= 2 * t + Minute /\ 2 * t - Minute < 2 * KeyTime(t)
<1> DEFINE a == 2 * t + Minute
           b == 2 * Minute
           q == a \div b
<1>1. a \in Int /\ b \in Nat \ {0} /\ Minute \in Nat \ {0}
  BY LimitPolicyAssumption
<1>2. q \in Int /\ b * q <= a /\ a < b * q + b
  <2> HIDE DEF a, b
  <2> QED BY <1>1
<1>3. b * q = 2 * (q * Minute)
  <2> HIDE DEF q
  <2> QED BY <1>1, <1>2
<1>4. q * Minute \in Int
  <2> HIDE DEF q
  <2> QED BY <1>1, <1>2
<1>5. KeyTime(t) = q * Minute
  BY DEF KeyTime
<1> HIDE DEF q
<1> QED BY <1>1, <1>2, <1>3, <1>4, <1>5

\* A key is within the tolerance of every time reported for its window, and of none
\* reported for another one.
LEMMA KeyIsNear ==
    ASSUME NEW r \in Int, NEW i \in Jitter, NEW j \in Jitter
    PROVE  Gap(KeyTime(r + i), r + j) <= Tolerance
<1>1. /\ i \in Int /\ j \in Int /\ Minute \in Int /\ Tolerance \in Int
      /\ Minute + 2 * (i - j) <= 2 * Tolerance /\ Minute + 2 * (j - i) <= 2 * Tolerance
  BY LimitPolicyAssumption
<1>2. r + i \in Int
  BY <1>1
<1>3. PICK k \in Int : /\ k = KeyTime(r + i)
                      /\ 2 * k <= 2 * (r + i) + Minute /\ 2 * (r + i) - Minute < 2 * k
  BY <1>2, KeyTimeNear
<1> QED BY <1>1, <1>3 DEF Gap

LEMMA KeyIsFar ==
    ASSUME NEW r \in Int, NEW s \in Int, r + Period <= s \/ s + Period <= r,
           NEW i \in Jitter, NEW j \in Jitter
    PROVE  Gap(KeyTime(r + i), s + j) > Tolerance
<1>1. /\ i \in Int /\ j \in Int /\ Minute \in Int /\ Tolerance \in Int /\ Period \in Int
      /\ Minute + 2 * (i - j) <= 2 * Tolerance /\ Minute + 2 * (j - i) <= 2 * Tolerance
      /\ Period > 2 * Tolerance
  BY LimitPolicyAssumption
<1>2. r + i \in Int
  BY <1>1
<1>3. PICK k \in Int : /\ k = KeyTime(r + i)
                      /\ 2 * k <= 2 * (r + i) + Minute /\ 2 * (r + i) - Minute < 2 * k
  BY <1>2, KeyTimeNear
<1> QED BY <1>1, <1>3 DEF Gap

LEMMA Apart ==
    ASSUME NEW R \in History, RealOK(R), NEW k \in Kind,
           NEW m \in Nat, NEW n \in Nat, Born(R, k, m), Born(R, k, n), m # n
    PROVE  R.at[k][m] + Period <= R.at[k][n] \/ R.at[k][n] + Period <= R.at[k][m]
BY DEF RealOK, Born, History, RealSet

LEMMA KeyOfWindow ==
    ASSUME NEW R \in History, RealOK(R), NEW k \in Kind,
           NEW m \in Nat, NEW n \in Nat, NEW i, NEW t, KeyOf(R, k, m, i), SeenAs(R, k, n, t)
    PROVE  m = n <=> Gap(i.at, t) <= Tolerance
<1>1. PICK a \in Jitter : i.at = KeyTime(R.at[k][m] + a)
  BY DEF KeyOf
<1>2. PICK b \in Jitter : t = R.at[k][n] + b
  BY DEF SeenAs
<1>3. R.at[k][m] \in Int /\ R.at[k][n] \in Int /\ a \in Int /\ b \in Int /\ Tolerance \in Int
  BY LimitPolicyAssumption DEF History
<1>4. CASE m = n
  BY <1>1, <1>2, <1>3, <1>4, KeyIsNear
<1>5. CASE m # n
  <2>1. R.at[k][m] + Period <= R.at[k][n] \/ R.at[k][n] + Period <= R.at[k][m]
    BY <1>5, Apart DEF KeyOf, SeenAs
  <2>2. Gap(KeyTime(R.at[k][m] + a), R.at[k][n] + b) > Tolerance
    BY <1>3, <2>1, KeyIsFar
  <2>3. KeyTime(R.at[k][m] + a) \in Int
    BY <1>3, KeyTimeNear
  <2> QED BY <1>1, <1>2, <1>3, <1>5, <2>2, <2>3 DEF Gap
<1> QED BY <1>4, <1>5

LEMMA KeyOfOne ==
    ASSUME NEW R \in History, RealOK(R), NEW k \in Kind,
           NEW m \in Nat, NEW n \in Nat, NEW i, KeyOf(R, k, m, i), KeyOf(R, k, n, i)
    PROVE  m = n
<1>1. PICK a \in Jitter : i.at = KeyTime(R.at[k][m] + a)
  BY DEF KeyOf
<1>2. SeenAs(R, k, m, R.at[k][m] + a) /\ SeenAs(R, k, n, R.at[k][n] + a)
  BY DEF SeenAs, KeyOf
<1>3. PICK b \in Jitter : i.at = KeyTime(R.at[k][n] + b)
  BY DEF KeyOf
<1>4. Gap(i.at, R.at[k][m] + a) <= Tolerance
  BY <1>2, KeyOfWindow
<1> QED BY <1>2, <1>4, KeyOfWindow

\* A window matches the key known of it, if there is one.
LEMMA Matches ==
    ASSUME NEW R \in History, RealOK(R), NEW K \in SUBSET KeySet, Keys(R, K),
           NEW k \in Kind, NEW n \in Nat, NEW t \in Int, SeenAs(R, k, n, t)
    PROVE  LET i == MatchInstance(k, t, K) IN
           /\ i \in KeySet /\ KeyOf(R, k, n, i)
           /\ \A a \in K : KeyOf(R, k, n, a) => a = i
<1> DEFINE fresh == Instance(k, KeyTime(t))
           near == {i \in K : i.kind = k /\ Gap(i.at, t) <= Tolerance}
           best(i) == \A j \in near : Gap(i.at, t) <= Gap(j.at, t)
           i == MatchInstance(k, t, K)
<1>1. fresh \in KeySet /\ KeyOf(R, k, n, fresh)
  <2>1. KeyTime(t) \in Int
    BY KeyTimeNear
  <2> QED BY <2>1 DEF KeySet, Kinds, Instance, KeyOf, SeenAs
<1>2. \A a \in near : KeyOf(R, k, n, a)
  <2> SUFFICES ASSUME NEW a \in near PROVE KeyOf(R, k, n, a)
    OBVIOUS
  <2>1. PICK m \in Nat : KeyOf(R, k, m, a)
    BY DEF Keys
  <2> QED BY <2>1, KeyOfWindow
<1>3. \A a \in K : KeyOf(R, k, n, a) => a \in near
  BY KeyOfWindow DEF KeyOf
<1>4. \A a, b \in K : KeyOf(R, k, n, a) /\ KeyOf(R, k, n, b) => a = b
  BY DEF Keys, KeyOf
<1>5. CASE fresh \in K \/ near = {}
  <2>1. i = fresh
    BY <1>5 DEF MatchInstance
  <2> QED BY <1>1, <1>3, <1>4, <1>5, <2>1
<1>6. CASE ~(fresh \in K \/ near = {})
  <2>1. i = CHOOSE a \in near : best(a)
    BY <1>6 DEF MatchInstance
  <2>2. PICK a \in near : TRUE
    BY <1>6
  <2>3. \A b \in near : b = a
    BY <1>2, <1>4
  <2>4. best(a)
    <3>1. a.at \in Int
      BY DEF KeySet
    <3> QED BY <2>3, <3>1 DEF Gap
  <2> HIDE DEF best
  <2>5. i \in near
    BY <2>1, <2>2, <2>4
  <2>6. i \in K /\ KeyOf(R, k, n, i)
    <3> HIDE DEF i
    <3> QED BY <1>2, <2>5
  <2> HIDE DEF near
  <2> QED BY <1>4, <2>6
<1> QED BY <1>5, <1>6

-----------------------------------------------------------------------------
(* Holds, warnings and what was paused.  K holds all keys that are known.  *)

HoldOK(R, x) ==
    /\ SeenAs(R, x.inst.kind, x.no, x.resets)
    /\ KeyOf(R, x.inst.kind, x.no, x.inst)
    /\ x.no = R.real[x.inst.kind].no => R.real[x.inst.kind].level = Pause

\* Since the hold was created its window was full whenever it was seen.
HoldSeen(R, sn, x) ==
    /\ \A v \in sn.windows : v.kind = x.inst.kind =>
            v.no >= x.no /\ (v.no = x.no => v.level = Pause)
    /\ (\A v \in sn.windows : v.kind # x.inst.kind) /\ x.no = R.real[x.inst.kind].no
            => ~R.real[x.inst.kind].active

HoldsOK(R, sn, s) ==
    \A x \in s.holds : x.inst.kind \in Kind =>
        /\ x.inst \in s.paused /\ x.inst \notin s.released
        /\ HoldOK(R, x) /\ HoldSeen(R, sn, x)
        /\ \A y \in s.holds : y.inst = x.inst => y = x

WarnedOK(R, s) ==
    \A y \in s.warned :
        IF y.inst.kind \in Kind THEN KeyOf(R, y.inst.kind, y.no, y.inst)
        ELSE y.inst = Instance("extra_usage", y.no)

\* What was paused is what the history says was paused.
PausedOK(R, s, p) ==
    /\ \A i \in s.paused : i.kind \in Kind =>
          \A n \in Nat : KeyOf(R, i.kind, n, i) => <<i.kind, n>> \in p
    /\ \A k \in Kind, n \in Nat : <<k, n>> \in p => \E i \in s.paused : KeyOf(R, k, n, i)
    /\ \A i \in s.released : i.kind \in Kind => i \in s.paused

Within(K, s) ==
    \A a \in Insts(s.warned) \cup s.paused : a.kind \in Kind => a \in K

StateOK(R, K, sn, s, p) ==
    /\ s \in StateSet /\ Within(K, s)
    /\ HoldsOK(R, sn, s) /\ WarnedOK(R, s) /\ PausedOK(R, s, p)

-----------------------------------------------------------------------------
(* Before the windows are looked at.                                       *)

LEMMA FewerHolds ==
    ASSUME NEW R, NEW K, NEW sn, NEW s, NEW p, StateOK(R, K, sn, s, p),
           NEW H \in SUBSET s.holds
    PROVE  /\ StateOK(R, K, sn, [s EXCEPT !.holds = H], p)
           /\ [s EXCEPT !.holds = H].holds = H
           /\ [s EXCEPT !.holds = H].warned = s.warned
           /\ [s EXCEPT !.holds = H].paused = s.paused
           /\ [s EXCEPT !.holds = H].released = s.released
<1> DEFINE e == [s EXCEPT !.holds = H]
<1>1. /\ e \in StateSet /\ e.holds = H /\ e.warned = s.warned
      /\ e.paused = s.paused /\ e.released = s.released
  BY DEF StateOK, StateSet
<1> HIDE DEF e
<1>2. StateOK(R, K, sn, e, p)
  BY <1>1 DEF StateOK, Within, HoldsOK, WarnedOK, PausedOK
<1> QED BY <1>1, <1>2 DEF e

\* What is taken back while work spills over may be paused again.
AllOfAKind(s, Q) == \A x \in Q, y \in s.holds : y.inst.kind = x.inst.kind => y \in Q
TakenBack(s, Q) == [s EXCEPT !.holds = @ \ Q, !.paused = @ \ Insts(Q)]
Without(R, K, sn, s, p, Q, e) ==
    /\ StateOK(R, K, sn, e, p \ Ids(Q))
    /\ e.holds = s.holds \ Q /\ e.warned = s.warned /\ e.released = s.released
    /\ e.paused = s.paused \ Insts(Q)

LEMMA SpillsKeep ==
    ASSUME NEW R \in History, RealOK(R), NEW K \in SUBSET KeySet, Keys(R, K),
           NEW sn, NEW s, NEW p, StateOK(R, K, sn, s, p), NEW Q \in SUBSET s.holds,
           AllOfAKind(s, Q)
    PROVE  Without(R, K, sn, s, p, Q, TakenBack(s, Q))
<1> DEFINE e == TakenBack(s, Q)
           q == p \ Ids(Q)
<1>1. /\ e \in StateSet /\ e.holds = s.holds \ Q /\ e.warned = s.warned
      /\ e.paused = s.paused \ Insts(Q) /\ e.released = s.released
  BY DEF StateOK, StateSet, TakenBack
<1>2. /\ s \in StateSet /\ Within(K, s) /\ HoldsOK(R, sn, s)
      /\ WarnedOK(R, s) /\ PausedOK(R, s, p)
  BY DEF StateOK
<1> HIDE DEF e
<1>3. Within(K, e) /\ WarnedOK(R, e)
  BY <1>1, <1>2 DEF Within, WarnedOK
<1>4. HoldsOK(R, sn, e)
  <2> SUFFICES ASSUME NEW x \in e.holds, x.inst.kind \in Kind
               PROVE  /\ x.inst \in e.paused /\ x.inst \notin e.released
                      /\ HoldOK(R, x) /\ HoldSeen(R, sn, x)
                      /\ \A y \in e.holds : y.inst = x.inst => y = x
    BY DEF HoldsOK
  <2>1. x.inst \notin Insts(Q)
    BY <1>1 DEF Insts, AllOfAKind
  <2> QED BY <1>1, <1>2, <2>1 DEF HoldsOK
<1>5. PausedOK(R, e, q)
  <2>1. ASSUME NEW i \in e.paused, i.kind \in Kind, NEW n \in Nat, KeyOf(R, i.kind, n, i)
        PROVE  <<i.kind, n>> \in q
    <3>1. <<i.kind, n>> \in p
      BY <1>1, <1>2, <2>1 DEF PausedOK
    <3>2. ASSUME NEW x \in Q, <<i.kind, n>> = <<x.inst.kind, x.no>>
          PROVE  FALSE
      <4>1. x \in s.holds /\ x.inst.kind = i.kind /\ x.no = n
        BY <3>2
      <4>2. KeyOf(R, i.kind, n, x.inst) /\ x.inst \in K /\ i \in K
        BY <1>1, <1>2, <2>1, <4>1 DEF HoldsOK, HoldOK, Within
      <4>3. i = x.inst
        BY <2>1, <4>1, <4>2 DEF Keys
      <4> QED BY <1>1, <4>3 DEF Insts
    <3> QED BY <3>1, <3>2 DEF Ids
  <2>2. ASSUME NEW k \in Kind, NEW n \in Nat, <<k, n>> \in q
        PROVE  \E i \in e.paused : KeyOf(R, k, n, i)
    <3>1. PICK i \in s.paused : KeyOf(R, k, n, i)
      BY <1>2, <2>2 DEF PausedOK
    <3>2. ASSUME NEW x \in Q, x.inst = i
          PROVE  FALSE
      <4>1. x \in s.holds /\ x.inst.kind = k /\ x.no \in Nat
        BY <1>2, <3>1, <3>2 DEF KeyOf, StateSet, HoldSet
      <4>2. KeyOf(R, k, x.no, i)
        BY <1>2, <3>2, <4>1 DEF HoldsOK, HoldOK
      <4>3. x.no = n
        BY <3>1, <4>1, <4>2, KeyOfOne
      <4> QED BY <2>2, <4>1, <4>3 DEF Ids
    <3> QED BY <1>1, <3>1, <3>2 DEF Insts
  <2>3. ASSUME NEW i \in e.released, i.kind \in Kind
        PROVE  i \in e.paused
    <3>1. i \in s.paused
      BY <1>1, <1>2, <2>3 DEF PausedOK
    <3>2. ASSUME NEW x \in Q, x.inst = i
          PROVE  FALSE
      BY <1>1, <1>2, <2>3, <3>2 DEF HoldsOK
    <3> QED BY <1>1, <3>1, <3>2 DEF Insts
  <2> QED BY <2>1, <2>2, <2>3 DEF PausedOK
<1>6. StateOK(R, K, sn, e, q)
  BY <1>1, <1>3, <1>4, <1>5 DEF StateOK
<1> QED BY <1>1, <1>6 DEF e, Without

CreditKey(arm) == Instance("extra_usage", arm)

\* What the first steps of a pass make of `s`, and what they spill.
Clears(R, K, cf, sn, s, p, Q, e) ==
    /\ StateOK(R, K, sn, e, p \ Ids(Q))
    /\ e.holds \subseteq s.holds /\ e.warned = s.warned /\ e.released = s.released
    /\ \A x \in s.holds : x \in e.holds \/ ~cf.enabled \/ SpillActive(cf, sn)
    /\ \A x \in Q : SpillActive(cf, sn) /\ x.inst.kind \in SpillKinds
    /\ \A a : CreditKey(a) \in s.paused => CreditKey(a) \in e.paused

LEMMA SuspendedKeeps ==
    ASSUME NEW R \in History, RealOK(R), NEW K \in SUBSET KeySet, Keys(R, K),
           NEW cf, NEW sn, NEW s, NEW p, StateOK(R, K, sn, s, p)
    PROVE  Clears(R, K, cf, sn, s, p, Spilled(cf, sn, s), Suspended(cf, sn, s))
<1> DEFINE Q == Spilled(cf, sn, s)
<1>1. CASE ~cf.enabled
  <2>1. Q = {} /\ Suspended(cf, sn, s) = [s EXCEPT !.holds = {}]
    BY <1>1 DEF Spilled, Suspended
  <2>2. p \ Ids(Q) = p
    BY <2>1 DEF Ids
  <2>3. {} \in SUBSET s.holds
    OBVIOUS
  <2> QED BY <1>1, <2>1, <2>2, <2>3, FewerHolds DEF Clears
<1>2. CASE cf.enabled
  <2>1. PICK Z \in SUBSET s.holds :
          Z = {x \in s.holds : SpillActive(cf, sn) /\ x.inst.kind \in SpillKinds}
    OBVIOUS
  <2>2. Q = Z /\ Suspended(cf, sn, s) = TakenBack(s, Z)
    BY <1>2, <2>1 DEF Spilled, Suspended, TakenBack
  <2>3. AllOfAKind(s, Z)
    BY <2>1 DEF AllOfAKind
  <2>4. Without(R, K, sn, s, p, Z, TakenBack(s, Z))
    BY <2>3, SpillsKeep
  <2>5. \A a : CreditKey(a) \notin Insts(Z)
    BY <2>1 DEF Insts, CreditKey, Instance, SpillKinds
  <2> QED BY <2>1, <2>2, <2>4, <2>5 DEF Without, Clears
<1> QED BY <1>1, <1>2

-----------------------------------------------------------------------------
(* The windows.                                                            *)

Open(sn, t) == {v \in sn.windows : Fresh(sn) /\ v.resets > t}
Key(v, K) == MatchInstance(v.kind, v.resets, K)
HeldFor(cf, sn, s, K, t) ==
    {v \in Open(sn, t) : /\ v.level = Pause /\ cf.enabled
                         /\ ~(v.kind = "model_scoped" /\ cf.warnOnly)
                         /\ ~(SpillActive(cf, sn) /\ v.kind \in SpillKinds)
                         /\ MayHold(Key(v, K), s)}
HoldsFor(V, K) == {Hold(Key(v, K), v.no, v.resets) : v \in V}
\* The keys that are known once the open windows have been looked at.
Seen(sn, K, t) == K \cup {Key(v, K) : v \in Open(sn, t)}

LEMMA SeenKeys ==
    ASSUME NEW R \in History, RealOK(R), NEW K \in SUBSET KeySet, Keys(R, K),
           NEW sn \in SnapSet, SnapOK(R, sn), NEW t
    PROVE  /\ Seen(sn, K, t) \in SUBSET KeySet /\ Keys(R, Seen(sn, K, t))
           /\ \A v \in Open(sn, t) :
                 /\ v \in WindowSet /\ Key(v, K) \in Seen(sn, K, t)
                 /\ KeyOf(R, v.kind, v.no, Key(v, K))
                 /\ \A a \in Seen(sn, K, t) : KeyOf(R, v.kind, v.no, a) => a = Key(v, K)
<1> DEFINE N == {Key(v, K) : v \in Open(sn, t)}
<1>1. ASSUME NEW v \in Open(sn, t)
      PROVE  /\ v \in WindowSet /\ Key(v, K) \in KeySet
             /\ KeyOf(R, v.kind, v.no, Key(v, K))
             /\ \A a \in K : KeyOf(R, v.kind, v.no, a) => a = Key(v, K)
  <2>1. v \in sn.windows /\ v \in WindowSet
    BY DEF Open, SnapSet
  <2>2. v.kind \in Kind /\ v.no \in Nat /\ v.resets \in Int
    BY <2>1 DEF WindowSet
  <2>3. SeenAs(R, v.kind, v.no, v.resets)
    BY <2>1 DEF SnapOK
  <2> QED BY <2>1, <2>2, <2>3, Matches DEF Key
<1>2. ASSUME NEW u \in Open(sn, t), NEW v \in Open(sn, t), u.kind = v.kind
      PROVE  u = v
  BY <1>2 DEF Open, SnapOK
<1>3. ASSUME NEW v \in Open(sn, t), NEW a \in Seen(sn, K, t), KeyOf(R, v.kind, v.no, a)
      PROVE  a = Key(v, K)
  <2>1. CASE a \in K
    BY <1>1, <1>3, <2>1
  <2>2. ASSUME NEW u \in Open(sn, t), a = Key(u, K)
        PROVE  a = Key(v, K)
    <3>1. a.kind = u.kind /\ a.kind = v.kind
      BY <1>1, <1>3, <2>2 DEF KeyOf
    <3> QED BY <1>2, <2>2, <3>1
  <2> QED BY <2>1, <2>2 DEF Seen
<1>4. Seen(sn, K, t) \in SUBSET KeySet
  BY <1>1 DEF Seen
<1>5. ASSUME NEW a \in Seen(sn, K, t), a.kind \in Kind
      PROVE  \E n \in Nat : KeyOf(R, a.kind, n, a)
  <2>1. CASE a \in K
    BY <1>5, <2>1 DEF Keys
  <2>2. ASSUME NEW v \in Open(sn, t), a = Key(v, K)
        PROVE  \E n \in Nat : KeyOf(R, a.kind, n, a)
    <3>1. v.no \in Nat /\ KeyOf(R, v.kind, v.no, a)
      BY <1>1, <2>2 DEF WindowSet
    <3>2. a.kind = v.kind
      BY <3>1 DEF KeyOf
    <3> QED BY <3>1, <3>2
  <2> QED BY <2>1, <2>2 DEF Seen
<1>6. ASSUME NEW a \in Seen(sn, K, t), NEW b \in Seen(sn, K, t), a.kind \in Kind, NEW n \in Nat,
             KeyOf(R, a.kind, n, a), KeyOf(R, a.kind, n, b)
      PROVE  a = b
  <2>1. CASE a \in K /\ b \in K
    BY <1>6, <2>1 DEF Keys
  <2>2. ASSUME NEW v \in Open(sn, t), a = Key(v, K) \/ b = Key(v, K)
        PROVE  a = b
    <3>1. v.no \in Nat /\ v.kind = a.kind
      BY <1>1, <1>6, <2>2 DEF WindowSet, KeyOf
    <3>2. KeyOf(R, a.kind, v.no, a) \/ KeyOf(R, a.kind, v.no, b)
      BY <1>1, <2>2, <3>1
    <3>3. v.no = n
      BY <1>6, <3>1, <3>2, KeyOfOne
    <3> QED BY <1>3, <1>6, <3>1, <3>3
  <2> QED BY <2>1, <2>2 DEF Seen
<1>7. Keys(R, Seen(sn, K, t))
  BY <1>5, <1>6 DEF Keys
<1>8. \A v \in Open(sn, t) : Key(v, K) \in Seen(sn, K, t)
  BY DEF Seen
<1> QED BY <1>1, <1>3, <1>4, <1>7, <1>8

\* Warnings for open windows that were not given before.
GivenFor(sn, s, K, t, W) ==
    \A x \in W : /\ x.level \in {Warn, Pause}
                 /\ \E v \in Open(sn, t) : x.inst = Key(v, K) /\ x.no = v.no
                 /\ \A y \in s.warned : ~(y.level = x.level /\ y.inst = x.inst)
WithSeen(s, W, H) ==
    [s EXCEPT !.warned = @ \cup W, !.holds = @ \cup H, !.paused = @ \cup Insts(H)]

LEMMA WindowsSeenIs ==
    ASSUME NEW cf, NEW sn, NEW s, NEW K, NEW t
    PROVE  \E W \in SUBSET [level : {Warn, Pause}, inst : {Key(v, K) : v \in Open(sn, t)},
                            no : {v.no : v \in Open(sn, t)}] :
           /\ GivenFor(sn, s, K, t, W)
           /\ WindowsSeen(cf, sn, s, K, t) = WithSeen(s, W, HoldsFor(HeldFor(cf, sn, s, K, t), K))
<1> DEFINE open == {v \in sn.windows : Fresh(sn) /\ v.resets > t}
           inst(v) == MatchInstance(v.kind, v.resets, K)
           warnOnly(v) == v.kind = "model_scoped" /\ cf.warnOnly
           warnings == {Warning(Warn, inst(v), v.no) : v \in {u \in open : u.level >= Warn}}
                \cup {Warning(Pause, inst(v), v.no) :
                        v \in {u \in open : u.level = Pause /\ warnOnly(u)}}
           full == {v \in open : /\ v.level = Pause /\ cf.enabled /\ ~warnOnly(v)
                                 /\ ~(SpillActive(cf, sn) /\ v.kind \in SpillKinds)
                                 /\ MayHold(inst(v), s)}
           new == {Hold(inst(v), v.no, v.resets) : v \in full}
           W == NewWarnings(warnings, s)
           Given == [level : {Warn, Pause}, inst : {Key(v, K) : v \in Open(sn, t)},
                     no : {v.no : v \in Open(sn, t)}]
<1>1. WindowsSeen(cf, sn, s, K, t) = WithSeen(s, W, new)
  BY DEF WindowsSeen, WithSeen
<1>2. full = HeldFor(cf, sn, s, K, t)
  BY DEF HeldFor, Open, Key
<1>3. new = HoldsFor(HeldFor(cf, sn, s, K, t), K)
  <2> HIDE DEF full
  <2> QED BY <1>2 DEF HoldsFor, Key
<1>4. ASSUME NEW x \in warnings
      PROVE  /\ x \in Given
             /\ \E v \in Open(sn, t) : x.inst = Key(v, K) /\ x.no = v.no
  <2>1. PICK v \in open, l \in {Warn, Pause} : x = Warning(l, inst(v), v.no)
    OBVIOUS
  <2>2. v \in Open(sn, t) /\ x = Warning(l, Key(v, K), v.no)
    BY <2>1 DEF Open, Key
  <2> QED BY <2>2 DEF Warning
<1>5. W \subseteq warnings /\ \A x \in W, y \in s.warned : ~(y.level = x.level /\ y.inst = x.inst)
  <2> HIDE DEF warnings
  <2> QED BY DEF NewWarnings
<1>6. W \in SUBSET Given /\ \A x \in W : x.level \in {Warn, Pause}
  <2> HIDE DEF warnings, W
  <2> QED BY <1>4, <1>5
<1>7. GivenFor(sn, s, K, t, W)
  <2> HIDE DEF warnings, W
  <2> QED BY <1>4, <1>5, <1>6 DEF GivenFor
<1> HIDE DEF W, new
<1> QED BY <1>1, <1>3, <1>6, <1>7

\* A hold that is created for window `v`.
NewFor(R, sn, s, p, v, h) ==
    /\ h \in HoldSet /\ h.no = v.no /\ h.resets = v.resets /\ h.started = NoTime
    /\ h.inst.kind = v.kind /\ v.kind \in Kind
    /\ HoldOK(R, h) /\ HoldSeen(R, sn, h)
    /\ h.inst \notin s.released /\ h.inst \notin s.paused /\ h.inst \notin Insts(s.holds)
    /\ <<v.kind, v.no>> \notin p

LEMMA NewHold ==
    ASSUME NEW R \in History, RealOK(R), NEW K \in SUBSET KeySet, Keys(R, K),
           NEW cf, NEW sn \in SnapSet, SnapOK(R, sn), NEW t \in Nat, NEW s, NEW p,
           StateOK(R, K, sn, s, p), NEW v \in HeldFor(cf, sn, s, K, t)
    PROVE  NewFor(R, sn, s, p, v, Hold(Key(v, K), v.no, v.resets))
<1> DEFINE h == Hold(Key(v, K), v.no, v.resets)
<1>1. /\ v \in Open(sn, t) /\ v.level = Pause /\ MayHold(Key(v, K), s)
      /\ cf.enabled /\ ~(SpillActive(cf, sn) /\ v.kind \in SpillKinds)
  BY DEF HeldFor
<1>2. /\ v \in WindowSet /\ KeyOf(R, v.kind, v.no, Key(v, K))
      /\ Key(v, K) \in KeySet
      /\ \A a \in K : KeyOf(R, v.kind, v.no, a) => a = Key(v, K)
  <2>1. K \subseteq Seen(sn, K, t)
    BY DEF Seen
  <2> QED BY <1>1, <2>1, SeenKeys
<1>3. /\ v.kind \in Kind /\ v.no \in Nat /\ v.resets \in Int /\ v.level \in Levels
      /\ Key(v, K).kind = v.kind
  BY <1>2 DEF WindowSet, KeyOf
<1>4. /\ h \in HoldSet /\ h.inst = Key(v, K) /\ h.no = v.no /\ h.resets = v.resets
      /\ h.started = NoTime
  BY <1>2, <1>3 DEF Hold, HoldSet, NoTime
<1> HIDE DEF h
<1>5. v \in sn.windows
  BY <1>1 DEF Open
<1>6. HoldOK(R, h)
  <2>1. SeenAs(R, v.kind, v.no, v.resets) /\ (v.no = R.real[v.kind].no => v.level <= R.real[v.kind].level)
    BY <1>5 DEF SnapOK
  <2>2. R.real[v.kind].level \in 0 .. 2
    BY <1>3, LimitPolicyAssumption DEF History, RealSet, Pause
  <2>3. v.no = R.real[v.kind].no => R.real[v.kind].level = Pause
    BY <1>1, <2>1, <2>2 DEF Pause
  <2> QED BY <1>2, <1>3, <1>4, <2>1, <2>3 DEF HoldOK
<1>7. HoldSeen(R, sn, h)
  <2>1. \A u \in sn.windows : u.kind = v.kind => u = v
    BY <1>5 DEF SnapOK
  <2> QED BY <1>1, <1>3, <1>4, <1>5, <2>1 DEF HoldSeen
<1>8. h.inst \notin s.released /\ h.inst \notin s.paused /\ h.inst \notin Insts(s.holds)
  BY <1>1, <1>4 DEF MayHold
<1>9. <<v.kind, v.no>> \notin p
  <2> SUFFICES ASSUME <<v.kind, v.no>> \in p PROVE FALSE
    OBVIOUS
  <2>1. PICK i \in s.paused : KeyOf(R, v.kind, v.no, i)
    BY <1>3 DEF StateOK, PausedOK
  <2>2. i \in K
    BY <1>3, <2>1 DEF KeyOf, StateOK, Within
  <2> QED BY <1>2, <1>4, <1>8, <2>1, <2>2
<1>10. NewFor(R, sn, s, p, v, h)
  BY <1>3, <1>4, <1>6, <1>7, <1>8, <1>9 DEF NewFor
<1> QED BY <1>10 DEF h

\* What looking at the windows does to the holds, the warnings and the history.
NewWarningsOnce(s, e) ==
    \A x \in e.warned \ s.warned, y \in s.warned :
        ~(y.level = x.level /\ y.inst.kind = x.inst.kind /\ y.no = x.no)
Looks(R, K, sn, s, p, H, e) ==
    /\ StateOK(R, K, sn, e, p \cup Ids(H))
    /\ e.holds = s.holds \cup H /\ e.released = s.released /\ e.paused = s.paused \cup Insts(H)
    /\ s.warned \subseteq e.warned /\ NewWarningsOnce(s, e)

LEMMA WindowsKeep ==
    ASSUME NEW R \in History, RealOK(R), NEW K \in SUBSET KeySet, Keys(R, K),
           NEW cf, NEW sn \in SnapSet, SnapOK(R, sn), NEW t \in Nat, NEW s, NEW p,
           StateOK(R, K, sn, s, p)
    PROVE  Looks(R, Seen(sn, K, t), sn, s, p, HoldsFor(HeldFor(cf, sn, s, K, t), K),
                 WindowsSeen(cf, sn, s, K, t))
<1> DEFINE V == HeldFor(cf, sn, s, K, t)
           H == HoldsFor(V, K)
           K2 == Seen(sn, K, t)
           q == p \cup Ids(H)
<1>1. PICK W \in SUBSET [level : {Warn, Pause}, inst : {Key(v, K) : v \in Open(sn, t)},
                          no : {v.no : v \in Open(sn, t)}] :
        GivenFor(sn, s, K, t, W) /\ WindowsSeen(cf, sn, s, K, t) = WithSeen(s, W, H)
  BY WindowsSeenIs
<1>2. PICK e : e = WithSeen(s, W, H)
  OBVIOUS
<1>3. ASSUME NEW h \in H
      PROVE  /\ h \in HoldSet /\ h.inst.kind \in Kind /\ h.inst \in K2
             /\ HoldOK(R, h) /\ HoldSeen(R, sn, h)
             /\ h.inst \notin s.released /\ h.inst \notin s.paused
             /\ h.inst \notin Insts(s.holds)
             /\ \E v \in Open(sn, t) : h = Hold(Key(v, K), v.no, v.resets) /\ h.inst.kind = v.kind
  <2>1. PICK v \in V : h = Hold(Key(v, K), v.no, v.resets)
    BY DEF HoldsFor
  <2>2. v \in Open(sn, t)
    BY DEF HeldFor
  <2>3. Key(v, K) \in K2
    BY <2>2 DEF Seen
  <2> HIDE DEF V, H, K2
  <2>4. v \in HeldFor(cf, sn, s, K, t)
    BY DEF V
  <2>5. /\ h \in HoldSet /\ h.inst = Key(v, K) /\ h.inst.kind = v.kind /\ v.kind \in Kind
        /\ HoldOK(R, h) /\ HoldSeen(R, sn, h)
        /\ h.inst \notin s.released /\ h.inst \notin s.paused /\ h.inst \notin Insts(s.holds)
    <3>1. NewFor(R, sn, s, p, v, h)
      BY <2>1, <2>4, NewHold
    <3>2. h.inst = Key(v, K)
      BY <2>1 DEF Hold
    <3> QED BY <3>1, <3>2 DEF NewFor
  <2> QED BY <2>1, <2>2, <2>3, <2>5
<1>4. K \subseteq K2 /\ K2 \in SUBSET KeySet /\ Keys(R, K2)
  BY SeenKeys DEF Seen
<1> HIDE DEF V, H, K2
<1>5. s \in StateSet /\ Within(K, s) /\ HoldsOK(R, sn, s) /\ WarnedOK(R, s) /\ PausedOK(R, s, p)
  BY DEF StateOK
<1>6. W \in SUBSET WarningSet
  <2>1. ASSUME NEW v \in Open(sn, t) PROVE Key(v, K) \in KeySet /\ v.no \in Nat
    <3>1. v \in WindowSet /\ Key(v, K) \in K2
      BY <2>1, SeenKeys DEF K2
    <3> QED BY <1>4, <3>1 DEF WindowSet
  <2> QED BY <1>1, <2>1 DEF WarningSet
<1>7. /\ e \in StateSet /\ e.holds = s.holds \cup H /\ e.warned = s.warned \cup W
      /\ e.paused = s.paused \cup Insts(H) /\ e.released = s.released
  <2>1. H \subseteq HoldSet /\ Insts(H) \subseteq KeySet
    BY <1>3 DEF Insts, HoldSet
  <2> QED BY <1>2, <1>5, <1>6, <2>1 DEF WithSeen, StateSet
<1>8. ASSUME NEW x \in W
      PROVE  /\ x.inst.kind \in Kind /\ x.inst \in K2 /\ KeyOf(R, x.inst.kind, x.no, x.inst)
             /\ \A y \in s.warned :
                   ~(y.level = x.level /\ y.inst.kind = x.inst.kind /\ y.no = x.no)
  <2>1. PICK v \in Open(sn, t) : x.inst = Key(v, K) /\ x.no = v.no
    BY <1>1 DEF GivenFor
  <2>2. /\ v.kind \in Kind /\ KeyOf(R, v.kind, v.no, Key(v, K)) /\ Key(v, K) \in K2
        /\ \A a \in K2 : KeyOf(R, v.kind, v.no, a) => a = Key(v, K)
    BY SeenKeys DEF WindowSet, K2
  <2>3. x.inst.kind = v.kind
    BY <2>1, <2>2 DEF KeyOf
  <2>4. ASSUME NEW y \in s.warned, y.level = x.level, y.inst.kind = x.inst.kind, y.no = x.no
        PROVE  FALSE
    <3>1. KeyOf(R, v.kind, v.no, y.inst)
      BY <1>5, <2>1, <2>2, <2>3, <2>4 DEF WarnedOK
    <3>2. y.inst \in K2
      BY <1>4, <1>5, <2>2, <2>3, <2>4 DEF Within, Insts
    <3>3. y.inst = x.inst
      BY <2>1, <2>2, <3>1, <3>2
    <3> QED BY <1>1, <2>4, <3>3 DEF GivenFor
  <2> QED BY <2>1, <2>2, <2>3, <2>4
<1>9. Within(K2, e)
  BY <1>3, <1>4, <1>5, <1>7, <1>8 DEF Within, Insts
<1>10. WarnedOK(R, e)
  BY <1>5, <1>7, <1>8 DEF WarnedOK
<1>11. HoldsOK(R, sn, e)
  <2>1. ASSUME NEW x \in H, NEW y \in H, y.inst = x.inst PROVE y = x
    <3>1. PICK u \in Open(sn, t) : x = Hold(Key(u, K), u.no, u.resets) /\ x.inst.kind = u.kind
      BY <1>3
    <3>2. PICK v \in Open(sn, t) : y = Hold(Key(v, K), v.no, v.resets) /\ y.inst.kind = v.kind
      BY <1>3
    <3>3. u = v
      BY <2>1, <3>1, <3>2 DEF Open, SnapOK
    <3> QED BY <3>1, <3>2, <3>3
  <2>2. ASSUME NEW x \in s.holds, NEW y \in H PROVE y.inst # x.inst
    BY <1>3 DEF Insts
  <2>3. ASSUME NEW x \in s.holds, x.inst.kind \in Kind
        PROVE  /\ x.inst \in e.paused /\ x.inst \notin e.released
               /\ HoldOK(R, x) /\ HoldSeen(R, sn, x)
               /\ \A y \in e.holds : y.inst = x.inst => y = x
    <3>1. /\ x.inst \in s.paused /\ x.inst \notin s.released
          /\ HoldOK(R, x) /\ HoldSeen(R, sn, x)
          /\ \A y \in s.holds : y.inst = x.inst => y = x
      BY <1>5, <2>3 DEF HoldsOK
    <3> QED BY <1>7, <2>2, <3>1
  <2>4. ASSUME NEW x \in H
        PROVE  /\ x.inst \in e.paused /\ x.inst \notin e.released
               /\ HoldOK(R, x) /\ HoldSeen(R, sn, x)
               /\ \A y \in e.holds : y.inst = x.inst => y = x
    <3>1. x.inst \in Insts(H)
      BY DEF Insts
    <3> QED BY <1>3, <1>7, <2>1, <2>2, <3>1
  <2> QED BY <1>7, <2>3, <2>4 DEF HoldsOK
<1>12. PausedOK(R, e, q)
  <2>1. ASSUME NEW i \in e.paused, i.kind \in Kind, NEW n \in Nat, KeyOf(R, i.kind, n, i)
        PROVE  <<i.kind, n>> \in q
    <3>1. CASE i \in s.paused
      BY <1>5, <2>1, <3>1 DEF PausedOK
    <3>2. ASSUME NEW h \in H, i = h.inst
          PROVE  <<i.kind, n>> \in q
      <4>1. KeyOf(R, i.kind, h.no, i) /\ h.no \in Nat
        BY <1>3, <3>2 DEF HoldOK, HoldSet
      <4>2. h.no = n
        BY <2>1, <4>1, KeyOfOne
      <4> QED BY <3>2, <4>2 DEF Ids
    <3> QED BY <1>7, <3>1, <3>2 DEF Insts
  <2>2. ASSUME NEW k \in Kind, NEW n \in Nat, <<k, n>> \in q
        PROVE  \E i \in e.paused : KeyOf(R, k, n, i)
    <3>1. CASE <<k, n>> \in p
      BY <1>5, <1>7, <3>1 DEF PausedOK
    <3>2. ASSUME NEW h \in H, <<k, n>> = <<h.inst.kind, h.no>>
          PROVE  \E i \in e.paused : KeyOf(R, k, n, i)
      <4>1. KeyOf(R, k, n, h.inst)
        BY <1>3, <3>2 DEF HoldOK
      <4> QED BY <1>7, <4>1 DEF Insts
    <3> QED BY <2>2, <3>1, <3>2 DEF Ids
  <2> QED BY <1>5, <1>7, <2>1, <2>2 DEF PausedOK
<1>13. StateOK(R, K2, sn, e, q)
  BY <1>7, <1>9, <1>10, <1>11, <1>12 DEF StateOK
<1>14. NewWarningsOnce(s, e)
  BY <1>7, <1>8 DEF NewWarningsOnce
<1>15. Looks(R, K2, sn, s, p, H, e)
  BY <1>7, <1>13, <1>14 DEF Looks
<1> QED BY <1>1, <1>2, <1>15 DEF H, K2, V

-----------------------------------------------------------------------------
(* The credits.                                                            *)

LEMMA OtherKinds == "manual" \notin Kind /\ "extra_usage" \notin Kind
BY LimitPolicyAssumption

WithCredit(s, arm, W, H) ==
    [s EXCEPT !.arm = arm, !.warned = @ \cup W, !.holds = @ \cup H, !.paused = @ \cup Insts(H)]

LEMMA CreditSeenIs ==
    ASSUME NEW cf, NEW sn, NEW s, s.arm \in Nat
    PROVE  \/ CreditSeen(cf, sn, s) = s
           \/ \E a \in Nat : \E W \in SUBSET {Warning(Warn, CreditKey(a), a)},
                              H \in SUBSET {Hold(CreditKey(a), a, NoTime)} :
                 /\ \A x \in W, y \in s.warned : ~(y.level = x.level /\ y.inst = x.inst)
                 /\ H # {} => MayHold(CreditKey(a), s)
                 /\ CreditSeen(cf, sn, s) = WithCredit(s, a, W, H)
<1> DEFINE this == Instance("extra_usage", s.arm)
           fired == this \in Insts(s.warned) \cup s.paused \cup s.released
           arm == IF sn.credit.level < Warn /\ fired THEN s.arm + 1 ELSE s.arm
           inst == Instance("extra_usage", arm)
           warnings == IF sn.credit.level >= Warn THEN {Warning(Warn, inst, arm)} ELSE {}
           full == /\ SpillActive(cf, sn) /\ cf.enabled /\ sn.credit.level = Pause
                   /\ MayHold(inst, s) /\ ~\E x \in s.holds : x.inst.kind = "extra_usage"
           new == IF full THEN {Hold(inst, arm, NoTime)} ELSE {}
           given == NewWarnings(warnings, s)
<1>1. CASE ~Fresh(sn) \/ ~sn.credit.enabled
  BY <1>1 DEF CreditSeen
<1>2. CASE ~(~Fresh(sn) \/ ~sn.credit.enabled)
  <2>1. CreditSeen(cf, sn, s) = WithCredit(s, arm, given, new)
    BY <1>2 DEF CreditSeen, WithCredit
  <2>2. arm \in Nat
    OBVIOUS
  <2>3. inst = CreditKey(arm)
    BY DEF CreditKey
  <2> HIDE DEF arm
  <2>4. /\ given \in SUBSET {Warning(Warn, CreditKey(arm), arm)}
        /\ \A x \in given, y \in s.warned : ~(y.level = x.level /\ y.inst = x.inst)
    BY <2>3 DEF NewWarnings
  <2>5. /\ new \in SUBSET {Hold(CreditKey(arm), arm, NoTime)}
        /\ new # {} => MayHold(CreditKey(arm), s)
    BY <2>3
  <2> HIDE DEF given, new
  <2> QED BY <2>1, <2>2, <2>4, <2>5
<1> QED BY <1>1, <1>2

NewCredit(s, h) ==
    /\ h.inst.kind = "extra_usage" /\ h.inst = CreditKey(h.no)
    /\ h.inst \notin s.paused /\ h.inst \notin Insts(s.holds)

LEMMA CreditKeeps ==
    ASSUME NEW R, NEW K, NEW cf, NEW sn, NEW s, NEW p, StateOK(R, K, sn, s, p)
    PROVE  \E H \in SUBSET HoldSet :
              /\ Looks(R, K, sn, s, p, H, CreditSeen(cf, sn, s))
              /\ \A h \in H : NewCredit(s, h)
<1>1. PICK e : e = CreditSeen(cf, sn, s)
  OBVIOUS
<1>2. /\ s \in StateSet /\ Within(K, s) /\ HoldsOK(R, sn, s)
      /\ WarnedOK(R, s) /\ PausedOK(R, s, p)
  BY DEF StateOK
<1>3. CASE e = s
  <2>1. PICK H \in SUBSET HoldSet : H = {}
    OBVIOUS
  <2>2. p \cup Ids(H) = p /\ s.holds \cup H = s.holds
    BY <2>1 DEF Ids
  <2>3. StateOK(R, K, sn, e, p \cup Ids(H)) /\ e.holds = s.holds \cup H /\ e.released = s.released
    BY <1>3, <2>2
  <2>5. e.paused = s.paused \cup Insts(H)
    BY <1>3, <2>1 DEF Insts
  <2>4. Looks(R, K, sn, s, p, H, e)
    BY <1>3, <2>3, <2>5 DEF Looks, NewWarningsOnce
  <2> QED BY <1>1, <2>1, <2>4
<1>4. ASSUME e # s
      PROVE  \E H \in SUBSET HoldSet :
              /\ Looks(R, K, sn, s, p, H, e)
              /\ \A h \in H : NewCredit(s, h)
  <2>1. s.arm \in Nat
    BY <1>2 DEF StateSet
  <2>0. PICK arm \in Nat : \E W \in SUBSET {Warning(Warn, CreditKey(arm), arm)},
                                  H \in SUBSET {Hold(CreditKey(arm), arm, NoTime)} :
             /\ \A x \in W, y \in s.warned : ~(y.level = x.level /\ y.inst = x.inst)
             /\ H # {} => MayHold(CreditKey(arm), s)
             /\ e = WithCredit(s, arm, W, H)
    BY <1>1, <1>4, <2>1, CreditSeenIs
  <2>2. PICK W \in SUBSET {Warning(Warn, CreditKey(arm), arm)},
            H \in SUBSET {Hold(CreditKey(arm), arm, NoTime)} :
             /\ \A x \in W, y \in s.warned : ~(y.level = x.level /\ y.inst = x.inst)
             /\ H # {} => MayHold(CreditKey(arm), s)
             /\ e = WithCredit(s, arm, W, H)
    BY <2>0
  <2>3. /\ CreditKey(arm) \in KeySet /\ CreditKey(arm).kind = "extra_usage"
    BY DEF CreditKey, Instance, KeySet, Kinds
  <2>4. ASSUME NEW h \in H
        PROVE  /\ h \in HoldSet /\ h.inst = CreditKey(arm) /\ h.inst.kind = "extra_usage"
               /\ h.no = arm /\ h.inst \notin s.paused /\ h.inst \notin Insts(s.holds)
    BY <2>2, <2>3 DEF Hold, HoldSet, NoTime, MayHold
  <2>5. ASSUME NEW x \in W
        PROVE  /\ x \in WarningSet /\ x.inst = CreditKey(arm) /\ x.no = arm
               /\ x.inst.kind = "extra_usage"
    BY <2>3 DEF Warning, WarningSet
  <2>6. /\ e \in StateSet /\ e.holds = s.holds \cup H /\ e.warned = s.warned \cup W
        /\ e.paused = s.paused \cup Insts(H) /\ e.released = s.released
    <3>1. H \subseteq HoldSet /\ Insts(H) \subseteq KeySet /\ W \subseteq WarningSet
      BY <2>4, <2>5 DEF Insts, HoldSet
    <3> QED BY <1>2, <2>2, <3>1 DEF WithCredit, StateSet
  <2>7. Within(K, e)
    BY <1>2, <2>4, <2>5, <2>6, OtherKinds DEF Within, Insts
  <2>8. WarnedOK(R, e)
    BY <1>2, <2>5, <2>6, OtherKinds DEF WarnedOK, CreditKey
  <2>9. HoldsOK(R, sn, e)
    BY <1>2, <2>4, <2>6, OtherKinds DEF HoldsOK, Insts
  <2>10. PausedOK(R, e, p \cup Ids(H))
    <3>1. ASSUME NEW k \in Kind, NEW n \in Nat, <<k, n>> \in Ids(H) PROVE FALSE
      BY <2>4, <3>1, OtherKinds DEF Ids
    <3>2. ASSUME NEW i \in Insts(H) PROVE i.kind \notin Kind
      BY <2>4, OtherKinds DEF Insts
    <3>3. ASSUME NEW k \in Kind, NEW n \in Nat, <<k, n>> \in p \cup Ids(H)
          PROVE  \E i \in e.paused : KeyOf(R, k, n, i)
      BY <1>2, <2>6, <3>1, <3>3 DEF PausedOK
    <3> QED BY <1>2, <2>6, <3>2, <3>3 DEF PausedOK
  <2>11. StateOK(R, K, sn, e, p \cup Ids(H))
    BY <2>6, <2>7, <2>8, <2>9, <2>10 DEF StateOK
  <2>12. NewWarningsOnce(s, e)
    <3> SUFFICES ASSUME NEW x \in W, NEW y \in s.warned, y.level = x.level,
                        y.inst.kind = x.inst.kind, y.no = x.no
                 PROVE  FALSE
      BY <2>6 DEF NewWarningsOnce
    <3>1. y.inst = CreditKey(arm)
      BY <1>2, <2>5, OtherKinds DEF WarnedOK, CreditKey
    <3> QED BY <2>2, <2>5, <3>1
  <2>13. H \in SUBSET HoldSet /\ \A h \in H : NewCredit(s, h)
    <3>1. ASSUME NEW h \in H PROVE h \in HoldSet /\ NewCredit(s, h)
      BY <2>4 DEF NewCredit
    <3> QED BY <3>1
  <2>14. Looks(R, K, sn, s, p, H, e)
    BY <2>6, <2>11, <2>12 DEF Looks
  <2> QED BY <2>13, <2>14
<1> QED BY <1>1, <1>3, <1>4

-----------------------------------------------------------------------------
(* Confirmation.                                                           *)

SameHold(x, y) == x.inst = y.inst /\ x.no = y.no /\ x.resets = y.resets
\* Hold `x` is what confirmation at time `t` leaves of `y`.
Left(x, y, t) ==
    /\ SameHold(x, y)
    /\ \/ x = y /\ t < x.resets + Delay
       \/ /\ t >= x.resets + Delay /\ t < x.started + GiveUp
          /\ x.started = IF y.started = NoTime THEN t ELSE y.started

LEMMA StartedIs ==
    ASSUME NEW x \in HoldSet, NEW t \in Nat
    PROVE  /\ Started(x, t) \in HoldSet /\ SameHold(Started(x, t), x)
           /\ Started(x, t).started = IF x.started = NoTime THEN t ELSE x.started
BY DEF Started, SameHold, HoldSet

\* What step 5 makes of `s`, whose holds in C were created in this pass.
Confirms(R, K, sn, s, p, C, t, e) ==
    /\ StateOK(R, K, sn, e, p) /\ e.warned = s.warned /\ s.released \subseteq e.released
    /\ e.paused = s.paused
    /\ \A x \in e.holds : \E y \in s.holds :
          SameHold(x, y) /\ (x.inst.kind \in Kind /\ y \notin C => Left(x, y, t))
          /\ (y \in C => x = y)
    /\ \A x \in s.holds : x.inst.kind \in Kind =>
          \/ x.inst \in Insts(e.holds) \/ x.inst \in e.released
          \/ x \notin C /\ Fresh(sn) /\ ResetConfirmed(x, sn)

LEMMA ConfirmedKeeps ==
    ASSUME NEW R, NEW K, NEW cf, NEW sn, NEW s, NEW p, NEW C, NEW t \in Nat,
           StateOK(R, K, sn, s, p)
    PROVE  Confirms(R, K, sn, s, p, C, t, Confirmed(cf, sn, s, C, t))
<1> DEFINE due == {x \in s.holds \ C : x.inst.kind \in Kind /\ t >= x.resets + Delay}
           over == {x \in due : Fresh(sn) /\ ResetConfirmed(x, sn)}
           givenUp == {x \in due \ over : t >= Started(x, t).started + GiveUp}
           credits == {x \in s.holds \ C :
                          /\ x.inst.kind = "extra_usage" /\ Fresh(sn)
                          /\ ~sn.credit.enabled \/ sn.credit.level < Pause \/ ~cf.spill}
           waiting == {Started(x, t) : x \in due \ (over \cup givenUp)}
           kept == (s.holds \ (due \cup credits)) \cup waiting
           gone == Insts(givenUp)
<1>1. PICK e : e = Confirmed(cf, sn, s, C, t)
  OBVIOUS
<1>2. e = [s EXCEPT !.holds = kept, !.released = @ \cup gone]
  BY <1>1 DEF Confirmed
<1>3. /\ s \in StateSet /\ Within(K, s) /\ HoldsOK(R, sn, s)
      /\ WarnedOK(R, s) /\ PausedOK(R, s, p)
  BY DEF StateOK
<1>4. \A x \in s.holds : x \in HoldSet /\ x.started \in Int /\ x.resets \in Int
  BY <1>3 DEF StateSet, HoldSet
<1>5. ASSUME NEW x \in kept
      PROVE  /\ x \in HoldSet
             /\ \E y \in s.holds \ givenUp :
                   /\ SameHold(x, y) /\ (x.inst.kind \in Kind /\ y \notin C => Left(x, y, t))
                   /\ y \in C => x = y
  <2>1. CASE x \in s.holds \ (due \cup credits)
    <3>1. SameHold(x, x)
      BY DEF SameHold
    <3>2. x.resets + Delay \in Int /\ (x.inst.kind \in Kind /\ x \notin C => t < x.resets + Delay)
      BY <1>4, <2>1, LimitPolicyAssumption
    <3> QED BY <1>4, <2>1, <3>1, <3>2 DEF Left
  <2>2. ASSUME NEW y \in due \ (over \cup givenUp), x = Started(y, t)
        PROVE  /\ x \in HoldSet /\ SameHold(x, y) /\ Left(x, y, t) /\ y \in s.holds \ givenUp
               /\ y \notin C
    <3>1. /\ x \in HoldSet /\ SameHold(x, y)
          /\ x.started = IF y.started = NoTime THEN t ELSE y.started
      BY <1>4, <2>2, StartedIs
    <3>2. ~(t >= x.started + GiveUp) /\ t >= y.resets + Delay
      BY <2>2
    <3>3. x.started \in Int /\ GiveUp \in Int
      BY <3>1, LimitPolicyAssumption DEF HoldSet
    <3>4. t < x.started + GiveUp
      BY <3>2, <3>3
    <3> QED BY <2>2, <3>1, <3>2, <3>4 DEF Left, SameHold
  <2>3. x \in s.holds \ (due \cup credits) \/ \E y \in due \ (over \cup givenUp) : x = Started(y, t)
    <3> HIDE DEF due, over, givenUp, credits
    <3> QED OBVIOUS
  <2> HIDE DEF due, over, givenUp, credits
  <2> QED BY <2>1, <2>2, <2>3
<1>6. ASSUME NEW x \in s.holds, x.inst.kind \in Kind
      PROVE  \/ x.inst \in Insts(kept) \/ x.inst \in gone
             \/ x \notin C /\ Fresh(sn) /\ ResetConfirmed(x, sn)
  <2>1. CASE x \in over
    BY <2>1
  <2>2. CASE x \in givenUp
    <3> HIDE DEF givenUp
    <3> QED BY <2>2 DEF Insts
  <2>3. CASE x \in due \ (over \cup givenUp)
    <3> HIDE DEF due, over, givenUp
    <3>1. Started(x, t) \in kept
      BY <2>3
    <3>2. Started(x, t).inst = x.inst
      BY <1>4, StartedIs DEF SameHold
    <3> HIDE DEF kept
    <3> QED BY <3>1, <3>2 DEF Insts
  <2>4. CASE x \notin due
    <3>1. x \notin credits
      BY <1>6, OtherKinds
    <3> HIDE DEF due, over, givenUp, credits
    <3>2. x \in kept
      BY <2>4, <3>1
    <3> HIDE DEF kept
    <3> QED BY <3>2 DEF Insts
  <2> HIDE DEF due, over, givenUp, credits, waiting, kept, gone
  <2> QED BY <2>1, <2>2, <2>3, <2>4
<1>7. givenUp \subseteq s.holds /\ gone = Insts(givenUp)
  OBVIOUS
<1> HIDE DEF due, over, givenUp, credits, waiting, kept, gone
<1>8. /\ e \in StateSet /\ e.holds = kept /\ e.warned = s.warned
      /\ e.paused = s.paused /\ e.released = s.released \cup gone
  <2>1. kept \subseteq HoldSet /\ gone \subseteq KeySet
    BY <1>3, <1>4, <1>5, <1>7 DEF Insts, HoldSet
  <2> QED BY <1>2, <1>3, <2>1 DEF StateSet
<1>9. HoldsOK(R, sn, e)
  <2>1. ASSUME NEW x \in kept, x.inst.kind \in Kind
        PROVE  /\ x.inst \in e.paused /\ x.inst \notin e.released
               /\ HoldOK(R, x) /\ HoldSeen(R, sn, x)
    <3>1. PICK y \in s.holds \ givenUp : SameHold(x, y)
      BY <1>5
    <3>2. /\ y.inst \in s.paused /\ y.inst \notin s.released
          /\ HoldOK(R, y) /\ HoldSeen(R, sn, y)
          /\ \A z \in s.holds : z.inst = y.inst => z = y
      BY <1>3, <2>1, <3>1 DEF HoldsOK, SameHold
    <3>3. y.inst \notin gone
      BY <1>7, <3>1, <3>2 DEF Insts
    <3>4. HoldOK(R, x) /\ HoldSeen(R, sn, x)
      BY <3>1, <3>2 DEF HoldOK, HoldSeen, SameHold
    <3> QED BY <1>8, <3>1, <3>2, <3>3, <3>4 DEF SameHold
  <2>2. ASSUME NEW x \in kept, x.inst.kind \in Kind, NEW y \in kept, y.inst = x.inst
        PROVE  y = x
    <3>1. PICK u \in s.holds : /\ SameHold(x, u) /\ (u \notin C => Left(x, u, t))
                               /\ u \in C => x = u
      BY <1>5, <2>2
    <3>2. PICK v \in s.holds : /\ SameHold(y, v) /\ (v \notin C => Left(y, v, t))
                               /\ v \in C => y = v
      BY <1>5, <2>2
    <3>3. u = v
      BY <1>3, <2>2, <3>1, <3>2 DEF HoldsOK, SameHold
    <3>4. CASE u \in C
      BY <3>1, <3>2, <3>3, <3>4
    <3>5. CASE u \notin C
      <4>1. Left(x, u, t) /\ Left(y, u, t)
        BY <3>1, <3>2, <3>3, <3>5
      <4>2. /\ x \in HoldSet /\ y \in HoldSet /\ u.resets + Delay \in Int
        BY <1>4, <1>5, LimitPolicyAssumption
      <4>3. \/ x = u /\ y = u
            \/ x.inst = y.inst /\ x.no = y.no /\ x.resets = y.resets /\ x.started = y.started
        BY <4>1, <4>2 DEF Left, SameHold
      <4> QED BY <4>2, <4>3 DEF HoldSet
    <3> QED BY <3>4, <3>5
  <2> QED BY <1>8, <2>1, <2>2 DEF HoldsOK
<1>10. PausedOK(R, e, p)
  <2>1. ASSUME NEW i \in gone, i.kind \in Kind PROVE i \in s.paused
    BY <1>3, <1>7, <2>1 DEF Insts, HoldsOK
  <2> QED BY <1>3, <1>8, <2>1 DEF PausedOK
<1>11. Within(K, e) /\ WarnedOK(R, e)
  BY <1>3, <1>8 DEF Within, WarnedOK
<1>12. StateOK(R, K, sn, e, p)
  BY <1>8, <1>9, <1>10, <1>11 DEF StateOK
<1>13. \A x \in e.holds : \E y \in s.holds :
         SameHold(x, y) /\ (x.inst.kind \in Kind /\ y \notin C => Left(x, y, t)) /\ (y \in C => x = y)
  BY <1>5, <1>8
<1>14. \A x \in s.holds : x.inst.kind \in Kind =>
         \/ x.inst \in Insts(e.holds) \/ x.inst \in e.released
         \/ x \notin C /\ Fresh(sn) /\ ResetConfirmed(x, sn)
  BY <1>6, <1>8
<1>15. Confirms(R, K, sn, s, p, C, t, e)
  BY <1>8, <1>12, <1>13, <1>14 DEF Confirms
<1> QED BY <1>1, <1>15

-----------------------------------------------------------------------------
(* What a pass promises of the holds.                                      *)

LEMMA KeysFewer ==
    ASSUME NEW R, NEW K, NEW J, Keys(R, K), \A a \in J : a.kind \in Kind => a \in K
    PROVE  Keys(R, J)
<1>1. ASSUME NEW a \in J, NEW b \in J, a.kind \in Kind, NEW n \in Nat,
             KeyOf(R, a.kind, n, a), KeyOf(R, a.kind, n, b)
      PROVE  a = b
  <2>1. b.kind = a.kind
    BY <1>1 DEF KeyOf
  <2> QED BY <1>1, <2>1 DEF Keys
<1> QED BY <1>1 DEF Keys

\* A window that is known to be full gets its hold, or had it.
LEMMA FullHeld ==
    ASSUME NEW R \in History, RealOK(R), NEW K \in SUBSET KeySet, Keys(R, K),
           NEW cf, NEW sn \in SnapSet, SnapOK(R, sn), NEW t \in Nat, NEW s, NEW p,
           StateOK(R, K, sn, s, p), NEW v \in Open(sn, t), v.level = Pause, cf.enabled,
           ~(v.kind = "model_scoped" /\ cf.warnOnly),
           ~(v.kind \in SpillKinds /\ SpillActive(cf, sn))
    PROVE  <<v.kind, v.no>> \in p \cup Ids(HoldsFor(HeldFor(cf, sn, s, K, t), K))
<1>1. v \in WindowSet /\ KeyOf(R, v.kind, v.no, Key(v, K))
  BY SeenKeys
<1>2. v.kind \in Kind /\ v.no \in Nat /\ Key(v, K).kind = v.kind
  BY <1>1 DEF WindowSet, KeyOf
<1>3. CASE MayHold(Key(v, K), s)
  <2>1. v \in HeldFor(cf, sn, s, K, t)
    BY <1>3 DEF HeldFor
  <2>2. NewFor(R, sn, s, p, v, Hold(Key(v, K), v.no, v.resets))
    BY <2>1, NewHold
  <2>3. PICK h \in HoldsFor(HeldFor(cf, sn, s, K, t), K) : h = Hold(Key(v, K), v.no, v.resets)
    BY <2>1 DEF HoldsFor
  <2>4. h.inst.kind = v.kind /\ h.no = v.no
    BY <2>2, <2>3 DEF NewFor
  <2> QED BY <2>4 DEF Ids
<1>4. CASE ~MayHold(Key(v, K), s)
  <2>1. Key(v, K) \in s.paused
    BY <1>2, <1>4 DEF MayHold, Insts, StateOK, HoldsOK, PausedOK
  <2> QED BY <1>1, <1>2, <2>1 DEF StateOK, PausedOK
<1> QED BY <1>3, <1>4

\* A reset that is confirmed has happened.
LEMMA ResetHappened ==
    ASSUME NEW R \in History, NEW sn \in SnapSet, SnapOK(R, sn),
           NEW x \in HoldSet, x.inst.kind \in Kind, HoldOK(R, x), HoldSeen(R, sn, x),
           ResetConfirmed(x, sn)
    PROVE  R.real[x.inst.kind].no # x.no \/ ~R.real[x.inst.kind].active
<1> DEFINE ws == {v \in sn.windows : v.kind = x.inst.kind}
<1>1. CASE ws = {}
  BY <1>1 DEF HoldSeen
<1>2. CASE ws # {}
  <2>1. PICK v \in sn.windows : /\ v.kind = x.inst.kind
                                /\ v.resets > x.resets + Tolerance \/ v.level < Warn
    BY <1>2 DEF ResetConfirmed
  <2>2. v.no \in Nat /\ x.no \in Nat /\ R.real[v.kind].no \in Nat
    BY <2>1 DEF SnapSet, WindowSet, HoldSet, History, RealSet
  <2>3. v.no >= x.no /\ (v.no = x.no => v.level = Pause)
    BY <2>1 DEF HoldSeen
  <2>4. SeenAs(R, v.kind, v.no, v.resets) /\ SeenAs(R, v.kind, x.no, x.resets)
    BY <2>1 DEF SnapOK, HoldOK
  <2>5. ASSUME v.no = x.no PROVE FALSE
    <3>1. PICK i \in Jitter : v.resets = R.at[v.kind][v.no] + i
      BY <2>4 DEF SeenAs
    <3>2. PICK j \in Jitter : x.resets = R.at[v.kind][v.no] + j
      BY <2>4, <2>5 DEF SeenAs
    <3>3. /\ i \in Int /\ j \in Int /\ Tolerance \in Int
          /\ Minute \in Nat \ {0} /\ Minute + 2 * (i - j) <= 2 * Tolerance
      BY LimitPolicyAssumption
    <3>4. R.at[v.kind][v.no] \in Int
      BY <2>1, <2>2 DEF History
    <3>5. ~(v.resets > x.resets + Tolerance)
      BY <3>1, <3>2, <3>3, <3>4
    <3>6. ~(v.level < Warn)
      BY <2>3, <2>5 DEF Warn, Pause
    <3> QED BY <2>1, <3>5, <3>6
  <2>6. v.no <= R.real[v.kind].no
    BY <2>2, <2>4 DEF SeenAs, Born
  <2> QED BY <2>1, <2>2, <2>3, <2>5, <2>6
<1> QED BY <1>1, <1>2

\* A pass names a session only by keys of its holds, and changes neither its model nor what
\* was done to it.
AppliedTo(holds, r, e) ==
    /\ e \in RecordSet /\ e.over \subseteq r.over \cup Insts(holds) /\ e.pend \subseteq r.pend
    /\ e.done = r.done /\ e.on = r.on /\ e.model = r.model

LEMMA AppliedKeeps ==
    ASSUME NEW holds \in SUBSET HoldSet, NEW i \in Session, NEW r \in RecordSet
    PROVE  AppliedTo(holds, r, Applied(holds, i, r))
<1> DEFINE adopted == Adopted(holds, i, r)
           applicable == Insts(Applicable(holds, i, r))
           found == [r EXCEPT !.over = @ \cup adopted, !.pend = @ \ adopted,
                              !.state = IF adopted # {} /\ @ # "paused" THEN "overridden" ELSE @]
           effective == applicable \ found.over
<1>1. adopted \subseteq Insts(holds) /\ Insts(holds) \subseteq KeySet
  BY DEF Adopted, Insts, Applicable, HoldSet
<1>2. AppliedTo(holds, r, r) /\ AppliedTo(holds, r, found)
  <2> HIDE DEF adopted
  <2> QED BY <1>1 DEF RecordSet, AppliedTo
<1> HIDE DEF found
<1>3. /\ AppliedTo(holds, r, [found EXCEPT !.state = "paused"])
      /\ AppliedTo(holds, r, [found EXCEPT !.state = "running"])
      /\ AppliedTo(holds, r, [found EXCEPT !.state = "running", !.over = {}])
  BY <1>2 DEF RecordSet, AppliedTo
<1>4. \/ Applied(holds, i, r) = r \/ Applied(holds, i, r) = found
      \/ Applied(holds, i, r) = [found EXCEPT !.state = "paused"]
      \/ Applied(holds, i, r) = [found EXCEPT !.state = "running"]
      \/ Applied(holds, i, r) = [found EXCEPT !.state = "running", !.over = {}]
  <2> DEFINE paused1 == [found EXCEPT !.state = "paused"]
             running1 == [found EXCEPT !.state = "running"]
             cleared == [found EXCEPT !.state = "running", !.over = {}]
             ends == found.state = "overridden" /\ found.over \cap applicable = {}
  <2>1. Applied(holds, i, r) =
          CASE ~r.on -> r
            [] r.on /\ effective # {} -> paused1
            [] r.on /\ effective = {} /\ r.state = "paused" -> running1
            [] r.on /\ effective = {} /\ r.state # "paused" -> IF ends THEN cleared ELSE found
    BY DEF Applied, found
  <2>2. r.on \in BOOLEAN
    BY DEF RecordSet
  <2> HIDE DEF paused1, running1, cleared, ends, effective
  <2>3. \/ Applied(holds, i, r) = r \/ Applied(holds, i, r) = found
        \/ Applied(holds, i, r) = paused1 \/ Applied(holds, i, r) = running1
        \/ Applied(holds, i, r) = cleared
    BY <2>1, <2>2
  <2> QED BY <2>3 DEF paused1, running1, cleared
<1>5. AppliedTo(holds, r, Applied(holds, i, r))
  BY <1>2, <1>3, <1>4
<1> QED BY <1>5

-----------------------------------------------------------------------------
(* One pass.                                                               *)

\* FullIsHeld, for what a pass was given.
HeldWhenFull(cf, sn, t, p) ==
    \A v \in sn.windows :
        /\ Fresh(sn) /\ v.level = Pause /\ v.resets > t /\ cf.enabled
        /\ ~(v.kind = "model_scoped" /\ cf.warnOnly)
        /\ ~(v.kind \in SpillKinds /\ SpillActive(cf, sn))
        => <<v.kind, v.no>> \in p

\* A window is held once, unless it was spilled.
HeldOnce(s, e, p) ==
    \A x \in e.holds : x.inst.kind \in Kind /\ x.inst \notin Insts(s.holds)
        => <<x.inst.kind, x.no>> \notin p

\* Why a hold may end.
EndsRightly(R, cf, sn, s, e) ==
    \A x \in s.holds : x.inst.kind \in Kind /\ x.inst \notin Insts(e.holds) =>
        \/ ~cf.enabled \/ SpillActive(cf, sn) \/ x.inst \in e.released
        \/ R.real[x.inst.kind].no # x.no \/ ~R.real[x.inst.kind].active

\* Holds are new, or what confirmation leaves of them.
HoldsLeft(s, e, t) ==
    \A x \in e.holds : x.inst.kind \in Kind =>
        \/ x.resets > t /\ x.started = NoTime
        \/ \E y \in s.holds : Left(x, y, t)

\* Holds of other kinds are kept, or are new holds for the credits.
OthersFrom(s, e) ==
    /\ \A x \in e.holds : x.inst.kind \notin Kind =>
          \/ \E y \in s.holds : SameHold(x, y)
          \/ x.inst = CreditKey(x.no) /\ x.inst \notin s.paused /\ x.inst \in e.paused
    /\ \A a : CreditKey(a) \in s.paused => CreditKey(a) \in e.paused

\* What becomes of the records; D are the windows whose holds were spilled.
RecordsFrom(ss, e, es, p, q) ==
    \E D : /\ es = [i \in Session |-> [Applied(e.holds, i, ss[i]) EXCEPT !.done = @ \ D]]
           /\ p \ D \subseteq q

\* The keys that a state and the records know are keys of real windows.
Known(R, sn, s, ss, p) ==
    /\ ss \in [Session -> RecordSet] /\ p \in SUBSET (Kinds \X Nat)
    /\ Keys(R, KnownInstances(s, ss)) /\ StateOK(R, KnownInstances(s, ss), sn, s, p)
Passes(R, cf, sn, s, ss, t, p, e, es, q) ==
    /\ Known(R, sn, e, es, q) /\ HeldWhenFull(cf, sn, t, q) /\ NewWarningsOnce(s, e)
    /\ s.released \subseteq e.released
    /\ HeldOnce(s, e, p) /\ EndsRightly(R, cf, sn, s, e) /\ HoldsLeft(s, e, t)
    /\ OthersFrom(s, e) /\ RecordsFrom(ss, e, es, p, q)

LEMMA KnownKeys ==
    ASSUME NEW s \in StateSet, NEW ss \in [Session -> RecordSet]
    PROVE  KnownInstances(s, ss) \in SUBSET KeySet
<1>1. Insts(s.holds) \subseteq KeySet /\ Insts(s.warned) \subseteq KeySet
  BY DEF Insts, StateSet, HoldSet, WarningSet
<1>2. s.paused \subseteq KeySet /\ s.released \subseteq KeySet
  BY DEF StateSet
<1>3. UNION {ss[i].over \cup ss[i].pend : i \in Session} \subseteq KeySet
  BY DEF RecordSet
<1> QED BY <1>1, <1>2, <1>3 DEF KnownInstances

LEMMA OrphansEnd ==
    ASSUME NEW R, NEW sn, NEW s, NEW ss, NEW p, Known(R, sn, s, ss, p),
           NEW e, e = WithoutOrphans(s, ss)
    PROVE  /\ Keys(R, KnownInstances(e, ss)) /\ StateOK(R, KnownInstances(e, ss), sn, e, p)
           /\ e.holds \subseteq s.holds /\ e.warned = s.warned /\ e.released = s.released
           /\ e.paused = s.paused
           /\ \A x \in s.holds : x.inst.kind \in Kind => x \in e.holds
<1>1. PICK H \in SUBSET s.holds : H = {x \in s.holds : x.inst.scope = "all" \/ ss[x.inst.scope].on}
  OBVIOUS
<1>2. e = [s EXCEPT !.holds = H]
  BY <1>1 DEF WithoutOrphans
<1>3. StateOK(R, KnownInstances(s, ss), sn, s, p)
  BY DEF Known
<1>4. /\ StateOK(R, KnownInstances(s, ss), sn, e, p)
      /\ e.holds = H /\ e.warned = s.warned /\ e.paused = s.paused /\ e.released = s.released
  BY <1>2, <1>3, FewerHolds
<1>5. KnownInstances(e, ss) \subseteq KnownInstances(s, ss)
  BY <1>4 DEF KnownInstances, Insts
<1>6. Keys(R, KnownInstances(e, ss))
  BY <1>5, KeysFewer DEF Known
<1>7. StateOK(R, KnownInstances(e, ss), sn, e, p)
  BY <1>4 DEF StateOK, Within, KnownInstances
<1>8. ASSUME NEW x \in s.holds, x.inst.kind \in Kind PROVE x \in e.holds
  <2>1. x.inst.scope = "all"
    BY <1>3, <1>8 DEF StateOK, HoldsOK, HoldOK, KeyOf
  <2> QED BY <1>1, <1>4, <2>1
<1> QED BY <1>1, <1>4, <1>6, <1>7, <1>8

LEMMA PassKeeps ==
    ASSUME NEW R \in History, RealOK(R), NEW cf, NEW sn \in SnapSet, SnapOK(R, sn), NEW s,
           NEW ss, NEW t \in Nat, Known(R, sn, s, ss, paused), Evaluates(cf, sn, s, ss, t)
    PROVE  Passes(R, cf, sn, s, ss, t, paused, st', sess', paused')
<1>1. PICK s0 : s0 = WithoutOrphans(s, ss)
  OBVIOUS
<1>2. PICK K : K = KnownInstances(s0, ss)
  OBVIOUS
<1>3. PICK s2 : s2 = Suspended(cf, sn, s0)
  OBVIOUS
<1>4. PICK s3 : s3 = WindowsSeen(cf, sn, s2, K, t)
  OBVIOUS
<1>5. PICK s4 : s4 = CreditSeen(cf, sn, s3)
  OBVIOUS
<1>6. PICK Q : Q = Spilled(cf, sn, s0)
  OBVIOUS
<1>7. PICK C : C = {x \in s4.holds : x.inst \notin Insts(s2.holds)}
  OBVIOUS
<1>8. /\ st' = Confirmed(cf, sn, s4, C, t)
      /\ sess' = [i \in Session |-> [Applied(st'.holds, i, ss[i]) EXCEPT !.done = @ \ Ids(Q)]]
      /\ paused' = (paused \ Ids(Q)) \cup Ids(C)
  BY <1>1, <1>2, <1>3, <1>4, <1>5, <1>6, <1>7 DEF Evaluates
<1>9. PICK p2 : p2 = paused \ Ids(Q)
  OBVIOUS
<1>10. PICK V : V = HeldFor(cf, sn, s2, K, t)
  OBVIOUS
<1>11. PICK H1 : H1 = HoldsFor(V, K)
  OBVIOUS
<1>12. PICK K1 : K1 = Seen(sn, K, t)
  OBVIOUS
<1>13. /\ Keys(R, K) /\ StateOK(R, K, sn, s0, paused)
       /\ s0.holds \subseteq s.holds /\ s0.warned = s.warned /\ s0.released = s.released
       /\ s0.paused = s.paused
       /\ \A x \in s.holds : x.inst.kind \in Kind => x \in s0.holds
  BY <1>1, <1>2, OrphansEnd
<1>14. ss \in [Session -> RecordSet] /\ paused \in SUBSET (Kinds \X Nat)
  BY DEF Known
<1>15. K \in SUBSET KeySet
  BY <1>2, <1>13, <1>14, KnownKeys DEF StateOK
<1>16. Clears(R, K, cf, sn, s0, paused, Q, s2)
  BY <1>3, <1>6, <1>13, <1>15, SuspendedKeeps
<1>17. StateOK(R, K, sn, s2, p2)
  BY <1>9, <1>16 DEF Clears
<1>18. Looks(R, K1, sn, s2, p2, H1, s3)
  BY <1>4, <1>10, <1>11, <1>12, <1>13, <1>15, <1>17, WindowsKeep
<1>19. PICK H2 \in SUBSET HoldSet :
         /\ Looks(R, K1, sn, s3, p2 \cup Ids(H1), H2, s4)
         /\ \A h \in H2 : NewCredit(s3, h)
  <2>1. StateOK(R, K1, sn, s3, p2 \cup Ids(H1))
    BY <1>18 DEF Looks
  <2> QED BY <1>5, <2>1, CreditKeeps
<1>20. ASSUME NEW h \in H1
       PROVE  \E v \in V : NewFor(R, sn, s2, p2, v, h) /\ h = Hold(Key(v, K), v.no, v.resets)
  <2>1. PICK v \in V : h = Hold(Key(v, K), v.no, v.resets)
    BY <1>11 DEF HoldsFor
  <2>2. NewFor(R, sn, s2, p2, v, h)
    BY <1>10, <1>13, <1>15, <1>17, <2>1, NewHold
  <2> QED BY <2>1, <2>2
<1>21. /\ s3.holds = s2.holds \cup H1 /\ s4.holds = s2.holds \cup H1 \cup H2
       /\ s3.released = s2.released /\ s4.released = s2.released /\ s2.released = s.released
       /\ s2.warned = s.warned /\ s2.warned \subseteq s3.warned /\ s3.warned \subseteq s4.warned
       /\ s2.holds \subseteq s.holds
  BY <1>13, <1>16, <1>18, <1>19 DEF Looks, Clears
<1>22. C = H1 \cup H2
  <2>1. ASSUME NEW h \in H1 PROVE h.inst \notin Insts(s2.holds)
    BY <1>20, <2>1 DEF NewFor
  <2>2. ASSUME NEW h \in H2 PROVE h.inst \notin Insts(s2.holds)
    BY <1>19, <1>21, <2>2 DEF Insts, NewCredit
  <2>3. ASSUME NEW h \in s2.holds PROVE h.inst \in Insts(s2.holds)
    BY <2>3 DEF Insts
  <2> QED BY <1>7, <1>21, <2>1, <2>2, <2>3
<1>23. PICK q : q = (p2 \cup Ids(H1)) \cup Ids(H2)
  OBVIOUS
<1>24. paused' = q
  BY <1>8, <1>9, <1>22, <1>23 DEF Ids
<1>25. StateOK(R, K1, sn, s4, q)
  BY <1>19, <1>23 DEF Looks
<1>26. Confirms(R, K1, sn, s4, q, C, t, st')
  BY <1>8, <1>25, ConfirmedKeeps
<1>27. StateOK(R, K1, sn, st', q) /\ st' \in StateSet
  BY <1>26 DEF Confirms, StateOK
<1>28. sess' \in [Session -> RecordSet] /\ q \in SUBSET (Kinds \X Nat)
  <2>1. ASSUME NEW i \in Session
        PROVE  [Applied(st'.holds, i, ss[i]) EXCEPT !.done = @ \ Ids(Q)] \in RecordSet
    <3>1. AppliedTo(st'.holds, ss[i], Applied(st'.holds, i, ss[i]))
      BY <1>14, <1>27, AppliedKeeps DEF StateSet
    <3>2. PICK r : r = Applied(st'.holds, i, ss[i])
      OBVIOUS
    <3>3. r \in RecordSet
      BY <3>1, <3>2 DEF AppliedTo
    <3> QED BY <3>2, <3>3 DEF RecordSet
  <2>2. Ids(H1 \cup H2) \in SUBSET (Kinds \X Nat)
    <3>1. s4 \in StateSet
      BY <1>25 DEF StateOK
    <3>2. \A h \in H1 \cup H2 : h \in HoldSet
      BY <1>21, <3>1 DEF StateSet
    <3> QED BY <3>2 DEF Ids, HoldSet, KeySet
  <2> QED BY <1>8, <1>9, <1>14, <1>23, <2>1, <2>2 DEF Ids
<1>29. \A i \in Session : \A a \in sess'[i].over \cup sess'[i].pend :
         a \in Insts(st'.holds) \/ a \in ss[i].over \cup ss[i].pend
  <2> SUFFICES ASSUME NEW i \in Session, NEW a \in sess'[i].over \cup sess'[i].pend
               PROVE  a \in Insts(st'.holds) \/ a \in ss[i].over \cup ss[i].pend
    OBVIOUS
  <2>1. AppliedTo(st'.holds, ss[i], Applied(st'.holds, i, ss[i]))
    BY <1>14, <1>27, AppliedKeeps DEF StateSet
  <2>2. PICK r \in RecordSet : r = Applied(st'.holds, i, ss[i])
    BY <2>1 DEF AppliedTo
  <2>3. sess'[i] = [r EXCEPT !.done = @ \ Ids(Q)]
    BY <1>8, <2>2
  <2>4. sess'[i].over = r.over /\ sess'[i].pend = r.pend
    BY <2>3 DEF RecordSet
  <2> QED BY <2>1, <2>2, <2>4 DEF AppliedTo
<1>30. Keys(R, K1)
  BY <1>12, <1>13, <1>15, SeenKeys
<1>31. Keys(R, KnownInstances(st', sess'))
  <2>1. ASSUME NEW a \in Insts(st'.holds), a.kind \in Kind PROVE a \in K1
    BY <1>27, <2>1 DEF Insts, StateOK, HoldsOK, Within
  <2>2. ASSUME NEW a \in Insts(st'.warned) \cup st'.paused \cup st'.released, a.kind \in Kind
        PROVE  a \in K1
    BY <1>27, <2>2 DEF StateOK, PausedOK, Within
  <2>3. ASSUME NEW i \in Session, NEW a \in ss[i].over \cup ss[i].pend
        PROVE  a \in K1
    BY <1>2, <1>12, <2>3 DEF KnownInstances, Seen
  <2>4. ASSUME NEW a \in KnownInstances(st', sess'), a.kind \in Kind PROVE a \in K1
    <3>1. \/ a \in Insts(st'.holds)
          \/ a \in Insts(st'.warned) \cup st'.paused \cup st'.released
          \/ \E i \in Session : a \in sess'[i].over \cup sess'[i].pend
      BY <2>4 DEF KnownInstances
    <3> QED BY <1>29, <2>1, <2>2, <2>3, <2>4, <3>1
  <2> QED BY <1>30, <2>4, KeysFewer
<1>32. StateOK(R, KnownInstances(st', sess'), sn, st', q)
  BY <1>27 DEF StateOK, Within, KnownInstances
<1>33. Known(R, sn, st', sess', q)
  BY <1>28, <1>31, <1>32 DEF Known
<1>34. HeldWhenFull(cf, sn, t, q)
  <2> SUFFICES ASSUME NEW v \in sn.windows,
                      Fresh(sn), v.level = Pause, v.resets > t, cf.enabled,
                      ~(v.kind = "model_scoped" /\ cf.warnOnly),
                      ~(v.kind \in SpillKinds /\ SpillActive(cf, sn))
               PROVE  <<v.kind, v.no>> \in q
    BY DEF HeldWhenFull
  <2>1. v \in Open(sn, t)
    BY DEF Open
  <2>2. <<v.kind, v.no>> \in p2 \cup Ids(H1)
    BY <1>10, <1>11, <1>13, <1>15, <1>17, <2>1, FullHeld
  <2> QED BY <1>23, <2>2
<1>35. NewWarningsOnce(s, st')
  BY <1>18, <1>19, <1>21, <1>26 DEF Looks, Confirms, NewWarningsOnce
<1>36. HeldOnce(s, st', paused)
  <2> SUFFICES ASSUME NEW x \in st'.holds, x.inst.kind \in Kind, x.inst \notin Insts(s.holds),
                      <<x.inst.kind, x.no>> \in paused
               PROVE  FALSE
    BY DEF HeldOnce
  <2>1. PICK y \in s4.holds : SameHold(x, y)
    BY <1>26 DEF Confirms
  <2>2. y \notin s2.holds /\ y \notin H2
    BY <1>19, <1>21, <2>1, OtherKinds DEF Insts, SameHold, NewCredit
  <2>3. y \in H1
    BY <1>21, <2>2
  <2>4. PICK v \in V : NewFor(R, sn, s2, p2, v, y)
    BY <1>20, <2>3
  <2>5. v.kind = x.inst.kind /\ v.no = x.no /\ <<x.inst.kind, x.no>> \notin p2
    BY <2>1, <2>4 DEF NewFor, SameHold
  <2>6. PICK z \in Q : <<z.inst.kind, z.no>> = <<x.inst.kind, x.no>>
    BY <1>9, <2>5 DEF Ids
  <2>7. SpillActive(cf, sn) /\ v.kind \in SpillKinds
    BY <1>16, <2>5, <2>6 DEF Clears
  <2> QED BY <1>10, <2>4, <2>7 DEF HeldFor
<1>37. EndsRightly(R, cf, sn, s, st')
  <2> SUFFICES ASSUME NEW x \in s.holds, x.inst.kind \in Kind, x.inst \notin Insts(st'.holds),
                      cf.enabled, ~SpillActive(cf, sn), x.inst \notin st'.released
               PROVE  R.real[x.inst.kind].no # x.no \/ ~R.real[x.inst.kind].active
    BY DEF EndsRightly
  <2>1. x \in s2.holds
    BY <1>13, <1>16 DEF Clears
  <2>2. x \in s4.holds
    BY <1>21, <2>1
  <2>3. ResetConfirmed(x, sn)
    BY <1>26, <2>2 DEF Confirms
  <2>4. x \in HoldSet /\ HoldOK(R, x) /\ HoldSeen(R, sn, x)
    BY <1>25, <2>2 DEF StateOK, HoldsOK, StateSet
  <2> QED BY <2>3, <2>4, ResetHappened
<1>38. HoldsLeft(s, st', t)
  <2> SUFFICES ASSUME NEW x \in st'.holds, x.inst.kind \in Kind
               PROVE  \/ x.resets > t /\ x.started = NoTime
                      \/ \E y \in s.holds : Left(x, y, t)
    BY DEF HoldsLeft
  <2>1. PICK y \in s4.holds : /\ SameHold(x, y) /\ (y \notin C => Left(x, y, t))
                              /\ y \in C => x = y
    BY <1>26 DEF Confirms
  <2>2. CASE y \in H1
    <3>1. x = y
      BY <1>22, <2>1, <2>2
    <3>2. PICK v \in V : NewFor(R, sn, s2, p2, v, y)
      BY <1>20, <2>2
    <3>3. v.resets > t
      BY <1>10, <3>2 DEF HeldFor, Open
    <3> QED BY <3>1, <3>2, <3>3 DEF NewFor
  <2>3. CASE y \in H2
    BY <1>19, <2>1, <2>3, OtherKinds DEF SameHold, NewCredit
  <2>4. CASE y \in s2.holds
    <3>1. y \notin C
      BY <1>7, <2>4 DEF Insts
    <3> QED BY <1>21, <2>1, <2>4, <3>1
  <2> QED BY <1>21, <2>2, <2>3, <2>4
<1>39. s.released \subseteq st'.released
  BY <1>21, <1>26 DEF Confirms
<1>41. OthersFrom(s, st')
  <2>1. /\ \A a : CreditKey(a) \in s.paused => CreditKey(a) \in s2.paused
        /\ s3.paused = s2.paused \cup Insts(H1) /\ s4.paused = s3.paused \cup Insts(H2)
        /\ st'.paused = s4.paused
    BY <1>13, <1>16, <1>18, <1>19, <1>26 DEF Clears, Looks, Confirms
  <2>2. ASSUME NEW x \in st'.holds, x.inst.kind \notin Kind
        PROVE  \/ \E y \in s.holds : SameHold(x, y)
               \/ x.inst = CreditKey(x.no) /\ x.inst \notin s.paused /\ x.inst \in st'.paused
    <3>1. PICK y \in s4.holds : SameHold(x, y)
      BY <1>26 DEF Confirms
    <3>2. CASE y \in s2.holds
      BY <1>21, <3>1, <3>2
    <3>3. CASE y \in H1
      BY <1>20, <2>2, <3>1, <3>3 DEF NewFor, SameHold
    <3>4. CASE y \in H2
      <4>1. NewCredit(s3, y)
        BY <1>19, <3>4
      <4>2. x.inst = CreditKey(x.no) /\ x.inst \notin s3.paused
        BY <3>1, <4>1 DEF NewCredit, SameHold
      <4>3. x.inst \in Insts(H2)
        BY <3>1, <3>4 DEF SameHold, Insts
      <4> QED BY <2>1, <4>2, <4>3
    <3> QED BY <1>21, <3>2, <3>3, <3>4
  <2> QED BY <2>1, <2>2 DEF OthersFrom
<1>42. RecordsFrom(ss, st', sess', paused, q)
  <2>1. paused \ Ids(Q) \subseteq q
    BY <1>9, <1>23
  <2> QED BY <1>8, <2>1 DEF RecordsFrom
<1>40. Passes(R, cf, sn, s, ss, t, paused, st', sess', q)
  BY <1>39, <1>41, <1>42, <1>33, <1>34, <1>35, <1>36, <1>37, <1>38 DEF Passes
<1> QED BY <1>24, <1>40

-----------------------------------------------------------------------------
(* What happens between passes.                                            *)

LEMMA RecordsChange ==
    ASSUME NEW R, NEW sn, NEW s, NEW ss, NEW p, Known(R, sn, s, ss, p),
           NEW es \in [Session -> RecordSet],
           \A i \in Session : es[i].over \cup es[i].pend \subseteq KnownInstances(s, ss)
    PROVE  Known(R, sn, s, es, p)
<1>1. KnownInstances(s, es) \subseteq KnownInstances(s, ss)
  BY DEF KnownInstances
<1>2. Keys(R, KnownInstances(s, es))
  BY <1>1, KeysFewer DEF Known
<1>3. StateOK(R, KnownInstances(s, es), sn, s, p)
  BY DEF Known, StateOK, Within, KnownInstances
<1> QED BY <1>2, <1>3 DEF Known

LEMMA SnapChanges ==
    ASSUME NEW R, NEW sn, NEW s, NEW ss, NEW p, Known(R, sn, s, ss, p), NEW new,
           \A x \in s.holds : x.inst.kind \in Kind => HoldSeen(R, new, x)
    PROVE  Known(R, new, s, ss, p)
<1>1. HoldsOK(R, new, s)
  BY DEF Known, StateOK, HoldsOK
<1> QED BY <1>1 DEF Known, StateOK

\* A state with the same keys of real windows, or fewer, and the same ones paused.
LEMMA StateChanges ==
    ASSUME NEW R, NEW sn, NEW s, NEW ss, NEW p, Known(R, sn, s, ss, p),
           NEW e \in StateSet, HoldsOK(R, sn, e), e.warned = s.warned, s.released \subseteq e.released,
           \A i \in e.released : i.kind \in Kind => i \in s.paused,
           \A i \in s.paused \cup e.paused : i.kind \in Kind => (i \in s.paused /\ i \in e.paused)
    PROVE  Known(R, sn, e, ss, p)
<1>1. StateOK(R, KnownInstances(s, ss), sn, s, p) /\ Keys(R, KnownInstances(s, ss))
  BY DEF Known
<1>2. WarnedOK(R, e)
  BY <1>1 DEF StateOK, WarnedOK
<1>3. PausedOK(R, e, p)
  <2>1. \A k \in Kind, n \in Nat : <<k, n>> \in p => \E i \in e.paused : KeyOf(R, k, n, i)
    BY <1>1 DEF StateOK, PausedOK, KeyOf
  <2> QED BY <1>1, <2>1 DEF StateOK, PausedOK
<1>4. ASSUME NEW a \in KnownInstances(e, ss), a.kind \in Kind
      PROVE  a \in KnownInstances(s, ss)
  <2>1. a \in Insts(e.holds) => a \in s.paused
    BY <1>4 DEF Insts, HoldsOK
  <2> QED BY <1>4, <2>1 DEF KnownInstances
<1>5. Keys(R, KnownInstances(e, ss))
  BY <1>1, <1>4, KeysFewer
<1>6. StateOK(R, KnownInstances(e, ss), sn, e, p)
  BY <1>2, <1>3 DEF StateOK, Within, KnownInstances
<1> QED BY <1>5, <1>6 DEF Known

\* Windows start, fill and end.
GoesOn(R, N) ==
    \A k \in Kind :
        /\ R.real[k].no <= N.real[k].no
        /\ \A n \in 1 .. R.real[k].no : N.at[k][n] = R.at[k][n]
        /\ N.real[k].no = R.real[k].no =>
              /\ R.real[k].level <= N.real[k].level
              /\ N.real[k].active => R.real[k].active

LEMMA StillKeys ==
    ASSUME NEW R \in History, NEW N \in History, RealOK(N), GoesOn(R, N),
           NEW k \in Kind, NEW n \in Nat
    PROVE  /\ Born(R, k, n) => Born(N, k, n)
           /\ \A t : SeenAs(R, k, n, t) => SeenAs(N, k, n, t)
           /\ \A i : KeyOf(R, k, n, i) => KeyOf(N, k, n, i)
           /\ \A i : \A m \in Nat : KeyOf(R, k, m, i) /\ KeyOf(N, k, n, i) => KeyOf(R, k, n, i)
<1>1. /\ R.real[k].no \in Nat /\ N.real[k].no \in Nat /\ R.real[k].no <= N.real[k].no
      /\ \A m \in 1 .. R.real[k].no : N.at[k][m] = R.at[k][m]
  BY DEF History, RealSet, GoesOn
<1>2. ASSUME NEW m \in Nat, Born(R, k, m)
      PROVE  Born(N, k, m) /\ N.at[k][m] = R.at[k][m]
  BY <1>1, <1>2 DEF Born
<1>3. ASSUME NEW m \in Nat, NEW i, KeyOf(R, k, m, i)
      PROVE  KeyOf(N, k, m, i)
  <2>1. N.at[k][m] = R.at[k][m] /\ Born(N, k, m)
    BY <1>2, <1>3 DEF KeyOf
  <2> QED BY <1>3, <2>1 DEF KeyOf
<1>4. ASSUME NEW m \in Nat, NEW i, KeyOf(R, k, m, i), KeyOf(N, k, n, i)
      PROVE  KeyOf(R, k, n, i)
  <2>1. KeyOf(N, k, m, i)
    BY <1>3, <1>4
  <2>2. m = n
    BY <1>4, <2>1, KeyOfOne
  <2> QED BY <1>4, <2>2
<1>5. ASSUME NEW t, SeenAs(R, k, n, t) PROVE SeenAs(N, k, n, t)
  BY <1>2, <1>5 DEF SeenAs
<1> QED BY <1>2, <1>3, <1>4, <1>5

LEMMA WorldMoves ==
    ASSUME NEW R \in History, NEW N \in History, RealOK(N), GoesOn(R, N),
           NEW sn \in SnapSet, SnapOK(R, sn), NEW s, NEW ss, NEW p, Known(R, sn, s, ss, p)
    PROVE  SnapOK(N, sn) /\ Known(N, sn, s, ss, p)
<1> DEFINE K == KnownInstances(s, ss)
<1>1. /\ Keys(R, K) /\ s \in StateSet /\ Within(K, s)
      /\ HoldsOK(R, sn, s) /\ WarnedOK(R, s) /\ PausedOK(R, s, p)
  BY DEF Known, StateOK
<1>2. ASSUME NEW k \in Kind, NEW n \in Nat, Born(R, k, n), n = N.real[k].no
      PROVE  /\ n = R.real[k].no /\ R.real[k].level <= N.real[k].level
             /\ N.real[k].active => R.real[k].active
             /\ R.real[k].level \in 0 .. 2 /\ N.real[k].level \in 0 .. 2
  <2>1. /\ R.real[k].no \in Nat /\ R.real[k].no <= N.real[k].no
        /\ R.real[k].level \in Levels /\ N.real[k].level \in Levels
    BY DEF History, RealSet, GoesOn
  <2>2. n = R.real[k].no
    BY <1>2, <2>1 DEF Born
  <2>3. Levels \subseteq 0 .. 2
    BY LimitPolicyAssumption DEF Pause
  <2> QED BY <1>2, <2>1, <2>2, <2>3 DEF GoesOn
<1>3. SnapOK(N, sn)
  <2> SUFFICES ASSUME NEW v \in sn.windows
               PROVE  /\ SeenAs(N, v.kind, v.no, v.resets)
                      /\ v.no = N.real[v.kind].no => v.level <= N.real[v.kind].level
                      /\ \A u \in sn.windows : u.kind = v.kind => u = v
    BY DEF SnapOK
  <2>1. v.kind \in Kind /\ v.no \in Nat /\ v.level \in 0 .. 2
    BY LimitPolicyAssumption DEF SnapSet, WindowSet, Pause
  <2>2. /\ SeenAs(R, v.kind, v.no, v.resets)
        /\ v.no = R.real[v.kind].no => v.level <= R.real[v.kind].level
        /\ \A u \in sn.windows : u.kind = v.kind => u = v
    BY DEF SnapOK
  <2>3. SeenAs(N, v.kind, v.no, v.resets)
    BY <2>1, <2>2, StillKeys
  <2>4. v.no = N.real[v.kind].no => v.level <= N.real[v.kind].level
    BY <1>2, <2>1, <2>2 DEF SeenAs
  <2> QED BY <2>2, <2>3, <2>4
<1>4. Keys(N, K)
  <2>1. ASSUME NEW a \in K, a.kind \in Kind PROVE \E n \in Nat : KeyOf(N, a.kind, n, a)
    BY <1>1, <2>1, StillKeys DEF Keys
  <2>2. ASSUME NEW a \in K, NEW b \in K, a.kind \in Kind, NEW n \in Nat,
               KeyOf(N, a.kind, n, a), KeyOf(N, a.kind, n, b)
        PROVE  a = b
    <3>1. b.kind = a.kind
      BY <2>2 DEF KeyOf
    <3>2. PICK l \in Nat, m \in Nat : KeyOf(R, a.kind, l, a) /\ KeyOf(R, a.kind, m, b)
      BY <1>1, <2>2, <3>1 DEF Keys
    <3>3. KeyOf(R, a.kind, n, a) /\ KeyOf(R, a.kind, n, b)
      BY <2>2, <3>2, StillKeys
    <3> QED BY <1>1, <2>2, <3>3 DEF Keys
  <2> QED BY <2>1, <2>2 DEF Keys
<1>5. HoldsOK(N, sn, s)
  <2> SUFFICES ASSUME NEW x \in s.holds, x.inst.kind \in Kind
               PROVE  HoldOK(N, x) /\ HoldSeen(N, sn, x)
    BY <1>1 DEF HoldsOK
  <2>1. x.no \in Nat /\ HoldOK(R, x) /\ HoldSeen(R, sn, x)
    BY <1>1 DEF HoldsOK, StateSet, HoldSet
  <2>2. Born(R, x.inst.kind, x.no)
    BY <2>1 DEF HoldOK, SeenAs
  <2>3. SeenAs(N, x.inst.kind, x.no, x.resets) /\ KeyOf(N, x.inst.kind, x.no, x.inst)
    BY <2>1, StillKeys DEF HoldOK
  <2>4. x.no = N.real[x.inst.kind].no => N.real[x.inst.kind].level = Pause
    BY <1>2, <2>1, <2>2 DEF HoldOK, Pause
  <2>5. HoldSeen(N, sn, x)
    BY <1>2, <2>1, <2>2 DEF HoldSeen
  <2> QED BY <2>3, <2>4, <2>5 DEF HoldOK
<1>6. WarnedOK(N, s)
  <2> SUFFICES ASSUME NEW y \in s.warned, y.inst.kind \in Kind
               PROVE  KeyOf(N, y.inst.kind, y.no, y.inst)
    BY <1>1 DEF WarnedOK
  <2>1. y.no \in Nat /\ KeyOf(R, y.inst.kind, y.no, y.inst)
    BY <1>1 DEF WarnedOK, StateSet, WarningSet
  <2> QED BY <2>1, StillKeys
<1>7. PausedOK(N, s, p)
  <2>1. ASSUME NEW i \in s.paused, i.kind \in Kind, NEW n \in Nat, KeyOf(N, i.kind, n, i)
        PROVE  <<i.kind, n>> \in p
    <3>1. PICK m \in Nat : KeyOf(R, i.kind, m, i)
      BY <1>1, <2>1 DEF Keys, Within
    <3>2. KeyOf(R, i.kind, n, i)
      BY <2>1, <3>1, StillKeys
    <3> QED BY <1>1, <2>1, <3>2 DEF PausedOK
  <2>2. ASSUME NEW k \in Kind, NEW n \in Nat, <<k, n>> \in p
        PROVE  \E i \in s.paused : KeyOf(N, k, n, i)
    <3>1. PICK i \in s.paused : KeyOf(R, k, n, i)
      BY <1>1, <2>2 DEF PausedOK
    <3> QED BY <3>1, StillKeys
  <2> QED BY <1>1, <2>1, <2>2 DEF PausedOK
<1>8. StateOK(N, K, sn, s, p)
  BY <1>1, <1>5, <1>6, <1>7 DEF StateOK
<1> QED BY <1>3, <1>4, <1>8 DEF Known

-----------------------------------------------------------------------------
(* What a session remembers of overrides.                                  *)

LEMMA IdsOf ==
    ASSUME NEW H \in SUBSET HoldSet PROVE Ids(H) \in SUBSET (Kinds \X Nat)
<1>1. \A x \in H : x.inst.kind \in Kinds /\ x.no \in Nat
  BY DEF HoldSet, KeySet
<1>2. \A x \in H : <<x.inst.kind, x.no>> \in Kinds \X Nat
  BY <1>1
<1> QED BY <1>2 DEF Ids

\* An override adds to `over` and `done` of the record, and changes nothing else.
OverriddenTo(holds, i, r, e) ==
    /\ e \in RecordSet
    /\ e.over = r.over \cup Insts(Applicable(holds, i, r))
    /\ e.done = r.done \cup Ids(Applicable(holds, i, r))
    /\ e.pend = r.pend /\ e.on = r.on /\ e.model = r.model /\ e.state = r.state
    /\ Insts(Applicable(holds, i, r)) \subseteq Insts(holds)

LEMMA OverriddenIs ==
    ASSUME NEW holds \in SUBSET HoldSet, NEW i \in Session, NEW r \in RecordSet,
           NEW e, e = Overridden(holds, i, r)
    PROVE  OverriddenTo(holds, i, r, e)
<1>1. PICK A \in SUBSET HoldSet : A \subseteq holds /\ A = Applicable(holds, i, r)
  BY DEF Applicable
<1>2. Insts(A) \subseteq Insts(holds)
  BY <1>1, Zenon DEF Insts
<1>3. PICK I \in SUBSET KeySet : I = Insts(A)
  BY DEF Insts, HoldSet
<1>4. PICK D \in SUBSET (Kinds \X Nat) : D = Ids(A)
  BY IdsOf
<1>5. /\ r.over \in SUBSET KeySet /\ r.done \in SUBSET (Kinds \X Nat)
      /\ e = [r EXCEPT !.over = r.over \cup I, !.done = r.done \cup D]
  BY <1>1, <1>3, <1>4 DEF Overridden, RecordSet
<1>6. PICK O \in SUBSET KeySet, W \in SUBSET (Kinds \X Nat) :
         O = r.over \cup I /\ W = r.done \cup D
  <2>1. r.over \cup I \in SUBSET KeySet
    BY <1>5, <1>3
  <2>2. r.done \cup D \in SUBSET (Kinds \X Nat)
    BY <1>5, <1>4
  <2> QED BY <2>1, <2>2
<1>7. e = [r EXCEPT !.over = O, !.done = W]
  BY <1>5, <1>6
<1>8. e \in RecordSet
  BY <1>7 DEF RecordSet
<1>9. e.over = O /\ e.done = W
  BY <1>7 DEF RecordSet
<1>10. e.pend = r.pend /\ e.on = r.on /\ e.model = r.model /\ e.state = r.state
  BY <1>7 DEF RecordSet
<1>11. Insts(Applicable(holds, i, r)) = I /\ Ids(Applicable(holds, i, r)) = D
  BY <1>1, <1>3, <1>4
<1>12. I \subseteq Insts(holds)
  BY <1>2, <1>3
<1> QED BY <1>6, <1>11, <1>12, <1>8, <1>9, <1>10 DEF OverriddenTo

\* A hold that a session was overridden for, or started against, is among its keys, unless
\* its model is now known to be another one.
Covered(x, r) ==
    \/ x.inst \in r.over \cup r.pend
    \/ x.inst.kind = "model_scoped" /\ r.model = "other"
OverOK(i, r) ==
    /\ ~r.on => r.done = {}
    /\ \A y \in r.over : /\ y.kind = "model_scoped" => r.model # "unknown"
                         /\ y.kind = "manual" => y.scope \in {"all", i}

\* What was overridden is never made again: its window was paused, its number is taken.
DoneOK(s, p, l, D) ==
    \A e \in D : /\ e[1] \in Kind => e \in p
                 /\ e[1] = "manual" => e[2] > l
                 /\ e[1] = "extra_usage" => CreditKey(e[2]) \in s.paused
HoldsNamed(s, l) ==
    /\ \A x \in s.holds :
          /\ x.inst.kind = "manual" => x.no > l
          /\ x.inst.kind = "extra_usage" => x.inst = CreditKey(x.no) /\ x.inst \in s.paused
    /\ \A x, y \in s.holds :
          x.inst.kind = "manual" /\ y.inst.kind = "manual" /\ x.no = y.no => x.inst = y.inst
CoversAll(s, r) == \A x \in s.holds : <<x.inst.kind, x.no>> \in r.done => Covered(x, r)
RecordOK(s, p, l, i, r) == OverOK(i, r) /\ DoneOK(s, p, l, r.done) /\ CoversAll(s, r)
Remembers(s, ss, p, l) ==
    HoldsNamed(s, l) /\ \A i \in Session : RecordOK(s, p, l, i, ss[i])

\* A number stands for one hold.
LEMMA SameIds ==
    ASSUME NEW R \in History, RealOK(R), NEW sn, NEW s, NEW ss, NEW p, Known(R, sn, s, ss, p),
           NEW l, HoldsNamed(s, l),
           NEW x \in s.holds, NEW y \in s.holds, x.inst.kind = y.inst.kind, x.no = y.no
    PROVE  x.inst = y.inst
<1>1. /\ HoldsOK(R, sn, s) /\ Keys(R, KnownInstances(s, ss)) /\ s \in StateSet
      /\ x.inst \in KnownInstances(s, ss) /\ y.inst \in KnownInstances(s, ss)
  BY DEF Known, StateOK, KnownInstances, Insts
<1>2. x.inst.kind \in Kinds /\ x.no \in Nat
  BY <1>1 DEF StateSet, HoldSet, KeySet
<1>3. CASE x.inst.kind \in Kind
  <2>1. KeyOf(R, x.inst.kind, x.no, x.inst) /\ KeyOf(R, x.inst.kind, x.no, y.inst)
    BY <1>1, <1>3 DEF HoldsOK, HoldOK
  <2> QED BY <1>1, <1>2, <1>3, <2>1 DEF Keys
<1>4. CASE x.inst.kind = "manual"
  BY <1>4 DEF HoldsNamed
<1>5. CASE x.inst.kind = "extra_usage"
  BY <1>5 DEF HoldsNamed
<1> QED BY <1>2, <1>3, <1>4, <1>5 DEF Kinds

LEMMA IdsDone ==
    ASSUME NEW R, NEW sn, NEW s, NEW ss, NEW p, Known(R, sn, s, ss, p),
           NEW l, HoldsNamed(s, l), NEW H \in SUBSET s.holds
    PROVE  DoneOK(s, p, l, Ids(H))
<1> SUFFICES ASSUME NEW x \in H
             PROVE  /\ x.inst.kind \in Kind => <<x.inst.kind, x.no>> \in p
                    /\ x.inst.kind = "manual" => x.no > l
                    /\ x.inst.kind = "extra_usage" => CreditKey(x.no) \in s.paused
  BY DEF DoneOK, Ids
<1>1. s \in StateSet /\ HoldsOK(R, sn, s) /\ PausedOK(R, s, p)
  BY DEF Known, StateOK
<1>2. x.no \in Nat
  BY <1>1 DEF StateSet, HoldSet
<1>3. x.inst.kind \in Kind => <<x.inst.kind, x.no>> \in p
  BY <1>1, <1>2 DEF HoldsOK, HoldOK, PausedOK
<1> QED BY <1>3 DEF HoldsNamed

\* An override of the holds in H is remembered.
LEMMA OverrideRecorded ==
    ASSUME NEW R \in History, RealOK(R), NEW sn, NEW s, NEW ss, NEW p, Known(R, sn, s, ss, p),
           NEW l, HoldsNamed(s, l), NEW i \in Session, NEW r \in RecordSet,
           RecordOK(s, p, l, i, r), r.on, NEW H \in SUBSET s.holds, NEW e,
           OverriddenTo(H, i, r, e)
    PROVE  RecordOK(s, p, l, i, e)
<1>0. Applicable(H, i, r) \in SUBSET s.holds
  BY DEF Applicable
<1>8. PICK A \in SUBSET s.holds : A = Applicable(H, i, r)
  BY <1>0
<1>1. A = Applicable(H, i, r) /\ \A x \in A : Applies(x, i, r)
  BY <1>8 DEF Applicable
<1>2. /\ e.over = r.over \cup Insts(A) /\ e.done = r.done \cup Ids(A) /\ e.pend = r.pend
      /\ e.on = r.on /\ e.model = r.model
  BY <1>1 DEF OverriddenTo
<1>3. OverOK(i, r) /\ DoneOK(s, p, l, r.done) /\ CoversAll(s, r)
  BY DEF RecordOK
<1>4. DoneOK(s, p, l, Ids(A))
  BY IdsDone
<1>5. DoneOK(s, p, l, e.done)
  BY <1>2, <1>3, <1>4 DEF DoneOK
<1>6. OverOK(i, e)
  <2> SUFFICES ASSUME NEW x \in A
               PROVE  /\ x.inst.kind = "model_scoped" => r.model # "unknown"
                      /\ x.inst.kind = "manual" => x.inst.scope \in {"all", i}
    BY <1>2, <1>3 DEF OverOK, Insts
  <2> QED BY <1>1 DEF Applies
<1>7. CoversAll(s, e)
  <2> SUFFICES ASSUME NEW x \in s.holds, <<x.inst.kind, x.no>> \in e.done
               PROVE  Covered(x, e)
    BY DEF CoversAll
  <2>1. CASE <<x.inst.kind, x.no>> \in r.done
    BY <1>2, <1>3, <2>1 DEF CoversAll, Covered
  <2>2. CASE <<x.inst.kind, x.no>> \in Ids(A)
    <3>1. PICK y \in A : y.inst.kind = x.inst.kind /\ y.no = x.no
      BY <2>2 DEF Ids
    <3>2. y.inst = x.inst
      BY <3>1, SameIds
    <3> QED BY <1>2, <3>1, <3>2 DEF Insts, Covered
  <2> QED BY <1>2, <2>1, <2>2
<1> QED BY <1>5, <1>6, <1>7 DEF RecordOK

\* Applying the holds keeps what is remembered, and overrides what was started against.
Recalls(holds, i, r, e) ==
    /\ OverOK(i, e)
    /\ \A x \in holds : <<x.inst.kind, x.no>> \in r.done =>
          Covered(x, e) /\ (Applies(x, i, r) => x.inst \in e.over)

LEMMA AppliedRecalls ==
    ASSUME NEW holds \in SUBSET HoldSet, NEW i \in Session, NEW r \in RecordSet, OverOK(i, r),
           \A x \in holds : <<x.inst.kind, x.no>> \in r.done => Covered(x, r)
    PROVE  Recalls(holds, i, r, Applied(holds, i, r))
<1>1. PICK M : M = Adopted(holds, i, r)
  OBVIOUS
<1>2. PICK A : A = Insts(Applicable(holds, i, r))
  OBVIOUS
<1>3. /\ M = A \cap r.pend /\ A \subseteq KeySet
      /\ \A x \in holds : x.inst \in A <=> \E y \in holds : y.inst = x.inst /\ Applies(y, i, r)
      /\ \A a \in A : \E x \in holds : x.inst = a /\ Applies(x, i, r)
  BY <1>1, <1>2 DEF Adopted, Insts, Applicable, HoldSet
<1>4. PICK l \in {"running", "paused", "overridden"} :
         l = IF M # {} /\ r.state # "paused" THEN "overridden" ELSE r.state
  BY DEF RecordSet
<1>5. PICK f : f = [r EXCEPT !.over = @ \cup M, !.pend = @ \ M, !.state = l]
  OBVIOUS
<1>6. /\ f \in RecordSet /\ f.over = r.over \cup M /\ f.pend = r.pend \ M /\ f.state = l
      /\ f.done = r.done /\ f.on = r.on /\ f.model = r.model
  BY <1>3, <1>5 DEF RecordSet
<1>7. /\ \A a \in A : /\ a.kind = "model_scoped" => r.model = "scoped"
                      /\ a.kind = "manual" => a.scope \in {"all", i}
  BY <1>3 DEF Applies
<1>8. OverOK(i, f)
  BY <1>3, <1>6, <1>7 DEF OverOK
<1>9. \A x \in holds : <<x.inst.kind, x.no>> \in r.done =>
         /\ x.inst \in f.over \cup f.pend \/ (x.inst.kind = "model_scoped" /\ r.model = "other")
         /\ Applies(x, i, r) => x.inst \in f.over
  <2> SUFFICES ASSUME NEW x \in holds, <<x.inst.kind, x.no>> \in r.done
               PROVE  /\ \/ x.inst \in f.over \cup f.pend
                         \/ x.inst.kind = "model_scoped" /\ r.model = "other"
                      /\ Applies(x, i, r) => x.inst \in f.over
    OBVIOUS
  <2>1. Covered(x, r)
    OBVIOUS
  <2>2. Applies(x, i, r) => x.inst \in A
    BY <1>3
  <2>3. Applies(x, i, r) => ~(x.inst.kind = "model_scoped" /\ r.model = "other")
    BY DEF Applies
  <2> QED BY <1>3, <1>6, <2>1, <2>2, <2>3 DEF Covered
<1>10. \A n \in {"running", "paused", "overridden"} : Recalls(holds, i, r, [f EXCEPT !.state = n])
  <2> SUFFICES ASSUME NEW n \in {"running", "paused", "overridden"}, NEW e,
                      e = [f EXCEPT !.state = n]
               PROVE  Recalls(holds, i, r, e)
    OBVIOUS
  <2>1. /\ e.over = f.over /\ e.pend = f.pend /\ e.done = f.done /\ e.on = f.on
        /\ e.model = f.model
    BY <1>6 DEF RecordSet
  <2> QED BY <1>6, <1>8, <1>9, <2>1 DEF Recalls, OverOK, Covered
<1>11. f = [f EXCEPT !.state = l]
  BY <1>6 DEF RecordSet
<1>12. ASSUME f.over \cap A = {}, NEW e, e = [f EXCEPT !.state = "running", !.over = {}]
       PROVE  Recalls(holds, i, r, e)
  <2>1. /\ e.over = {} /\ e.pend = f.pend /\ e.done = f.done /\ e.on = f.on /\ e.model = f.model
    BY <1>12, <1>6 DEF RecordSet
  <2>2. OverOK(i, e)
    BY <1>6, <1>8, <2>1 DEF OverOK
  <2>3. ASSUME NEW x \in holds, <<x.inst.kind, x.no>> \in r.done
        PROVE  Covered(x, e) /\ ~Applies(x, i, r)
    <3>1. ~Applies(x, i, r)
      <4>1. Applies(x, i, r) => x.inst \in f.over /\ x.inst \in A
        BY <1>3, <1>9, <2>3
      <4> QED BY <1>12, <4>1
    <3>2. CASE x.inst \in f.over
      <4>1. \/ x.inst.kind = "model_scoped" /\ r.model # "scoped"
            \/ x.inst.kind = "manual" /\ x.inst.scope \notin {"all", i}
        BY <3>1 DEF Applies
      <4>2. x.inst.kind = "model_scoped" /\ r.model \notin {"scoped", "unknown"}
        BY <1>6, <1>8, <3>2, <4>1 DEF OverOK
      <4> QED BY <1>6, <2>1, <3>1, <4>2 DEF Covered, RecordSet, Models
    <3>3. CASE x.inst \notin f.over
      BY <1>6, <1>9, <2>1, <2>3, <3>1, <3>3 DEF Covered
    <3> QED BY <3>2, <3>3
  <2> QED BY <2>2, <2>3 DEF Recalls
<1>13. ASSUME ~r.on PROVE Recalls(holds, i, r, r)
  BY <1>13 DEF Recalls, OverOK
<1>14. \/ ~r.on /\ Applied(holds, i, r) = r
       \/ Applied(holds, i, r) = [f EXCEPT !.state = "paused"]
       \/ Applied(holds, i, r) = [f EXCEPT !.state = "running"]
       \/ Applied(holds, i, r) = f
       \/ f.over \cap A = {} /\ Applied(holds, i, r) = [f EXCEPT !.state = "running", !.over = {}]
  <2>1. f = [r EXCEPT !.over = @ \cup M, !.pend = @ \ M,
                      !.state = IF M # {} /\ @ # "paused" THEN "overridden" ELSE @]
    BY <1>4, <1>5
  <2>2. Applied(holds, i, r) =
          CASE ~r.on -> r
            [] r.on /\ A \ f.over # {} -> [f EXCEPT !.state = "paused"]
            [] r.on /\ A \ f.over = {} /\ r.state = "paused" -> [f EXCEPT !.state = "running"]
            [] r.on /\ A \ f.over = {} /\ r.state # "paused" ->
                  IF f.state = "overridden" /\ f.over \cap A = {}
                  THEN [f EXCEPT !.state = "running", !.over = {}]
                  ELSE f
    BY <1>1, <1>2, <2>1 DEF Applied
  <2>3. r.on \in BOOLEAN
    BY DEF RecordSet
  <2> HIDE DEF Applied
  <2> QED BY <2>2, <2>3
<1> QED BY <1>10, <1>11, <1>12, <1>13, <1>14

\* No session is paused for what it was overridden for.
NotAgain(holds, i, r) ==
    \A x \in Applicable(holds, i, r) : x.inst \notin r.over => <<x.inst.kind, x.no>> \notin r.done

Traced(s, x) == \E y \in s.holds : y.inst = x.inst /\ y.no = x.no

\* The holds after a pass that have a number which was overridden were there before it.
LEMMA OldHolds ==
    ASSUME NEW R \in History, RealOK(R), NEW cf, NEW sn, NEW s, NEW ss, NEW t, NEW p,
           Known(R, sn, s, ss, p), NEW e, NEW es, NEW q, Passes(R, cf, sn, s, ss, t, p, e, es, q),
           NEW l, NEW D, DoneOK(s, p, l, D), NEW x \in e.holds, <<x.inst.kind, x.no>> \in D
    PROVE  Traced(s, x)
<1>1. /\ HoldsOK(R, sn, s) /\ HoldsOK(R, sn, e) /\ s \in StateSet /\ e \in StateSet
      /\ HeldOnce(s, e, p) /\ OthersFrom(s, e)
  BY DEF Known, Passes, StateOK
<1>2. CASE x.inst.kind \in Kind
  <2>1. x.inst \in Insts(s.holds)
    BY <1>1, <1>2 DEF DoneOK, HeldOnce
  <2>2. PICK y \in s.holds : y.inst = x.inst
    BY <2>1 DEF Insts
  <2>3. x.no \in Nat /\ y.no \in Nat
    BY <1>1 DEF StateSet, HoldSet
  <2>4. KeyOf(R, x.inst.kind, x.no, x.inst) /\ KeyOf(R, x.inst.kind, y.no, x.inst)
    BY <1>1, <1>2, <2>2 DEF HoldsOK, HoldOK
  <2>5. x.no = y.no
    BY <1>2, <2>3, <2>4, KeyOfOne
  <2> QED BY <2>2, <2>5 DEF Traced
<1>3. CASE x.inst.kind \notin Kind
  <2>1. CASE x.inst = CreditKey(x.no) /\ x.inst \notin s.paused
    BY <2>1 DEF DoneOK, CreditKey, Instance
  <2> QED BY <1>1, <1>3, <2>1 DEF OthersFrom, SameHold, Traced
<1> QED BY <1>2, <1>3

LEMMA PassRemembers ==
    ASSUME NEW R \in History, RealOK(R), NEW cf, NEW sn, NEW s, NEW ss, NEW t, NEW p,
           Known(R, sn, s, ss, p), NEW e, NEW es, NEW q, Passes(R, cf, sn, s, ss, t, p, e, es, q),
           NEW l, Remembers(s, ss, p, l)
    PROVE  Remembers(e, es, q, l) /\ \A i \in Session : NotAgain(e.holds, i, es[i])
<1>1. /\ e \in StateSet /\ ss \in [Session -> RecordSet] /\ OthersFrom(s, e)
      /\ HoldsNamed(s, l)
  BY DEF Known, Passes, StateOK, Remembers
<1>2. PICK D : /\ es = [i \in Session |-> [Applied(e.holds, i, ss[i]) EXCEPT !.done = @ \ D]]
               /\ p \ D \subseteq q
  BY DEF Passes, RecordsFrom
<1>3. HoldsNamed(e, l)
  <2>1. ASSUME NEW x \in e.holds, x.inst.kind = "manual" PROVE Traced(s, x)
    <3>1. x.inst # CreditKey(x.no)
      BY <2>1 DEF CreditKey, Instance
    <3> QED BY <1>1, <2>1, <3>1, OtherKinds DEF OthersFrom, SameHold, Traced
  <2>2. ASSUME NEW x \in e.holds, x.inst.kind = "extra_usage"
        PROVE  x.inst = CreditKey(x.no) /\ x.inst \in e.paused
    <3>1. \/ \E y \in s.holds : y.inst = x.inst /\ y.no = x.no
          \/ x.inst = CreditKey(x.no) /\ x.inst \in e.paused
      BY <1>1, <2>2, OtherKinds DEF OthersFrom, SameHold
    <3>2. ASSUME NEW y \in s.holds, y.inst = x.inst, y.no = x.no
          PROVE  x.inst = CreditKey(x.no) /\ x.inst \in s.paused
      BY <1>1, <2>2, <3>2 DEF HoldsNamed
    <3> QED BY <1>1, <3>1, <3>2 DEF OthersFrom
  <2> QED BY <1>1, <2>1, <2>2 DEF HoldsNamed, Traced
<1>4. ASSUME NEW i \in Session
      PROVE  RecordOK(e, q, l, i, es[i]) /\ NotAgain(e.holds, i, es[i])
  <2>1. PICK r \in RecordSet : r = ss[i] /\ RecordOK(s, p, l, i, r)
    BY <1>1, <1>4 DEF Remembers
  <2>2. OverOK(i, r) /\ DoneOK(s, p, l, r.done) /\ CoversAll(s, r)
    BY <2>1 DEF RecordOK
  <2>3. \A x \in e.holds : <<x.inst.kind, x.no>> \in r.done => Covered(x, r)
    <3> SUFFICES ASSUME NEW x \in e.holds, <<x.inst.kind, x.no>> \in r.done PROVE Covered(x, r)
      OBVIOUS
    <3>1. PICK y \in s.holds : y.inst = x.inst /\ y.no = x.no
      <4>1. Traced(s, x)
        BY <2>2, OldHolds
      <4> QED BY <4>1 DEF Traced
    <3> QED BY <2>2, <3>1 DEF CoversAll, Covered
  <2>4. PICK a : a = Applied(e.holds, i, r)
    OBVIOUS
  <2>5. e.holds \in SUBSET HoldSet
    BY <1>1 DEF StateSet
  <2>6. Recalls(e.holds, i, r, a) /\ AppliedTo(e.holds, r, a)
    BY <2>2, <2>3, <2>4, <2>5, AppliedRecalls, AppliedKeeps
  <2>7. PICK f : f = es[i] /\ f = [a EXCEPT !.done = @ \ D]
    BY <1>2, <2>1, <2>4
  <2>8. /\ f.over = a.over /\ f.pend = a.pend /\ f.on = r.on /\ f.model = r.model
        /\ a.model = r.model /\ a.on = r.on /\ f.done = r.done \ D
    BY <2>6, <2>7 DEF AppliedTo, RecordSet
  <2>9. OverOK(i, f)
    BY <2>6, <2>8 DEF Recalls, OverOK, AppliedTo
  <2>10. DoneOK(e, q, l, f.done)
    BY <1>1, <1>2, <2>2, <2>8 DEF DoneOK, OthersFrom
  <2>11. CoversAll(e, f)
    BY <2>6, <2>8 DEF CoversAll, Recalls, Covered
  <2>12. NotAgain(e.holds, i, f)
    <3> SUFFICES ASSUME NEW x \in e.holds, Applies(x, i, f), <<x.inst.kind, x.no>> \in f.done
                 PROVE  x.inst \in f.over
      BY DEF NotAgain, Applicable
    <3>1. Applies(x, i, r)
      BY <2>8 DEF Applies
    <3> QED BY <2>6, <2>8, <3>1 DEF Recalls
  <2> QED BY <2>7, <2>9, <2>10, <2>11, <2>12 DEF RecordOK
<1> QED BY <1>3, <1>4 DEF Remembers

\* The records are remembered, as long as no session returns to the scoped model.
Memory(s, ss, p, l) == ModelBack \/ Remembers(s, ss, p, l)

LEMMA LessLeft ==
    ASSUME NEW s \in StateSet, NEW ss \in [Session -> RecordSet], NEW p, NEW l \in Nat,
           Memory(s, ss, p, l), NEW k \in Nat, k <= l
    PROVE  Memory(s, ss, p, k)
<1> SUFFICES ASSUME Remembers(s, ss, p, l) PROVE Remembers(s, ss, p, k)
  BY DEF Memory
<1>1. HoldsNamed(s, k)
  <2>1. \A x \in s.holds : x.no \in Nat
    BY DEF StateSet, HoldSet
  <2> QED BY <2>1 DEF Remembers, HoldsNamed
<1>2. ASSUME NEW i \in Session PROVE DoneOK(s, p, k, ss[i].done)
  <2>1. \A e \in ss[i].done : e[2] \in Nat
    BY DEF RecordSet
  <2> QED BY <2>1 DEF Remembers, RecordOK, DoneOK
<1> QED BY <1>1, <1>2 DEF Remembers, RecordOK

LEMMA FewerRemembered ==
    ASSUME NEW s, NEW ss, NEW p, NEW l, Memory(s, ss, p, l), NEW e,
           \A x \in e.holds : Traced(s, x), s.paused \subseteq e.paused
    PROVE  Memory(e, ss, p, l)
<1> SUFFICES ASSUME Remembers(s, ss, p, l) PROVE Remembers(e, ss, p, l)
  BY DEF Memory
<1>1. HoldsNamed(e, l)
  <2>1. HoldsNamed(s, l)
    BY DEF Remembers
  <2> QED BY <2>1 DEF HoldsNamed, Traced
<1>2. ASSUME NEW i \in Session PROVE RecordOK(e, p, l, i, ss[i])
  <2>1. RecordOK(s, p, l, i, ss[i])
    BY <1>2 DEF Remembers
  <2> QED BY <2>1 DEF RecordOK, DoneOK, CoversAll, Covered, Traced
<1> QED BY <1>1, <1>2 DEF Remembers

LEMMA OneRemembered ==
    ASSUME NEW s, NEW ss \in [Session -> RecordSet], NEW p, NEW l, Memory(s, ss, p, l),
           NEW i \in Session, NEW r, NEW e, ModelBack \/ RecordOK(s, p, l, i, r),
           e.over = r.over, e.pend = r.pend, e.done = r.done, e.on = r.on, e.model = r.model
    PROVE  Memory(s, [ss EXCEPT ![i] = e], p, l)
<1> SUFFICES ASSUME Remembers(s, ss, p, l), RecordOK(s, p, l, i, r)
             PROVE  Remembers(s, [ss EXCEPT ![i] = e], p, l)
  BY DEF Memory
<1>1. RecordOK(s, p, l, i, e)
  BY DEF RecordOK, OverOK, CoversAll, Covered
<1> QED BY <1>1 DEF Remembers

-----------------------------------------------------------------------------
(* The invariant.                                                          *)

\* Windows other than the one that runs have reset.
Ended(R, t) ==
    \A k \in Kind : \A n \in 1 .. R.real[k].no :
        (R.real[k].active /\ n = R.real[k].no) \/ R.at[k][n] <= t

Follows(R) ==
    /\ R.real = real /\ RealOK(R) /\ Ended(R, now)
    /\ SnapOK(R, snap) /\ Known(R, snap, st, sess, paused)

\* The confirmation of a hold starts after its reset, and does not run longer than GiveUp
\* between two restarts.
Bounded(x, t, l) ==
    IF x.started = NoTime THEN t < x.resets + Delay + GiveUp * (MaxOps - l)
    ELSE /\ x.resets + Delay <= x.started /\ t < x.started + GiveUp
         /\ x.started <= x.resets + Delay + GiveUp * (MaxOps - l)
AllBounded == \A x \in st.holds : x.inst.kind \in Kind => Bounded(x, now, left)

LimitInv ==
    /\ LimitTypeOK /\ (\E R \in History : Follows(R))
    /\ FullIsHeld /\ AllBounded /\ Memory(st, sess, paused, left)

\* What a step may do: WarnOnce, PauseOnce, and the bodies of NoEarlyRelease and OverrideKept.
EndsEarlyNever ==
    \A x \in st.holds :
        x.inst.kind \in Kind /\ x.inst \notin Insts(st'.holds)
        => \/ ~conf'.enabled \/ SpillActive(conf', snap') \/ x.inst \in st'.released
           \/ real[x.inst.kind].no # x.no \/ ~real[x.inst.kind].active
PausesRightly ==
    \A i \in Session : sess[i].state # "paused" /\ sess'[i].state = "paused"
                       => NotAgain(st'.holds, i, sess'[i])
StepOK ==
    LimitInv' /\ WarnOnce /\ PauseOnce /\ EndsEarlyNever /\ (ModelBack \/ PausesRightly)

LEMMA Allowance ==
    ASSUME NEW a \in 0 .. MaxOps, NEW b \in 0 .. MaxOps, a <= b
    PROVE  /\ GiveUp * (MaxOps - b) \in Nat /\ GiveUp * (MaxOps - a) \in Nat
           /\ GiveUp * (MaxOps - b) <= GiveUp * (MaxOps - a)
           /\ a + 1 = b => GiveUp * (MaxOps - a) = GiveUp * (MaxOps - b) + GiveUp
<1>1. PICK c \in Nat : c = MaxOps - b
  BY LimitPolicyAssumption
<1>2. PICK d \in Nat : d = b - a
  OBVIOUS
<1>3. MaxOps - a = c + d /\ GiveUp \in Nat /\ MaxOps \in Nat
  BY <1>1, <1>2, LimitPolicyAssumption
<1>4. GiveUp * (c + d) = GiveUp * c + GiveUp * d
  BY <1>1, <1>2, <1>3
<1>5. GiveUp * c \in Nat /\ GiveUp * d \in Nat
  BY <1>1, <1>2, <1>3
<1>6. a + 1 = b => d = 1
  BY <1>2
<1>7. d = 1 => GiveUp * d = GiveUp
  BY <1>3
<1> QED BY <1>1, <1>3, <1>4, <1>5, <1>6, <1>7

LEMMA BoundsPass ==
    ASSUME LimitTypeOK, AllBounded, NEW s, HoldsLeft(s, st', now'),
           \A y \in s.holds : y.inst.kind \in Kind => y \in st.holds,
           st' \in StateSet, now' \in {now, now + 1}, left' \in 0 .. MaxOps, left' <= left
    PROVE  AllBounded'
<1> SUFFICES ASSUME NEW x \in st'.holds, x.inst.kind \in Kind
             PROVE  Bounded(x, now', left')
  BY DEF AllBounded, Bounded
<1>1. PICK a \in Nat : a = GiveUp * (MaxOps - left)
  BY Allowance DEF LimitTypeOK
<1>2. PICK b \in Nat : b = GiveUp * (MaxOps - left') /\ a <= b
  BY <1>1, Allowance DEF LimitTypeOK
<1>3. /\ now \in Nat /\ now' \in Nat /\ x.resets \in Int /\ x.started \in Int
      /\ Delay \in Nat /\ GiveUp \in Nat \ {0}
  BY LimitPolicyAssumption DEF LimitTypeOK, StateSet, HoldSet
<1>4. CASE x.resets > now' /\ x.started = NoTime
  BY <1>2, <1>3, <1>4 DEF Bounded
<1>5. ASSUME NEW y \in s.holds, Left(x, y, now')
      PROVE  Bounded(x, now', left')
  <2>1. x.inst = y.inst /\ x.resets = y.resets
    BY <1>5 DEF Left, SameHold
  <2>2. y \in st.holds /\ Bounded(y, now, left)
    BY <2>1 DEF AllBounded
  <2>3. y.started \in Int
    BY <2>2 DEF LimitTypeOK, StateSet, HoldSet
  <2>4. IF y.started = NoTime THEN now < x.resets + Delay + a
        ELSE /\ x.resets + Delay <= y.started /\ now < y.started + GiveUp
             /\ y.started <= x.resets + Delay + a
    BY <1>1, <2>1, <2>2 DEF Bounded
  <2>5. \/ x = y /\ now' < x.resets + Delay
        \/ /\ now' >= x.resets + Delay /\ now' < x.started + GiveUp
           /\ x.started = IF y.started = NoTime THEN now' ELSE y.started
    BY <1>5 DEF Left
  <2>6. IF x.started = NoTime THEN now' < x.resets + Delay + b
        ELSE /\ x.resets + Delay <= x.started /\ now' < x.started + GiveUp
             /\ x.started <= x.resets + Delay + b
    BY <1>2, <1>3, <2>3, <2>4, <2>5 DEF NoTime
  <2> QED BY <1>2, <2>6 DEF Bounded
<1> QED BY <1>4, <1>5 DEF HoldsLeft

\* A step that makes a pass over `s` and `ss`.
LEMMA PassStep ==
    ASSUME LimitInv, NEW R \in History, Follows(R), real' = real, credit' \in Credit,
           conf' \in ConfSet, snap' \in SnapSet, now' \in Nat, now' \in {now, now + 1},
           left' \in 0 .. MaxOps, left' <= left, SnapOK(R, snap'),
           NEW s, NEW ss, Known(R, snap', s, ss, paused), Evaluates(conf', snap', s, ss, now'),
           s.warned = st.warned, Memory(s, ss, paused, left'),
           \A y \in s.holds : y.inst.kind \in Kind => y \in st.holds,
           \A y \in st.holds : y.inst.kind \in Kind => y \in s.holds \/ y.inst \in s.released
    PROVE  StepOK
<1>1. Passes(R, conf', snap', s, ss, now', paused, st', sess', paused')
  BY PassKeeps DEF Follows
<1>2. /\ Known(R, snap', st', sess', paused') /\ HeldWhenFull(conf', snap', now', paused')
      /\ NewWarningsOnce(s, st') /\ s.released \subseteq st'.released /\ HeldOnce(s, st', paused)
      /\ EndsRightly(R, conf', snap', s, st') /\ HoldsLeft(s, st', now')
  BY <1>1 DEF Passes
<1>3. /\ sess' \in [Session -> RecordSet] /\ paused' \in SUBSET (Kinds \X Nat)
      /\ st' \in StateSet
  BY <1>2 DEF Known, StateOK
<1>4. LimitTypeOK'
  BY <1>3 DEF LimitInv, LimitTypeOK
<1>5. Ended(R, now')
  <2> SUFFICES ASSUME NEW k \in Kind, NEW n \in 1 .. R.real[k].no,
                      R.at[k][n] <= now
               PROVE  R.at[k][n] <= now'
    BY DEF Follows, Ended
  <2>1. R.at[k][n] \in Int /\ now \in Nat
    BY DEF History, LimitInv, LimitTypeOK, RealSet
  <2> QED BY <2>1
<1>6. Follows(R)'
  BY <1>2, <1>5 DEF Follows
<1>7. FullIsHeld'
  BY <1>2 DEF FullIsHeld, HeldWhenFull
<1>8. AllBounded'
  BY <1>2, <1>3, BoundsPass DEF LimitInv
<1>13. ModelBack \/ (Remembers(st', sess', paused', left') /\ PausesRightly)
  BY <1>1, PassRemembers DEF Memory, Follows, PausesRightly
<1>9. LimitInv'
  BY <1>4, <1>6, <1>7, <1>8, <1>13 DEF LimitInv, Memory
<1>10. WarnOnce
  BY <1>2 DEF WarnOnce, NewWarningsOnce
<1>11. PauseOnce
  <2> SUFFICES ASSUME NEW x \in st'.holds, x.inst.kind \in Kind, x.inst \notin Insts(st.holds)
               PROVE  <<x.inst.kind, x.no>> \notin paused
    BY DEF PauseOnce
  <2>1. x.inst \notin Insts(s.holds)
    BY DEF Insts
  <2> QED BY <1>2, <2>1 DEF HeldOnce
<1>12. EndsEarlyNever
  <2> SUFFICES ASSUME NEW x \in st.holds, x.inst.kind \in Kind, x.inst \notin Insts(st'.holds)
               PROVE  \/ ~conf'.enabled \/ SpillActive(conf', snap') \/ x.inst \in st'.released
                      \/ real[x.inst.kind].no # x.no \/ ~real[x.inst.kind].active
    BY DEF EndsEarlyNever
  <2>1. CASE x \in s.holds
    BY <1>2, <2>1 DEF EndsRightly, Follows
  <2>2. CASE x.inst \in s.released
    BY <1>2, <2>2
  <2> QED BY <2>1, <2>2
<1> QED BY <1>9, <1>10, <1>11, <1>12, <1>13 DEF StepOK

-----------------------------------------------------------------------------
(* Usage data.                                                             *)

LEMMA Observation ==
    ASSUME LimitInv, NEW R \in History, Follows(R), NEW k \in Kind, real[k].active,
           NEW j \in Jitter, NEW l \in Levels, l <= real[k].level
    PROVE  /\ Observed(k, j, l) \in WindowSet
           /\ SeenAs(R, k, Observed(k, j, l).no, Observed(k, j, l).resets)
           /\ Observed(k, j, l).kind = k /\ Observed(k, j, l).no = real[k].no
           /\ Observed(k, j, l).level = l /\ Observed(k, j, l).resets = real[k].resets + j
<1>1. /\ real[k].no \in Nat /\ real[k].resets \in Int /\ now \in Int /\ j \in Int
      /\ R.real = real
  BY LimitPolicyAssumption DEF LimitInv, LimitTypeOK, RealSet, Follows
<1>2. real[k].no # 0 /\ R.at[k][real[k].no] = real[k].resets
  BY <1>1 DEF Follows, RealOK
<1> QED BY <1>1, <1>2 DEF Observed, WindowSet, SeenAs, Born

\* What is known of a hold's window when the data is replaced by a poll.
LEMMA PollSnap ==
    ASSUME LimitInv, NEW R \in History, Follows(R), NEW j \in [Kind -> Jitter],
           NEW sn, sn = [status |-> "ok", fetched |-> now, credit |-> credit,
                         windows |-> {Observed(k, j[k], real[k].level) :
                                        k \in {n \in Kind : real[n].active}}]
    PROVE  /\ sn \in SnapSet /\ SnapOK(R, sn)
           /\ \A x \in st.holds : x.inst.kind \in Kind => HoldSeen(R, sn, x)
<1>1. /\ sn.windows = {Observed(k, j[k], real[k].level) : k \in {n \in Kind : real[n].active}}
      /\ R.real = real
  BY DEF Follows
<1>2. ASSUME NEW k \in Kind, real[k].active
      PROVE  /\ Observed(k, j[k], real[k].level) \in WindowSet
             /\ SeenAs(R, k, Observed(k, j[k], real[k].level).no,
                       Observed(k, j[k], real[k].level).resets)
             /\ Observed(k, j[k], real[k].level).kind = k
             /\ Observed(k, j[k], real[k].level).no = real[k].no
             /\ Observed(k, j[k], real[k].level).level = real[k].level
             /\ real[k].level <= real[k].level
  <2>1. real[k].level \in Levels /\ real[k].level <= real[k].level
    <3>1. real[k].level \in Levels
      BY DEF LimitInv, LimitTypeOK, RealSet
    <3> QED BY <3>1, LimitPolicyAssumption
  <2>2. j[k] \in Jitter
    OBVIOUS
  <2> QED BY <1>2, <2>1, <2>2, Observation
<1>3. ASSUME NEW v \in sn.windows
      PROVE  /\ v \in WindowSet /\ v = Observed(v.kind, j[v.kind], real[v.kind].level)
             /\ SeenAs(R, v.kind, v.no, v.resets)
             /\ v.no = real[v.kind].no /\ v.level = real[v.kind].level /\ real[v.kind].active
             /\ v.level <= real[v.kind].level
  <2>1. PICK k \in Kind : real[k].active /\ v = Observed(k, j[k], real[k].level)
    BY <1>1
  <2> QED BY <1>2, <2>1
<1>4. sn \in SnapSet
  <2>1. sn.windows \in SUBSET WindowSet
    BY <1>3
  <2>2. now \in Int /\ credit \in Credit
    BY DEF LimitInv, LimitTypeOK
  <2> QED BY <1>1, <2>1, <2>2 DEF SnapSet
<1>5. SnapOK(R, sn)
  BY <1>1, <1>3 DEF SnapOK
<1>6. ASSUME NEW x \in st.holds, x.inst.kind \in Kind
      PROVE  HoldSeen(R, sn, x)
  <2>1. x.no \in Nat /\ HoldOK(R, x)
    BY <1>6 DEF Follows, Known, StateOK, HoldsOK, StateSet, HoldSet
  <2>2. x.no <= R.real[x.inst.kind].no /\ R.real[x.inst.kind].no \in Nat
    BY <1>6, <2>1 DEF HoldOK, SeenAs, Born, History, RealSet
  <2>3. \A v \in sn.windows : v.kind = x.inst.kind =>
            v.no >= x.no /\ (v.no = x.no => v.level = Pause)
    BY <1>1, <1>3, <2>1, <2>2 DEF HoldOK
  <2>4. real[x.inst.kind].active => \E v \in sn.windows : v.kind = x.inst.kind
    BY <1>1, <1>2, <1>6
  <2> QED BY <1>1, <2>3, <2>4 DEF HoldSeen
<1> QED BY <1>4, <1>5, <1>6

\* What is known of a hold's window when a live report replaces what the data says of it.
LEMMA LiveSnap ==
    ASSUME LimitInv, NEW R \in History, Follows(R), NEW k \in Kind, real[k].active,
           NEW j \in Jitter, NEW l \in Levels, l <= real[k].level,
           NEW v, v = Observed(k, j, l),
           \A u \in snap.windows : u.kind = k =>
              IF Gap(u.resets, v.resets) <= Tolerance THEN l >= u.level ELSE u.observed < now,
           NEW sn, sn = [snap EXCEPT !.windows = Overlay(@, v),
                                     !.status = IF @ = "none" THEN "ok" ELSE @]
    PROVE  /\ sn \in SnapSet /\ SnapOK(R, sn)
           /\ \A x \in st.holds : x.inst.kind \in Kind => HoldSeen(R, sn, x)
<1>1. R.real = real /\ SnapOK(R, snap) /\ snap \in SnapSet
  BY DEF Follows, LimitInv, LimitTypeOK
<1>2. /\ v \in WindowSet /\ SeenAs(R, k, v.no, v.resets) /\ v.kind = k /\ v.no = real[k].no
      /\ v.level = l /\ v.resets = real[k].resets + j
  BY Observation
<1>3. Overlay(snap.windows, v) \in SUBSET WindowSet
  BY <1>1, <1>2 DEF Overlay, SnapSet
<1>4. sn \in SnapSet /\ sn.windows = Overlay(snap.windows, v)
  BY <1>1, <1>3 DEF SnapSet
<1>5. \A u \in sn.windows : u = v \/ (u \in snap.windows /\ u.kind # k)
  BY <1>2, <1>4 DEF Overlay
<1>6. v \in sn.windows /\ \A u \in snap.windows : u.kind # k => u \in sn.windows
  BY <1>2, <1>4 DEF Overlay
<1>7. SnapOK(R, sn)
  BY <1>1, <1>2, <1>5 DEF SnapOK
<1>8. ASSUME NEW x \in st.holds, x.inst.kind \in Kind
      PROVE  HoldSeen(R, sn, x)
  <2>1. x.no \in Nat /\ HoldOK(R, x) /\ HoldSeen(R, snap, x)
    BY <1>8 DEF Follows, Known, StateOK, HoldsOK, StateSet, HoldSet
  <2>2. CASE x.inst.kind # k
    BY <1>2, <1>5, <1>6, <2>1, <2>2 DEF HoldSeen
  <2>3. CASE x.inst.kind = k
    <3>1. x.no <= v.no
      BY <1>1, <1>2, <2>1, <2>3 DEF HoldOK, SeenAs, Born
    <3>2. ASSUME v.no = x.no PROVE v.level = Pause
      <4>1. PICK u \in snap.windows : u.kind = k
        BY <1>1, <1>2, <2>1, <2>3, <3>2 DEF HoldSeen
      <4>2. /\ u.no \in Nat /\ u.level \in Levels
            /\ SeenAs(R, k, u.no, u.resets)
        BY <1>1, <4>1 DEF SnapOK, SnapSet, WindowSet
      <4>3. u.no >= x.no /\ (u.no = x.no => u.level = Pause)
        BY <2>1, <2>3, <4>1 DEF HoldSeen
      <4>4. u.no = v.no
        BY <1>1, <1>2, <3>2, <4>2, <4>3 DEF SeenAs, Born
      <4>5. PICK i \in Jitter : u.resets = R.at[k][v.no] + i
        BY <4>2, <4>4 DEF SeenAs
      <4>6. PICK m \in Jitter : v.resets = R.at[k][v.no] + m
        BY <1>2 DEF SeenAs
      <4>7. /\ i \in Int /\ m \in Int /\ Tolerance \in Int /\ Minute \in Nat \ {0}
            /\ Minute + 2 * (i - m) <= 2 * Tolerance /\ Minute + 2 * (m - i) <= 2 * Tolerance
        BY LimitPolicyAssumption
      <4>8. R.at[k][v.no] \in Int
        BY <4>2, <4>4 DEF History
      <4>9. Gap(u.resets, v.resets) <= Tolerance
        BY <4>5, <4>6, <4>7, <4>8 DEF Gap
      <4>10. l >= Pause
        BY <3>2, <4>1, <4>3, <4>4, <4>9
      <4>11. l \in 0 .. Pause
        BY LimitPolicyAssumption
      <4> QED BY <1>2, <4>10, <4>11 DEF Pause
    <3> QED BY <1>2, <1>5, <1>6, <2>1, <2>3, <3>1, <3>2 DEF HoldSeen
  <2> QED BY <2>2, <2>3
<1> QED BY <1>4, <1>7, <1>8

-----------------------------------------------------------------------------
(* The actions.                                                            *)

LEMMA StillRemembered ==
    ASSUME LimitInv, left' \in 0 .. MaxOps, left' <= left PROVE Memory(st, sess, paused, left')
<1>1. left \in Nat /\ left' \in Nat
  BY LimitPolicyAssumption DEF LimitInv, LimitTypeOK
<1> QED BY <1>1, LessLeft DEF LimitInv, LimitTypeOK

LEMMA SameSnap ==
    ASSUME NEW R, NEW sn, sn.windows = snap.windows, Follows(R)
    PROVE  SnapOK(R, sn) /\ Known(R, sn, st, sess, paused)
<1>1. SnapOK(R, sn)
  BY DEF Follows, SnapOK
<1>2. \A x \in st.holds : HoldSeen(R, snap, x) => HoldSeen(R, sn, x)
  BY DEF HoldSeen
<1>3. \A x \in st.holds : x.inst.kind \in Kind => HoldSeen(R, sn, x)
  BY <1>2 DEF Follows, Known, StateOK, HoldsOK
<1> QED BY <1>1, <1>3, SnapChanges DEF Follows

LEMMA AdvanceKeeps == ASSUME LimitInv, NEW R \in History, Follows(R), Advance PROVE StepOK
<1>1. /\ now' = now + 1 /\ now \in Nat /\ left \in 0 .. MaxOps
      /\ real' = real /\ credit' = credit /\ conf' = conf /\ snap' = snap /\ left' = left
  BY DEF Advance, LimitInv, LimitTypeOK
<1>2. /\ SnapOK(R, snap) /\ Known(R, snap, st, sess, paused)
      /\ credit \in Credit /\ conf \in ConfSet /\ snap \in SnapSet
  BY DEF Follows, LimitInv, LimitTypeOK
<1>3. CASE Evaluates(conf, snap, st, sess, now')
  <2>1. Memory(st, sess, paused, left')
    BY <1>1, StillRemembered
  <2> QED BY <1>1, <1>2, <1>3, <2>1, PassStep
<1>4. CASE UNCHANGED <<st, sess, paused>> /\ st.holds = {}
  <2>1. LimitTypeOK'
    BY <1>1, <1>2, <1>4 DEF LimitInv, LimitTypeOK
  <2>2. Ended(R, now')
    <3> SUFFICES ASSUME NEW k \in Kind, NEW n \in 1 .. R.real[k].no, R.at[k][n] <= now
                 PROVE  R.at[k][n] <= now'
      BY DEF Follows, Ended
    <3>1. R.at[k][n] \in Int
      BY DEF History, RealSet
    <3> QED BY <1>1, <3>1
  <2>3. Follows(R)'
    BY <1>1, <1>4, <2>2 DEF Follows
  <2>4. FullIsHeld'
    <3> SUFFICES ASSUME NEW v \in snap.windows, v.resets > now + 1
                 PROVE  v.resets > now
      BY <1>1, <1>4 DEF FullIsHeld, LimitInv
    <3>1. v.resets \in Int
      BY <1>2 DEF SnapSet, WindowSet
    <3> QED BY <1>1, <3>1
  <2>5. AllBounded'
    BY <1>4 DEF AllBounded
  <2>6. WarnOnce /\ PauseOnce /\ EndsEarlyNever /\ PausesRightly
    BY <1>4 DEF WarnOnce, PauseOnce, EndsEarlyNever, PausesRightly
  <2>7. Memory(st, sess, paused, left)'
    BY <1>1, <1>4 DEF LimitInv
  <2> QED BY <2>1, <2>3, <2>4, <2>5, <2>6, <2>7 DEF StepOK, LimitInv
<1> QED BY <1>1, <1>3, <1>4 DEF Advance

LEMMA PollKeeps == ASSUME LimitInv, NEW R \in History, Follows(R), Poll PROVE StepOK
<1>1. PICK j \in [Kind -> Jitter] :
         snap' = [status |-> "ok", fetched |-> now, credit |-> credit,
                  windows |-> {Observed(k, j[k], real[k].level) :
                                 k \in {n \in Kind : real[n].active}}]
  BY DEF Poll
<1>2. /\ now' = now /\ now \in Nat /\ left \in 0 .. MaxOps /\ real' = real /\ credit' = credit
      /\ conf' = conf /\ left' = left /\ credit \in Credit /\ conf \in ConfSet
      /\ Evaluates(conf, snap', st, sess, now)
  BY DEF Poll, LimitInv, LimitTypeOK, world
<1>3. PICK sn : sn = snap'
  OBVIOUS
<1>4. /\ sn \in SnapSet /\ SnapOK(R, sn)
      /\ \A x \in st.holds : x.inst.kind \in Kind => HoldSeen(R, sn, x)
  BY <1>1, <1>3, PollSnap
<1>5. Known(R, sn, st, sess, paused)
  BY <1>4, SnapChanges DEF Follows
<1>6. Memory(st, sess, paused, left')
  BY <1>2, StillRemembered
<1> QED BY <1>2, <1>3, <1>4, <1>5, <1>6, PassStep

LEMMA PollFailsKeeps == ASSUME LimitInv, NEW R \in History, Follows(R), PollFails PROVE StepOK
<1>1. /\ now' = now /\ now \in Nat /\ left \in 0 .. MaxOps /\ real' = real /\ credit' = credit
      /\ conf' = conf /\ left' = left /\ credit \in Credit /\ conf \in ConfSet
      /\ snap' = [snap EXCEPT !.status = "bad"] /\ snap \in SnapSet
      /\ Evaluates(conf, snap', st, sess, now)
  BY DEF PollFails, LimitInv, LimitTypeOK, world
<1>2. PICK sn : sn = snap'
  OBVIOUS
<1>3. sn \in SnapSet /\ sn.windows = snap.windows
  BY <1>1, <1>2 DEF SnapSet
<1>4. SnapOK(R, sn) /\ Known(R, sn, st, sess, paused)
  BY <1>3, SameSnap
<1>5. Memory(st, sess, paused, left')
  BY <1>1, StillRemembered
<1> QED BY <1>1, <1>2, <1>3, <1>4, <1>5, PassStep

LEMMA LiveReportKeeps ==
    ASSUME LimitInv, NEW R \in History, Follows(R), NEW k \in Kind, LiveReport(k) PROVE StepOK
<1>1. /\ now' = now /\ now \in Nat /\ left \in 0 .. MaxOps /\ real' = real /\ credit' = credit
      /\ conf' = conf /\ left' = left /\ credit \in Credit /\ conf \in ConfSet
      /\ Evaluates(conf, snap', st, sess, now) /\ real[k].active
  BY DEF LiveReport, LimitInv, LimitTypeOK, world
<1>2. PICK j \in Jitter, l \in {n \in Levels : n <= real[k].level} :
        LET v == Observed(k, j, l) IN
        /\ \A u \in snap.windows : u.kind = k =>
              IF Gap(u.resets, v.resets) <= Tolerance THEN l >= u.level ELSE u.observed < now
        /\ snap' = [snap EXCEPT !.windows = Overlay(@, v),
                                !.status = IF @ = "none" THEN "ok" ELSE @]
  BY DEF LiveReport
<1>3. PICK sn : sn = snap'
  OBVIOUS
<1>4. /\ sn \in SnapSet /\ SnapOK(R, sn)
      /\ \A x \in st.holds : x.inst.kind \in Kind => HoldSeen(R, sn, x)
  BY <1>1, <1>2, <1>3, LiveSnap
<1>5. Known(R, sn, st, sess, paused)
  BY <1>4, SnapChanges DEF Follows
<1>6. Memory(st, sess, paused, left')
  BY <1>1, StillRemembered
<1> QED BY <1>1, <1>3, <1>4, <1>5, <1>6, PassStep

LEMMA ConfigChangeKeeps ==
    ASSUME LimitInv, NEW R \in History, Follows(R), ConfigChange PROVE StepOK
<1>1. /\ now' = now /\ now \in Nat /\ left' \in 0 .. MaxOps /\ left' <= left /\ real' = real
      /\ credit' = credit /\ credit \in Credit /\ snap' = snap /\ snap \in SnapSet
      /\ Evaluates(conf', snap, st, sess, now)
  BY LimitPolicyAssumption DEF ConfigChange, LimitInv, LimitTypeOK, world
<1>2. conf' \in ConfSet
  <2>1. {FALSE, Credits} \subseteq BOOLEAN /\ {FALSE, "model_scoped" \in Kind} \subseteq BOOLEAN
    BY LimitPolicyAssumption
  <2>2. conf' \in [enabled : BOOLEAN, spill : {FALSE, Credits},
                   warnOnly : {FALSE, "model_scoped" \in Kind}]
    BY DEF ConfigChange
  <2>3. PICK A \in SUBSET BOOLEAN, B \in SUBSET BOOLEAN :
          A = {FALSE, Credits} /\ B = {FALSE, "model_scoped" \in Kind}
    BY <2>1
  <2>4. conf' \in [enabled : BOOLEAN, spill : A, warnOnly : B]
    BY <2>2, <2>3
  <2> QED BY <2>4 DEF ConfSet
<1>3. Memory(st, sess, paused, left')
  BY <1>1, StillRemembered
<1> QED BY <1>1, <1>2, <1>3, PassStep DEF Follows

\* A step that makes no pass.
LEMMA OtherStep ==
    ASSUME LimitInv, NEW R \in History, Follows(R)', LimitTypeOK',
           UNCHANGED <<now, conf, snap, paused>>, st'.warned = st.warned, AllBounded',
           Memory(st', sess', paused', left'),
           \A i \in Session : sess'[i].state = "paused" => sess[i].state = "paused",
           \A x \in st'.holds : x.inst.kind \in Kind => x.inst \in Insts(st.holds),
           \A x \in st.holds : x.inst.kind \in Kind => x.inst \in Insts(st'.holds)
    PROVE  StepOK
<1>1. FullIsHeld'
  BY DEF FullIsHeld, LimitInv
<1>2. WarnOnce /\ PauseOnce /\ EndsEarlyNever /\ PausesRightly
  BY DEF WarnOnce, PauseOnce, EndsEarlyNever, PausesRightly
<1> QED BY <1>1, <1>2 DEF StepOK, LimitInv

LEMMA SameBounds ==
    ASSUME LimitTypeOK, AllBounded, left' \in 0 .. MaxOps, left' <= left,
           NEW x \in st.holds, x.inst.kind \in Kind
    PROVE  Bounded(x, now, left')
<1>1. /\ GiveUp * (MaxOps - left) \in Nat /\ GiveUp * (MaxOps - left') \in Nat
      /\ GiveUp * (MaxOps - left) <= GiveUp * (MaxOps - left')
  BY Allowance DEF LimitTypeOK
<1>2. x.resets \in Int /\ x.started \in Int /\ now \in Int /\ Delay \in Int
  BY LimitPolicyAssumption DEF LimitTypeOK, StateSet, HoldSet
<1>3. Bounded(x, now, left)
  BY DEF AllBounded
<1>4. PICK a \in Nat : a = GiveUp * (MaxOps - left)
  BY <1>1
<1>5. PICK b \in Nat : b = GiveUp * (MaxOps - left') /\ a <= b
  BY <1>1, <1>4
<1>6. IF x.started = NoTime THEN now < x.resets + Delay + b
      ELSE /\ x.resets + Delay <= x.started /\ now < x.started + GiveUp
           /\ x.started <= x.resets + Delay + b
  BY <1>2, <1>3, <1>4, <1>5 DEF Bounded
<1> QED BY <1>5, <1>6 DEF Bounded

LEMMA UseKeeps ==
    ASSUME LimitInv, NEW R \in History, Follows(R), NEW k \in Kind, Use(k) \/ WindowEnds(k)
    PROVE  StepOK
<1>1. /\ UNCHANGED <<now, credit, conf, snap, st, sess, left, paused>>
      /\ now \in Nat /\ real \in [Kind -> RealSet] /\ R.real = real
      /\ real[k].no \in Nat /\ real[k].resets \in Int /\ real[k].level \in Levels
      /\ real[k].active \in BOOLEAN
  BY DEF Use, WindowEnds, LimitInv, LimitTypeOK, RealSet, Follows
<1>2. (\A l \in Levels : l \in Int) /\ Period \in Nat \ {0}
  BY LimitPolicyAssumption DEF Pause
<1>3. \/ real[k].active /\ \E l \in Levels : l > real[k].level /\ real' = [real EXCEPT ![k].level = l]
      \/ ~real[k].active /\ \E l \in Levels : real' = [real EXCEPT ![k] =
              [no |-> real[k].no + 1, active |-> TRUE, resets |-> now + Period, level |-> l]]
      \/ now >= real[k].resets /\ real' = [real EXCEPT ![k].active = FALSE]
  BY DEF Use, WindowEnds
<1>4. /\ real' \in [Kind -> RealSet]
      /\ \A c \in Kind \ {k} : real'[c] = real[c]
      /\ \/ /\ real'[k].no = real[k].no /\ real'[k].resets = real[k].resets
            /\ real'[k].level >= real[k].level
            /\ \/ real'[k].active = real[k].active
               \/ ~real'[k].active /\ now >= real[k].resets
         \/ /\ ~real[k].active /\ real'[k].no = real[k].no + 1 /\ real'[k].resets = now + Period
            /\ real'[k].active
  <2>1. CASE real[k].active /\ \E l \in Levels : l > real[k].level /\ real' = [real EXCEPT ![k].level = l]
    <3>1. PICK l \in Levels : l > real[k].level /\ real' = [real EXCEPT ![k].level = l]
      BY <2>1
    <3>2. real[k] \in RealSet
      BY <1>1
    <3>3. PICK r : r = [real[k] EXCEPT !.level = l]
      OBVIOUS
    <3>4. /\ r \in RealSet /\ r.no = real[k].no /\ r.resets = real[k].resets /\ r.level = l
          /\ r.active = real[k].active
      BY <3>2, <3>3 DEF RealSet
    <3>5. real' = [real EXCEPT ![k] = r]
      BY <3>1, <3>3
    <3>6. real'[k] = r /\ real' \in [Kind -> RealSet] /\ \A c \in Kind \ {k} : real'[c] = real[c]
      BY <1>1, <3>4, <3>5
    <3>7. l >= real[k].level
      BY <1>1, <1>2, <3>1
    <3> QED BY <3>4, <3>6, <3>7
  <2>2. CASE ~real[k].active /\ \E l \in Levels : real' = [real EXCEPT ![k] =
              [no |-> real[k].no + 1, active |-> TRUE, resets |-> now + Period, level |-> l]]
    <3>1. PICK l \in Levels : real' = [real EXCEPT ![k] =
              [no |-> real[k].no + 1, active |-> TRUE, resets |-> now + Period, level |-> l]]
      BY <2>2
    <3>2. PICK r : r = [no |-> real[k].no + 1, active |-> TRUE, resets |-> now + Period, level |-> l]
      OBVIOUS
    <3>3. /\ r \in RealSet /\ r.no = real[k].no + 1 /\ r.resets = now + Period /\ r.active
      BY <1>1, <1>2, <3>2 DEF RealSet
    <3>4. real'[k] = r /\ real' \in [Kind -> RealSet] /\ \A c \in Kind \ {k} : real'[c] = real[c]
      BY <1>1, <3>1, <3>2, <3>3
    <3> QED BY <2>2, <3>3, <3>4
  <2>3. CASE now >= real[k].resets /\ real' = [real EXCEPT ![k].active = FALSE]
    <3>1. real[k] \in RealSet
      BY <1>1
    <3>2. PICK r : r = [real[k] EXCEPT !.active = FALSE]
      OBVIOUS
    <3>3. /\ r \in RealSet /\ r.no = real[k].no /\ r.resets = real[k].resets
          /\ r.level = real[k].level /\ ~r.active
      BY <3>1, <3>2 DEF RealSet
    <3>4. real' = [real EXCEPT ![k] = r]
      BY <2>3, <3>2
    <3>5. real'[k] = r /\ real' \in [Kind -> RealSet] /\ \A c \in Kind \ {k} : real'[c] = real[c]
      BY <1>1, <3>3, <3>4
    <3>6. real[k].level >= real[k].level
      BY <1>1, <1>2
    <3> QED BY <2>3, <3>3, <3>5, <3>6
  <2> QED BY <1>3, <2>1, <2>2, <2>3
<1>5. PICK at : at = [c \in Kind |-> [n \in Nat |->
                        IF c = k /\ n = real'[k].no THEN real'[k].resets ELSE R.at[c][n]]]
  OBVIOUS
<1>6. /\ R.at \in [Kind -> [Nat -> Int]]
      /\ real'[k].resets \in Int /\ real'[k].no \in Nat
  BY <1>4 DEF History, RealSet
<1>7. /\ at \in [Kind -> [Nat -> Int]]
      /\ at[k][real'[k].no] = real'[k].resets
      /\ \A n \in Nat : n # real'[k].no => at[k][n] = R.at[k][n]
      /\ \A c \in Kind \ {k} : at[c] = R.at[c]
  <2>1. \A c \in Kind \ {k} : \A n \in Nat : at[c][n] = R.at[c][n]
    BY <1>5
  <2>2. at \in [Kind -> [Nat -> Int]]
    BY <1>5, <1>6
  <2>3. \A c \in Kind \ {k} : at[c] = R.at[c]
    BY <1>6, <2>1, <2>2
  <2> QED BY <1>5, <1>6, <2>2, <2>3
<1>8. PICK N \in History : N = [at |-> at, real |-> real']
  BY <1>4, <1>7 DEF History
<1>9. N.at = at /\ N.real = real'
  BY <1>8
<1>10. /\ R.real[k].no # 0 => R.at[k][real[k].no] = real[k].resets
       /\ R.real[k].active => R.real[k].no # 0
       /\ \A m, n \in 1 .. real[k].no : m < n => R.at[k][m] + Period <= R.at[k][n]
       /\ \A n \in 1 .. real[k].no : (real[k].active /\ n = real[k].no) \/ R.at[k][n] <= now
  BY <1>1 DEF Follows, RealOK, Ended
<1>11. \A n \in 1 .. real[k].no : at[k][n] = R.at[k][n]
  <2>1. CASE real'[k].no = real[k].no
    <3> SUFFICES ASSUME NEW n \in 1 .. real[k].no PROVE at[k][n] = R.at[k][n]
      OBVIOUS
    <3>1. CASE n = real[k].no
      BY <1>1, <1>4, <1>7, <1>10, <2>1, <3>1
    <3>2. CASE n # real[k].no
      BY <1>7, <2>1, <3>2
    <3> QED BY <3>1, <3>2
  <2>2. CASE real'[k].no = real[k].no + 1
    BY <1>1, <1>7, <2>2
  <2> QED BY <1>4, <2>1, <2>2
<1>12. /\ real'[k].active => real'[k].no # 0
       /\ real'[k].no # 0 => at[k][real'[k].no] = real'[k].resets
       /\ \A m, n \in 1 .. real'[k].no : m < n => at[k][m] + Period <= at[k][n]
       /\ \A n \in 1 .. real'[k].no : (real'[k].active /\ n = real'[k].no) \/ at[k][n] <= now
  <2>1. CASE real'[k].no = real[k].no
    <3>1. /\ real'[k].active => real'[k].no # 0
          /\ \A m, n \in 1 .. real'[k].no : m < n => at[k][m] + Period <= at[k][n]
      BY <1>1, <1>4, <1>10, <1>11, <2>1
    <3>2. ASSUME NEW n \in 1 .. real'[k].no, ~(real'[k].active /\ n = real'[k].no)
          PROVE  at[k][n] <= now
      <4>1. CASE real[k].active /\ n = real[k].no
        <5>1. now >= real[k].resets
          BY <1>1, <1>4, <2>1, <3>2, <4>1
        <5> QED BY <1>1, <1>10, <1>11, <2>1, <4>1, <5>1
      <4>2. CASE ~(real[k].active /\ n = real[k].no)
        BY <1>10, <1>11, <2>1, <3>2, <4>2
      <4> QED BY <4>1, <4>2
    <3> QED BY <1>7, <3>1, <3>2
  <2>2. CASE ~real[k].active /\ real'[k].no = real[k].no + 1 /\ real'[k].resets = now + Period
             /\ real'[k].active
    <3>1. \A n \in 1 .. real[k].no : at[k][n] <= now /\ at[k][n] \in Int
      BY <1>10, <1>11, <2>2, <1>7
    <3>2. ASSUME NEW m \in 1 .. real'[k].no, NEW n \in 1 .. real'[k].no, m < n
          PROVE  at[k][m] + Period <= at[k][n]
      <4>1. m \in 1 .. real[k].no
        BY <1>1, <2>2, <3>2
      <4>2. CASE n \in 1 .. real[k].no
        BY <1>10, <1>11, <3>2, <4>1, <4>2
      <4>3. CASE n = real'[k].no
        BY <1>1, <1>2, <1>7, <2>2, <3>1, <4>1, <4>3
      <4> QED BY <1>1, <2>2, <4>2, <4>3
    <3>3. ASSUME NEW n \in 1 .. real'[k].no, n # real'[k].no PROVE at[k][n] <= now
      <4>1. n \in 1 .. real[k].no
        BY <1>1, <2>2, <3>3
      <4> QED BY <3>1, <4>1
    <3> QED BY <1>1, <1>7, <2>2, <3>2, <3>3
  <2> QED BY <1>4, <2>1, <2>2
<1>13. RealOK(N) /\ Ended(N, now)
  <2>1. ASSUME NEW c \in Kind, c # k
        PROVE  /\ N.real[c] = R.real[c] /\ N.at[c] = R.at[c]
    BY <1>1, <1>4, <1>7, <1>9, <2>1
  <2>2. RealOK(R) /\ Ended(R, now)
    BY DEF Follows
  <2>3. ASSUME NEW c \in Kind
        PROVE  /\ N.real[c].active => N.real[c].no # 0
               /\ N.real[c].no # 0 => N.at[c][N.real[c].no] = N.real[c].resets
               /\ \A m, n \in 1 .. N.real[c].no : m < n => N.at[c][m] + Period <= N.at[c][n]
               /\ \A n \in 1 .. N.real[c].no :
                     (N.real[c].active /\ n = N.real[c].no) \/ N.at[c][n] <= now
    <3>1. CASE c = k
      BY <1>9, <1>12, <3>1
    <3>2. CASE c # k
      BY <2>1, <2>2, <3>2 DEF RealOK, Ended
    <3> QED BY <3>1, <3>2
  <2> QED BY <2>3 DEF RealOK, Ended
<1>14. GoesOn(R, N)
  <2> SUFFICES ASSUME NEW c \in Kind
               PROVE  /\ R.real[c].no <= N.real[c].no
                      /\ \A n \in 1 .. R.real[c].no : N.at[c][n] = R.at[c][n]
                      /\ N.real[c].no = R.real[c].no =>
                            /\ R.real[c].level <= N.real[c].level
                            /\ N.real[c].active => R.real[c].active
    BY DEF GoesOn
  <2>1. CASE c = k
    <3>1. real'[k].level \in Levels
      BY <1>4 DEF RealSet
    <3>2. real[k].level \in Int /\ real'[k].level \in Int
      BY <1>1, <1>2, <3>1
    <3> QED BY <1>1, <1>4, <1>9, <1>11, <2>1, <3>2
  <2>2. CASE c # k
    <3>1. N.real[c] = real[c] /\ N.at[c] = R.at[c]
      BY <1>4, <1>7, <1>9, <2>2
    <3>2. real[c].no \in Int /\ real[c].level \in Levels
      BY <1>1 DEF RealSet
    <3>3. real[c].level \in Int
      BY <1>2, <3>2
    <3> QED BY <1>1, <3>1, <3>2, <3>3
  <2> QED BY <2>1, <2>2
<1>15. SnapOK(N, snap) /\ Known(N, snap, st, sess, paused)
  BY <1>13, <1>14, WorldMoves DEF Follows, LimitInv, LimitTypeOK
<1>16. Follows(N)'
  BY <1>1, <1>9, <1>13, <1>15 DEF Follows
<1>17. LimitTypeOK'
  BY <1>1, <1>4 DEF LimitInv, LimitTypeOK
<1>18. AllBounded'
  BY <1>1 DEF LimitInv, AllBounded
<1> QED BY <1>1, <1>16, <1>17, <1>18, OtherStep DEF Insts, LimitInv

LEMMA CreditMovesKeeps ==
    ASSUME LimitInv, NEW R \in History, Follows(R), CreditMoves PROVE StepOK
<1>1. /\ UNCHANGED <<now, real, conf, snap, st, sess, paused>> /\ credit' \in Credit
      /\ left' \in 0 .. MaxOps /\ left' <= left
  BY LimitPolicyAssumption DEF CreditMoves, LimitInv, LimitTypeOK
<1>2. Follows(R)'
  BY <1>1 DEF Follows
<1>3. LimitTypeOK'
  BY <1>1 DEF LimitInv, LimitTypeOK
<1>4. AllBounded'
  <2> SUFFICES ASSUME NEW x \in st.holds, x.inst.kind \in Kind PROVE Bounded(x, now, left')
    BY <1>1 DEF AllBounded, Bounded
  <2> QED BY <1>1, SameBounds DEF LimitInv
<1>5. Memory(st, sess, paused, left')
  BY <1>1, StillRemembered
<1> QED BY <1>1, <1>2, <1>3, <1>4, <1>5, OtherStep DEF Insts

\* A manual hold changes nothing about the windows.
LEMMA ManualPauseKeeps ==
    ASSUME LimitInv, NEW R \in History, Follows(R), NEW scope \in {"all"} \cup Session,
           ManualPause(scope)
    PROVE  StepOK
<1> DEFINE inst == [kind |-> "manual", scope |-> scope, at |-> left]
           held == [st EXCEPT !.holds = @ \cup {Hold(inst, left, NoTime)}, !.paused = @ \cup {inst}]
<1>1. /\ now' = now /\ now \in Nat /\ real' = real /\ credit' = credit /\ credit \in Credit
      /\ conf' = conf /\ conf \in ConfSet /\ snap' = snap /\ snap \in SnapSet
      /\ left \in 0 .. MaxOps /\ left' \in 0 .. MaxOps /\ left' < left /\ left' <= left /\ MaxOps \in Nat
  BY LimitPolicyAssumption DEF ManualPause, LimitInv, LimitTypeOK, world
<1>2. PICK s \in {st, held} : Evaluates(conf, snap, s, sess, now)
  BY DEF ManualPause
<1>3. PICK h : h = Hold(inst, left, NoTime)
  OBVIOUS
<1>4. h \in HoldSet /\ h.inst = inst /\ inst \in KeySet /\ inst.kind \notin Kind
  BY <1>1, <1>3, OtherKinds DEF Hold, HoldSet, KeySet, Kinds, NoTime
<1> HIDE DEF inst
<1>5. /\ SnapOK(R, snap) /\ Known(R, snap, st, sess, paused) /\ st \in StateSet
      /\ HoldsOK(R, snap, st) /\ PausedOK(R, st, paused)
  BY DEF Follows, Known, StateOK
<1>8. Memory(st, sess, paused, left')
  BY <1>1, StillRemembered
<1>6. CASE s = st
  BY <1>1, <1>2, <1>5, <1>6, <1>8, PassStep
<1>7. CASE s = held
  <2>1. /\ s \in StateSet /\ s.holds = st.holds \cup {h} /\ s.paused = st.paused \cup {inst}
        /\ s.warned = st.warned /\ s.released = st.released
    BY <1>3, <1>4, <1>5, <1>7 DEF StateSet
  <2>2. \A y \in s.holds : y.inst.kind \in Kind => y \in st.holds
    BY <1>4, <2>1
  <2>3. HoldsOK(R, snap, s)
    BY <1>4, <1>5, <2>1, <2>2 DEF HoldsOK
  <2>4. \A i \in s.released : i.kind \in Kind => i \in st.paused
    BY <1>5, <2>1 DEF PausedOK
  <2>5. \A i \in st.paused \cup s.paused : i.kind \in Kind => (i \in st.paused /\ i \in s.paused)
    BY <1>4, <2>1
  <2>6. Known(R, snap, s, sess, paused)
    BY <1>5, <2>1, <2>3, <2>4, <2>5, StateChanges
  <2>7. Memory(s, sess, paused, left')
    <3> SUFFICES ASSUME ~ModelBack PROVE Remembers(s, sess, paused, left')
      BY DEF Memory
    <3>1. Remembers(st, sess, paused, left')
      BY <1>8 DEF Memory
    <3>2. HoldsNamed(st, left) /\ \A i \in Session : DoneOK(st, paused, left, sess[i].done)
      BY DEF LimitInv, Memory, Remembers, RecordOK
    <3>3. h.inst.kind = "manual" /\ h.no = left /\ left > left'
      BY <1>1, <1>3 DEF Hold, inst
    <3>4. HoldsNamed(s, left')
      <4>1. \A x \in st.holds : x.inst.kind = "manual" => x.no # h.no
        BY <1>1, <3>2, <3>3 DEF HoldsNamed
      <4> QED BY <2>1, <3>1, <3>3, <4>1 DEF HoldsNamed, Remembers
    <3>5. ASSUME NEW i \in Session PROVE RecordOK(s, paused, left', i, sess[i])
      <4>1. RecordOK(st, paused, left', i, sess[i])
        BY <3>1 DEF Remembers
      <4>2. <<h.inst.kind, h.no>> \notin sess[i].done
        BY <1>1, <3>2, <3>3 DEF DoneOK
      <4> QED BY <2>1, <4>1, <4>2 DEF RecordOK, DoneOK, CoversAll
    <3> QED BY <3>4, <3>5 DEF Remembers
  <2> QED BY <1>1, <1>2, <1>5, <2>1, <2>2, <2>6, <2>7, PassStep
<1> QED BY <1>2, <1>6, <1>7

LEMMA ReleasedKnown ==
    ASSUME NEW R, NEW sn, NEW s, NEW ss, NEW p, Known(R, sn, s, ss, p), NEW H \in SUBSET s.holds,
           NEW e, e = Released(s, H)
    PROVE  /\ Known(R, sn, e, ss, p) /\ e.warned = s.warned
           /\ e.holds = s.holds \ H /\ e.released = s.released \cup Insts(H)
           /\ e.paused = s.paused
<1>1. s \in StateSet /\ HoldsOK(R, sn, s) /\ PausedOK(R, s, p)
  BY DEF Known, StateOK
<1>2. Insts(H) \subseteq KeySet
  BY <1>1 DEF Insts, StateSet, HoldSet
<1>3. /\ e \in StateSet /\ e.holds = s.holds \ H /\ e.released = s.released \cup Insts(H)
      /\ e.warned = s.warned /\ e.paused = s.paused
  BY <1>1, <1>2 DEF Released, StateSet
<1>4. HoldsOK(R, sn, e)
  <2> SUFFICES ASSUME NEW x \in e.holds, x.inst.kind \in Kind
               PROVE  /\ x.inst \in e.paused /\ x.inst \notin e.released
                      /\ HoldOK(R, x) /\ HoldSeen(R, sn, x)
                      /\ \A y \in e.holds : y.inst = x.inst => y = x
    BY DEF HoldsOK
  <2>1. /\ x.inst \in s.paused /\ x.inst \notin s.released
        /\ HoldOK(R, x) /\ HoldSeen(R, sn, x)
        /\ \A y \in s.holds : y.inst = x.inst => y = x
    BY <1>1, <1>3 DEF HoldsOK
  <2>2. x.inst \notin Insts(H)
    BY <1>3, <2>1 DEF Insts
  <2> QED BY <1>3, <2>1, <2>2
<1>5. \A i \in e.released : i.kind \in Kind => i \in s.paused
  BY <1>1, <1>3 DEF PausedOK, HoldsOK, Insts
<1>6. /\ s.released \subseteq e.released
      /\ \A i \in s.paused \cup e.paused : i.kind \in Kind => (i \in s.paused /\ i \in e.paused)
  BY <1>3
<1>7. Known(R, sn, e, ss, p)
  BY <1>3, <1>4, <1>5, <1>6, StateChanges
<1> QED BY <1>3, <1>7

LEMMA ResumeAllKeeps ==
    ASSUME LimitInv, NEW R \in History, Follows(R), ResumeAll PROVE StepOK
<1>1. /\ now' = now /\ now \in Nat /\ real' = real /\ credit' = credit /\ credit \in Credit
      /\ conf' = conf /\ conf \in ConfSet /\ snap' = snap /\ snap \in SnapSet
      /\ left' = left /\ left \in 0 .. MaxOps
  BY DEF ResumeAll, LimitInv, LimitTypeOK, world
<1>2. PICK s : s = Released(st, st.holds) /\ Evaluates(conf, snap, s, sess, now)
  BY DEF ResumeAll
<1>3. st.holds \in SUBSET st.holds
  OBVIOUS
<1>4. /\ Known(R, snap, s, sess, paused) /\ s.warned = st.warned
      /\ s.holds = st.holds \ st.holds /\ s.released = st.released \cup Insts(st.holds)
      /\ s.paused = st.paused
  BY <1>2, <1>3, ReleasedKnown DEF Follows
<1>5. \A y \in st.holds : y.inst.kind \in Kind => y \in s.holds \/ y.inst \in s.released
  BY <1>4 DEF Insts
<1>6. SnapOK(R, snap)
  BY DEF Follows
<1>7. Memory(s, sess, paused, left')
  BY <1>1, <1>4, FewerRemembered DEF LimitInv
<1> QED BY <1>1, <1>2, <1>4, <1>5, <1>6, <1>7, PassStep

LEMMA ResumeSessionKeeps ==
    ASSUME LimitInv, NEW R \in History, Follows(R), NEW i \in Session, ResumeSession(i)
    PROVE  StepOK
<1>1. PICK own : own = {x \in st.holds : x.inst.kind = "manual" /\ x.inst.scope = i}
  OBVIOUS
<1>2. PICK r : r = Overridden(st.holds \ own, i, sess[i])
  OBVIOUS
<1>3. /\ UNCHANGED <<now, real, credit, conf, snap, left, paused>>
      /\ st' = Released(st, own) /\ sess[i].on
      /\ \/ sess' = sess
         \/ \E l \in {"running", "overridden"} : sess' = [sess EXCEPT ![i] = [r EXCEPT !.state = l]]
  BY <1>1, <1>2 DEF ResumeSession, world
<1>4. /\ Known(R, snap, st, sess, paused) /\ SnapOK(R, snap) /\ st \in StateSet
      /\ sess \in [Session -> RecordSet] /\ own \in SUBSET st.holds
  BY <1>1 DEF Follows, Known, StateOK
<1>5. st.holds \ own \in SUBSET HoldSet /\ Insts(st.holds \ own) \subseteq Insts(st.holds)
  BY <1>4 DEF StateSet, Insts
<1>6. OverriddenTo(st.holds \ own, i, sess[i], r)
  BY <1>2, <1>4, <1>5, OverriddenIs
<1>7. /\ r \in RecordSet /\ r.pend = sess[i].pend
      /\ r.over \subseteq sess[i].over \cup Insts(st.holds)
  BY <1>5, <1>6 DEF OverriddenTo
<1>8. PICK e \in RecordSet :
          /\ sess' = sess \/ sess' = [sess EXCEPT ![i] = e]
          /\ e.over = r.over /\ e.pend = r.pend /\ e.done = r.done /\ e.on = r.on
          /\ e.model = r.model /\ e.state # "paused"
  <2>1. PICK l \in {"running", "overridden"} :
           sess' = sess \/ sess' = [sess EXCEPT ![i] = [r EXCEPT !.state = l]]
    BY <1>3
  <2>2. PICK e : e = [r EXCEPT !.state = l]
    OBVIOUS
  <2>3. /\ e \in RecordSet /\ e.over = r.over /\ e.pend = r.pend /\ e.done = r.done
        /\ e.on = r.on /\ e.model = r.model /\ e.state = l
    BY <1>7, <2>2 DEF RecordSet
  <2> QED BY <2>1, <2>2, <2>3
<1>9. /\ \A c \in Session : sess[c].over \cup sess[c].pend \subseteq KnownInstances(st, sess)
      /\ Insts(st.holds) \subseteq KnownInstances(st, sess)
  BY DEF KnownInstances
<1>10. /\ sess' \in [Session -> RecordSet]
       /\ \A c \in Session : sess'[c].over \cup sess'[c].pend \subseteq KnownInstances(st, sess)
  BY <1>4, <1>7, <1>8, <1>9
<1>11. Known(R, snap, st, sess', paused)
  BY <1>4, <1>10, RecordsChange
<1>12. /\ Known(R, snap, st', sess', paused) /\ st'.warned = st.warned
       /\ st'.holds = st.holds \ own /\ st'.paused = st.paused
  BY <1>3, <1>4, <1>11, ReleasedKnown
<1>13. Follows(R)'
  BY <1>3, <1>12 DEF Follows
<1>14. LimitTypeOK'
  BY <1>3, <1>10, <1>12 DEF LimitInv, LimitTypeOK, Known, StateOK
<1>15. AllBounded'
  BY <1>3, <1>12 DEF AllBounded, LimitInv
<1>16. \A x \in st.holds : x.inst.kind \in Kind => x \in st'.holds
  BY <1>1, <1>12, OtherKinds
<1>17. Memory(st, sess', paused, left)
  <2>1. ModelBack \/ RecordOK(st, paused, left, i, r)
    <3> SUFFICES ASSUME ~ModelBack PROVE RecordOK(st, paused, left, i, r)
      OBVIOUS
    <3>1. HoldsNamed(st, left) /\ RecordOK(st, paused, left, i, sess[i])
      BY DEF LimitInv, Memory, Remembers
    <3> QED BY <1>3, <1>4, <1>6, <3>1, OverrideRecorded DEF Follows
  <2>2. Memory(st, sess, paused, left)
    BY DEF LimitInv
  <2>3. Memory(st, [sess EXCEPT ![i] = e], paused, left)
    BY <1>4, <1>8, <2>1, <2>2, OneRemembered
  <2> QED BY <1>8, <2>2, <2>3
<1>18. Memory(st', sess', paused', left')
  <2>1. \A x \in st'.holds : Traced(st, x)
    BY <1>12 DEF Traced
  <2> QED BY <1>3, <1>12, <1>17, <2>1, FewerRemembered
<1>19. \A c \in Session : sess'[c].state = "paused" => sess[c].state = "paused"
  BY <1>4, <1>8
<1> QED BY <1>3, <1>12, <1>13, <1>14, <1>15, <1>16, <1>18, <1>19, OtherStep DEF Insts

\* A step that only changes the records before its pass.
LEMMA RecordPass ==
    ASSUME LimitInv, NEW R \in History, Follows(R), UNCHANGED <<world, conf, snap, left>>,
           NEW es \in [Session -> RecordSet],
           \A c \in Session : es[c].over \cup es[c].pend \subseteq KnownInstances(st, sess),
           Evaluates(conf, snap, st, es, now), Memory(st, es, paused, left)
    PROVE  StepOK
<1>1. /\ now' = now /\ now \in Nat /\ real' = real /\ credit' = credit /\ credit \in Credit
      /\ conf' = conf /\ conf \in ConfSet /\ snap' = snap /\ snap \in SnapSet
      /\ left' = left /\ left \in 0 .. MaxOps
  BY DEF LimitInv, LimitTypeOK, world
<1>2. SnapOK(R, snap) /\ Known(R, snap, st, es, paused)
  BY RecordsChange DEF Follows
<1> QED BY <1>1, <1>2, PassStep

\* One record changes, and names no new keys but those of the holds.
LEMMA OneRecord ==
    ASSUME sess \in [Session -> RecordSet], NEW i \in Session, NEW e \in RecordSet,
           e.over \cup e.pend \subseteq sess[i].over \cup sess[i].pend \cup Insts(st.holds),
           NEW es, es = [sess EXCEPT ![i] = e]
    PROVE  /\ es \in [Session -> RecordSet]
           /\ \A c \in Session : es[c].over \cup es[c].pend \subseteq KnownInstances(st, sess)
<1>1. /\ \A c \in Session : sess[c].over \cup sess[c].pend \subseteq KnownInstances(st, sess)
      /\ Insts(st.holds) \subseteq KnownInstances(st, sess)
  BY DEF KnownInstances
<1> QED BY <1>1

\* A step that only changes the records.
LEMMA RecordStep ==
    ASSUME LimitInv, NEW R \in History, Follows(R),
           UNCHANGED <<world, conf, snap, st, left, paused>>, sess' \in [Session -> RecordSet],
           \A c \in Session : sess'[c].over \cup sess'[c].pend \subseteq KnownInstances(st, sess),
           Memory(st, sess', paused, left),
           \A c \in Session : sess'[c].state = "paused" => sess[c].state = "paused"
    PROVE  StepOK
<1>1. UNCHANGED <<now, real, credit, conf, snap, st, left, paused>>
  BY DEF world
<1>2. Known(R, snap, st, sess', paused)
  BY RecordsChange DEF Follows
<1>3. Follows(R)'
  BY <1>1, <1>2 DEF Follows
<1>4. LimitTypeOK'
  BY <1>1 DEF LimitInv, LimitTypeOK
<1>5. AllBounded'
  BY <1>1 DEF LimitInv, AllBounded
<1> QED BY <1>1, <1>3, <1>4, <1>5, OtherStep DEF Insts

LEMMA SubmitKeeps ==
    ASSUME LimitInv, NEW R \in History, Follows(R), NEW i \in Session, Submit(i)
    PROVE  StepOK
<1>1. PICK r : r = Overridden(st.holds, i, sess[i])
  OBVIOUS
<1>2. st.holds \in SUBSET HoldSet /\ sess \in [Session -> RecordSet]
  BY DEF LimitInv, LimitTypeOK, StateSet
<1>3. OverriddenTo(st.holds, i, sess[i], r)
  BY <1>1, <1>2, OverriddenIs
<1>4. PICK e : e = [r EXCEPT !.state = "overridden"]
  OBVIOUS
<1>9. e \in RecordSet /\ e.over = r.over /\ e.pend = r.pend
  BY <1>3, <1>4 DEF OverriddenTo, RecordSet
<1>5. PICK es : es = [sess EXCEPT ![i] = e]
  OBVIOUS
<1>6. UNCHANGED <<world, conf, snap, left>> /\ Evaluates(conf, snap, st, es, now)
  BY <1>1, <1>4, <1>5 DEF Submit
<1>7. e.over \cup e.pend \subseteq sess[i].over \cup sess[i].pend \cup Insts(st.holds)
  BY <1>3, <1>9 DEF OverriddenTo
<1>8. /\ es \in [Session -> RecordSet]
      /\ \A c \in Session : es[c].over \cup es[c].pend \subseteq KnownInstances(st, sess)
  BY <1>2, <1>5, <1>7, <1>9, OneRecord
<1>10. ModelBack \/ RecordOK(st, paused, left, i, r)
  <2> SUFFICES ASSUME ~ModelBack PROVE RecordOK(st, paused, left, i, r)
    OBVIOUS
  <2>1. HoldsNamed(st, left) /\ RecordOK(st, paused, left, i, sess[i]) /\ sess[i].on
    BY DEF LimitInv, Memory, Remembers, Submit
  <2> QED BY <1>2, <1>3, <2>1, OverrideRecorded DEF Follows
<1>11. Memory(st, es, paused, left)
  <2>1. /\ Memory(st, sess, paused, left)
        /\ e.done = r.done /\ e.on = r.on /\ e.model = r.model
    BY <1>3, <1>4 DEF LimitInv, OverriddenTo, RecordSet
  <2> QED BY <1>2, <1>5, <1>9, <1>10, <2>1, OneRemembered
<1> QED BY <1>6, <1>8, <1>11, RecordPass

LEMMA StartKeeps ==
    ASSUME LimitInv, NEW R \in History, Follows(R), NEW i \in Session, Start(i)
    PROVE  StepOK
<1>0. PICK new : new = [NoSession EXCEPT !.on = TRUE]
  OBVIOUS
<1>1. new \in RecordSet /\ new.over = {} /\ new.pend = {} /\ new.done = {} /\ new.on
  BY <1>0 DEF NoSession, RecordSet, Models
<1>2. st.holds \in SUBSET HoldSet /\ sess \in [Session -> RecordSet]
  BY DEF LimitInv, LimitTypeOK, StateSet
<1>3. PICK r : r = Overridden(st.holds, i, new)
  OBVIOUS
<1>4. OverriddenTo(st.holds, i, new, r)
  BY <1>1, <1>2, <1>3, OverriddenIs
<1>5. PICK U \in SUBSET HoldSet : U = Undecided(st.holds, new) /\ U \subseteq st.holds
  BY <1>2 DEF Undecided
<1>15. PICK I : I = Insts(U)
  OBVIOUS
<1>6. I \in SUBSET KeySet /\ I \subseteq Insts(st.holds)
  BY <1>5, <1>15, Zenon DEF Insts, HoldSet
<1>7. PICK D \in SUBSET (Kinds \X Nat) : D = Ids(U)
  BY <1>5, IdsOf
<1>8. PICK y : y = [r EXCEPT !.state = IF @ = "running" /\ r.over # {} THEN "overridden" ELSE @,
                             !.pend = I, !.done = @ \cup D]
  OBVIOUS
<1>9. /\ y \in RecordSet /\ y.over = r.over /\ y.pend = I /\ y.done = r.done \cup D
      /\ y.on = r.on /\ y.model = r.model
  BY <1>4, <1>6, <1>8 DEF OverriddenTo, RecordSet
<1>10. /\ UNCHANGED <<world, conf, snap, left>>
       /\ \E anyway \in BOOLEAN :
             Evaluates(conf, snap, st, [sess EXCEPT ![i] = IF ~anyway THEN new ELSE y], now)
  BY <1>0, <1>3, <1>5, <1>15, <1>7, <1>8 DEF Start
<1>11. PICK e \in RecordSet : /\ e = new \/ e = y
                              /\ Evaluates(conf, snap, st, [sess EXCEPT ![i] = e], now)
  BY <1>1, <1>9, <1>10
<1>12. PICK es : es = [sess EXCEPT ![i] = e]
  OBVIOUS
<1>13. e.over \cup e.pend \subseteq sess[i].over \cup sess[i].pend \cup Insts(st.holds)
  BY <1>1, <1>4, <1>6, <1>9, <1>11 DEF OverriddenTo
<1>14. /\ es \in [Session -> RecordSet]
       /\ \A c \in Session : es[c].over \cup es[c].pend \subseteq KnownInstances(st, sess)
  BY <1>2, <1>12, <1>13, OneRecord
<1>16. ASSUME ~ModelBack PROVE RecordOK(st, paused, left, i, e)
  <2>1. HoldsNamed(st, left)
    BY <1>16 DEF LimitInv, Memory, Remembers
  <2>2. RecordOK(st, paused, left, i, new)
    BY <1>1 DEF RecordOK, OverOK, DoneOK, CoversAll
  <2>3. RecordOK(st, paused, left, i, r)
    BY <1>1, <1>2, <1>4, <2>1, <2>2, OverrideRecorded DEF Follows
  <2>4. DoneOK(st, paused, left, D)
    BY <1>5, <1>7, <2>1, IdsDone DEF Follows
  <2>5. OverOK(i, y) /\ DoneOK(st, paused, left, y.done)
    BY <1>1, <1>4, <1>9, <2>3, <2>4 DEF RecordOK, OverOK, DoneOK, OverriddenTo
  <2>6. CoversAll(st, y)
    <3> SUFFICES ASSUME NEW x \in st.holds, <<x.inst.kind, x.no>> \in y.done
                 PROVE  Covered(x, y)
      BY DEF CoversAll
    <3>1. CASE <<x.inst.kind, x.no>> \in r.done
      BY <1>1, <1>4, <1>9, <2>3, <3>1 DEF RecordOK, CoversAll, Covered, OverriddenTo
    <3>2. CASE <<x.inst.kind, x.no>> \in D
      <4>1. PICK u \in U : u.inst.kind = x.inst.kind /\ u.no = x.no
        BY <1>7, <3>2 DEF Ids
      <4>2. u.inst = x.inst
        BY <1>5, <2>1, <4>1, SameIds DEF Follows
      <4> QED BY <1>9, <1>15, <4>1, <4>2 DEF Insts, Covered
    <3> QED BY <1>9, <3>1, <3>2
  <2> QED BY <1>11, <2>2, <2>5, <2>6 DEF RecordOK
<1>17. Memory(st, es, paused, left)
  <2>1. Memory(st, sess, paused, left)
    BY DEF LimitInv
  <2> QED BY <1>2, <1>12, <1>16, <2>1, OneRemembered
<1> QED BY <1>10, <1>11, <1>12, <1>14, <1>17, RecordPass

LEMMA SetModelKeeps ==
    ASSUME LimitInv, NEW R \in History, Follows(R), NEW i \in Session, NEW m \in Models,
           SetModel(i, m)
    PROVE  StepOK
<1>1. sess \in [Session -> RecordSet]
  BY DEF LimitInv, LimitTypeOK
<1>9. PICK e : e = [sess[i] EXCEPT !.model = m]
  OBVIOUS
<1>2. e \in RecordSet /\ e.over = sess[i].over /\ e.pend = sess[i].pend
  BY <1>1, <1>9 DEF RecordSet
<1>3. PICK es : es = [sess EXCEPT ![i] = e]
  OBVIOUS
<1>4. es = [sess EXCEPT ![i].model = m]
  BY <1>9, <1>3
<1>5. /\ UNCHANGED <<world, conf, snap, left>>
      /\ Evaluates(conf, snap, st, es, now) \/ (sess' = es /\ UNCHANGED <<st, paused>>)
  BY <1>4 DEF SetModel
<1>6. /\ es \in [Session -> RecordSet]
      /\ \A c \in Session : es[c].over \cup es[c].pend \subseteq KnownInstances(st, sess)
  BY <1>1, <1>2, <1>3, OneRecord
<1>10. ASSUME ~ModelBack PROVE RecordOK(st, paused, left, i, e)
  <2>1. RecordOK(st, paused, left, i, sess[i])
    BY <1>10 DEF LimitInv, Memory, Remembers
  <2>2. /\ sess[i].on /\ m # "unknown" /\ m # sess[i].model
        /\ ~(m = "scoped" /\ sess[i].model = "other")
    BY <1>10 DEF SetModel
  <2>3. e.on = sess[i].on /\ e.done = sess[i].done /\ e.model = m
    BY <1>1, <1>9 DEF RecordSet
  <2>4. sess[i].model # "other"
    BY <2>2 DEF Models
  <2> QED BY <1>2, <2>1, <2>2, <2>3, <2>4 DEF RecordOK, OverOK, CoversAll, Covered
<1>11. Memory(st, es, paused, left)
  <2>1. Memory(st, sess, paused, left)
    BY DEF LimitInv
  <2> QED BY <1>1, <1>3, <1>10, <2>1, OneRemembered
<1>7. CASE Evaluates(conf, snap, st, es, now)
  BY <1>5, <1>6, <1>7, <1>11, RecordPass
<1>8. CASE sess' = es /\ UNCHANGED <<st, paused>>
  <2>1. e.state = sess[i].state
    BY <1>1, <1>9 DEF RecordSet
  <2>2. \A c \in Session : sess'[c].state = "paused" => sess[c].state = "paused"
    BY <1>1, <1>3, <1>8, <2>1
  <2> QED BY <1>5, <1>6, <1>8, <1>11, <2>2, RecordStep
<1> QED BY <1>5, <1>7, <1>8

LEMMA EndKeeps ==
    ASSUME LimitInv, NEW R \in History, Follows(R), NEW i \in Session, End(i)
    PROVE  StepOK
<1>1. PICK e : e = NoSession
  OBVIOUS
<1>2. e \in RecordSet /\ e.over = {} /\ e.pend = {}
  BY <1>1 DEF NoSession, RecordSet, Models
<1>3. PICK es : es = [sess EXCEPT ![i] = e]
  OBVIOUS
<1>4. /\ UNCHANGED <<now, real, credit, conf, snap, left, paused>>
      /\ sess' = es /\ st' = WithoutOrphans(st, es) /\ sess \in [Session -> RecordSet]
  BY <1>1, <1>3 DEF End, world, LimitInv, LimitTypeOK
<1>5. /\ es \in [Session -> RecordSet]
      /\ \A c \in Session : es[c].over \cup es[c].pend \subseteq KnownInstances(st, sess)
  BY <1>2, <1>3, <1>4, OneRecord
<1>6. Known(R, snap, st, es, paused)
  BY <1>5, RecordsChange DEF Follows
<1>7. PICK s : s = WithoutOrphans(st, es)
  OBVIOUS
<1>8. /\ Keys(R, KnownInstances(s, es)) /\ StateOK(R, KnownInstances(s, es), snap, s, paused)
      /\ s.holds \subseteq st.holds /\ s.warned = st.warned
      /\ s.paused = st.paused /\ \A x \in st.holds : x.inst.kind \in Kind => x \in s.holds
  BY <1>6, <1>7, OrphansEnd
<1>9. Known(R, snap, s, es, paused)
  BY <1>6, <1>8 DEF Known
<1>10. Follows(R)'
  BY <1>4, <1>7, <1>9 DEF Follows
<1>11. LimitTypeOK'
  BY <1>4, <1>5, <1>7, <1>8 DEF LimitInv, LimitTypeOK, StateOK
<1>12. AllBounded'
  BY <1>4, <1>7, <1>8 DEF LimitInv, AllBounded
<1>13. Memory(st, es, paused, left)
  <2>1. /\ Memory(st, sess, paused, left) /\ RecordOK(st, paused, left, i, e)
    BY <1>1 DEF LimitInv, NoSession, RecordOK, OverOK, DoneOK, CoversAll
  <2> QED BY <1>3, <1>4, <2>1, OneRemembered
<1>14. Memory(st', sess', paused', left')
  <2>1. \A x \in s.holds : Traced(st, x)
    BY <1>8 DEF Traced
  <2> QED BY <1>4, <1>7, <1>8, <1>13, <2>1, FewerRemembered
<1>15. \A c \in Session : sess'[c].state = "paused" => sess[c].state = "paused"
  BY <1>1, <1>3, <1>4 DEF NoSession
<1> QED BY <1>4, <1>7, <1>8, <1>10, <1>11, <1>12, <1>14, <1>15, OtherStep DEF Insts

\* A restart forgets the confirmations, and is one of the steps that are bounded.
LEMMA RestartKeeps ==
    ASSUME LimitInv, NEW R \in History, Follows(R), Restart PROVE StepOK
<1> DEFINE again(x) == [x EXCEPT !.started = NoTime]
<1>1. PICK H : H = {again(x) : x \in st.holds}
  OBVIOUS
<1>2. /\ UNCHANGED <<now, real, credit, conf, snap, sess, paused>>
      /\ st' = [st EXCEPT !.holds = H] /\ left' = left - 1 /\ left > 0
      /\ left \in 0 .. MaxOps /\ MaxOps \in Nat /\ st \in StateSet /\ AllBounded /\ now \in Nat
  BY <1>1, LimitPolicyAssumption DEF Restart, world, LimitInv, LimitTypeOK
<1>3. \A x \in st.holds : /\ again(x) \in HoldSet /\ again(x).inst = x.inst /\ again(x).no = x.no
                          /\ again(x).resets = x.resets /\ again(x).started = NoTime
  BY <1>2 DEF StateSet, HoldSet, NoTime
<1> HIDE DEF again
<1>4. /\ st' \in StateSet /\ st'.holds = H /\ st'.warned = st.warned /\ st'.paused = st.paused
      /\ st'.released = st.released
  <2>1. H \in SUBSET HoldSet
    BY <1>1, <1>3
  <2> QED BY <1>2, <2>1 DEF StateSet
<1>5. HoldsOK(R, snap, st) /\ PausedOK(R, st, paused)
  BY DEF Follows, Known, StateOK
<1>6. HoldsOK(R, snap, st')
  <2> SUFFICES ASSUME NEW x \in st.holds, x.inst.kind \in Kind
               PROVE  /\ again(x).inst \in st'.paused /\ again(x).inst \notin st'.released
                      /\ HoldOK(R, again(x)) /\ HoldSeen(R, snap, again(x))
                      /\ \A y \in H : y.inst = again(x).inst => y = again(x)
    BY <1>1, <1>3, <1>4 DEF HoldsOK
  <2>1. /\ x.inst \in st.paused /\ x.inst \notin st.released
        /\ HoldOK(R, x) /\ HoldSeen(R, snap, x)
        /\ \A y \in st.holds : y.inst = x.inst => y = x
    BY <1>5 DEF HoldsOK
  <2>2. HoldOK(R, again(x)) /\ HoldSeen(R, snap, again(x))
    BY <1>3, <2>1 DEF HoldOK, HoldSeen
  <2> QED BY <1>1, <1>3, <1>4, <2>1, <2>2
<1>7. Known(R, snap, st', sess, paused)
  <2>1. \A i \in st'.released : i.kind \in Kind => i \in st.paused
    BY <1>4, <1>5 DEF PausedOK
  <2> QED BY <1>4, <1>6, <2>1, StateChanges DEF Follows
<1>8. Follows(R)'
  BY <1>2, <1>7 DEF Follows
<1>9. LimitTypeOK'
  BY <1>2, <1>4 DEF LimitInv, LimitTypeOK
<1>10. AllBounded'
  <2> SUFFICES ASSUME NEW x \in st.holds, x.inst.kind \in Kind
               PROVE  Bounded(again(x), now, left')
    BY <1>1, <1>2, <1>3, <1>4 DEF AllBounded, Bounded
  <2>1. left' \in 0 .. MaxOps /\ left' + 1 = left /\ left' <= left
    BY <1>2
  <2>2. PICK a \in Nat : a = GiveUp * (MaxOps - left)
    BY <1>2, <2>1, Allowance
  <2>3. PICK b \in Nat : b = GiveUp * (MaxOps - left') /\ b = a + GiveUp
    BY <1>2, <2>1, <2>2, Allowance
  <2>4. /\ x.resets \in Int /\ x.started \in Int /\ Delay \in Nat /\ GiveUp \in Nat \ {0}
    BY <1>2, LimitPolicyAssumption DEF StateSet, HoldSet
  <2>5. Bounded(x, now, left)
    BY <1>2 DEF AllBounded
  <2>6. IF x.started = NoTime THEN now < x.resets + Delay + a
        ELSE now < x.started + GiveUp /\ x.started <= x.resets + Delay + a
    BY <2>2, <2>5 DEF Bounded
  <2>7. now < x.resets + Delay + b
    BY <1>2, <2>3, <2>4, <2>6
  <2> QED BY <1>3, <2>3, <2>7 DEF Bounded
<1>11. Insts(st'.holds) = Insts(st.holds)
  BY <1>1, <1>3, <1>4 DEF Insts
<1>12. Memory(st', sess', paused', left')
  <2>1. \A x \in st'.holds : Traced(st, x)
    BY <1>1, <1>3, <1>4 DEF Traced
  <2>2. Memory(st, sess, paused, left')
    BY <1>2, StillRemembered
  <2> QED BY <1>2, <1>4, <2>1, <2>2, FewerRemembered
<1> QED BY <1>2, <1>4, <1>8, <1>9, <1>10, <1>11, <1>12, OtherStep DEF Insts

-----------------------------------------------------------------------------
(* The theorems.                                                           *)

LEMMA LimitInit == ASSUME Init PROVE LimitInv
<1>1. LimitTypeOK
  <2>1. /\ Credits \in BOOLEAN /\ 0 \in Levels /\ MaxOps \in Nat
    BY LimitPolicyAssumption
  <2>2. NoSession \in RecordSet
    BY DEF NoSession, RecordSet, Models
  <2>3. credit \in Credit /\ conf \in ConfSet /\ snap \in SnapSet
    BY <2>1 DEF Init, Credit, ConfSet, SnapSet, NoTime
  <2>4. real \in [Kind -> RealSet] /\ st \in StateSet
    BY <2>1 DEF Init, RealSet, StateSet
  <2> QED BY <2>1, <2>2, <2>3, <2>4 DEF Init, LimitTypeOK
<1>8. PICK at \in [Kind -> [Nat -> Int]] : TRUE
  <2>1. [n \in Nat |-> 0] \in [Nat -> Int]
    OBVIOUS
  <2>2. PICK zero \in [Nat -> Int] : TRUE
    BY <2>1
  <2>3. [k \in Kind |-> zero] \in [Kind -> [Nat -> Int]]
    OBVIOUS
  <2> QED BY <2>3
<1>2. PICK R \in History : R = [at |-> at, real |-> real]
  BY <1>1 DEF LimitTypeOK, History
<1>3. /\ R.real = real
      /\ \A k \in Kind : ~real[k].active /\ real[k].no = 0
      /\ snap.windows = {} /\ st.holds = {} /\ st.warned = {} /\ st.paused = {}
      /\ st.released = {} /\ paused = {}
      /\ \A i \in Session : sess[i].over = {} /\ sess[i].pend = {}
  BY <1>2 DEF Init, NoSession
<1>4. RealOK(R) /\ Ended(R, now)
  BY <1>3 DEF RealOK, Ended
<1>5. KnownInstances(st, sess) = {}
  BY <1>3 DEF KnownInstances, Insts
<1>6. Follows(R)
  <2>1. SnapOK(R, snap) /\ Keys(R, KnownInstances(st, sess))
    BY <1>3, <1>5 DEF SnapOK, Keys
  <2>2. StateOK(R, KnownInstances(st, sess), snap, st, paused)
    BY <1>1, <1>3 DEF StateOK, Within, HoldsOK, WarnedOK, PausedOK, Insts, LimitTypeOK
  <2> QED BY <1>1, <1>3, <1>4, <2>1, <2>2 DEF Follows, Known, LimitTypeOK
<1>7. FullIsHeld /\ AllBounded
  BY <1>3 DEF FullIsHeld, AllBounded
<1>9. Remembers(st, sess, paused, left)
  <2>1. \A i \in Session : sess[i].done = {}
    BY DEF Init, NoSession
  <2> QED BY <1>3, <2>1 DEF Remembers, HoldsNamed, RecordOK, OverOK, DoneOK, CoversAll
<1> QED BY <1>1, <1>6, <1>7, <1>9 DEF LimitInv, Memory

LEMMA LimitNext == ASSUME LimitInv, [Next]_vars PROVE StepOK
<1>1. PICK R \in History : Follows(R)
  BY DEF LimitInv
<1>2. CASE World
  BY <1>1, <1>2, UseKeeps DEF World
<1>3. CASE CreditMoves
  BY <1>1, <1>3, CreditMovesKeeps
<1>4. CASE Advance
  BY <1>1, <1>4, AdvanceKeeps
<1>5. CASE Poll
  BY <1>1, <1>5, PollKeeps
<1>6. CASE PollFails
  BY <1>1, <1>6, PollFailsKeeps
<1>7. CASE Reports
  BY <1>1, <1>7, LiveReportKeeps DEF Reports
<1>8. CASE ConfigChange
  BY <1>1, <1>8, ConfigChangeKeeps
<1>9. CASE Pauses
  BY <1>1, <1>9, ManualPauseKeeps DEF Pauses
<1>10. CASE ResumeAll
  BY <1>1, <1>10, ResumeAllKeeps
<1>11. CASE Sessions
  BY <1>1, <1>11, ResumeSessionKeeps, SubmitKeeps, StartKeeps, EndKeeps, SetModelKeeps DEF Sessions
<1>12. CASE Restart
  BY <1>1, <1>12, RestartKeeps
<1>13. CASE UNCHANGED vars
  <2>1. UNCHANGED <<now, real, credit, conf, snap, st, sess, left, paused>>
    BY <1>13 DEF vars
  <2>2. Follows(R)' /\ LimitTypeOK' /\ AllBounded'
    BY <1>1, <2>1 DEF Follows, LimitInv, LimitTypeOK, AllBounded
  <2>3. Memory(st', sess', paused', left')
    BY <2>1 DEF LimitInv
  <2> QED BY <1>1, <2>1, <2>2, <2>3, OtherStep DEF Insts
<1> QED BY <1>2, <1>3, <1>4, <1>5, <1>6, <1>7, <1>8, <1>9, <1>10, <1>11, <1>12, <1>13 DEF Next

LEMMA LimitAlways == Spec => []LimitInv
<1>1. LimitInv /\ [Next]_vars => LimitInv'
  BY LimitNext DEF StepOK
<1> QED BY <1>1, LimitInit, PTL DEF Spec

\* No hold outlives its reset by more than the confirmation may take, which each restart of
\* the daemon may start again: HoldBounded, for any polls that fail, come late or never.
THEOREM HoldsEnd == Spec => []HoldBounded
<1>1. ASSUME LimitInv, NEW x \in st.holds, x.inst.kind \in Kind
      PROVE  now <= x.resets + Delay + GiveUp * (1 + MaxOps - left)
  <2>1. /\ left \in 0 .. MaxOps /\ MaxOps \in Nat /\ now \in Nat
        /\ x.resets \in Int /\ x.started \in Int /\ Delay \in Nat /\ GiveUp \in Nat \ {0}
    BY <1>1, LimitPolicyAssumption DEF LimitInv, LimitTypeOK, StateSet, HoldSet
  <2>2. PICK m \in Nat : m = MaxOps - left
    BY <2>1
  <2>3. PICK a \in Nat : a = GiveUp * m
    BY <2>1, <2>2
  <2>4. 1 + MaxOps - left = 1 + m /\ GiveUp * (1 + m) = GiveUp + a
    BY <2>1, <2>2, <2>3
  <2>5. IF x.started = NoTime THEN now < x.resets + Delay + a
        ELSE now < x.started + GiveUp /\ x.started <= x.resets + Delay + a
    BY <1>1, <2>2, <2>3 DEF LimitInv, AllBounded, Bounded
  <2>6. now <= x.resets + Delay + (GiveUp + a)
    BY <2>1, <2>3, <2>5
  <2> QED BY <2>4, <2>6
<1>2. LimitInv => HoldBounded
  BY <1>1 DEF HoldBounded
<1> QED BY <1>2, LimitAlways, PTL

\* A window that the data shows full and not yet reset has got its hold, unless supervision
\* is off, only warns, or spills over: no window is taken for an earlier one.
THEOREM FullWindowsHeld == Spec => []FullIsHeld
<1>1. LimitInv => FullIsHeld
  BY DEF LimitInv
<1> QED BY <1>1, LimitAlways, PTL

\* A window warns once per level and is held once, however its reset time jitters.
THEOREM OncePerWindow == Spec => ActsOnce
<1>1. LimitInv /\ [Next]_vars => [WarnOnce /\ PauseOnce]_vars
  BY LimitNext DEF StepOK
<1> QED BY <1>1, LimitAlways, PTL DEF Spec, ActsOnce

\* A hold that ends by itself ends after its window: a reset is never confirmed by data that
\* only jitters.
THEOREM HeldUntilReset == Spec => NoEarlyRelease
<1>1. LimitInv /\ [Next]_vars => [EndsEarlyNever]_vars
  BY LimitNext DEF StepOK
<1>2. Spec => [][EndsEarlyNever]_vars
  BY <1>1, LimitAlways, PTL DEF Spec
<1> QED BY <1>2 DEF NoEarlyRelease, EndsEarlyNever

\* If no session returns to the scoped model, no step pauses a session for a hold that the
\* user overrode in it, or started it against.  LimitSwitch shows what happens otherwise.
THEOREM OverridesKept == ASSUME ModelBack = FALSE PROVE Spec => OverrideKept
<1>1. LimitInv /\ [Next]_vars => [PausesRightly]_vars
  BY LimitNext DEF StepOK
<1>2. Spec => [][PausesRightly]_vars
  BY <1>1, LimitAlways, PTL DEF Spec
<1> QED BY <1>2 DEF OverrideKept, PausesRightly, NotAgain

=============================================================================
