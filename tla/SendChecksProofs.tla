--------------------------- MODULE SendChecksProofs ---------------------------
(***************************************************************************)
(* The rate limiter keeps two sends of a user apart, for every number of   *)
(* users, every interval and every step of the cleaning.  The automaton of *)
(* the block list finds a word exactly when there is one in the folded     *)
(* content, for every list and every content: the fail pointers lead to    *)
(* the longest endings, a match is at the longest ending of what it has    *)
(* read, and what is trimmed off a content is part of no word.             *)
(***************************************************************************)
EXTENDS SendChecks, WellFoundedInduction, FiniteSetTheorems, SequenceTheorems, TLAPS

\* What Allow leaves of the map: the entry of the user is the present time,
\* another one is as before, or gone because it was old.
LEMMA AllowEffect ==
    ASSUME LimiterTypeOK, NEW user \in Users, Allow(user), Interval > 0
    PROVE  /\ DOMAIN lastTime' \subseteq DOMAIN lastTime \cup {user}
           /\ user \in DOMAIN lastTime' /\ lastTime'[user] = now
           /\ \A u \in DOMAIN lastTime' \ {user} : lastTime'[u] = lastTime[u]
           /\ \A u \in DOMAIN lastTime \ (DOMAIN lastTime' \cup {user}) :
                 lastTime[u] < now - 2 * Interval
<1> DEFINE times == [u \in DOMAIN lastTime \cup {user} |-> IF u = user THEN now ELSE lastTime[u]]
           size  == Cardinality(DOMAIN times)
           clean == size > CleanStep /\ size - lastCleanCount > CleanStep
           kept  == DOMAIN times \ (IF clean THEN Stale(times) ELSE {})
<1>1. lastTime' = [u \in kept |-> times[u]]
  <2>1. Interval # 0
    BY LimiterAssumption
  <2> QED
    BY <2>1, Zenon DEF Allow
<1>2. /\ DOMAIN times = DOMAIN lastTime \cup {user}
      /\ times[user] = now
      /\ \A u \in DOMAIN lastTime \ {user} : times[u] = lastTime[u]
  OBVIOUS
<1>3. kept \subseteq DOMAIN times /\ \A u \in DOMAIN times \ kept : times[u] < now - 2 * Interval
  BY DEF Stale
<1>4. user \in kept
  <2>1. ~(now < now - 2 * Interval)
    BY LimiterAssumption DEF LimiterTypeOK
  <2> QED
    BY <1>2, <1>3, <2>1
<1> HIDE DEF times, kept
<1>5. DOMAIN lastTime' = kept /\ \A u \in kept : lastTime'[u] = times[u]
  BY <1>1
<1> QED
  BY <1>2, <1>3, <1>4, <1>5

\* Time only makes what was dropped older.
LEMMA TimeKeepsRate ==
    ASSUME LimiterInv, UNCHANGED <<lastTime, grants>>, now' \in Nat, now <= now'
    PROVE  LimiterInv'
<1>1. LimiterTypeOK' /\ RateRespected'
  BY DEF LimiterInv, LimiterTypeOK, RateRespected
<1>2. ASSUME NEW u \in Users PROVE (Len(grants[u]) <= 2)' /\ MapKnows(u)'
  <2>1. grants[u] # <<>> => Last(grants[u]) \in Nat
    BY DEF LimiterInv, LimiterTypeOK, Last
  <2> QED
    BY <2>1, LimiterAssumption DEF LimiterInv, LimiterTypeOK, MapKnows, Last
<1> QED
  BY <1>1, <1>2 DEF LimiterInv

\* A send that is let through is an interval behind the last one.
LEMMA CheckedKeepsRate ==
    ASSUME LimiterInv, NEW user \in Users, Checked(user)
    PROVE  LimiterInv'
<1>0. LimiterTypeOK /\ now' = now /\ now \in Nat /\ Interval \in Nat
  BY LimiterAssumption DEF LimiterInv, LimiterTypeOK, Checked, Allow
<1>1. /\ grants' = [grants EXCEPT ![user] =
                      IF grants[user] = <<>> THEN <<now>> ELSE <<Last(grants[user]), now>>]
      /\ Allow(user) /\ ~TooFast(user)
  BY DEF Checked, Allow
<1>2. \A u \in Users : /\ grants[u] \in Seq(Nat) /\ Len(grants[u]) <= 2 /\ MapKnows(u)
                       /\ grants[u] # <<>> => Last(grants[u]) \in Nat
  BY DEF LimiterInv, LimiterTypeOK, Last
<1>3. ASSUME grants[user] # <<>> PROVE Last(grants[user]) \in Nat /\ now - Last(grants[user]) >= Interval
  BY <1>0, <1>1, <1>2, <1>3 DEF MapKnows, TooFast
<1>4. /\ grants'[user] \in Seq(Nat) /\ Len(grants'[user]) <= 2
      /\ grants'[user] # <<>> /\ Last(grants'[user]) = now
      /\ Len(grants'[user]) = 2 => grants'[user][2] - grants'[user][1] >= Interval
  <2>1. user \in DOMAIN grants
    BY <1>0 DEF LimiterTypeOK
  <2>2. CASE grants[user] = <<>>
    BY <1>0, <1>1, <2>1, <2>2 DEF Last
  <2>3. CASE grants[user] # <<>>
    <3>1. grants'[user] = <<Last(grants[user]), now>>
      BY <1>1, <2>1, <2>3
    <3> QED
      BY <1>0, <1>3, <2>3, <3>1 DEF Last
  <2> QED
    BY <2>2, <2>3
<1>5. \A u \in Users \ {user} : grants'[u] = grants[u]
  BY <1>0, <1>1 DEF LimiterTypeOK
<1>6. grants' \in [Users -> Seq(Nat)]
  <2>1. DOMAIN grants' = Users /\ grants' = [u \in Users |-> grants'[u]]
    BY <1>0, <1>1 DEF LimiterTypeOK
  <2>2. \A u \in Users : grants'[u] \in Seq(Nat)
    BY <1>2, <1>4, <1>5
  <2> QED
    BY <2>1, <2>2
<1>7. RateRespected'
  BY <1>4, <1>5 DEF RateRespected, LimiterInv
<1>8. DOMAIN lastTime' \subseteq Users /\ \A u \in DOMAIN lastTime' : lastTime'[u] \in Nat
  <2>1. CASE Interval = 0
    BY <1>0, <1>1, <2>1 DEF LimiterTypeOK, Allow
  <2>2. CASE Interval > 0
    BY <1>0, <1>1, <2>2, AllowEffect DEF LimiterTypeOK
  <2> QED
    BY <1>0, <2>1, <2>2
<1>9. ASSUME NEW u \in Users PROVE MapKnows(u)'
  <2>1. CASE Interval = 0
    BY <1>0, <1>2, <1>4, <1>5, <2>1 DEF MapKnows
  <2>2. CASE Interval > 0 /\ u = user
    BY <1>0, <1>1, <1>4, <2>2, AllowEffect DEF MapKnows
  <2>3. CASE Interval > 0 /\ u # user
    BY <1>0, <1>1, <1>2, <1>5, <2>3, AllowEffect DEF MapKnows
  <2> QED
    BY <1>0, <2>1, <2>2, <2>3
<1> QED
  BY <1>0, <1>2, <1>4, <1>5, <1>6, <1>7, <1>8, <1>9 DEF LimiterInv, LimiterTypeOK

\* Every step keeps what the limiter knows.
LEMMA LimiterNext == LimiterInv /\ [Next]_vars => LimiterInv'
<1> SUFFICES ASSUME LimiterInv, [Next]_vars PROVE LimiterInv'
  OBVIOUS
<1>0. now \in Nat
  BY DEF LimiterInv, LimiterTypeOK
<1>1. ASSUME Build \/ UNCHANGED vars \/ \E u \in Users : Refused(u)
      PROVE  UNCHANGED <<now, lastTime, grants>>
  BY <1>1 DEF Build, Refused, vars, limiterVars, checkVars
<1>2. ASSUME TimePasses PROVE UNCHANGED <<lastTime, grants>> /\ now' = now + 1
  BY <1>2 DEF TimePasses, Tick, checkVars
<1>3. ASSUME UNCHANGED <<now, lastTime, grants>> \/ TimePasses PROVE LimiterInv'
  BY <1>0, <1>2, <1>3, TimeKeepsRate
<1>4. ASSUME NEW u \in Users, Checked(u) PROVE LimiterInv'
  BY <1>4, CheckedKeepsRate
<1> QED
  BY <1>1, <1>3, <1>4 DEF Next, Send

\* Two sends of a user that the limiter let through are at least an interval
\* apart, whenever and however often Allow cleaned its map between them.
THEOREM LimiterHolds == Spec => []RateRespected
<1>1. Init => LimiterInv
  <2> SUFFICES ASSUME Init PROVE LimiterInv
    OBVIOUS
  <2>1. /\ now = 0 /\ lastTime = [u \in {} |-> 0]
        /\ grants = [u \in Users |-> <<>>]
    BY DEF Init, LimiterInit
  <2> QED
    BY <2>1 DEF LimiterInv, LimiterTypeOK, MapKnows, RateRespected
<1>2. LimiterInv => RateRespected
  BY DEF LimiterInv
<1> QED
  BY <1>1, <1>2, LimiterNext, PTL DEF Spec

-----------------------------------------------------------------------------
(* Induction, and functions defined by recursion along 0..n.               *)

LEMMA Least ==
    ASSUME NEW T \in SUBSET Nat, T # {}
    PROVE  \E m \in T : \A k \in T : m <= k
<1> DEFINE R == {ss \in Nat \X Nat : ss[1] < ss[2]}
<1>1. R = OpToRel(<, Nat)
  BY Zenon DEF OpToRel
<1>2. IsWellFoundedOn(R, Nat)
  BY <1>1, NatLessThanWellFounded, Zenon
<1>3. PICK x \in T : \A y \in T : ~(<<y, x>> \in R)
  BY <1>2, WFMin
<1>4. ASSUME NEW y \in T PROVE x <= y
  <2>1. x \in Nat /\ y \in Nat
    OBVIOUS
  <2>2. ASSUME y < x PROVE <<y, x>> \in R
    <3>1. <<y, x>> \in Nat \X Nat /\ <<y, x>>[1] = y /\ <<y, x>>[2] = x
      BY <2>1
    <3> QED
      BY <2>2, <3>1
  <2>3. ~(y < x)
    BY <1>3, <2>2
  <2> QED
    BY <2>1, <2>3
<1> QED
  BY <1>4

\* Induction over the numbers up to a bound, on the set of those it holds for.
LEMMA UpTo ==
    ASSUME NEW n \in Nat, NEW T, 0 \in T, \A i \in 1..n : i - 1 \in T => i \in T
    PROVE  0..n \subseteq T
<1> DEFINE U == {i \in 0..n : i \notin T}
<1> SUFFICES ASSUME U # {} PROVE FALSE
  OBVIOUS
<1>1. U \in SUBSET Nat
  OBVIOUS
<1>2. PICK m \in U : \A k \in U : m <= k
  BY <1>1, Least
<1>3. m \in 1..n /\ m - 1 \in 0..n /\ ~(m <= m - 1)
  BY <1>2
<1> QED
  BY <1>2, <1>3

\* A recursion whose step depends on the index and the value before it has a
\* solution.
Solvable(n, S, a, step) ==
    \E g \in [0..n -> S] : g[0] = a /\ \A i \in 1..n : g[i] = step[i][g[i - 1]]

LEMMA Recursion ==
    ASSUME NEW n \in Nat, NEW S, NEW a \in S, NEW step \in [1..n -> [S -> S]]
    PROVE  Solvable(n, S, a, step)
<1> DEFINE Sol(k) == \E g \in [0..k -> S] : g[0] = a /\ \A i \in 1..k : g[i] = step[i][g[i - 1]]
           T == {k \in 0..n : Sol(k)}
<1>1. Sol(0)
  <2> DEFINE g == [i \in 0..0 |-> a]
  <2>1. g \in [0..0 -> S] /\ g[0] = a /\ 1..0 = {}
    OBVIOUS
  <2> HIDE DEF g
  <2>2. \A i \in 1..0 : g[i] = step[i][g[i - 1]]
    BY <2>1
  <2> QED
    BY <2>1, <2>2
<1>2. ASSUME NEW k \in 1..n, Sol(k - 1) PROVE Sol(k)
  <2>1. PICK g \in [0..(k - 1) -> S] : g[0] = a /\ \A i \in 1..(k - 1) : g[i] = step[i][g[i - 1]]
    BY <1>2
  <2> DEFINE h == [i \in 0..k |-> IF i = k THEN step[k][g[k - 1]] ELSE g[i]]
  <2>2. \A i \in 0..k : i # k => i \in 0..(k - 1)
    OBVIOUS
  <2>3. step[k] \in [S -> S] /\ g[k - 1] \in S
    OBVIOUS
  <2>4. h \in [0..k -> S]
    BY <2>2, <2>3
  <2>5. h[0] = a
    BY <2>1
  <2>6. ASSUME NEW i \in 1..k PROVE h[i] = step[i][h[i - 1]]
    <3>1. i - 1 \in 0..(k - 1) /\ i - 1 \in 0..k /\ i - 1 # k
      OBVIOUS
    <3>2. h[i - 1] = g[i - 1]
      BY <3>1
    <3>3. CASE i = k
      BY <3>2, <3>3
    <3>4. CASE i # k
      BY <2>1, <3>2, <3>4
    <3> QED
      BY <3>3, <3>4
  <2> HIDE DEF h
  <2> QED
    BY <2>4, <2>5, <2>6
<1> HIDE DEF Sol
<1>3. 0..n \subseteq T
  <2>1. 0 \in T /\ \A i \in 1..n : i - 1 \in T => i \in T
    BY <1>1, <1>2
  <2> HIDE DEF T
  <2> QED
    BY <2>1, UpTo
<1> QED
  BY <1>3 DEF Sol, Solvable

-----------------------------------------------------------------------------
(* Strings.                                                                *)

LEMMA AppendIs ==
    ASSUME NEW s \in Seq(Char), NEW r \in Char
    PROVE  /\ Append(s, r) \in Seq(Char) /\ Len(Append(s, r)) = Len(s) + 1
           /\ Len(s) \in Nat
           /\ \A i \in 1..Len(s) : Append(s, r)[i] = s[i]
           /\ Append(s, r)[Len(s) + 1] = r
<1>1. Len(s) \in Nat
  OBVIOUS
<1>2. Append(s, r) \in Seq(Char) /\ Len(Append(s, r)) = Len(s) + 1
  OBVIOUS
<1>3. Append(s, r)[Len(s) + 1] = r
  OBVIOUS
<1>4. \A i \in 1..Len(s) : Append(s, r)[i] = s[i]
  OBVIOUS
<1> QED
  BY <1>1, <1>2, <1>3, <1>4

LEMMA FrontIs ==
    ASSUME NEW s \in Seq(Char), s # <<>>
    PROVE  /\ Front(s) \in Seq(Char) /\ Len(s) \in Nat \ {0}
           /\ Len(Front(s)) = Len(s) - 1
           /\ \A i \in 1..Len(s) - 1 : Front(s)[i] = s[i]
           /\ Last(s) \in Char
           /\ s = Append(Front(s), Last(s))
<1>1. Len(s) \in Nat \ {0} /\ \A i \in 1..Len(s) : s[i] \in Char
  BY EmptySeq, ElementOfSeq
<1> DEFINE f == SubSeq(s, 1, Len(s) - 1)
<1>2. /\ f \in Seq(Char) /\ Len(f) = Len(s) - 1
      /\ \A i \in 1..Len(s) - 1 : f[i] = s[i]
  <2>1. 1 \in Int /\ Len(s) - 1 \in Int /\ \A i \in 1..Len(s) - 1 : s[i] \in Char
    BY <1>1
  <2>2. /\ f \in Seq(Char)
        /\ Len(f) = IF 1 <= Len(s) - 1 THEN (Len(s) - 1) - 1 + 1 ELSE 0
        /\ \A i \in 1 .. (Len(s) - 1) - 1 + 1 : f[i] = s[1 + i - 1]
    BY <2>1, SubSeqProperties
  <2> HIDE DEF f
  <2>3. Len(f) = Len(s) - 1 /\ (Len(s) - 1) - 1 + 1 = Len(s) - 1
    <3>1. ASSUME NEW l \in Nat \ {0}
          PROVE  (l - 1) - 1 + 1 = l - 1 /\ (IF 1 <= l - 1 THEN (l - 1) - 1 + 1 ELSE 0) = l - 1
      OBVIOUS
    <3> QED
      BY <1>1, <2>2, <3>1
  <2>4. ASSUME NEW i \in 1..Len(s) - 1 PROVE f[i] = s[i]
    <3>1. 1 + i - 1 = i /\ i \in 1 .. (Len(s) - 1) - 1 + 1
      BY <2>3
    <3> QED
      BY <2>2, <3>1
  <2> QED
    BY <2>2, <2>3, <2>4
<1> HIDE DEF f
<1> DEFINE t == Append(f, s[Len(s)])
<1>3. /\ t \in Seq(Char) /\ Len(t) = Len(s)
      /\ \A i \in 1..Len(s) : t[i] = s[i]
  <2>1. /\ t \in Seq(Char) /\ Len(t) = Len(f) + 1
        /\ \A i \in 1..Len(f) : t[i] = f[i]
        /\ t[Len(f) + 1] = s[Len(s)]
    BY <1>1, <1>2, AppendIs
  <2> HIDE DEF t
  <2> QED
    BY <1>1, <1>2, <2>1
<1> HIDE DEF t
<1>4. s = t
  BY <1>3, SeqEqual
<1> QED
  BY <1>1, <1>2, <1>4 DEF f, t, Front, Last

\* The endings of a text.
LEMMA EndsSelf ==
    ASSUME NEW s \in Seq(Char) PROVE EndsIn(s, s)
  BY DEF EndsIn, EndsAt

LEMMA EndsEmpty ==
    ASSUME NEW text, NEW k \in Nat PROVE EndsAt(text, k, <<>>)
  BY DEF EndsAt

LEMMA EndsWhole ==
    ASSUME NEW s \in Seq(Char), NEW u \in Seq(Char), EndsIn(s, u), Len(u) = Len(s)
    PROVE  u = s
<1>1. \A i \in 1..Len(u) : u[i] = s[i]
  BY DEF EndsIn, EndsAt
<1> QED
  BY <1>1, SeqEqual

\* The shorter of two endings is an ending of the longer one.
LEMMA EndsCompare ==
    ASSUME NEW text, NEW k \in Nat, NEW u \in Seq(Char), NEW v \in Seq(Char),
           EndsAt(text, k, u), EndsAt(text, k, v), Len(u) <= Len(v)
    PROVE  EndsIn(v, u)
<1>1. ASSUME NEW i \in 1..Len(u) PROVE u[i] = v[Len(v) - Len(u) + i]
  <2> DEFINE j == Len(v) - Len(u) + i
  <2>1. j \in 1..Len(v) /\ k - Len(v) + j = k - Len(u) + i
    OBVIOUS
  <2>2. u[i] = text[k - Len(u) + i] /\ v[j] = text[k - Len(v) + j]
    BY <2>1 DEF EndsAt
  <2> QED
    BY <2>1, <2>2
<1> QED
  BY <1>1 DEF EndsIn, EndsAt

LEMMA EndsTrans ==
    ASSUME NEW text, NEW k \in Nat, NEW u \in Seq(Char), NEW v \in Seq(Char),
           EndsAt(text, k, v), EndsIn(v, u)
    PROVE  EndsAt(text, k, u)
<1>1. Len(u) <= Len(v) /\ Len(v) <= k
  BY DEF EndsIn, EndsAt
<1>2. ASSUME NEW i \in 1..Len(u) PROVE u[i] = text[k - Len(u) + i]
  <2> DEFINE j == Len(v) - Len(u) + i
  <2>1. j \in 1..Len(v) /\ k - Len(v) + j = k - Len(u) + i
    BY <1>1
  <2>2. u[i] = v[j] /\ v[j] = text[k - Len(v) + j]
    BY <2>1 DEF EndsIn, EndsAt
  <2> QED
    BY <2>1, <2>2
<1> QED
  BY <1>1, <1>2 DEF EndsAt

\* One character more on both sides, and one less.
LEMMA EndsGrow ==
    ASSUME NEW text, NEW k \in Nat, NEW u \in Seq(Char), NEW r \in Char,
           EndsAt(text, k, u), text[k + 1] = r
    PROVE  EndsAt(text, k + 1, Append(u, r))
<1> DEFINE v == Append(u, r)
<1>1. /\ Len(v) = Len(u) + 1 /\ Len(u) \in Nat
      /\ \A i \in 1..Len(u) : v[i] = u[i]
      /\ v[Len(u) + 1] = r
  BY AppendIs
<1> HIDE DEF v
<1>2. Len(v) <= k + 1
  BY <1>1 DEF EndsAt
<1>3. ASSUME NEW i \in 1..Len(v) PROVE v[i] = text[k + 1 - Len(v) + i]
  <2>1. CASE i = Len(u) + 1
    <3>1. k + 1 - Len(v) + i = k + 1
      BY <1>1, <2>1
    <3> QED
      BY <1>1, <2>1, <3>1
  <2>2. CASE i # Len(u) + 1
    <3>1. i \in 1..Len(u) /\ k + 1 - Len(v) + i = k - Len(u) + i
      BY <1>1, <2>2
    <3> QED
      BY <1>1, <3>1 DEF EndsAt
  <2> QED
    BY <2>1, <2>2
<1>4. EndsAt(text, k + 1, v)
  BY <1>2, <1>3 DEF EndsAt
<1> QED
  BY <1>4 DEF v

LEMMA EndsShrink ==
    ASSUME NEW text, NEW k \in Nat, NEW u \in Seq(Char), u # <<>>, EndsAt(text, k + 1, u)
    PROVE  EndsAt(text, k, Front(u)) /\ Last(u) = text[k + 1]
<1>1. /\ Len(u) \in Nat \ {0} /\ Len(Front(u)) = Len(u) - 1
      /\ \A i \in 1..Len(u) - 1 : Front(u)[i] = u[i]
  BY FrontIs
<1>2. Len(u) <= k + 1 /\ \A i \in 1..Len(u) : u[i] = text[k + 1 - Len(u) + i]
  BY DEF EndsAt
<1>3. Last(u) = text[k + 1]
  <2>1. Len(u) \in 1..Len(u) /\ k + 1 - Len(u) + Len(u) = k + 1
    BY <1>1
  <2> QED
    BY <1>2, <2>1 DEF Last
<1>4. ASSUME NEW i \in 1..Len(Front(u)) PROVE Front(u)[i] = text[k - Len(Front(u)) + i]
  <2>1. i \in 1..Len(u) - 1 /\ i \in 1..Len(u) /\ k + 1 - Len(u) + i = k - Len(Front(u)) + i
    BY <1>1
  <2> QED
    BY <1>1, <1>2, <2>1
<1>5. Len(Front(u)) <= k
  BY <1>1, <1>2
<1> QED
  BY <1>3, <1>4, <1>5 DEF EndsAt

\* What comes after the end does not matter.
LEMMA EndsBefore ==
    ASSUME NEW s \in Seq(Char), NEW r \in Char, NEW u \in Seq(Char)
    PROVE  EndsAt(Append(s, r), Len(s), u) <=> EndsIn(s, u)
<1> DEFINE v == Append(s, r)
<1>1. Len(s) \in Nat /\ \A i \in 1..Len(s) : v[i] = s[i]
  BY AppendIs
<1> HIDE DEF v
<1>2. ASSUME Len(u) <= Len(s), NEW i \in 1..Len(u)
      PROVE  v[Len(s) - Len(u) + i] = s[Len(s) - Len(u) + i]
  <2>1. Len(s) - Len(u) + i \in 1..Len(s)
    BY <1>1, <1>2
  <2> QED
    BY <1>1, <2>1
<1>3. EndsAt(v, Len(s), u) <=> EndsIn(s, u)
  BY <1>2 DEF EndsIn, EndsAt
<1> QED
  BY <1>3 DEF v

-----------------------------------------------------------------------------
(* The fail chain leads to the longest node.                               *)

LEMMA NodeIs ==
    ASSUME TrieInv, NEW n \in nodes
    PROVE  /\ n \in Seq(Char) /\ Len(n) \in Nat
           /\ n # Root => Front(n) \in nodes /\ Len(n) > 0 /\ n = Append(Front(n), Last(n))
                          /\ Last(n) \in Char /\ Len(Front(n)) = Len(n) - 1
           /\ Len(n) = 0 => n = Root
<1>1. n \in Seq(Char)
  BY DEF TrieInv
<1>2. Len(n) \in Nat /\ (Len(n) = 0 => n = <<>>)
  BY <1>1
<1>3. ASSUME n # Root PROVE Front(n) \in nodes
  <2>1. n # <<>> /\ Len(n) \in Nat \ {0} /\ Len(Front(n)) = Len(n) - 1
    BY <1>1, <1>3, FrontIs DEF Root
  <2>2. CASE Len(n) = 1
    <3>1. Front(n) \in Seq(Char) /\ Len(Front(n)) = 0
      BY <1>1, <2>1, <2>2, FrontIs
    <3> QED
      BY <3>1 DEF TrieInv, Root
  <2>3. CASE Len(n) # 1
    <3>1. Len(n) - 1 \in 1..Len(n)
      BY <2>1, <2>3
    <3> QED
      BY <3>1 DEF TrieInv, Front
  <2> QED
    BY <2>2, <2>3
<1>4. ASSUME n # Root
      PROVE  Len(n) > 0 /\ n = Append(Front(n), Last(n)) /\ Last(n) \in Char
             /\ Len(Front(n)) = Len(n) - 1
  BY <1>1, <1>2, <1>4, FrontIs DEF Root
<1> QED
  BY <1>1, <1>2, <1>3, <1>4 DEF Root

LEMMA LongestUnique ==
    ASSUME TrieInv, NEW text, NEW k \in Nat, NEW m, NEW n,
           LongestAt(text, k, m), LongestAt(text, k, n)
    PROVE  m = n
<1>1. m \in nodes /\ n \in nodes /\ m \in Seq(Char) /\ n \in Seq(Char)
  BY NodeIs DEF LongestAt
<1>2. EndsAt(text, k, m) /\ EndsAt(text, k, n) /\ Len(m) <= Len(n) /\ Len(n) <= Len(m)
  BY <1>1 DEF LongestAt
<1>3. Len(m) = Len(n)
  BY <1>1, <1>2
<1>4. EndsIn(n, m)
  BY <1>1, <1>2, EndsCompare
<1> QED
  BY <1>1, <1>3, <1>4, EndsWhole

LEMMA LongestExists ==
    ASSUME TrieInv, NEW text, NEW k \in Nat
    PROVE  \E n : LongestAt(text, k, n)
<1> DEFINE E == {m \in nodes : EndsAt(text, k, m)}
           T == {k - Len(m) : m \in E}
<1>1. Root \in E
  BY EndsEmpty DEF TrieInv, Root
<1>2. \A m \in E : Len(m) \in Nat /\ Len(m) <= k /\ k - Len(m) \in Nat
  BY NodeIs DEF EndsAt
<1>3. T \in SUBSET Nat /\ T # {}
  BY <1>1, <1>2
<1>4. PICK d \in T : \A e \in T : d <= e
  BY <1>3, Least
<1>5. PICK n \in E : d = k - Len(n)
  OBVIOUS
<1>6. ASSUME NEW m \in E PROVE Len(m) <= Len(n)
  <2>1. k - Len(n) <= k - Len(m)
    BY <1>4, <1>5
  <2> QED
    BY <1>2, <2>1
<1>7. LongestAt(text, k, n)
  BY <1>6 DEF LongestAt
<1> QED
  BY <1>7

\* Reading one more character: the longest node of the text comes from the
\* longest node of what was read.
LEMMA LongestGrows ==
    ASSUME TrieInv, NEW text, NEW k \in Nat, NEW n, LongestAt(text, k, n),
           NEW r \in Char, text[k + 1] = r,
           NEW m, LongestAt(Append(n, r), Len(n) + 1, m)
    PROVE  LongestAt(text, k + 1, m)
<1>1. /\ n \in nodes /\ n \in Seq(Char) /\ Len(n) \in Nat /\ EndsAt(text, k, n)
      /\ m \in nodes /\ m \in Seq(Char)
  BY NodeIs DEF LongestAt
<1>2. Append(n, r) \in Seq(Char) /\ Len(Append(n, r)) = Len(n) + 1
  BY <1>1, AppendIs
<1>3. EndsAt(text, k + 1, Append(n, r)) /\ k + 1 \in Nat
  BY <1>1, EndsGrow
<1>4. EndsAt(text, k + 1, m)
  <2>1. EndsIn(Append(n, r), m)
    BY <1>2 DEF LongestAt, EndsIn
  <2> QED
    BY <1>1, <1>2, <1>3, <2>1, EndsTrans
<1>5. ASSUME NEW p \in nodes, EndsAt(text, k + 1, p) PROVE Len(p) <= Len(m)
  <2>1. p \in Seq(Char) /\ Len(p) \in Nat /\ Len(m) \in Nat
    BY <1>1, NodeIs
  <2>2. CASE p = Root
    BY <2>1, <2>2 DEF Root
  <2>3. CASE p # Root
    <3>1. Front(p) \in nodes /\ Len(Front(p)) = Len(p) - 1
      BY <2>3, NodeIs
    <3>2. EndsAt(text, k, Front(p))
      BY <1>5, <2>1, <2>3, EndsShrink DEF Root
    <3>3. Len(Front(p)) <= Len(n)
      BY <3>1, <3>2 DEF LongestAt
    <3>4. Len(p) <= Len(Append(n, r))
      BY <1>1, <1>2, <2>1, <3>1, <3>3
    <3>5. EndsIn(Append(n, r), p)
      BY <1>2, <1>3, <1>5, <2>1, <3>4, EndsCompare
    <3> QED
      BY <1>2, <3>5 DEF LongestAt, EndsIn
  <2> QED
    BY <2>2, <2>3
<1> QED
  BY <1>1, <1>4, <1>5 DEF LongestAt

\* What follows the fail node of n is the longest node that n with one more
\* character ends in and that is shorter than that.
LEMMA FailStep ==
    ASSUME TrieInv, LinkInv, NEW n \in DOMAIN fail, NEW r \in Char,
           NEW m, LongestAt(Append(fail[n], r), Len(fail[n]) + 1, m)
    PROVE  /\ m \in nodes /\ EndsAt(Append(n, r), Len(n) + 1, m) /\ Len(m) <= Len(n)
           /\ \A p \in nodes : EndsAt(Append(n, r), Len(n) + 1, p) /\ Len(p) <= Len(n)
                                  => Len(p) <= Len(m)
<1> DEFINE t == Append(n, r)
           f == fail[n]
           v == Append(f, r)
<1>0. n \in nodes /\ n \in Seq(Char) /\ Len(n) \in Nat
  BY NodeIs DEF LinkInv
<1>1. t \in Seq(Char) /\ Len(t) = Len(n) + 1
  BY <1>0, AppendIs
<1> HIDE DEF t
<1>2. /\ f \in nodes /\ EndsIn(n, f) /\ Len(f) < Len(n)
      /\ \A p \in nodes : EndsIn(n, p) /\ Len(p) < Len(n) => Len(p) <= Len(f)
  BY DEF LinkInv, TrieInv
<1> HIDE DEF f
<1>3. f \in Seq(Char) /\ Len(f) \in Nat
  BY <1>2, NodeIs
<1>4. v \in Seq(Char) /\ Len(v) = Len(f) + 1
  BY <1>3, AppendIs
<1>5. EndsAt(t, Len(n) + 1, v)
  <2>1. EndsAt(t, Len(n), f) /\ t[Len(n) + 1] = r
    BY <1>0, <1>2, <1>3, EndsBefore, AppendIs DEF t
  <2> QED
    BY <1>0, <1>3, <2>1, EndsGrow
<1>6. LongestAt(v, Len(v), m)
  BY <1>4 DEF f
<1> HIDE DEF v
<1>7. m \in nodes /\ m \in Seq(Char) /\ EndsIn(v, m)
  BY <1>6, NodeIs DEF LongestAt, EndsIn
<1>8. EndsAt(t, Len(n) + 1, m)
  BY <1>0, <1>4, <1>5, <1>7, EndsTrans
<1>9. Len(m) <= Len(n)
  <2>1. Len(m) <= Len(v)
    BY <1>7 DEF EndsIn, EndsAt
  <2> QED
    BY <1>0, <1>2, <1>3, <1>4, <1>7, <2>1
<1>10. ASSUME NEW p \in nodes, EndsAt(t, Len(n) + 1, p), Len(p) <= Len(n) PROVE Len(p) <= Len(m)
  <2>1. p \in Seq(Char) /\ Len(p) \in Nat /\ Len(m) \in Nat
    BY <1>7, NodeIs
  <2>2. CASE p = Root
    BY <2>1, <2>2 DEF Root
  <2>3. CASE p # Root
    <3>1. Front(p) \in nodes /\ Len(Front(p)) = Len(p) - 1 /\ Front(p) \in Seq(Char)
      BY <2>3, NodeIs
    <3>2. EndsIn(n, Front(p))
      <4>1. EndsAt(t, Len(n), Front(p))
        BY <1>0, <1>10, <2>1, <2>3, EndsShrink DEF Root
      <4> QED
        BY <1>0, <3>1, <4>1, EndsBefore DEF t
    <3>3. Len(Front(p)) <= Len(f)
      <4>1. Len(Front(p)) < Len(n)
        BY <1>0, <1>10, <2>1, <3>1
      <4> QED
        BY <1>2, <3>1, <3>2, <4>1
    <3>4. Len(p) <= Len(v)
      BY <1>3, <1>4, <2>1, <3>1, <3>3
    <3>5. EndsIn(v, p)
      BY <1>0, <1>4, <1>5, <1>10, <2>1, <3>4, EndsCompare
    <3> QED
      BY <1>6, <3>5 DEF LongestAt, EndsIn
  <2> QED
    BY <2>2, <2>3
<1> QED
  BY <1>7, <1>8, <1>9, <1>10 DEF t

\* The three ways a link of the chain ends, and what each finds.
LEMMA ChainStep ==
    ASSUME TrieInv, LinkInv, NEW n \in DOMAIN fail \cup {Root}, NEW r \in Char
    PROVE  /\ Append(n, r) \in nodes => LongestAt(Append(n, r), Len(n) + 1, Append(n, r))
           /\ Append(n, r) \notin nodes /\ n = Root => LongestAt(Append(n, r), Len(n) + 1, Root)
           /\ Append(n, r) \notin nodes /\ n # Root =>
                \A m : LongestAt(Append(fail[n], r), Len(fail[n]) + 1, m)
                          => LongestAt(Append(n, r), Len(n) + 1, m)
<1> DEFINE t == Append(n, r)
<1>0. n \in nodes /\ n \in Seq(Char) /\ Len(n) \in Nat
  BY NodeIs DEF LinkInv, TrieInv
<1>1. t \in Seq(Char) /\ Len(t) = Len(n) + 1
  BY <1>0, AppendIs
<1> HIDE DEF t
<1>2. ASSUME t \in nodes PROVE LongestAt(t, Len(n) + 1, t)
  BY <1>1, <1>2, EndsSelf DEF LongestAt, EndsIn, EndsAt
<1>3. ASSUME t \notin nodes, NEW m \in nodes, EndsAt(t, Len(n) + 1, m) PROVE Len(m) <= Len(n)
  <2>1. m \in Seq(Char) /\ Len(m) \in Nat /\ Len(m) <= Len(n) + 1
    BY <1>3, NodeIs DEF EndsAt
  <2>2. Len(m) # Len(t)
    BY <1>1, <1>3, <2>1, EndsWhole DEF EndsIn
  <2> QED
    BY <1>0, <1>1, <2>1, <2>2
<1>4. ASSUME t \notin nodes, n = Root PROVE LongestAt(t, Len(n) + 1, Root)
  BY <1>0, <1>3, <1>4, EndsEmpty DEF LongestAt, Root, TrieInv
<1>5. ASSUME t \notin nodes, n # Root, NEW m,
             LongestAt(Append(fail[n], r), Len(fail[n]) + 1, m)
      PROVE  LongestAt(t, Len(n) + 1, m)
  <2>1. n \in DOMAIN fail
    BY <1>5
  <2>2. /\ m \in nodes /\ EndsAt(t, Len(n) + 1, m)
        /\ \A p \in nodes : EndsAt(t, Len(n) + 1, p) /\ Len(p) <= Len(n) => Len(p) <= Len(m)
    BY <1>5, <2>1, FailStep DEF t
  <2> QED
    BY <1>3, <1>5, <2>2 DEF LongestAt
<1> QED
  BY <1>2, <1>4, <1>5 DEF t

\* Follow finds the longest node that the string read so far and r end in.
LEMMA FollowIs ==
    ASSUME TrieInv, LinkInv, NEW node \in DOMAIN fail \cup {Root}, NEW r \in Char
    PROVE  LongestAt(Append(node, r), Len(node) + 1, Follow(node, r))
<1> DEFINE D == DOMAIN fail \cup {Root}
           Is(n, m) == LongestAt(Append(n, r), Len(n) + 1, m)
           Chain(q) == q = [n \in D |-> IF Append(n, r) \in nodes THEN Append(n, r)
                                        ELSE IF n = Root THEN Root ELSE q[fail[n]]]
           chain == CHOOSE q : Chain(q)
<1>0. /\ D \subseteq nodes
      /\ \A n \in D : n \in nodes /\ Len(n) \in Nat
      /\ \A n \in D : n # Root => fail[n] \in D /\ Len(fail[n]) < Len(n)
  BY NodeIs DEF LinkInv, TrieInv
<1>1. \A n \in D :
        /\ Append(n, r) \in nodes => Is(n, Append(n, r))
        /\ Append(n, r) \notin nodes /\ n = Root => Is(n, Root)
        /\ Append(n, r) \notin nodes /\ n # Root => \A m : Is(fail[n], m) => Is(n, m)
  BY ChainStep
<1>2. \A n \in D : \E m : Is(n, m)
  BY <1>0, LongestExists
<1>3. \A n \in D : \A m, p : Is(n, m) /\ Is(n, p) => m = p
  BY <1>0, LongestUnique
<1> HIDE DEF Is
<1>4. \E q : Chain(q)
  <2> DEFINE g == [n \in D |-> CHOOSE m : Is(n, m)]
  <2>1. \A n \in D : Is(n, g[n])
    BY <1>2
  <2> HIDE DEF g
  <2>2. ASSUME NEW n \in D
        PROVE  g[n] = IF Append(n, r) \in nodes THEN Append(n, r)
                      ELSE IF n = Root THEN Root ELSE g[fail[n]]
    BY <1>0, <1>1, <1>3, <2>1
  <2>3. DOMAIN g = D /\ g = [n \in D |-> g[n]]
    BY DEF g
  <2>4. Chain(g)
    BY <2>2, <2>3
  <2> QED
    BY <2>4
<1>5. Chain(chain)
  <2> HIDE DEF Chain
  <2> QED
    BY <1>4, Zenon
<1>6. Follow(node, r) = chain[node]
  BY DEF Follow
<1> HIDE DEF chain
<1>7. \A n \in D : chain[n] = IF Append(n, r) \in nodes THEN Append(n, r)
                              ELSE IF n = Root THEN Root ELSE chain[fail[n]]
  BY <1>5
<1>8. ASSUME NEW n \in D, ~Is(n, chain[n]) PROVE FALSE
  <2> DEFINE T == {Len(p) : p \in {p \in D : ~Is(p, chain[p])}}
  <2>1. T \in SUBSET Nat /\ T # {}
    BY <1>0, <1>8
  <2>2. PICK l \in T : \A e \in T : l <= e
    BY <2>1, Least
  <2>3. PICK p \in D : ~Is(p, chain[p]) /\ l = Len(p)
    OBVIOUS
  <2>4. Append(p, r) \notin nodes /\ p # Root /\ ~Is(fail[p], chain[fail[p]])
    BY <1>1, <1>7, <2>3
  <2>5. fail[p] \in D /\ Len(fail[p]) < Len(p) /\ Len(fail[p]) \in Nat /\ Len(p) \in Nat
    BY <1>0, <2>4
  <2>6. Len(fail[p]) \in T
    BY <2>4, <2>5
  <2> QED
    BY <2>2, <2>3, <2>5, <2>6
<1> QED
  BY <1>6, <1>8 DEF Is

-----------------------------------------------------------------------------
(* The building of the automaton keeps its invariant.                      *)

LEMMA PrefixIs ==
    ASSUME NEW s \in Seq(Char), NEW k \in 1..Len(s)
    PROVE  /\ SubSeq(s, 1, k) \in Seq(Char) /\ Len(SubSeq(s, 1, k)) = k
           /\ \A i \in 1..k : SubSeq(s, 1, k)[i] = s[i]
           /\ k = Len(s) => SubSeq(s, 1, k) = s
<1> DEFINE p == SubSeq(s, 1, k)
<1>1. \A i \in 1..k : s[i] \in Char
  BY ElementOfSeq
<1>2. /\ p \in Seq(Char) /\ Len(p) = IF 1 <= k THEN k - 1 + 1 ELSE 0
      /\ \A i \in 1..k - 1 + 1 : p[i] = s[1 + i - 1]
  BY <1>1, SubSeqProperties
<1> HIDE DEF p
<1>3. Len(p) = k
  BY <1>2
<1>4. ASSUME NEW i \in 1..k PROVE p[i] = s[i]
  <2>1. i \in 1..k - 1 + 1 /\ 1 + i - 1 = i
    OBVIOUS
  <2> QED
    BY <1>2, <2>1
<1>5. k = Len(s) => p = s
  BY <1>2, <1>3, <1>4, SeqEqual
<1> QED
  BY <1>2, <1>3, <1>4, <1>5 DEF p

LEMMA PrefixOfPrefix ==
    ASSUME NEW s \in Seq(Char), NEW n \in 1..Len(s), NEW k \in 1..n
    PROVE  SubSeq(SubSeq(s, 1, n), 1, k) = SubSeq(s, 1, k)
<1> DEFINE p == SubSeq(s, 1, n)
           q == SubSeq(p, 1, k)
           u == SubSeq(s, 1, k)
<1>1. p \in Seq(Char) /\ Len(p) = n /\ \A i \in 1..n : p[i] = s[i]
  BY PrefixIs
<1> HIDE DEF p
<1>2. q \in Seq(Char) /\ Len(q) = k /\ \A i \in 1..k : q[i] = p[i]
  BY <1>1, PrefixIs
<1>3. u \in Seq(Char) /\ Len(u) = k /\ \A i \in 1..k : u[i] = s[i]
  <2>1. k \in 1..Len(s)
    OBVIOUS
  <2> QED
    BY <2>1, PrefixIs
<1> HIDE DEF q, u
<1>4. q = u
  <2>1. \A i \in 1..k : i \in 1..n
    OBVIOUS
  <2>2. \A i \in 1..Len(q) : q[i] = u[i]
    BY <1>1, <1>2, <1>3, <2>1
  <2> QED
    BY <1>2, <1>3, <2>2, SeqEqual
<1> QED
  BY <1>4 DEF p, q, u

\* Nodes without a fail pointer are below the level the queue is at.
LEMMA UnlinkedBehind ==
    ASSUME TrieInv, LinkInv, QueueInv, NEW n \in nodes \ {Root}, n \notin DOMAIN fail
    PROVE  queue # <<>> /\ Len(n) > Len(Head(queue))
<1> DEFINE T == {k \in 1..Len(n) : SubSeq(n, 1, k) \notin DOMAIN fail}
<1>0. n \in Seq(Char) /\ Len(n) \in Nat /\ Len(n) > 0
  BY NodeIs
<1>1. T \in SUBSET Nat /\ Len(n) \in T
  <2>1. Len(n) \in 1..Len(n) /\ T \in SUBSET Nat
    BY <1>0
  <2>2. SubSeq(n, 1, Len(n)) = n
    BY <1>0, <2>1, PrefixIs
  <2> QED
    BY <2>1, <2>2
<1>2. PICK k \in T : \A j \in T : k <= j
  BY <1>1, Least
<1> DEFINE p == SubSeq(n, 1, k - 1)
           c == SubSeq(n, 1, k)
<1>3. k \in 1..Len(n) /\ c \in nodes /\ c \in Seq(Char) /\ Len(c) = k /\ c \notin DOMAIN fail
  BY <1>0, <1>2, PrefixIs DEF TrieInv
<1>4. k # 1 /\ k - 1 \in 1..Len(n) /\ k - 1 \in 1..k
  <2> HIDE DEF c
  <2>1. Len(c) # 1
    BY <1>3 DEF LinkInv
  <2> QED
    BY <1>0, <1>3, <2>1
<1>5. p \in DOMAIN fail /\ Len(p) = k - 1
  <2>1. k - 1 \notin T
    BY <1>2, <1>4
  <2> QED
    BY <1>0, <1>4, <2>1, PrefixIs
<1>6. Front(c) = p
  BY <1>0, <1>3, <1>4, PrefixOfPrefix DEF Front
<1> HIDE DEF p, c
<1>7. c # Root /\ c \in Unlinked(p)
  BY <1>3, <1>6 DEF Unlinked, Root
<1>8. PICK i \in 1..Len(queue) : queue[i] = p
  BY <1>5, <1>7 DEF QueueInv
<1>9. queue \in Seq(DOMAIN fail) /\ Len(queue) \in Nat /\ queue # <<>> /\ Head(queue) = queue[1]
  BY <1>8 DEF QueueInv
<1>10. Len(queue[1]) <= Len(p)
  <2>1. 1 \in 1..Len(queue) /\ 1 <= i
    BY <1>8, <1>9
  <2> QED
    BY <1>8, <2>1 DEF QueueInv
<1>11. Len(queue[1]) \in Nat
  <2>1. queue[1] \in DOMAIN fail
    BY <1>8, <1>9
  <2> QED
    BY <2>1, NodeIs DEF LinkInv
<1>12. Len(queue[1]) < Len(n)
  BY <1>0, <1>3, <1>5, <1>10, <1>11
<1> QED
  BY <1>9, <1>12

\* What the parent at the head of the queue and its fail pointer give a child.
LEMMA TargetIs ==
    ASSUME BlockInv, ~Built, NEW child \in Unlinked(Head(queue)),
           NEW target, target = Follow(fail[Front(child)], Last(child))
    PROVE  /\ child \in nodes \ {Root} /\ child \notin DOMAIN fail
           /\ Len(child) \in Nat /\ Len(child) = Len(Head(queue)) + 1
           /\ target \in DOMAIN fail \cup {Root}
           /\ EndsIn(child, target) /\ Len(target) < Len(child)
           /\ \A m \in nodes : EndsIn(child, m) /\ Len(m) < Len(child) => Len(m) <= Len(target)
<1> DEFINE parent == Head(queue)
           r == Last(child)
<1>0. TrieInv /\ LinkInv /\ QueueInv
  BY DEF BlockInv
<1>1. parent \in DOMAIN fail
  <2>1. queue \in Seq(DOMAIN fail) /\ queue # <<>>
    BY <1>0 DEF QueueInv, Built
  <2> QED
    BY <2>1
<1>2. child \in nodes \ {Root} /\ Front(child) = parent /\ child \notin DOMAIN fail
  BY DEF Unlinked
<1> HIDE DEF parent
<1>3. /\ child \in Seq(Char) /\ Len(child) \in Nat
      /\ child = Append(parent, r) /\ r \in Char /\ Len(parent) = Len(child) - 1
  BY <1>0, <1>2, NodeIs
<1>4. parent \in nodes /\ parent \in Seq(Char) /\ Len(parent) \in Nat /\ Len(child) = Len(parent) + 1
  BY <1>0, <1>1, <1>3, NodeIs DEF LinkInv
<1>5. LongestAt(Append(fail[parent], r), Len(fail[parent]) + 1, target)
  <2>1. fail[parent] \in DOMAIN fail \cup {Root} /\ target = Follow(fail[parent], r)
    BY <1>0, <1>1, <1>2 DEF LinkInv
  <2> HIDE DEF r
  <2> QED
    BY <1>0, <1>3, <2>1, FollowIs
<1>6. /\ target \in nodes /\ EndsIn(child, target) /\ Len(target) <= Len(parent)
      /\ \A m \in nodes : EndsIn(child, m) /\ Len(m) <= Len(parent) => Len(m) <= Len(target)
  <2> HIDE DEF r
  <2>1. /\ target \in nodes /\ EndsAt(child, Len(child), target) /\ Len(target) <= Len(parent)
        /\ \A m \in nodes : EndsAt(child, Len(child), m) /\ Len(m) <= Len(parent)
                               => Len(m) <= Len(target)
    BY <1>0, <1>1, <1>3, <1>4, <1>5, FailStep
  <2> QED
    BY <2>1 DEF EndsIn
<1>7. target \in DOMAIN fail \cup {Root}
  <2>1. Len(target) \in Nat
    BY <1>0, <1>6, NodeIs
  <2>2. ~(Len(target) > Len(parent))
    BY <1>4, <1>6, <2>1
  <2> QED
    BY <1>0, <1>6, <2>2, UnlinkedBehind DEF parent
<1>8. Len(target) < Len(child)
  <2>1. Len(target) \in Nat
    BY <1>0, <1>6, NodeIs
  <2> QED
    BY <1>4, <1>6, <2>1
<1>9. ASSUME NEW m \in nodes, EndsIn(child, m), Len(m) < Len(child) PROVE Len(m) <= Len(target)
  <2>1. Len(m) \in Nat
    BY <1>0, NodeIs
  <2>2. Len(m) <= Len(parent)
    BY <1>4, <1>9, <2>1
  <2> QED
    BY <1>6, <1>9, <2>2
<1> QED
  BY <1>2, <1>3, <1>4, <1>6, <1>7, <1>8, <1>9 DEF parent

LEMMA LinkChildKeeps ==
    ASSUME BlockInv, ~Built, NEW child \in Unlinked(Head(queue)), LinkChild(child)
    PROVE  BlockInv'
<1> DEFINE target == Follow(fail[Front(child)], Last(child))
           L == Len(queue)
<1>0. TrieInv /\ LinkInv /\ OutputInv /\ QueueInv
  BY DEF BlockInv
<1>1. /\ child \in nodes \ {Root} /\ child \notin DOMAIN fail
      /\ Len(child) \in Nat /\ Len(child) = Len(Head(queue)) + 1
      /\ target \in DOMAIN fail \cup {Root}
      /\ EndsIn(child, target) /\ Len(target) < Len(child)
      /\ \A m \in nodes : EndsIn(child, m) /\ Len(m) < Len(child) => Len(m) <= Len(target)
  BY TargetIs
<1>2. /\ fail' = [n \in DOMAIN fail \cup {child} |-> IF n = child THEN target ELSE fail[n]]
      /\ output' = IF output[target] # <<>> /\ output[child] = <<>>
                   THEN [output EXCEPT ![child] = output[target]] ELSE output
      /\ queue' = Append(queue, child)
      /\ nodes' = nodes /\ listed' = listed
  BY DEF LinkChild
<1> HIDE DEF target
<1>3. /\ DOMAIN fail' = DOMAIN fail \cup {child}
      /\ fail'[child] = target /\ \A n \in DOMAIN fail : fail'[n] = fail[n]
  BY <1>1, <1>2
<1>4. Words' = Words
  BY <1>2 DEF Words
<1>5. TrieInv'
  BY <1>0, <1>2, <1>4 DEF TrieInv
<1>6. LinkInv'
  <2>1. DOMAIN fail' \subseteq nodes \ {Root} /\ \A n \in nodes : Len(n) = 1 => n \in DOMAIN fail'
    BY <1>0, <1>1, <1>3 DEF LinkInv
  <2>2. ASSUME NEW n \in DOMAIN fail'
        PROVE  /\ fail'[n] \in DOMAIN fail' \cup {Root}
               /\ EndsIn(n, fail'[n]) /\ Len(fail'[n]) < Len(n)
               /\ \A m \in nodes : EndsIn(n, m) /\ Len(m) < Len(n) => Len(m) <= Len(fail'[n])
    <3>1. CASE n = child
      BY <1>1, <1>3, <3>1
    <3>2. CASE n \in DOMAIN fail
      BY <1>0, <1>3, <3>2 DEF LinkInv
    <3> QED
      BY <1>3, <3>1, <3>2
  <2> QED
    BY <1>2, <2>1, <2>2 DEF LinkInv
<1>7. OutputInv'
  <2>0. DOMAIN output = nodes /\ target \in nodes
    BY <1>0, <1>1 DEF OutputInv, LinkInv, TrieInv
  <2>1. /\ DOMAIN output' = nodes
        /\ \A n \in nodes : n # child => output'[n] = output[n]
        /\ output'[child] = IF output[child] = <<>> THEN output[target] ELSE output[child]
    <3>1. CASE output[target] # <<>> /\ output[child] = <<>>
      BY <1>1, <1>2, <2>0, <3>1
    <3>2. CASE output[target] = <<>> \/ output[child] # <<>>
      BY <1>2, <2>0, <3>2
    <3> QED
      BY <3>1, <3>2
  <2>2. child \in Seq(Char) /\ target \in Seq(Char) /\ Len(target) \in Nat
    BY <1>0, <1>1, <2>0, NodeIs
  <2>3. ASSUME NEW n \in nodes, output'[n] # <<>>
        PROVE  output'[n] \in Words /\ EndsIn(n, output'[n])
    <3>1. CASE n = child /\ output[child] = <<>>
      <4>1. output[target] \in Words /\ EndsIn(target, output[target]) /\ output'[n] = output[target]
        BY <1>0, <2>0, <2>1, <2>3, <3>1 DEF OutputInv
      <4>2. output[target] \in Seq(Char) /\ EndsAt(child, Len(child), target) /\ Len(child) \in Nat
        BY <1>0, <1>1, <4>1 DEF EndsIn, TrieInv
      <4>3. EndsAt(child, Len(child), output[target])
        BY <2>2, <4>1, <4>2, EndsTrans
      <4> QED
        BY <3>1, <4>1, <4>3 DEF EndsIn
    <3>2. CASE n # child \/ output[child] # <<>>
      <4>1. output'[n] = output[n]
        BY <2>1, <3>2
      <4> QED
        BY <1>0, <2>3, <4>1 DEF OutputInv
    <3> QED
      BY <3>1, <3>2
  <2>4. ASSUME NEW n \in DOMAIN fail', NEW w \in Words, EndsIn(n, w) PROVE output'[n] # <<>>
    <3>1. CASE n \in DOMAIN fail
      <4>1. output'[n] = output[n] /\ output[n] # <<>>
        BY <1>0, <1>1, <2>1, <2>4, <3>1 DEF OutputInv, LinkInv
      <4> QED
        BY <4>1
    <3>2. CASE n = child /\ w = child
      <4>1. output[child] = child /\ child # <<>>
        BY <1>0, <1>1, <3>2 DEF OutputInv, Root
      <4> QED
        BY <2>1, <3>2, <4>1
    <3>3. CASE n = child /\ w # child
      <4>1. w \in nodes /\ w # Root /\ w \in Seq(Char) /\ Len(w) \in Nat /\ Len(w) > 0
        BY <1>0, NodeIs DEF TrieInv
      <4>2. Len(w) < Len(child)
        <5>1. Len(w) <= Len(child) /\ Len(w) # Len(child)
          BY <2>2, <2>4, <3>3, <4>1, EndsWhole DEF EndsIn, EndsAt
        <5> QED
          BY <1>1, <4>1, <5>1
      <4>3. Len(w) <= Len(target)
        BY <1>1, <2>4, <3>3, <4>1, <4>2
      <4>4. EndsIn(target, w)
        <5>1. EndsAt(child, Len(child), w) /\ EndsAt(child, Len(child), target)
          BY <1>1, <2>4, <3>3 DEF EndsIn
        <5> QED
          BY <1>1, <2>2, <4>1, <4>3, <5>1, EndsCompare
      <4>5. target # Root
        BY <2>2, <4>1, <4>3 DEF Root
      <4>6. output[target] # <<>>
        BY <1>0, <1>1, <4>4, <4>5 DEF OutputInv
      <4> QED
        BY <2>1, <3>3, <4>6
    <3> QED
      BY <1>3, <3>1, <3>2, <3>3
  <2>5. \A n \in nodes \ DOMAIN fail' : output'[n] = IF n \in Words THEN n ELSE <<>>
    BY <1>0, <1>3, <2>1 DEF OutputInv
  <2> QED
    BY <1>2, <1>4, <2>1, <2>3, <2>4, <2>5 DEF OutputInv
<1>8. QueueInv'
  <2>1. /\ queue \in Seq(DOMAIN fail) /\ L \in Nat \ {0} /\ Head(queue) = queue[1]
        /\ \A i \in 1..L : queue[i] \in DOMAIN fail /\ Len(queue[i]) \in Nat
    <3>1. queue \in Seq(DOMAIN fail) /\ queue # <<>>
      BY <1>0 DEF QueueInv, Built
    <3>2. L \in Nat \ {0} /\ Head(queue) = queue[1] /\ \A i \in 1..L : queue[i] \in DOMAIN fail
      BY <3>1
    <3> QED
      BY <1>0, <3>1, <3>2, NodeIs DEF LinkInv
  <2>2. /\ queue' \in Seq(DOMAIN fail') /\ Len(queue') = L + 1
        /\ \A i \in 1..L : queue'[i] = queue[i]
        /\ queue'[L + 1] = child
    <3>1. queue \in Seq(DOMAIN fail') /\ child \in DOMAIN fail'
      BY <1>3, <2>1, SeqMonotonic
    <3> QED
      BY <1>2, <3>1, AppendProperties
  <2>3. \A i \in 1..(L + 1) : i \in 1..L \/ i = L + 1
    BY <2>1
  <2>4. \A i \in 1..L : Len(queue[i]) <= Len(child)
    BY <1>0, <1>1, <2>1 DEF QueueInv
  <2>5. ASSUME NEW i \in 1..(L + 1), NEW j \in 1..(L + 1), i <= j
        PROVE  Len(queue'[i]) <= Len(queue'[j])
    <3>1. CASE j \in 1..L
      <4>1. i \in 1..L
        BY <2>1, <2>5, <3>1
      <4> QED
        BY <1>0, <2>2, <2>5, <3>1, <4>1 DEF QueueInv
    <3>2. CASE j = L + 1
      <4>1. queue'[j] = child /\ Len(child) <= Len(child)
        BY <1>1, <2>2, <3>2
      <4>2. CASE i \in 1..L
        BY <2>2, <2>4, <4>1, <4>2
      <4>3. CASE i = L + 1
        BY <2>2, <4>1, <4>3
      <4> QED
        BY <2>3, <4>2, <4>3
    <3> QED
      BY <2>3, <3>1, <3>2
  <2>6. ASSUME NEW i \in 1..(L + 1) PROVE Len(queue'[i]) <= Len(queue'[1]) + 1
    <3>1. queue'[1] = queue[1] /\ Len(queue'[1]) + 1 = Len(child)
      BY <1>1, <2>1, <2>2
    <3> QED
      BY <1>1, <2>2, <2>3, <2>4, <3>1
  <2>7. ASSUME NEW n \in DOMAIN fail', \A i \in 1..(L + 1) : queue'[i] # n
        PROVE  Unlinked(n)' = {}
    <3>1. L + 1 \in 1..(L + 1) /\ \A i \in 1..L : i \in 1..(L + 1)
      BY <2>1
    <3>2. n # child /\ \A i \in 1..L : queue[i] # n
      BY <2>2, <2>7, <3>1
    <3>3. Unlinked(n) = {}
      BY <1>0, <1>3, <3>2 DEF QueueInv
    <3> QED
      BY <1>2, <1>3, <3>3 DEF Unlinked
  <2> QED
    BY <2>2, <2>5, <2>6, <2>7 DEF QueueInv
<1> QED
  BY <1>5, <1>6, <1>7, <1>8 DEF BlockInv

LEMMA NextParentKeeps ==
    ASSUME BlockInv, ~Built, Unlinked(Head(queue)) = {}, NextParent
    PROVE  BlockInv'
<1> DEFINE L == Len(queue)
<1>0. TrieInv /\ LinkInv /\ OutputInv /\ QueueInv
  BY DEF BlockInv
<1>1. queue' = Tail(queue) /\ listed' = listed /\ nodes' = nodes /\ fail' = fail /\ output' = output
  BY DEF NextParent
<1>2. TrieInv' /\ LinkInv' /\ OutputInv'
  BY <1>0, <1>1 DEF TrieInv, LinkInv, OutputInv, Words
<1>3. \A n \in DOMAIN fail : Unlinked(n)' = Unlinked(n)
  BY <1>1 DEF Unlinked
<1>4. queue \in Seq(DOMAIN fail) /\ queue # <<>>
  BY <1>0 DEF QueueInv, Built
<1>5. /\ L \in Nat \ {0} /\ Head(queue) = queue[1]
      /\ queue' \in Seq(DOMAIN fail) /\ Len(queue') = L - 1
      /\ \A i \in 1..L - 1 : queue'[i] = queue[i + 1]
  BY <1>1, <1>4
<1>6. \A i \in 1..L : queue[i] \in DOMAIN fail /\ Len(queue[i]) \in Nat
  <2>1. \A i \in 1..L : queue[i] \in DOMAIN fail
    BY <1>4
  <2> QED
    BY <1>0, <2>1, NodeIs DEF LinkInv
<1>7. ASSUME NEW i \in 1..L - 1, NEW j \in 1..L - 1, i <= j
      PROVE  Len(queue'[i]) <= Len(queue'[j])
  <2>1. i + 1 \in 1..L /\ j + 1 \in 1..L /\ i + 1 <= j + 1
    BY <1>5, <1>7
  <2> QED
    BY <1>0, <1>5, <2>1 DEF QueueInv
<1>8. ASSUME NEW i \in 1..L - 1 PROVE Len(queue'[i]) <= Len(queue'[1]) + 1
  <2>1. i + 1 \in 1..L /\ 1 \in 1..L /\ 2 \in 1..L /\ 1 <= 2 /\ 1 \in 1..L - 1 /\ 1 + 1 = 2
    BY <1>5
  <2>2. Len(queue[i + 1]) <= Len(queue[1]) + 1 /\ Len(queue[1]) <= Len(queue[2])
    BY <1>0, <2>1 DEF QueueInv
  <2>3. Len(queue[i + 1]) <= Len(queue[2]) + 1
    BY <1>6, <2>1, <2>2
  <2> QED
    BY <1>5, <2>1, <2>3
<1>9. ASSUME NEW n \in DOMAIN fail, \A i \in 1..L - 1 : queue'[i] # n PROVE Unlinked(n) = {}
  <2>1. CASE n = queue[1]
    BY <1>5, <2>1
  <2>2. CASE n # queue[1]
    <3>1. ASSUME NEW i \in 1..L PROVE queue[i] # n
      <4>1. CASE i = 1
        BY <2>2, <4>1
      <4>2. CASE i # 1
        <5>1. i - 1 \in 1..L - 1 /\ (i - 1) + 1 = i
          BY <1>5, <4>2
        <5> QED
          BY <1>5, <1>9, <5>1
      <4> QED
        BY <4>1, <4>2
    <3> QED
      BY <1>0, <3>1 DEF QueueInv
  <2> QED
    BY <2>1, <2>2
<1>10. QueueInv'
  BY <1>1, <1>3, <1>5, <1>7, <1>8, <1>9 DEF QueueInv
<1> QED
  BY <1>2, <1>10 DEF BlockInv

-----------------------------------------------------------------------------
(* Normalisation makes strings of strings: the passes over a string stay    *)
(* among the strings, character by character.                              *)

LEMMA StripIs ==
    ASSUME NEW s \in Seq(Char) PROVE StripZeroWidth(s) \in Seq(Char)
<1> DEFINE n == Len(s)
           step == [i \in 1..n |-> [x \in Seq(Char) |-> IF s[i] = ZeroWidth THEN x ELSE Append(x, s[i])]]
           Eq(q) == q = [i \in 0..n |-> IF i = 0 THEN <<>>
                            ELSE IF s[i] = ZeroWidth THEN q[i - 1] ELSE Append(q[i - 1], s[i])]
           kept == CHOOSE q : Eq(q)
<1>1. n \in Nat /\ \A i \in 1..n : s[i] \in Char
  BY ElementOfSeq
<1>2. \A i \in 1..n : \A x \in Seq(Char) :
        (IF s[i] = ZeroWidth THEN x ELSE Append(x, s[i])) \in Seq(Char)
  BY <1>1, AppendIs
<1>3. step \in [1..n -> [Seq(Char) -> Seq(Char)]]
  BY <1>2
<1>4. \A i \in 1..n : \A x \in Seq(Char) :
        step[i][x] = IF s[i] = ZeroWidth THEN x ELSE Append(x, s[i])
  OBVIOUS
<1> HIDE DEF step, n
<1>5. PICK g \in [0..n -> Seq(Char)] : g[0] = <<>> /\ \A i \in 1..n : g[i] = step[i][g[i - 1]]
  <2>1. <<>> \in Seq(Char)
    OBVIOUS
  <2>2. Solvable(n, Seq(Char), <<>>, step)
    BY <1>1, <1>3, <2>1, Recursion, Zenon
  <2> QED
    BY <2>2 DEF Solvable
<1>6. \E q : Eq(q)
  <2>1. ASSUME NEW i \in 0..n
        PROVE  g[i] = IF i = 0 THEN <<>>
                      ELSE IF s[i] = ZeroWidth THEN g[i - 1] ELSE Append(g[i - 1], s[i])
    <3>1. CASE i = 0
      BY <1>5, <3>1
    <3>2. CASE i # 0
      <4>1. i \in 1..n /\ i - 1 \in 0..n
        BY <1>1, <3>2
      <4>2. g[i - 1] \in Seq(Char)
        BY <4>1
      <4> QED
        BY <1>4, <1>5, <3>2, <4>1, <4>2
    <3> QED
      BY <3>1, <3>2
  <2>2. g = [i \in 0..n |-> g[i]]
    OBVIOUS
  <2>3. Eq(g)
    BY <2>1, <2>2
  <2> QED
    BY <2>3
<1>7. Eq(kept)
  <2> HIDE DEF Eq
  <2> QED
    BY <1>6, Zenon
<1>8. StripZeroWidth(s) = kept[n]
  BY DEF StripZeroWidth, n
<1> HIDE DEF kept
<1>9. /\ kept = [i \in 0..n |-> kept[i]] /\ kept[0] = <<>>
      /\ \A i \in 1..n : kept[i] = IF s[i] = ZeroWidth THEN kept[i - 1] ELSE Append(kept[i - 1], s[i])
  <2>1. kept = [i \in 0..n |-> kept[i]]
    BY <1>7
  <2>2. \A i \in 0..n : kept[i] = IF i = 0 THEN <<>>
                            ELSE IF s[i] = ZeroWidth THEN kept[i - 1] ELSE Append(kept[i - 1], s[i])
    BY <1>7
  <2>3. 0 \in 0..n /\ \A i \in 1..n : i \in 0..n /\ i # 0
    BY <1>1
  <2> HIDE DEF Eq
  <2> QED
    BY <2>1, <2>2, <2>3
<1> HIDE DEF Eq
<1>10. \A i \in 0..n : kept[i] \in Seq(Char)
  <2> DEFINE T == {i \in 0..n : kept[i] \in Seq(Char)}
  <2>1. 0 \in T
    <3>1. 0 \in 0..n /\ <<>> \in Seq(Char)
      BY <1>1
    <3> QED
      BY <1>9, <3>1
  <2>2. ASSUME NEW i \in 1..n, i - 1 \in T PROVE i \in T
    <3>1. i \in 0..n /\ kept[i - 1] \in Seq(Char)
      BY <1>1, <2>2
    <3>2. kept[i] \in Seq(Char)
      BY <1>2, <1>9, <3>1
    <3> QED
      BY <3>1, <3>2
  <2> HIDE DEF T
  <2>3. 0..n \subseteq T
    BY <1>1, <2>1, <2>2, UpTo
  <2> QED
    BY <2>3 DEF T
<1> QED
  <2>1. n \in 0..n
    BY <1>1
  <2> QED
    BY <1>8, <1>10, <2>1

LEMMA ComposeIs ==
    ASSUME NEW t \in Seq(Char), NEW c \in Char PROVE Compose(t, c) \in Seq(Char)
<1>1. CASE c = Acute /\ t # <<>> /\ Last(t) \in DOMAIN Accented
  <2>1. Compose(t, c) = Append(Front(t), Accented[Last(t)])
    BY <1>1 DEF Compose
  <2>2. DOMAIN Accented = {"a", "A"} /\ Accented["a"] = "aAcute" /\ Accented["A"] = "AAcute"
    BY DEF Accented
  <2>3. Last(t) = "a" \/ Last(t) = "A"
    BY <1>1, <2>2
  <2>4. Accented[Last(t)] = "aAcute" \/ Accented[Last(t)] = "AAcute"
    BY <2>2, <2>3, Zenon
  <2>5. Accented[Last(t)] \in Char /\ Front(t) \in Seq(Char)
    BY <1>1, <2>4, CharAssumption, FrontIs
  <2> QED
    BY <2>1, <2>5, AppendIs
<1>2. CASE ~(c = Acute /\ t # <<>> /\ Last(t) \in DOMAIN Accented)
  <2> DEFINE form == IF c \in DOMAIN Compatible THEN Compatible[c] ELSE <<c>>
  <2>1. Compose(t, c) = t \o form
    BY <1>2 DEF Compose
  <2>2. /\ DOMAIN Compatible = {"wideA", "wideB", "abLigature"}
        /\ Compatible["wideA"] = <<"A">> /\ Compatible["wideB"] = <<"B">>
        /\ Compatible["abLigature"] = <<"a", "b">>
    BY DEF Compatible
  <2>3. <<"A">> \in Seq(Char) /\ <<"B">> \in Seq(Char) /\ <<"a", "b">> \in Seq(Char) /\ <<c>> \in Seq(Char)
    BY CharAssumption
  <2>4. CASE c \in DOMAIN Compatible
    <3>1. c = "wideA" \/ c = "wideB" \/ c = "abLigature"
      BY <2>2, <2>4
    <3>2. Compatible[c] = <<"A">> \/ Compatible[c] = <<"B">> \/ Compatible[c] = <<"a", "b">>
      BY <2>2, <3>1, Zenon
    <3>3. form \in Seq(Char)
      BY <2>3, <2>4, <3>2
    <3> QED
      BY <2>1, <3>3, ConcatProperties
  <2>5. CASE c \notin DOMAIN Compatible
    <3>1. form \in Seq(Char)
      BY <2>3, <2>5
    <3> QED
      BY <2>1, <3>1, ConcatProperties
  <2> QED
    BY <2>4, <2>5
<1> QED
  BY <1>1, <1>2

LEMMA NFKCIs ==
    ASSUME NEW s \in Seq(Char) PROVE NFKC(s) \in Seq(Char)
<1> DEFINE n == Len(s)
           step == [i \in 1..n |-> [x \in Seq(Char) |-> Compose(x, s[i])]]
           Eq(q) == q = [i \in 0..n |-> IF i = 0 THEN <<>>
                            ELSE Compose(q[i - 1], s[i])]
           normal == CHOOSE q : Eq(q)
<1>1. n \in Nat /\ \A i \in 1..n : s[i] \in Char
  BY ElementOfSeq
<1>2. \A i \in 1..n : \A x \in Seq(Char) :
        Compose(x, s[i]) \in Seq(Char)
  BY <1>1, ComposeIs
<1>3. step \in [1..n -> [Seq(Char) -> Seq(Char)]]
  BY <1>2
<1>4. \A i \in 1..n : \A x \in Seq(Char) :
        step[i][x] = Compose(x, s[i])
  OBVIOUS
<1> HIDE DEF step, n
<1>5. PICK g \in [0..n -> Seq(Char)] : g[0] = <<>> /\ \A i \in 1..n : g[i] = step[i][g[i - 1]]
  <2>1. <<>> \in Seq(Char)
    OBVIOUS
  <2>2. Solvable(n, Seq(Char), <<>>, step)
    BY <1>1, <1>3, <2>1, Recursion, Zenon
  <2> QED
    BY <2>2 DEF Solvable
<1>6. \E q : Eq(q)
  <2>1. ASSUME NEW i \in 0..n
        PROVE  g[i] = IF i = 0 THEN <<>>
                      ELSE Compose(g[i - 1], s[i])
    <3>1. CASE i = 0
      BY <1>5, <3>1
    <3>2. CASE i # 0
      <4>1. i \in 1..n /\ i - 1 \in 0..n
        BY <1>1, <3>2
      <4>2. g[i - 1] \in Seq(Char)
        BY <4>1
      <4> QED
        BY <1>4, <1>5, <3>2, <4>1, <4>2
    <3> QED
      BY <3>1, <3>2
  <2>2. g = [i \in 0..n |-> g[i]]
    OBVIOUS
  <2>3. Eq(g)
    BY <2>1, <2>2
  <2> QED
    BY <2>3
<1>7. Eq(normal)
  <2> HIDE DEF Eq
  <2> QED
    BY <1>6, Zenon
<1>8. NFKC(s) = normal[n]
  BY DEF NFKC, n
<1> HIDE DEF normal
<1>9. /\ normal = [i \in 0..n |-> normal[i]] /\ normal[0] = <<>>
      /\ \A i \in 1..n : normal[i] = Compose(normal[i - 1], s[i])
  <2>1. normal = [i \in 0..n |-> normal[i]]
    BY <1>7
  <2>2. \A i \in 0..n : normal[i] = IF i = 0 THEN <<>>
                            ELSE Compose(normal[i - 1], s[i])
    BY <1>7
  <2>3. 0 \in 0..n /\ \A i \in 1..n : i \in 0..n /\ i # 0
    BY <1>1
  <2> HIDE DEF Eq
  <2> QED
    BY <2>1, <2>2, <2>3
<1> HIDE DEF Eq
<1>10. \A i \in 0..n : normal[i] \in Seq(Char)
  <2> DEFINE T == {i \in 0..n : normal[i] \in Seq(Char)}
  <2>1. 0 \in T
    <3>1. 0 \in 0..n /\ <<>> \in Seq(Char)
      BY <1>1
    <3> QED
      BY <1>9, <3>1
  <2>2. ASSUME NEW i \in 1..n, i - 1 \in T PROVE i \in T
    <3>1. i \in 0..n /\ normal[i - 1] \in Seq(Char)
      BY <1>1, <2>2
    <3>2. normal[i] \in Seq(Char)
      BY <1>2, <1>9, <3>1
    <3> QED
      BY <3>1, <3>2
  <2> HIDE DEF T
  <2>3. 0..n \subseteq T
    BY <1>1, <2>1, <2>2, UpTo
  <2> QED
    BY <2>3 DEF T
<1> QED
  <2>1. n \in 0..n
    BY <1>1
  <2> QED
    BY <1>8, <1>10, <2>1

Lowered(s) == [i \in DOMAIN s |-> ToLower(s[i])]

LEMMA ToLowerIs ==
    ASSUME NEW c \in Char PROVE ToLower(c) \in Char
<1>1. /\ DOMAIN Upper = {"A", "B", "AAcute"}
      /\ Upper["A"] = "a" /\ Upper["B"] = "b" /\ Upper["AAcute"] = "aAcute"
  BY DEF Upper
<1>2. CASE c \in DOMAIN Upper
  <2>1. ToLower(c) = Upper[c] /\ (c = "A" \/ c = "B" \/ c = "AAcute")
    BY <1>1, <1>2 DEF ToLower
  <2>2. ToLower(c) = "a" \/ ToLower(c) = "b" \/ ToLower(c) = "aAcute"
    BY <1>1, <2>1, Zenon
  <2>3. "a" \in Char /\ "b" \in Char /\ "aAcute" \in Char
    BY CharAssumption
  <2> QED
    BY <2>2, <2>3
<1>3. CASE c \notin DOMAIN Upper
  BY <1>3 DEF ToLower
<1> QED
  BY <1>2, <1>3

LEMMA LoweredIs ==
    ASSUME NEW s \in Seq(Char)
    PROVE  /\ Lowered(s) \in Seq(Char) /\ Len(Lowered(s)) = Len(s)
           /\ \A i \in 1..Len(s) : Lowered(s)[i] = ToLower(s[i])
<1>1. DOMAIN s = 1..Len(s) /\ Len(s) \in Nat /\ \A i \in 1..Len(s) : ToLower(s[i]) \in Char
  BY LenProperties, ElementOfSeq, ToLowerIs
<1>2. Lowered(s) = [i \in 1..Len(s) |-> ToLower(s[i])]
  BY <1>1 DEF Lowered
<1> QED
  BY <1>1, <1>2

LEMMA FoldedIs ==
    ASSUME NEW s \in Seq(Char) PROVE Folded(s) \in Seq(Char)
<1> DEFINE k == StripZeroWidth(NFKC(s))
<1>1. k \in Seq(Char)
  BY NFKCIs, StripIs
<1>2. Folded(s) = Lowered(k)
  BY DEF Folded, Lowered
<1> HIDE DEF k
<1> QED
  BY <1>1, <1>2, LoweredIs

\* Where TrimSpace cuts: at the first and the last character that is no space.
Cut(s, a, b) ==
    /\ a \in 1..Len(s) /\ b \in 1..Len(s) /\ a <= b
    /\ s[a] # Space /\ s[b] # Space
    /\ \A i \in 1..Len(s) : s[i] # Space => a <= i /\ i <= b
    /\ TrimSpace(s) = SubSeq(s, a, b)

LEMMA TrimCuts ==
    ASSUME NEW s \in Seq(Char)
    PROVE  \/ TrimSpace(s) = <<>> /\ \A i \in 1..Len(s) : s[i] = Space
           \/ \E a, b : Cut(s, a, b)
<1> DEFINE solid == {i \in DOMAIN s : s[i] # Space}
           First(i) == i \in solid /\ \A j \in solid : i <= j
           Final(i) == i \in solid /\ \A j \in solid : j <= i
           a == CHOOSE i \in solid : \A j \in solid : i <= j
           b == CHOOSE i \in solid : \A j \in solid : j <= i
<1>0. DOMAIN s = 1..Len(s) /\ Len(s) \in Nat
  BY LenProperties
<1>1. solid \in SUBSET Nat /\ \A i \in 1..Len(s) : s[i] # Space => i \in solid
  BY <1>0
<1>2. CASE solid = {}
  <2>1. TrimSpace(s) = <<>>
    BY <1>2 DEF TrimSpace
  <2> QED
    BY <1>1, <1>2, <2>1
<1>3. CASE solid # {}
  <2>1. TrimSpace(s) = SubSeq(s, a, b)
    BY <1>3 DEF TrimSpace
  <2>2. \E i \in solid : \A j \in solid : i <= j
    BY <1>1, <1>3, Least
  <2>3. \E i \in solid : \A j \in solid : j <= i
    <3> DEFINE T == {Len(s) - i : i \in solid}
    <3>1. T \in SUBSET Nat /\ T # {}
      BY <1>0, <1>3
    <3>2. PICK d \in T : \A e \in T : d <= e
      BY <3>1, Least
    <3>3. PICK i \in solid : d = Len(s) - i
      OBVIOUS
    <3>4. ASSUME NEW j \in solid PROVE j <= i
      <4>1. Len(s) - i <= Len(s) - j /\ i \in Nat /\ j \in Nat
        BY <1>1, <3>2, <3>3
      <4> QED
        BY <1>0, <4>1
    <3> QED
      BY <3>4
  <2>4. a \in solid /\ \A j \in solid : a <= j
    <3> HIDE DEF solid
    <3> QED
      BY <2>2
  <2>5. b \in solid /\ \A j \in solid : j <= b
    <3> HIDE DEF solid
    <3> QED
      BY <2>3
  <2> HIDE DEF a, b
  <2>6. /\ a \in 1..Len(s) /\ b \in 1..Len(s) /\ a <= b /\ s[a] # Space /\ s[b] # Space
        /\ \A i \in 1..Len(s) : s[i] # Space => a <= i /\ i <= b
    BY <1>0, <1>1, <2>4, <2>5
  <2>7. Cut(s, a, b)
    BY <2>1, <2>6 DEF Cut
  <2> QED
    BY <2>7
<1> QED
  BY <1>2, <1>3

LEMMA CutIs ==
    ASSUME NEW s \in Seq(Char), NEW a, NEW b, Cut(s, a, b)
    PROVE  /\ TrimSpace(s) \in Seq(Char) /\ Len(TrimSpace(s)) = b - a + 1
           /\ \A i \in 1..b - a + 1 : TrimSpace(s)[i] = s[a - 1 + i]
<1> DEFINE t == SubSeq(s, a, b)
<1>1. /\ a \in 1..Len(s) /\ b \in 1..Len(s) /\ a <= b /\ Len(s) \in Nat
      /\ a \in Int /\ b \in Int /\ TrimSpace(s) = t
  BY DEF Cut
<1>2. \A i \in a..b : s[i] \in Char
  BY <1>1, ElementOfSeq
<1>3. /\ t \in Seq(Char) /\ Len(t) = IF a <= b THEN b - a + 1 ELSE 0
      /\ \A i \in 1..b - a + 1 : t[i] = s[a + i - 1]
  BY <1>1, <1>2, SubSeqProperties
<1> HIDE DEF t
<1>4. \A i \in 1..b - a + 1 : a + i - 1 = a - 1 + i
  BY <1>1
<1> QED
  BY <1>1, <1>3, <1>4

\* What a trimmed string begins and ends with.
LEMMA TrimIs ==
    ASSUME NEW s \in Seq(Char)
    PROVE  /\ TrimSpace(s) \in Seq(Char)
           /\ TrimSpace(s) # <<>> => /\ TrimSpace(s)[1] # Space
                                     /\ TrimSpace(s)[Len(TrimSpace(s))] # Space
<1>1. CASE TrimSpace(s) = <<>>
  BY <1>1, EmptySeq
<1>2. CASE TrimSpace(s) # <<>>
  <2>1. PICK a, b : Cut(s, a, b)
    BY <1>2, TrimCuts
  <2>2. /\ TrimSpace(s) \in Seq(Char) /\ Len(TrimSpace(s)) = b - a + 1
        /\ \A i \in 1..b - a + 1 : TrimSpace(s)[i] = s[a - 1 + i]
    BY <2>1, CutIs
  <2>3. /\ 1 \in 1..b - a + 1 /\ b - a + 1 \in 1..b - a + 1
        /\ a - 1 + 1 = a /\ a - 1 + (b - a + 1) = b
        /\ s[a] # Space /\ s[b] # Space
    BY <2>1 DEF Cut
  <2> QED
    BY <2>2, <2>3
<1> QED
  BY <1>1, <1>2

\* A word is found where the text up to some place ends in it.
LEMMA OccursIs ==
    ASSUME NEW text \in Seq(Char), NEW w \in Seq(Char)
    PROVE  Occurs(w, text) <=> \E k \in 0..Len(text) : EndsAt(text, k, w)
<1>0. Len(text) \in Nat /\ Len(w) \in Nat
  OBVIOUS
<1>1. ASSUME NEW i \in 0..Len(text) - Len(w)
      PROVE  SubSeq(text, i + 1, i + Len(w)) = w <=> EndsAt(text, i + Len(w), w)
  <2> DEFINE p == SubSeq(text, i + 1, i + Len(w))
             l == Len(w)
  <2>0. i \in Nat /\ l \in Nat /\ i + l <= Len(text) /\ i + 1 \in Int /\ i + l \in Int
    BY <1>0
  <2>1. /\ p \in Seq(Char) /\ Len(p) = IF i + 1 <= i + l THEN (i + l) - (i + 1) + 1 ELSE 0
        /\ \A j \in 1..(i + l) - (i + 1) + 1 : p[j] = text[i + 1 + j - 1]
    <3>1. \A j \in (i + 1)..(i + l) : text[j] \in Char
      BY <1>0, <2>0, ElementOfSeq
    <3> QED
      BY <2>0, <3>1, SubSeqProperties
  <2> HIDE DEF p, l
  <2>2. Len(p) = l
    BY <2>0, <2>1
  <2>3. ASSUME NEW j \in 1..l PROVE p[j] = text[i + j] /\ (i + l) - l + j = i + j
    <3>1. j \in 1..(i + l) - (i + 1) + 1 /\ i + 1 + j - 1 = i + j /\ (i + l) - l + j = i + j
      BY <2>0
    <3> QED
      BY <2>1, <3>1
  <2>4. EndsAt(text, i + l, w) <=> \A j \in 1..l : w[j] = text[i + j]
    <3>1. l <= i + l
      BY <2>0
    <3> QED
      BY <2>3, <3>1 DEF EndsAt, l
  <2>5. p = w <=> \A j \in 1..l : w[j] = text[i + j]
    <3>1. ASSUME p = w PROVE \A j \in 1..l : w[j] = text[i + j]
      BY <2>3, <3>1
    <3>2. ASSUME \A j \in 1..l : w[j] = text[i + j] PROVE p = w
      <4>1. Len(p) = Len(w) /\ \A j \in 1..Len(p) : p[j] = w[j]
        BY <2>2, <2>3, <3>2 DEF l
      <4> QED
        BY <2>1, <4>1, SeqEqual
    <3> QED
      BY <3>1, <3>2
  <2> QED
    BY <2>4, <2>5 DEF p, l
<1>2. ASSUME Occurs(w, text) PROVE \E k \in 0..Len(text) : EndsAt(text, k, w)
  <2>1. PICK i \in 0..Len(text) - Len(w) : SubSeq(text, i + 1, i + Len(w)) = w
    BY <1>2 DEF Occurs
  <2>2. i + Len(w) \in 0..Len(text) /\ EndsAt(text, i + Len(w), w)
    BY <1>0, <1>1, <2>1
  <2> QED
    BY <2>2
<1>3. ASSUME NEW k \in 0..Len(text), EndsAt(text, k, w) PROVE Occurs(w, text)
  <2>1. k - Len(w) \in 0..Len(text) - Len(w) /\ (k - Len(w)) + Len(w) = k
    BY <1>0, <1>3 DEF EndsAt
  <2>2. SubSeq(text, (k - Len(w)) + 1, (k - Len(w)) + Len(w)) = w
    BY <1>1, <1>3, <2>1
  <2> QED
    BY <2>1, <2>2 DEF Occurs
<1> QED
  BY <1>2, <1>3

\* A word that begins and ends with no space is found in a text exactly when
\* it is found in the trimmed text.
LEMMA OccursTrimmed ==
    ASSUME NEW text \in Seq(Char), NEW w \in Seq(Char), w # <<>>,
           w[1] # Space, w[Len(w)] # Space
    PROVE  Occurs(w, TrimSpace(text)) <=> Occurs(w, text)
<1> DEFINE t == TrimSpace(text)
           l == Len(w)
<1>0. l \in Nat \ {0} /\ Len(text) \in Nat /\ t \in Seq(Char)
  BY TrimIs, EmptySeq
<1>1. SUFFICES (\E k \in 0..Len(t) : EndsAt(t, k, w)) <=> (\E k \in 0..Len(text) : EndsAt(text, k, w))
  BY <1>0, OccursIs
<1>2. ASSUME NEW k \in 0..Len(text), EndsAt(text, k, w)
      PROVE  l <= k /\ k - l + 1 \in 1..Len(text) /\ k \in 1..Len(text)
             /\ text[k - l + 1] # Space /\ text[k] # Space
  <2>1. l <= k /\ \A i \in 1..l : w[i] = text[k - l + i]
    BY <1>2 DEF EndsAt
  <2>2. 1 \in 1..l /\ l \in 1..l /\ k - l + l = k
    BY <1>0
  <2>3. w[1] = text[k - l + 1] /\ w[l] = text[k]
    BY <2>1, <2>2
  <2>4. k - l + 1 \in 1..Len(text) /\ k \in 1..Len(text)
    BY <1>0, <2>1
  <2> QED
    BY <2>1, <2>3, <2>4
<1>3. CASE t = <<>> /\ \A i \in 1..Len(text) : text[i] = Space
  <2>1. ~\E k \in 0..Len(text) : EndsAt(text, k, w)
    BY <1>2, <1>3
  <2>2. ~\E k \in 0..Len(t) : EndsAt(t, k, w)
    BY <1>0, <1>3 DEF EndsAt
  <2> QED
    BY <2>1, <2>2
<1>4. ASSUME NEW a, NEW b, Cut(text, a, b)
      PROVE  (\E k \in 0..Len(t) : EndsAt(t, k, w)) <=> (\E k \in 0..Len(text) : EndsAt(text, k, w))
  <2>1. /\ Len(t) = b - a + 1 /\ \A i \in 1..b - a + 1 : t[i] = text[a - 1 + i]
    BY <1>4, CutIs
  <2>2. /\ a \in 1..Len(text) /\ b \in 1..Len(text) /\ a <= b
        /\ \A i \in 1..Len(text) : text[i] # Space => a <= i /\ i <= b
    BY <1>4 DEF Cut
  <2> HIDE DEF t, l
  <2>3. ASSUME NEW k \in 0..Len(t), l <= k
        PROVE  /\ a - 1 + k \in 0..Len(text)
               /\ EndsAt(t, k, w) <=> EndsAt(text, a - 1 + k, w)
    <3>1. a - 1 + k \in 0..Len(text) /\ l <= a - 1 + k
      BY <1>0, <2>1, <2>2, <2>3
    <3>2. ASSUME NEW i \in 1..l PROVE t[k - l + i] = text[(a - 1 + k) - l + i]
      <4>1. k - l + i \in 1..b - a + 1 /\ a - 1 + (k - l + i) = (a - 1 + k) - l + i
        BY <1>0, <2>1, <2>2, <2>3
      <4> QED
        BY <2>1, <4>1
    <3> QED
      BY <2>3, <3>1, <3>2 DEF EndsAt, l
  <2>4. ASSUME NEW k \in 0..Len(t), EndsAt(t, k, w)
        PROVE  \E j \in 0..Len(text) : EndsAt(text, j, w)
    <3>1. l <= k
      BY <2>4 DEF EndsAt, l
    <3> QED
      BY <2>3, <2>4, <3>1
  <2>5. ASSUME NEW k \in 0..Len(text), EndsAt(text, k, w)
        PROVE  \E j \in 0..Len(t) : EndsAt(t, j, w)
    <3>1. l <= k /\ a <= k - l + 1 /\ k <= b
      BY <1>2, <2>2, <2>5
    <3> DEFINE j == k - (a - 1)
    <3>2. j \in 0..Len(t) /\ l <= j /\ a - 1 + j = k
      BY <1>0, <2>1, <2>2, <3>1
    <3> HIDE DEF j
    <3> QED
      BY <2>3, <2>5, <3>2
  <2> QED
    BY <2>4, <2>5
<1> QED
  BY <1>3, <1>4, TrimCuts

-----------------------------------------------------------------------------
(* The automaton at the start, and what it finds when it is built.         *)

LEMMA WordsAre ==
    ASSUME NEW config \in ConfigLists, NEW lines \in FileLists
    PROVE  /\ RawWords(config, lines) \subseteq Seq(Char)
           /\ loadBlocklist(config, lines) =
                {TrimSpace(Folded(r)) : r \in RawWords(config, lines)} \ {<<>>}
           /\ \A w \in loadBlocklist(config, lines) :
                w \in Seq(Char) /\ w # <<>> /\ w[1] # Space /\ w[Len(w)] # Space
           /\ IsFiniteSet(loadBlocklist(config, lines))
<1> DEFINE raw == RawWords(config, lines)
           all == {normalizeContent(r) : r \in raw}
<1>1. raw \subseteq Seq(Char) /\ IsFiniteSet(raw)
  <2>1. /\ config \subseteq Seq(Char) /\ IsFiniteSet(config)
        /\ lines \subseteq Seq(Char) /\ IsFiniteSet(lines)
    BY ListAssumption
  <2>2. IsFiniteSet({l \in lines : ~IsComment(l)})
    BY <2>1, FS_Subset
  <2>3. IsFiniteSet(config \cup {l \in lines : ~IsComment(l)})
    BY <2>1, <2>2, FS_Union
  <2> QED
    BY <2>1, <2>3 DEF RawWords
<1>2. loadBlocklist(config, lines) = all \ {<<>>}
  BY DEF loadBlocklist
<1> HIDE DEF raw
<1>3. IsFiniteSet(all)
  <2> DEFINE f == [r \in raw |-> normalizeContent(r)]
  <2>1. f \in Surjection(raw, all)
    BY DEF Surjection
  <2> HIDE DEF f, all
  <2> QED
    BY <1>1, <2>1, FS_Surjection
<1>4. \A r \in raw : r \in Seq(Char) /\ normalizeContent(r) = TrimSpace(Folded(r)) /\ Folded(r) \in Seq(Char)
  BY <1>1, FoldedIs DEF normalizeContent
<1>5. all = {TrimSpace(Folded(r)) : r \in raw}
  BY <1>4
<1>6. ASSUME NEW w \in all, w # <<>>
      PROVE  w \in Seq(Char) /\ w[1] # Space /\ w[Len(w)] # Space
  <2>1. PICK r \in raw : w = TrimSpace(Folded(r))
    BY <1>5
  <2> QED
    BY <1>4, <1>6, <2>1, TrimIs
<1> HIDE DEF all
<1>7. IsFiniteSet(all \ {<<>>})
  <2>1. all \ {<<>>} \in SUBSET all
    OBVIOUS
  <2> QED
    BY <1>3, <2>1, FS_Subset
<1> QED
  BY <1>1, <1>2, <1>5, <1>6, <1>7 DEF raw

LEMMA BlockStarts ==
    ASSUME BlockInit
    PROVE  /\ BlockInv
           /\ listed.config \in ConfigLists /\ listed.lines \in FileLists
<1>1. PICK config \in ConfigLists, lines \in FileLists :
        LET words == loadBlocklist(config, lines) IN
        /\ listed = [config |-> config, lines |-> lines]
        /\ nodes = {Root} \cup UNION {{SubSeq(w, 1, n) : n \in 1..Len(w)} : w \in words}
        /\ output = [n \in nodes |-> IF n \in words THEN n ELSE <<>>]
        /\ fail = [n \in {m \in nodes : Len(m) = 1} |-> Root]
        /\ queue \in SetToSeqs(DOMAIN fail)
  BY DEF BlockInit
<1> DEFINE words == loadBlocklist(config, lines)
<1>2. listed.config = config /\ listed.lines = lines /\ Words = words
  BY <1>1 DEF Words
<1>3. /\ \A w \in words : w \in Seq(Char) /\ w # <<>> /\ Len(w) \in Nat \ {0}
      /\ IsFiniteSet(words)
  <2>1. \A w \in words : w \in Seq(Char) /\ w # <<>>
    BY WordsAre
  <2>2. IsFiniteSet(words)
    BY WordsAre
  <2> QED
    BY <2>1, <2>2, EmptySeq
<1>4. /\ nodes = {Root} \cup UNION {{SubSeq(w, 1, n) : n \in 1..Len(w)} : w \in words}
      /\ output = [n \in nodes |-> IF n \in words THEN n ELSE <<>>]
      /\ fail = [n \in {m \in nodes : Len(m) = 1} |-> Root]
      /\ queue \in SetToSeqs(DOMAIN fail)
  BY <1>1
<1> HIDE DEF words
<1>5. \A n \in nodes : n = Root \/ \E w \in words : \E k \in 1..Len(w) : n = SubSeq(w, 1, k)
  BY <1>4
<1>6. Root \in nodes /\ \A w \in words : \A k \in 1..Len(w) : SubSeq(w, 1, k) \in nodes
  BY <1>4
<1>7. TrieInv
  <2>1. ASSUME NEW n \in nodes PROVE n \in Seq(Char)
    <3>1. \A w \in words : \A k \in 1..Len(w) : SubSeq(w, 1, k) \in Seq(Char)
      BY <1>3, PrefixIs
    <3>2. Root \in Seq(Char)
      BY DEF Root
    <3> QED
      BY <1>5, <3>1, <3>2
  <2>2. ASSUME NEW n \in nodes, NEW k \in 1..Len(n) PROVE SubSeq(n, 1, k) \in nodes
    <3>1. n # Root
      BY DEF Root
    <3>2. PICK w \in words : \E j \in 1..Len(w) : n = SubSeq(w, 1, j)
      BY <1>5, <3>1
    <3>3. PICK j \in 1..Len(w) : n = SubSeq(w, 1, j)
      BY <3>2
    <3>4. Len(n) = j /\ w \in Seq(Char) /\ Len(w) \in Nat
      BY <1>3, <3>3, PrefixIs
    <3>5. SubSeq(n, 1, k) = SubSeq(w, 1, k)
      BY <3>3, <3>4, PrefixOfPrefix
    <3>6. k \in 1..Len(w)
      BY <3>4
    <3> QED
      BY <1>6, <3>5, <3>6
  <2>3. ASSUME NEW w \in words PROVE w \in nodes \ {Root}
    <3>1. w \in Seq(Char) /\ Len(w) \in 1..Len(w) /\ w # Root
      BY <1>3 DEF Root
    <3>2. SubSeq(w, 1, Len(w)) = w
      BY <3>1, PrefixIs
    <3> QED
      BY <1>6, <3>1, <3>2
  <2> QED
    BY <1>2, <1>6, <2>1, <2>2, <2>3 DEF TrieInv
<1> DEFINE S == {m \in nodes : Len(m) = 1}
<1>8. DOMAIN fail = S /\ \A n \in S : fail[n] = Root
  BY <1>4
<1>9. Len(Root) = 0
  BY DEF Root
<1>10. \A n \in nodes : n \in Seq(Char) /\ Len(n) \in Nat
  BY <1>7, NodeIs
<1>11. LinkInv
  <2>1. S \subseteq nodes \ {Root}
    BY <1>9
  <2>2. ASSUME NEW n \in S
        PROVE  /\ EndsIn(n, Root) /\ Len(Root) < Len(n)
               /\ \A m \in nodes : EndsIn(n, m) /\ Len(m) < Len(n) => Len(m) <= Len(Root)
    BY <1>9, <1>10, EndsEmpty DEF EndsIn, Root
  <2> QED
    BY <1>8, <2>1, <2>2 DEF LinkInv
<1>12. OutputInv
  <2>1. DOMAIN output = nodes /\ \A n \in nodes : output[n] = IF n \in words THEN n ELSE <<>>
    BY <1>4
  <2>2. \A n \in nodes : output[n] # <<>> => output[n] \in words /\ EndsIn(n, output[n])
    BY <1>3, <2>1, EndsSelf
  <2>3. ASSUME NEW n \in S, NEW w \in words, EndsIn(n, w) PROVE output[n] # <<>>
    <3>1. Len(w) <= Len(n) /\ Len(n) = 1 /\ Len(w) \in Nat \ {0}
      BY <1>3, <2>3 DEF EndsIn, EndsAt
    <3>2. Len(w) = Len(n)
      BY <3>1
    <3>3. w = n
      BY <1>3, <1>10, <2>3, <3>2, EndsWhole
    <3> QED
      BY <1>3, <2>1, <3>3
  <2> QED
    BY <1>2, <1>8, <2>1, <2>2, <2>3 DEF OutputInv
<1>13. IsFiniteSet(S)
  <2> DEFINE f == [w \in words |-> SubSeq(w, 1, 1)]
  <2>1. ASSUME NEW w \in words PROVE SubSeq(w, 1, 1) \in S
    <3>1. w \in Seq(Char) /\ 1 \in 1..Len(w)
      BY <1>3
    <3> QED
      BY <1>6, <3>1, PrefixIs
  <2>2. ASSUME NEW m \in S PROVE \E w \in words : m = SubSeq(w, 1, 1)
    <3>1. PICK w \in words : \E j \in 1..Len(w) : m = SubSeq(w, 1, j)
      BY <1>5, <1>9
    <3>2. PICK j \in 1..Len(w) : m = SubSeq(w, 1, j)
      BY <3>1
    <3>3. Len(m) = j
      BY <1>3, <3>2, PrefixIs
    <3> QED
      BY <3>2, <3>3
  <2> HIDE DEF S
  <2>3. f \in Surjection(words, S)
    BY <2>1, <2>2 DEF Surjection
  <2> HIDE DEF f
  <2> QED
    BY <1>3, <2>3, FS_Surjection
<1> DEFINE c == Cardinality(S)
<1>14. c \in Nat
  BY <1>13, FS_CardinalityType
<1>15. queue \in [1..c -> S] /\ \A i, j \in 1..c : i # j => queue[i] # queue[j]
  BY <1>4, <1>8 DEF SetToSeqs
<1>16. \A n \in S : \E i \in 1..c : queue[i] = n
  <2> HIDE DEF S
  <2>1. queue \in Injection(1..c, S)
    BY <1>15 DEF Injection, IsInjective
  <2>2. Cardinality(1..c) = c
    BY <1>14, FS_Interval
  <2> HIDE DEF c
  <2>3. queue \in Surjection(1..c, S)
    BY <1>13, <2>1, <2>2, FS_Injection DEF c
  <2> QED
    BY <2>3 DEF Surjection
<1>17. QueueInv
  <2>1. queue \in Seq(S) /\ Len(queue) = c
    <3> HIDE DEF S, c
    <3> QED
      BY <1>14, <1>15
  <2>2. \A i \in 1..c : queue[i] \in S /\ Len(queue[i]) = 1
    BY <1>15
  <2>3. /\ \A i, j \in 1..c : i <= j => Len(queue[i]) <= Len(queue[j])
        /\ \A i \in 1..c : Len(queue[i]) <= Len(queue[1]) + 1
    <3>1. \A i \in 1..c : 1 \in 1..c
      BY <1>14
    <3> QED
      BY <2>2, <3>1
  <2> HIDE DEF S, c
  <2> QED
    BY <1>8, <1>16, <2>1, <2>3 DEF QueueInv
<1> QED
  BY <1>2, <1>7, <1>11, <1>12, <1>17 DEF BlockInv

\* The equation of the reading of a text, of which Match is the end.
Reads(at, text) ==
    /\ at[0] = Root
    /\ \A i \in 1..Len(text) :
        at[i] = IF output[at[i - 1]] # <<>> THEN at[i - 1] ELSE Follow(at[i - 1], text[i])

LEMMA BuiltLinks ==
    ASSUME BlockInv, Built
    PROVE  nodes = DOMAIN fail \cup {Root}
<1>1. TrieInv /\ LinkInv /\ QueueInv /\ queue = <<>>
  BY DEF BlockInv, Built
<1>2. \A n \in nodes \ {Root} : n \in DOMAIN fail
  BY <1>1, UnlinkedBehind
<1> QED
  BY <1>1, <1>2 DEF TrieInv, LinkInv

LEMMA MatchReads ==
    ASSUME BlockInv, Built, NEW text \in Seq(Char)
    PROVE  \E at : Reads(at, text) /\ Match(text) = output[at[Len(text)]]
<1> DEFINE n == Len(text)
           Move(i, x) == IF output[x] # <<>> THEN x ELSE Follow(x, text[i])
           step == [i \in 1..n |-> [x \in nodes |-> Move(i, x)]]
           Eq(q) == q = [i \in 0..n |-> IF i = 0 THEN Root
                            ELSE IF output[q[i - 1]] # <<>> THEN q[i - 1]
                                 ELSE Follow(q[i - 1], text[i])]
           at == CHOOSE q : Eq(q)
<1>1. n \in Nat /\ \A i \in 1..n : text[i] \in Char
  BY ElementOfSeq
<1>2. \A i \in 1..n : \A x \in nodes : Move(i, x) \in nodes
  BY <1>1, BuiltLinks, FollowIs DEF BlockInv, LongestAt
<1> HIDE DEF n
<1>3. step \in [1..n -> [nodes -> nodes]] /\ \A i \in 1..n : \A x \in nodes : step[i][x] = Move(i, x)
  <2> HIDE DEF Move
  <2> QED
    BY <1>2
<1> HIDE DEF step
<1>4. PICK g \in [0..n -> nodes] : g[0] = Root /\ \A i \in 1..n : g[i] = step[i][g[i - 1]]
  <2>1. Root \in nodes
    BY DEF BlockInv, TrieInv
  <2>2. Solvable(n, nodes, Root, step)
    BY <1>1, <1>3, <2>1, Recursion, Zenon
  <2> QED
    BY <2>2 DEF Solvable
<1>5. Eq(g)
  <2>1. ASSUME NEW i \in 0..n PROVE g[i] = IF i = 0 THEN Root ELSE Move(i, g[i - 1])
    <3>1. CASE i = 0
      BY <1>4, <3>1
    <3>2. CASE i # 0
      <4>1. i \in 1..n /\ i - 1 \in 0..n
        BY <1>1, <3>2
      <4>2. g[i - 1] \in nodes
        BY <4>1
      <4> HIDE DEF Move
      <4> QED
        BY <1>3, <1>4, <3>2, <4>1, <4>2
    <3> QED
      BY <3>1, <3>2
  <2>2. g = [i \in 0..n |-> g[i]]
    OBVIOUS
  <2> QED
    BY <2>1, <2>2
<1>6. Eq(at)
  <2> HIDE DEF Eq
  <2>1. \E q : Eq(q)
    BY <1>5
  <2> QED
    BY <2>1, Zenon
<1>7. Match(text) = output[at[n]]
  BY DEF Match, n
<1> HIDE DEF at
<1>8. Reads(at, text)
  <2>1. \A i \in 0..n : at[i] = IF i = 0 THEN Root
                            ELSE IF output[at[i - 1]] # <<>> THEN at[i - 1]
                                 ELSE Follow(at[i - 1], text[i])
    BY <1>6
  <2>2. 0 \in 0..n /\ \A i \in 1..n : i \in 0..n /\ i # 0
    BY <1>1
  <2> HIDE DEF Eq
  <2> QED
    BY <2>1, <2>2 DEF Reads, n
<1> QED
  BY <1>7, <1>8 DEF n

\* A match is a word of the list that the text holds, and there is one if the
\* text holds any.
LEMMA MatchIs ==
    ASSUME BlockInv, Built, NEW text \in Seq(Char)
    PROVE  /\ Match(text) # <<>> => Match(text) \in Words /\ Occurs(Match(text), text)
           /\ Match(text) = <<>> => \A w \in Words : ~Occurs(w, text)
<1> DEFINE n == Len(text)
<1>0. TrieInv /\ LinkInv /\ OutputInv /\ n \in Nat
  BY DEF BlockInv
<1>1. PICK at : Reads(at, text) /\ Match(text) = output[at[n]]
  BY MatchReads
<1>2. \A w \in Words : w \in nodes \ {Root} /\ w \in Seq(Char) /\ Len(w) \in Nat /\ Len(w) > 0
  BY <1>0, NodeIs DEF TrieInv
<1> DEFINE Held(i) ==
             /\ at[i] \in nodes
             /\ \E k \in 0..i : EndsAt(text, k, at[i])
             /\ output[at[i]] = <<>> =>
                  /\ LongestAt(text, i, at[i])
                  /\ \A k \in 0..i, w \in Words : ~EndsAt(text, k, w)
           T == {i \in 0..n : Held(i)}
<1>3. Held(0)
  <2>1. at[0] = Root /\ Root \in nodes /\ EndsAt(text, 0, Root)
    BY <1>0, <1>1, EndsEmpty DEF Reads, TrieInv, Root
  <2>2. LongestAt(text, 0, Root)
    <3>1. \A m \in nodes : EndsAt(text, 0, m) => Len(m) <= Len(Root)
      BY DEF EndsAt, Root
    <3> QED
      BY <2>1, <3>1 DEF LongestAt
  <2>3. \A k \in 0..0, w \in Words : ~EndsAt(text, k, w)
    BY <1>2 DEF EndsAt
  <2>4. 0 \in 0..0
    OBVIOUS
  <2> QED
    BY <2>1, <2>2, <2>3, <2>4
<1>4. ASSUME NEW i \in 1..n, Held(i - 1) PROVE Held(i)
  <2> DEFINE s == at[i - 1]
  <2>0. i - 1 \in Nat /\ i \in Nat /\ (i - 1) + 1 = i /\ text[i] \in Char
    BY ElementOfSeq
  <2>1. at[i] = IF output[s] # <<>> THEN s ELSE Follow(s, text[i])
    BY <1>1 DEF Reads
  <2>2. CASE output[s] # <<>>
    <3>1. at[i] = s
      BY <2>1, <2>2
    <3>2. 0..(i - 1) \subseteq 0..i
      BY <2>0
    <3> QED
      BY <1>4, <2>2, <3>1, <3>2
  <2>3. CASE output[s] = <<>>
    <3>1. /\ s \in nodes /\ LongestAt(text, i - 1, s)
          /\ \A k \in 0..(i - 1), w \in Words : ~EndsAt(text, k, w)
      BY <1>4, <2>3
    <3>2. at[i] = Follow(s, text[i])
      BY <2>1, <2>3
    <3> HIDE DEF s
    <3>3. LongestAt(Append(s, text[i]), Len(s) + 1, at[i])
      BY <1>0, <2>0, <3>1, <3>2, BuiltLinks, FollowIs
    <3>4. LongestAt(text, i, at[i])
      <4>1. text[(i - 1) + 1] = text[i]
        BY <2>0
      <4>2. LongestAt(text, (i - 1) + 1, at[i])
        BY <1>0, <2>0, <3>1, <3>3, <4>1, LongestGrows
      <4> QED
        BY <2>0, <4>2
    <3>5. at[i] \in nodes /\ EndsAt(text, i, at[i]) /\ i \in 0..i
      BY <2>0, <3>4 DEF LongestAt
    <3>6. ASSUME output[at[i]] = <<>>, NEW k \in 0..i, NEW w \in Words, EndsAt(text, k, w)
          PROVE  FALSE
      <4>1. CASE k \in 0..(i - 1)
        BY <3>1, <3>6, <4>1
      <4>2. CASE k = i
        <5>1. at[i] \in Seq(Char) /\ Len(at[i]) \in Nat
          BY <1>0, <3>5, NodeIs
        <5>2. Len(w) <= Len(at[i]) /\ EndsAt(text, i, w)
          BY <1>2, <3>4, <3>6, <4>2 DEF LongestAt
        <5>3. EndsIn(at[i], w)
          BY <1>2, <2>0, <3>5, <5>1, <5>2, EndsCompare
        <5>4. at[i] # Root
          BY <1>2, <5>1, <5>2 DEF Root
        <5>5. at[i] \in DOMAIN fail
          BY <3>5, <5>4, BuiltLinks
        <5> QED
          BY <1>0, <3>6, <5>3, <5>5 DEF OutputInv
      <4> QED
        BY <2>0, <4>1, <4>2
    <3> QED
      BY <3>4, <3>5, <3>6
  <2> QED
    BY <2>2, <2>3
<1> HIDE DEF Held
<1>5. 0..n \subseteq T
  <2>1. 0 \in T /\ \A i \in 1..n : i - 1 \in T => i \in T
    BY <1>0, <1>3, <1>4
  <2> HIDE DEF T
  <2> QED
    BY <1>0, <2>1, UpTo
<1>6. n \in 0..n /\ Held(n)
  BY <1>0, <1>5
<1>7. ASSUME Match(text) # <<>> PROVE Match(text) \in Words /\ Occurs(Match(text), text)
  <2> DEFINE w == Match(text)
  <2>1. PICK k \in 0..n : EndsAt(text, k, at[n])
    BY <1>6 DEF Held
  <2>2. at[n] \in nodes /\ at[n] \in Seq(Char) /\ w = output[at[n]] /\ w \in Words /\ EndsIn(at[n], w)
    BY <1>0, <1>1, <1>6, <1>7, NodeIs DEF OutputInv, Held
  <2> HIDE DEF w
  <2>3. w \in Seq(Char) /\ k \in Nat
    BY <1>0, <1>2, <2>2
  <2>4. EndsAt(text, k, w)
    BY <2>1, <2>2, <2>3, EndsTrans
  <2>5. Occurs(w, text)
    BY <2>3, <2>4, OccursIs
  <2> QED
    BY <2>2, <2>5 DEF w
<1>8. ASSUME Match(text) = <<>>, NEW w \in Words PROVE ~Occurs(w, text)
  <2>1. \A k \in 0..n : ~EndsAt(text, k, w)
    BY <1>1, <1>6, <1>8 DEF Held
  <2> QED
    BY <1>2, <2>1, OccursIs
<1> QED
  BY <1>7, <1>8

-----------------------------------------------------------------------------
(* The verdict.                                                            *)

\* The lists and the content are those of the constants, and stay.
Loaded ==
    /\ listed.config \in ConfigLists /\ listed.lines \in FileLists
    /\ content \in Contents

\* What CheckContent reports is a folded word of the list in the folded content.
LEMMA CheckContentIs ==
    ASSUME BlockInv, Loaded, Built
    PROVE  /\ CheckContent(content) # <<>> => CheckContent(content) \in Hits(content)
           /\ CheckContent(content) = <<>> => Hits(content) = {}
<1> DEFINE folded == Folded(content)
           text == TrimSpace(folded)
<1>1. folded \in Seq(Char) /\ text \in Seq(Char) /\ CheckContent(content) = Match(text)
  <2>1. content \in Seq(Char)
    BY ContentAssumption DEF Loaded
  <2> QED
    BY <2>1, FoldedIs, TrimIs DEF CheckContent, normalizeContent
<1>2. /\ Words = {TrimSpace(Folded(r)) : r \in RawWords(listed.config, listed.lines)} \ {<<>>}
      /\ \A w \in Words : w \in Seq(Char) /\ w # <<>> /\ w[1] # Space /\ w[Len(w)] # Space
  BY WordsAre DEF Words, Loaded
<1>3. Hits(content) = {w \in Words : Occurs(w, folded)}
  BY <1>2 DEF Hits
<1> HIDE DEF text, folded
<1>4. \A w \in Words : Occurs(w, text) <=> Occurs(w, folded)
  BY <1>1, <1>2, OccursTrimmed DEF text
<1>5. /\ Match(text) # <<>> => Match(text) \in Words /\ Occurs(Match(text), text)
      /\ Match(text) = <<>> => \A w \in Words : ~Occurs(w, text)
  BY <1>1, MatchIs
<1> QED
  BY <1>1, <1>3, <1>4, <1>5

VerdictInv == BlockInv /\ Loaded /\ VerdictIsRight

LEMMA VerdictNext == VerdictInv /\ [Next]_vars => VerdictInv'
<1> SUFFICES ASSUME VerdictInv, [Next]_vars PROVE VerdictInv'
  OBVIOUS
<1>0. BlockInv /\ Loaded /\ VerdictIsRight
  BY DEF VerdictInv
<1>1. ASSUME UNCHANGED <<listed, content>> PROVE Loaded' /\ Hits(content)' = Hits(content)
  BY <1>0, <1>1 DEF Loaded, Hits
<1>2. ASSUME UNCHANGED blockVars PROVE BlockInv'
  BY <1>0, <1>2 DEF BlockInv, TrieInv, LinkInv, OutputInv, QueueInv, Words, Unlinked, blockVars
<1>3. ASSUME UNCHANGED <<listed, content, answer, word>> PROVE VerdictIsRight'
  BY <1>0, <1>1, <1>3 DEF VerdictIsRight
<1>4. CASE Build
  <2>1. ~Built /\ buildACA /\ UNCHANGED <<content, answer, word>>
    BY <1>4 DEF Build, buildACA, checkVars
  <2>2. CASE \E child \in Unlinked(Head(queue)) : LinkChild(child)
    <3>1. BlockInv' /\ UNCHANGED listed
      BY <1>0, <2>1, <2>2, LinkChildKeeps DEF LinkChild
    <3> QED
      BY <1>1, <1>3, <2>1, <3>1 DEF VerdictInv
  <2>3. CASE Unlinked(Head(queue)) = {} /\ NextParent
    <3>1. BlockInv' /\ UNCHANGED listed
      BY <1>0, <2>1, <2>3, NextParentKeeps DEF NextParent
    <3> QED
      BY <1>1, <1>3, <2>1, <3>1 DEF VerdictInv
  <2> QED
    BY <2>1, <2>2, <2>3 DEF buildACA
<1>5. CASE TimePasses \/ UNCHANGED vars
  <2>1. UNCHANGED blockVars /\ UNCHANGED <<listed, content, answer, word>>
    BY <1>5 DEF TimePasses, vars, blockVars, checkVars
  <2> QED
    BY <1>1, <1>2, <1>3, <2>1 DEF VerdictInv
<1>6. ASSUME NEW user \in Users, Refused(user) PROVE VerdictInv'
  <2>1. UNCHANGED blockVars /\ UNCHANGED <<listed, content>> /\ answer' = "too fast"
    BY <1>6 DEF Refused, blockVars
  <2>2. VerdictIsRight'
    BY <2>1 DEF VerdictIsRight
  <2> QED
    BY <1>1, <1>2, <2>1, <2>2 DEF VerdictInv
<1>7. ASSUME NEW user \in Users, Built, Checked(user) PROVE VerdictInv'
  <2>1. /\ UNCHANGED blockVars /\ UNCHANGED <<listed, content>>
        /\ word' = CheckContent(content)
        /\ answer' = IF word' = <<>> THEN "approved"
                     ELSE IF autoReject THEN "blocked" ELSE "flagged"
    BY <1>7 DEF Checked, blockVars
  <2>2. /\ word' # <<>> => word' \in Hits(content)
        /\ word' = <<>> => Hits(content) = {}
    BY <1>0, <1>7, <2>1, CheckContentIs
  <2>3. /\ word' = <<>> => answer' = "approved"
        /\ word' # <<>> => answer' # "approved"
    BY <2>1
  <2>4. VerdictIsRight'
    BY <1>1, <2>1, <2>2, <2>3 DEF VerdictIsRight
  <2> QED
    BY <1>1, <1>2, <2>1, <2>4 DEF VerdictInv
<1> QED
  BY <1>4, <1>5, <1>6, <1>7 DEF Next, Send

LEMMA VerdictInit == Init => VerdictInv
<1>1. Init => BlockInv /\ Loaded
  BY BlockStarts DEF Init, Loaded
<1>2. Init => VerdictIsRight
  BY DEF Init, VerdictIsRight
<1> QED
  BY <1>1, <1>2 DEF VerdictInv

\* Whatever the words of the list, the order in which buildACA met the children
\* and the content: CheckContent holds a danmaku back exactly when its folded
\* content has a folded word of the list in it, and reports such a word.  The
\* automaton and the trimming of both sides are shown right for every input; the
\* folding is the program's own, and is not shown to be a good one.
THEOREM VerdictsAreRight == Spec => []VerdictIsRight
<1>1. VerdictInv => VerdictIsRight
  BY DEF VerdictInv
<1> QED
  BY <1>1, VerdictInit, VerdictNext, PTL DEF Spec

\* At every moment of the building, every fail pointer set so far leads to the
\* longest shorter node its node ends in, every linked node reports a word if it
\* ends in one, and a linked node that has left the queue has no child to come.
THEOREM AutomatonHolds == Spec => []BlockInv
<1>1. VerdictInv => BlockInv
  BY DEF VerdictInv
<1> QED
  BY <1>1, VerdictInit, VerdictNext, PTL DEF Spec

=============================================================================
