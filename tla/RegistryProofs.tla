--------------------------- MODULE RegistryProofs ---------------------------
(***************************************************************************)
(* Theorems about Registry, for any modules: the lists of handlers follow  *)
(* what is loaded, and the transport chosen from them is the best.         *)
(***************************************************************************)
EXTENDS Registry, Integers, SequenceTheorems, WellFoundedInduction, TLAPS

-----------------------------------------------------------------------------
(* Lists and loops *)

\* A nonempty set of natural numbers has a least element.
LEMMA LeastNat ==
  ASSUME NEW T \in SUBSET Nat, T # {}
  PROVE  \E x \in T : \A y \in T : x <= y
<1>1. PICK x \in T : \A y \in T : <<y, x>> \notin OpToRel(<, Nat)
  BY NatLessThanWellFounded, WFMin
<1>2. ASSUME NEW y \in T PROVE x <= y
  <2>1. ~(y < x)
    BY <1>1 DEF OpToRel
  <2> QED BY <2>1
<1> QED BY <1>2

\* An element is appended to a list it is not in.
LEMMA Entering ==
  ASSUME NEW kind, NEW s \in Seq(kind), NEW x \in kind, IsInjective(s), x \notin ToSet(s)
  PROVE  /\ Append(s, x) \in Seq(kind)
         /\ ToSet(Append(s, x)) = ToSet(s) \cup {x}
         /\ IsInjective(Append(s, x))
<1>1. /\ Append(s, x) \in Seq(kind)
      /\ DOMAIN s = 1 .. Len(s) /\ Len(s) \in Nat
      /\ DOMAIN Append(s, x) = 1 .. Len(s) + 1
      /\ \A j \in 1 .. Len(s) : Append(s, x)[j] = s[j]
      /\ Append(s, x)[Len(s) + 1] = x
  OBVIOUS
<1>2. DOMAIN Append(s, x) = DOMAIN s \cup {Len(s) + 1}
  BY <1>1
<1>3. ToSet(Append(s, x)) = ToSet(s) \cup {x}
  BY <1>1, <1>2, ZenonT(30) DEF ToSet
<1>4. \A j \in DOMAIN s : s[j] # x
  BY DEF ToSet
<1> QED BY <1>1, <1>2, <1>3, <1>4 DEF IsInjective

\* The element at place i is taken out of a list.
LEMMA Removing ==
  ASSUME NEW kind, NEW s \in Seq(kind), IsInjective(s), NEW i \in 1 .. Len(s)
  PROVE  /\ RemoveAt(s, i) \in Seq(kind)
         /\ ToSet(RemoveAt(s, i)) = ToSet(s) \ {s[i]}
         /\ IsInjective(RemoveAt(s, i))
<1> DEFINE x == s[i]
           r == SubSeq(s, 1, i - 1) \o SubSeq(s, i + 1, Len(s))
<1>1. s[i] = x
  OBVIOUS
<1>2. \A j \in 1 .. Len(s) : s[j] = x => j = i
  BY DEF IsInjective
<1>4. RemoveAt(s, i) = r
  BY DEF RemoveAt
<1> HIDE DEF x
<1> DEFINE u == SubSeq(s, 1, i - 1)
           v == SubSeq(s, i + 1, Len(s))
<1>11. i \in Int /\ i \in Nat /\ Len(s) \in Nat /\ i <= Len(s) /\ i >= 1 /\ Len(s) \in Int
      /\ i - 1 \in Int /\ i + 1 \in Int
  BY <1>1
<1>12. DOMAIN s = 1 .. Len(s) /\ \A j \in 1 .. Len(s) : s[j] \in kind
  OBVIOUS
<1>5. /\ u \in Seq(kind) /\ Len(u) = i - 1
      /\ \A j \in 1 .. i - 1 : u[j] = s[j]
  <2>1. \A j \in 1 .. i - 1 : s[j] \in kind
    BY <1>11, <1>12
  <2>2. /\ u \in Seq(kind)
        /\ Len(u) = IF 1 <= i - 1 THEN i - 1 - 1 + 1 ELSE 0
        /\ \A j \in 1 .. i - 1 - 1 + 1 : u[j] = s[1 + j - 1]
    BY <1>11, <2>1, SubSeqProperties
  <2> HIDE DEF u
  <2>3. \A j \in 1 .. i - 1 : u[j] = s[1 + j - 1] /\ 1 + j - 1 = j
    BY <1>11, <2>2
  <2> QED BY <1>11, <2>2, <2>3
<1>6. /\ v \in Seq(kind) /\ Len(v) = Len(s) - i
      /\ \A j \in 1 .. Len(s) - i : v[j] = s[j + i]
  <2>1. \A j \in i + 1 .. Len(s) : s[j] \in kind
    BY <1>11, <1>12
  <2>2. /\ v \in Seq(kind)
        /\ Len(v) = IF i + 1 <= Len(s) THEN Len(s) - (i + 1) + 1 ELSE 0
        /\ \A j \in 1 .. Len(s) - (i + 1) + 1 : v[j] = s[i + 1 + j - 1]
    BY <1>11, <2>1, SubSeqProperties
  <2> HIDE DEF v
  <2>3. \A j \in 1 .. Len(s) - i : v[j] = s[i + 1 + j - 1] /\ i + 1 + j - 1 = j + i
    BY <1>11, <2>2
  <2> QED BY <1>11, <2>2, <2>3
<1> HIDE DEF u, v
<1>13. /\ u \o v \in Seq(kind) /\ Len(u \o v) = Len(u) + Len(v)
      /\ \A j \in 1 .. Len(u) + Len(v) :
           (u \o v)[j] = IF j <= Len(u) THEN u[j] ELSE v[j - Len(u)]
  BY <1>5, <1>6, ConcatProperties
<1>14. r = u \o v
  BY DEF u, v
<1> HIDE DEF r
<1>7. r \in Seq(kind) /\ DOMAIN r = 1 .. Len(s) - 1 /\ Len(r) = Len(s) - 1
  <2>1. r \in Seq(kind) /\ Len(r) = Len(u) + Len(v)
    BY <1>13, <1>14
  <2>2. Len(u) + Len(v) = Len(s) - 1
    BY <1>11, <1>5, <1>6
  <2>3. DOMAIN r = 1 .. Len(r)
    BY <2>1
  <2> QED BY <2>1, <2>2, <2>3
<1>8. \A j \in 1 .. Len(s) - 1 : r[j] = IF j < i THEN s[j] ELSE s[j + 1]
  <2> TAKE j \in 1 .. Len(s) - 1
  <2>1. r[j] = IF j <= i - 1 THEN u[j] ELSE v[j - (i - 1)]
    BY <1>11, <1>5, <1>6, <1>13, <1>14
  <2>2. CASE j < i
    BY <1>11, <1>5, <2>1, <2>2
  <2>3. CASE ~(j < i)
    <3>1. j - (i - 1) \in 1 .. Len(s) - i /\ j - (i - 1) + i = j + 1
      BY <1>11, <2>3
    <3> QED BY SMTT(30), <1>11, <1>6, <2>1, <2>3, <3>1
  <2> QED BY <2>2, <2>3
<1>9. IsInjective(r)
  <2> DEFINE from(j) == IF j < i THEN j ELSE j + 1
  <2>1. \A j \in DOMAIN r : from(j) \in DOMAIN s /\ r[j] = s[from(j)]
    BY <1>11, <1>12, <1>7, <1>8
  <2>2. \A j, k \in DOMAIN r : from(j) = from(k) => j = k
    BY <1>11, <1>7
  <2> HIDE DEF from
  <2> QED BY <2>1, <2>2 DEF IsInjective
<1>10. ToSet(r) = ToSet(s) \ {x}
  <2>1. ASSUME NEW j \in 1 .. Len(s) - 1 PROVE r[j] \in ToSet(s) /\ r[j] # x
    <3>1. CASE j < i
      <4>1. j \in DOMAIN s /\ j # i /\ r[j] = s[j]
        BY <1>11, <1>12, <1>8, <3>1
      <4> QED BY <1>2, <1>12, <4>1 DEF ToSet
    <3>2. CASE ~(j < i)
      <4>1. j + 1 \in DOMAIN s /\ j + 1 # i /\ r[j] = s[j + 1]
        BY <1>11, <1>12, <1>8, <3>2
      <4> QED BY <1>2, <1>12, <4>1 DEF ToSet
    <3> QED BY <3>1, <3>2
  <2>2. ASSUME NEW j \in 1 .. Len(s), j # i PROVE \E k \in 1 .. Len(s) - 1 : r[k] = s[j]
    <3>1. CASE j < i
      BY <1>1, <1>8, <3>1
    <3>2. CASE j > i
      <4>1. j - 1 \in 1 .. Len(s) - 1 /\ r[j - 1] = s[j]
        BY <1>1, <1>8, <3>2
      <4> QED BY <4>1
    <3> QED BY <1>1, <2>2, <3>1, <3>2
  <2>3. \A e \in ToSet(s) \ {x} : \E k \in DOMAIN r : r[k] = e
    BY <1>1, <1>7, <1>12, <2>2 DEF ToSet
  <2>4. \A k \in DOMAIN r : r[k] \in ToSet(s) \ {x}
    BY <1>7, <2>1
  <2>5. ToSet(r) = {r[k] : k \in DOMAIN r}
    BY DEF ToSet
  <2> QED BY <2>3, <2>4, <2>5
<1> QED BY <1>4, <1>7, <1>9, <1>10 DEF x

\* f are the values of a loop of n rounds, round i of which computes step[i] of the
\* value before it.
Runs(f, n, V, v0, step) ==
  f \in [0 .. n -> V] /\ f[0] = v0 /\ \A i \in 1 .. n : f[i] = step[i][f[i - 1]]

\* Such a loop has a value after each of its rounds.
LEMMA Rounds ==
  ASSUME NEW n \in Nat, NEW V, NEW v0 \in V, NEW step \in [1 .. n -> [V -> V]]
  PROVE  \E f : Runs(f, n, V, v0, step)
<1> USE DEF Runs
<1> DEFINE Loop(m) == \E f : Runs(f, m, V, v0, step)
           T == {m \in 0 .. n : ~Loop(m)}
<1>1. SUFFICES ASSUME T # {} PROVE FALSE
  <2>1. Loop(n) => \E f : Runs(f, n, V, v0, step)
    OBVIOUS
  <2>2. n \in 0 .. n
    OBVIOUS
  <2>3. T = {} => Loop(n)
    <3> HIDE DEF Loop
    <3> QED BY <2>2
  <2> HIDE DEF Loop, T
  <2> QED BY <2>1, <2>3
<1>2. PICK m \in T : \A k \in T : m <= k
  <2>1. T \in SUBSET Nat
    OBVIOUS
  <2> HIDE DEF T
  <2> QED BY <1>1, <2>1, LeastNat
<1>3. Loop(0)
  <2> DEFINE f == [i \in 0 .. 0 |-> v0]
  <2>1. f \in [0 .. 0 -> V] /\ f[0] = v0
    OBVIOUS
  <2> HIDE DEF f
  <2> QED BY <2>1
<1>4. m # 0 /\ m \in 0 .. n /\ ~Loop(m)
  BY ZenonT(30), <1>2, <1>3
<1>5. Loop(m - 1)
  <2>1. m - 1 \in 0 .. n /\ ~(m <= m - 1)
    BY <1>4
  <2> HIDE DEF Loop
  <2> QED BY <1>2, <2>1
<1>6. PICK f : Runs(f, m - 1, V, v0, step)
  BY <1>5
<1> DEFINE g == [i \in 0 .. m |-> IF i = m THEN step[m][f[m - 1]] ELSE f[i]]
<1>7. f[m - 1] \in V /\ step[m] \in [V -> V]
  BY <1>4, <1>6
<1>8. step[m][f[m - 1]] \in V
  BY <1>7
<1>9. /\ g \in [0 .. m -> V] /\ g[m] = step[m][f[m - 1]]
      /\ \A i \in 0 .. m - 1 : g[i] = f[i]
  BY <1>4, <1>6, <1>8
<1> HIDE DEF g
<1>10. g[0] = v0
  BY <1>4, <1>6, <1>9
<1>11. ASSUME NEW i \in 1 .. m PROVE g[i] = step[i][g[i - 1]]
  <2>1. CASE i = m
    BY <1>4, <1>9, <2>1
  <2>2. CASE i # m
    <3>1. i \in 1 .. m - 1 /\ i \in 0 .. m - 1 /\ i - 1 \in 0 .. m - 1
      BY <1>4, <2>2
    <3> QED BY <1>6, <1>9, <3>1
  <2> QED BY <2>1, <2>2
<1>12. Loop(m)
  BY <1>9, <1>10, <1>11
<1> QED BY <1>4, <1>12

\* The entries of one list: the loaded modules of its kind, once each.
Follows(handlers, kind) ==
  /\ handlers \in Seq(kind)
  /\ ToSet(handlers) = loaded \cap Prefixed \cap kind
  /\ IsInjective(handlers)

IInv ==
  /\ loaded \subseteq Apps \cup Transports
  /\ Follows(jingle_app_handlers, Apps)
  /\ Follows(jingle_transport_handlers, Transports)

-----------------------------------------------------------------------------
(* The lists *)

\* A module that leaves a list it may be in.
LEMMA Leaving ==
  ASSUME NEW kind, NEW s \in Seq(kind), NEW x, IsInjective(s)
  PROVE  /\ Unregistered(s, x) \in Seq(kind)
         /\ ToSet(Unregistered(s, x)) = ToSet(s) \ {x}
         /\ IsInjective(Unregistered(s, x))
<1>1. CASE x \notin ToSet(s)
  BY <1>1 DEF Unregistered
<1>2. CASE x \in ToSet(s)
  <2>1. PICK i \in 1 .. Len(s) : s[i] = x
    BY <1>2 DEF ToSet
  <2>2. \A j \in 1 .. Len(s) : s[j] = x => j = i
    BY <2>1 DEF IsInjective
  <2> DEFINE Found(k) == k \in DOMAIN s /\ s[k] = x
             found    == CHOOSE k \in DOMAIN s : Found(k) /\ \A j \in 1 .. k - 1 : ~Found(j)
  <2>3. found = i
    <3>1. Found(i) /\ \A j \in 1 .. i - 1 : ~Found(j)
      BY <2>1, <2>2
    <3>2. found \in DOMAIN s /\ Found(found)
      BY <2>1, <3>1
    <3> QED BY <2>2, <3>2
  <2>4. Unregistered(s, x) = RemoveAt(s, found)
    BY <1>2 DEF Unregistered
  <2> HIDE DEF found
  <2> QED BY <2>1, <2>3, <2>4, Removing
<1> QED BY <1>1, <1>2

\* One after the other, two lists of different kinds.
LEMMA Together ==
  ASSUME NEW A, NEW B, A \cap B = {}, NEW s \in Seq(A), NEW t \in Seq(B),
         IsInjective(s), IsInjective(t)
  PROVE  ToSet(s \o t) = ToSet(s) \cup ToSet(t) /\ IsInjective(s \o t)
<1> DEFINE r == s \o t
<1>1. /\ DOMAIN r = 1 .. Len(s) + Len(t) /\ Len(s) \in Nat /\ Len(t) \in Nat
      /\ DOMAIN s = 1 .. Len(s) /\ DOMAIN t = 1 .. Len(t)
      /\ \A j \in 1 .. Len(s) : r[j] = s[j] /\ r[j] \in A
      /\ \A j \in 1 .. Len(t) : r[j + Len(s)] = t[j] /\ t[j] \in B
  OBVIOUS
<1>2. \A j \in DOMAIN r : j \in DOMAIN s \/ j - Len(s) \in DOMAIN t
  BY <1>1
<1>3. \A j \in DOMAIN r : j \notin DOMAIN s => r[j] = t[j - Len(s)]
  BY <1>1
<1> HIDE DEF r
<1>4. ToSet(r) = ToSet(s) \cup ToSet(t)
  <2>1. ASSUME NEW j \in DOMAIN r PROVE r[j] \in ToSet(s) \cup ToSet(t)
    BY <1>1, <1>2, <1>3, <2>1 DEF ToSet
  <2>2. ASSUME NEW j \in DOMAIN s PROVE s[j] \in ToSet(r)
    BY <1>1, <2>2 DEF ToSet
  <2>3. ASSUME NEW j \in DOMAIN t PROVE t[j] \in ToSet(r)
    BY <1>1, <2>3 DEF ToSet
  <2> QED BY <2>1, <2>2, <2>3 DEF ToSet
<1>5. IsInjective(r)
  <2> SUFFICES ASSUME NEW i \in DOMAIN r, NEW j \in DOMAIN r, r[i] = r[j] PROVE i = j
    BY DEF IsInjective
  <2>1. CASE i \in DOMAIN s /\ j \in DOMAIN s
    BY <1>1, <2>1 DEF IsInjective
  <2>2. CASE i \notin DOMAIN s /\ j \notin DOMAIN s
    <3>1. i - Len(s) \in DOMAIN t /\ j - Len(s) \in DOMAIN t /\ t[i - Len(s)] = t[j - Len(s)]
      BY <1>2, <1>3, <2>2
    <3>2. i - Len(s) = j - Len(s)
      BY <3>1 DEF IsInjective
    <3> QED BY <1>1, <3>2
  <2>3. \A k, l \in DOMAIN r : k \in DOMAIN s /\ l \notin DOMAIN s => r[k] # r[l]
    BY <1>1, <1>2, <1>3
  <2> QED BY <2>1, <2>2, <2>3
<1> QED BY <1>4, <1>5 DEF r

-----------------------------------------------------------------------------
(* The invariant *)

LEMMA InitIInv == Init => IInv
BY DEF Init, IInv, Follows, ToSet, IsInjective

\* What loading and unloading a module make of the list of its kind.
LEMMA FollowsLoad ==
  ASSUME NEW handlers, NEW kind, NEW x \in kind, Follows(handlers, kind), x \notin loaded,
         NEW handlersNew, handlersNew = Registered(handlers, x)
  PROVE  /\ handlersNew \in Seq(kind)
         /\ ToSet(handlersNew) = (loaded \cup {x}) \cap Prefixed \cap kind
         /\ IsInjective(handlersNew)
<1>1. CASE x \in Prefixed
  <2>1. /\ Append(handlers, x) \in Seq(kind)
        /\ ToSet(Append(handlers, x)) = ToSet(handlers) \cup {x}
        /\ IsInjective(Append(handlers, x))
    BY Entering DEF Follows
  <2>2. handlersNew = Append(handlers, x)
    BY <1>1 DEF Registered
  <2> HIDE DEF Follows
  <2> QED BY <1>1, <2>1, <2>2 DEF Follows
<1>2. CASE x \notin Prefixed
  BY <1>2 DEF Follows, Registered
<1> QED BY <1>1, <1>2

LEMMA FollowsUnload ==
  ASSUME NEW handlers, NEW kind, NEW x \in kind, Follows(handlers, kind),
         NEW handlersNew, handlersNew = Unregistered(handlers, x)
  PROVE  /\ handlersNew \in Seq(kind)
         /\ ToSet(handlersNew) = (loaded \ {x}) \cap Prefixed \cap kind
         /\ IsInjective(handlersNew)
<1>1. /\ Unregistered(handlers, x) \in Seq(kind)
      /\ ToSet(Unregistered(handlers, x)) = ToSet(handlers) \ {x}
      /\ IsInjective(Unregistered(handlers, x))
  BY Leaving DEF Follows
<1> QED BY <1>1 DEF Follows

LEMMA LoadStep == ASSUME IInv, NEW x \in Apps \cup Transports, Load(x) PROVE IInv'
<1>1. x \notin loaded /\ loaded' = loaded \cup {x} /\ Apps \cap Transports = {}
  BY ModulesAssumption DEF Load
<1>2. CASE x \in Apps /\ jingle_app_handlers' = Registered(jingle_app_handlers, x)
           /\ UNCHANGED jingle_transport_handlers
  <2>1. Follows(jingle_app_handlers, Apps)'
    BY <1>1, <1>2, FollowsLoad DEF IInv, Follows
  <2>2. (loaded \cup {x}) \cap Prefixed \cap Transports = loaded \cap Prefixed \cap Transports
    BY <1>1, <1>2
  <2> QED BY <1>1, <1>2, <2>1, <2>2 DEF IInv, Follows
<1>3. CASE x \in Transports
           /\ jingle_transport_handlers' = Registered(jingle_transport_handlers, x)
           /\ UNCHANGED jingle_app_handlers
  <2>1. Follows(jingle_transport_handlers, Transports)'
    BY <1>1, <1>3, FollowsLoad DEF IInv, Follows
  <2>2. (loaded \cup {x}) \cap Prefixed \cap Apps = loaded \cap Prefixed \cap Apps
    BY <1>1, <1>3
  <2> QED BY <1>1, <1>3, <2>1, <2>2 DEF IInv, Follows
<1> QED BY <1>2, <1>3 DEF Load

LEMMA UnloadStep == ASSUME IInv, NEW x \in Apps \cup Transports, Unload(x) PROVE IInv'
<1>1. loaded' = loaded \ {x} /\ Apps \cap Transports = {}
  BY ModulesAssumption DEF Unload
<1>2. CASE x \in Apps /\ jingle_app_handlers' = Unregistered(jingle_app_handlers, x)
           /\ UNCHANGED jingle_transport_handlers
  <2>1. Follows(jingle_app_handlers, Apps)'
    BY <1>1, <1>2, FollowsUnload DEF IInv, Follows
  <2>2. (loaded \ {x}) \cap Prefixed \cap Transports = loaded \cap Prefixed \cap Transports
    BY <1>1, <1>2
  <2> QED BY <1>1, <1>2, <2>1, <2>2 DEF IInv, Follows
<1>3. CASE x \in Transports
           /\ jingle_transport_handlers' = Unregistered(jingle_transport_handlers, x)
           /\ UNCHANGED jingle_app_handlers
  <2>1. Follows(jingle_transport_handlers, Transports)'
    BY <1>1, <1>3, FollowsUnload DEF IInv, Follows
  <2>2. (loaded \ {x}) \cap Prefixed \cap Apps = loaded \cap Prefixed \cap Apps
    BY <1>1, <1>3
  <2> QED BY <1>1, <1>3, <2>1, <2>2 DEF IInv, Follows
<1> QED BY <1>2, <1>3 DEF Unload

LEMMA Step == IInv /\ [Next]_vars => IInv'
<1> SUFFICES ASSUME IInv, [Next]_vars PROVE IInv' OBVIOUS
<1>1. CASE UNCHANGED vars
  BY <1>1 DEF vars, IInv, Follows
<1> QED BY <1>1, LoadStep, UnloadStep DEF Next

-----------------------------------------------------------------------------
(* The two lists *)

\* Whatever modules come and go, in whatever order, both lists hold the loaded ones,
\* each once: the handler found for a namespace is that of a loaded module.
THEOREM ListsFollow == Spec => []ListsLoaded
<1>1. IInv => ListsLoaded
  <2> SUFFICES ASSUME IInv PROVE ListsLoaded OBVIOUS
  <2> DEFINE handlers == jingle_app_handlers \o jingle_transport_handlers
  <2>1. /\ ToSet(handlers) = ToSet(jingle_app_handlers) \cup ToSet(jingle_transport_handlers)
        /\ IsInjective(handlers)
    BY Together, ModulesAssumption DEF IInv, Follows
  <2>2. ToSet(handlers) = loaded \cap Prefixed
    BY <2>1 DEF IInv, Follows
  <2> QED BY <2>1, <2>2 DEF ListsLoaded
<1> QED BY <1>1, InitIInv, Step, PTL DEF Spec

-----------------------------------------------------------------------------
(* The choice of a transport *)

\* The places of the list that suit an application, the first of two equally good
\* ones before the other.
Suits(app, forbidden) ==
  {i \in DOMAIN jingle_transport_handlers :
     LET t == jingle_transport_handlers[i] IN
     t \notin forbidden /\ Type[t] = Type[app] /\ Priority[t] # 0}
Beats(i, j) ==
  LET T(k) == jingle_transport_handlers[k] IN
  Priority[T(i)] > Priority[T(j)] \/ (Priority[T(i)] = Priority[T(j)] /\ i <= j)

\* The best of the first i, or NoTransport when none of them suits.
IsBest(t, suits) ==
  IF suits = {} THEN t = NoTransport
  ELSE \E k \in suits : t = jingle_transport_handlers[k] /\ \A j \in suits : Beats(k, j)

\* One round of the loop.
LEMMA Round ==
  ASSUME IInv, NEW app, NEW forbidden, NEW i \in 1 .. Len(jingle_transport_handlers), NEW best,
         IsBest(best, Suits(app, forbidden) \cap 1 .. i - 1)
  PROVE  LET t == jingle_transport_handlers[i] IN
         IsBest(IF t \notin forbidden /\ Type[t] = Type[app] /\ Better(t, best) THEN t ELSE best,
                Suits(app, forbidden) \cap 1 .. i)
<1> DEFINE t == jingle_transport_handlers[i]
           before == Suits(app, forbidden) \cap 1 .. i - 1
           upto == Suits(app, forbidden) \cap 1 .. i
           takes == t \notin forbidden /\ Type[t] = Type[app] /\ Better(t, best)
<1>1. /\ t \in Transports /\ Priority[t] \in Nat
      /\ \A k \in DOMAIN jingle_transport_handlers :
           /\ jingle_transport_handlers[k] \in Transports
           /\ Priority[jingle_transport_handlers[k]] \in Nat
  BY PriorityAssumption DEF IInv, Follows
<1>2. NoTransport \notin Transports
  BY ModulesAssumption
<1>3. upto = IF i \in Suits(app, forbidden) THEN before \cup {i} ELSE before
  OBVIOUS
<1>4. i \in Suits(app, forbidden) <=>
        t \notin forbidden /\ Type[t] = Type[app] /\ Priority[t] # 0
  BY DEF IInv, Follows, Suits
<1>5. before \subseteq DOMAIN jingle_transport_handlers /\ \A k \in before : k < i /\ k \in Nat
  BY DEF Suits, IInv, Follows
<1>6. CASE before = {}
  <2>1. best = NoTransport
    BY <1>6 DEF IsBest
  <2>2. Better(t, best) <=> Priority[t] # 0
    BY <1>1, <2>1 DEF Better
  <2>3. CASE takes
    <3>1. upto = {i}
      BY <1>3, <1>4, <1>6, <2>2, <2>3
    <3>2. Beats(i, i)
      BY DEF Beats
    <3> QED BY <2>3, <3>1, <3>2 DEF IsBest
  <2>4. CASE ~takes
    <3>1. upto = {}
      BY <1>3, <1>4, <1>6, <2>2, <2>4
    <3> QED BY <2>1, <2>4, <3>1 DEF IsBest
  <2> QED BY <2>3, <2>4
<1>7. CASE before # {}
  <2>1. PICK k \in before : best = jingle_transport_handlers[k] /\ \A j \in before : Beats(k, j)
    BY <1>7 DEF IsBest
  <2>2. Better(t, best) <=> Priority[t] > Priority[jingle_transport_handlers[k]]
    BY <1>1, <1>2, <1>5, <2>1 DEF Better
  <2>3. CASE takes
    <3>1. upto = before \cup {i}
      BY <1>1, <1>3, <1>4, <1>5, <2>1, <2>2, <2>3
    <3>2. \A j \in before : Beats(i, j)
      BY <1>1, <1>5, <2>1, <2>2, <2>3 DEF Beats
    <3>3. Beats(i, i)
      BY DEF Beats
    <3>4. i \in upto /\ \A j \in upto : Beats(i, j)
      BY <3>1, <3>2, <3>3
    <3>5. IsBest(t, upto)
      <4> HIDE DEF upto
      <4> QED BY <3>4 DEF IsBest
    <3> QED BY <2>3, <3>5, Zenon
  <2>4. CASE ~takes
    <3>1. i \in Suits(app, forbidden) => Beats(k, i)
      BY <1>1, <1>4, <1>5, <2>1, <2>2, <2>4 DEF Beats
    <3>2. k \in upto /\ \A j \in upto : Beats(k, j)
      BY <1>3, <2>1, <3>1
    <3>3. IsBest(best, upto)
      <4> HIDE DEF upto
      <4> QED BY <2>1, <3>2 DEF IsBest
    <3> QED BY <2>4, <3>3, Zenon
  <2> QED BY <2>3, <2>4
<1> QED BY <1>6, <1>7

\* The loop finds the best of the whole list.
LEMMA BestFound ==
  ASSUME IInv, NEW app, NEW forbidden
  PROVE  IsBest(Best(app, forbidden), Suits(app, forbidden))
<1> DEFINE h == jingle_transport_handlers
           n == Len(h)
           Next1(i, b) == IF h[i] \notin forbidden /\ Type[h[i]] = Type[app] /\ Better(h[i], b)
                          THEN h[i] ELSE b
           Body(g) == [i \in 0 .. n |-> IF i = 0 THEN NoTransport ELSE Next1(i, g[i - 1])]
           best == CHOOSE g : g = Body(g)
<1>1. n \in Nat /\ h \in Seq(Transports)
  BY DEF IInv, Follows
<1>2. best = Body(best)
  <2> DEFINE V == Transports \cup {NoTransport}
             step == [i \in 1 .. n |-> [b \in V |-> Next1(i, b)]]
  <2>1. \A i \in 1 .. n, b \in V : Next1(i, b) \in V
    BY <1>1
  <2>2. step \in [1 .. n -> [V -> V]] /\ NoTransport \in V
    <3> HIDE DEF Next1, V
    <3>1. \A i \in 1 .. n : [b \in V |-> Next1(i, b)] \in [V -> V]
      BY <2>1
    <3> QED BY <3>1 DEF V
  <2>3. PICK f : Runs(f, n, V, NoTransport, step)
    <3>1. n \in Nat
      BY <1>1
    <3> HIDE DEF V, step, n
    <3> QED BY <2>2, <3>1, Rounds
  <2>4. f = Body(f)
    <3>1. \A i \in 1 .. n : f[i - 1] \in V /\ f[i] = Next1(i, f[i - 1])
      <4> HIDE DEF V, Next1
      <4> QED BY <1>1, <2>3 DEF Runs
    <3> HIDE DEF Next1, n
    <3>2. \A i \in 0 .. n : f[i] = IF i = 0 THEN NoTransport ELSE Next1(i, f[i - 1])
      BY <1>1, <2>3, <3>1 DEF Runs
    <3> QED BY <2>3, <3>2 DEF Runs
  <2> HIDE DEF Body
  <2> QED BY <2>4
<1>3. Best(app, forbidden) = best[n]
  BY DEF Best
<1> HIDE DEF best
<1>4. best[0] = NoTransport /\ \A i \in 1 .. n : best[i] = Next1(i, best[i - 1])
  <2> HIDE DEF Next1
  <2>1. \A i \in 0 .. n : best[i] = IF i = 0 THEN NoTransport ELSE Next1(i, best[i - 1])
    BY <1>2
  <2> QED BY <1>1, <2>1
<1> DEFINE P(i) == IsBest(best[i], Suits(app, forbidden) \cap 1 .. i)
<1>5. P(0)
  BY <1>4 DEF IsBest
<1>6. \A i \in 1 .. n : P(i - 1) => P(i)
  BY <1>4, Round
<1>7. P(n)
  <2> DEFINE T == {i \in 0 .. n : ~P(i)}
  <2> HIDE DEF P
  <2>1. SUFFICES ASSUME T # {} PROVE FALSE
    BY <1>1
  <2>2. T \in SUBSET Nat
    OBVIOUS
  <2>3. PICK m \in T : \A k \in T : m <= k
    <3> HIDE DEF T
    <3> QED BY <2>1, <2>2, LeastNat
  <2>4. m \in 1 .. n /\ m - 1 \in 0 .. n /\ ~(m <= m - 1) /\ ~P(m)
    BY <1>1, <1>5, <2>3
  <2>5. P(m - 1)
    BY <2>3, <2>4
  <2> QED BY <1>6, <2>4, <2>5
<1>8. Suits(app, forbidden) \cap 1 .. n = Suits(app, forbidden)
  BY <1>1 DEF Suits
<1> QED BY <1>3, <1>7, <1>8

\* The transport for an application is the best that suits it, and the first in the
\* list of several, whatever was registered and unregistered before.
THEOREM BestIsChosen == Spec => []BestTransport
<1>1. IInv => BestTransport
  <2> SUFFICES ASSUME IInv,
                      NEW app \in loaded \cap Apps \cap Prefixed, NEW listed \in BOOLEAN,
                      NEW forbidden \in SUBSET Transports
               PROVE  LET T(i)   == jingle_transport_handlers[i]
                          suits  == {i \in DOMAIN jingle_transport_handlers :
                                       /\ Type[T(i)] = Type[app] /\ Priority[T(i)] # 0
                                       /\ listed => T(i) \notin forbidden}
                          answer == jingle_transport_for_app(app, listed, forbidden)
                      IN IF suits = {} THEN listed \/ answer = NoTransport
                         ELSE \E i \in suits : answer = T(i) /\ \A j \in suits : Beats(i, j)
    BY Zenon DEF BestTransport, Beats
  <2> DEFINE without == IF listed THEN forbidden ELSE {}
             suits == Suits(app, without)
             answer == jingle_transport_for_app(app, listed, forbidden)
             best == Best(app, without)
  <2>1. suits = {i \in DOMAIN jingle_transport_handlers :
                   /\ Type[jingle_transport_handlers[i]] = Type[app]
                   /\ Priority[jingle_transport_handlers[i]] # 0
                   /\ listed => jingle_transport_handlers[i] \notin forbidden}
    BY DEF Suits
  <2>2. app \in ToSet(jingle_app_handlers)
    BY DEF IInv, Follows
  <2>3. answer = IF best = NoTransport /\ listed THEN Crash ELSE best
    BY <2>2 DEF jingle_transport_for_app
  <2>4. IsBest(best, suits)
    BY BestFound
  <2>5. \A i \in suits : jingle_transport_handlers[i] # NoTransport
    BY ModulesAssumption DEF Suits, IInv, Follows
  <2> HIDE DEF suits, answer, best
  <2>6. CASE suits = {}
    BY <2>1, <2>3, <2>4, <2>6 DEF IsBest, answer
  <2>7. CASE suits # {}
    <3>1. PICK i \in suits : best = jingle_transport_handlers[i] /\ \A j \in suits : Beats(i, j)
      BY <2>4, <2>7 DEF IsBest
    <3>2. answer = jingle_transport_handlers[i]
      BY <2>3, <2>5, <3>1
    <3> QED BY <2>1, <2>7, <3>1, <3>2 DEF answer
  <2> QED BY <2>6, <2>7
<1> QED BY <1>1, InitIInv, Step, PTL DEF Spec
=============================================================================
