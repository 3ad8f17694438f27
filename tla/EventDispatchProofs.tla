------------------------- MODULE EventDispatchProofs -------------------------
(***************************************************************************)
(* The walk of Events.handler over a table that its handlers change, and   *)
(* the subscriptions of components: for any events, handlers, components   *)
(* and names, and any number of subscriptions.                             *)
(***************************************************************************)
EXTENDS EventDispatch, FunctionTheorems, SequenceTheorems, FiniteSetTheorems,
        WellFoundedInduction, TLAPS

Subscription == [fn : Fn \cup ComponentFn, calls : Nat]

\* The places of a sequence that hold a member of V.
Places(s, V) == {k \in 1 .. Len(s) : s[k] \in V}

OfHandler(fn) == {s \in Subscription : s.fn = fn}
Reached == {s \in Subscription : s.calls = 1}

\* How many subscriptions of e are those of a handler, how many the walk reached.
Copies(e, fn) == Cardinality(Places(subscriptions[e], OfHandler(fn)))
Hits(e) == Cardinality(Places(subscriptions[e], Reached))

\* The registered components that handle e with fn.
Sharing(e, fn) == {c \in Component : registered[c] /\ HandlerOf[c][e] = fn}

\* The ranges that the proofs need.
RangesInv ==
  /\ subscriptions \in [Event -> Seq(Subscription)]
  /\ \A e \in Event : Len(subscriptions[e]) <= MaxSubscriptions
  /\ mode \in {"main", "idle", "walking", "called"}
  /\ event \in Event
  /\ index \in 0 .. MaxSubscriptions /\ shifts \in 0 .. MaxShifts
  /\ mode \in {"main", "idle"} => index = 0
  /\ components \in [Name -> Component \cup {NoComponent}]
  /\ registered \in [Component -> BOOLEAN]
  /\ name \in [Component -> Name \cup {NoName}]

\* The subscribers behind the walk's index were called once at most, all others
\* were not.
CallsOf(e) ==
  \A k \in 1 .. Len(subscriptions[e]) :
    subscriptions[e][k].calls <= (IF e = event /\ k <= index THEN 1 ELSE 0)

\* Every place that the walk has reached is that of a subscriber it called, but
\* for one of each that was taken out behind it; the table may end before that.
CoverInv == \A e \in Event : e = event => index <= Hits(e) + shifts

\* A handler has as many subscriptions as there are components that share it.
CountInv ==
  /\ IsFiniteSet({c \in Component : registered[c]})
  /\ \A e \in Event, fn \in ComponentFn :
       Copies(e, fn) = Cardinality(Sharing(e, fn))

\* The bucket has every registered component under its name.
BucketInv ==
  \A c \in Component : registered[c] => name[c] \in Name /\ components[name[c]] = c

\* The inductive invariant.
IInv ==
  /\ RangesInv
  /\ \A e \in Event : CallsOf(e)
  /\ CoverInv
  /\ CountInv
  /\ BucketInv

-----------------------------------------------------------------------------
(* Sequences: one more at the end, one less *)

\* What table.remove leaves.
LEMMA RemoveAtProperties ==
  ASSUME NEW S, NEW s \in Seq(S), NEW i \in 1 .. Len(s)
  PROVE  /\ RemoveAt(s, i) \in Seq(S)
         /\ Len(RemoveAt(s, i)) = Len(s) - 1
         /\ \A k \in 1 .. Len(s) - 1 : RemoveAt(s, i)[k] = IF k < i THEN s[k] ELSE s[k + 1]
<1> DEFINE a == SubSeq(s, 1, i - 1)
           b == SubSeq(s, i + 1, Len(s))
<1>1. Len(s) \in Nat /\ i \in Int /\ 1 <= i /\ i <= Len(s)
  BY LenProperties
<1>2. a \in Seq(S) /\ Len(a) = i - 1 /\ \A k \in 1 .. i - 1 : a[k] = s[k]
  BY <1>1, SubSeqProperties
<1>3. b \in Seq(S) /\ Len(b) = Len(s) - i /\ \A k \in 1 .. Len(s) - i : b[k] = s[k + i]
  BY <1>1, SubSeqProperties
<1>4. RemoveAt(s, i) = a \o b
  BY DEF RemoveAt
<1> HIDE DEF a, b
<1>5. /\ a \o b \in Seq(S) /\ Len(a \o b) = Len(a) + Len(b)
      /\ \A k \in 1 .. Len(a) + Len(b) :
           (a \o b)[k] = IF k <= Len(a) THEN a[k] ELSE b[k - Len(a)]
  BY <1>2, <1>3, ConcatProperties
<1> QED
  BY <1>1, <1>2, <1>3, <1>4, <1>5

\* Places are finitely many.
LEMMA PlacesFinite ==
  ASSUME NEW S, NEW s \in Seq(S), NEW V
  PROVE  IsFiniteSet(Places(s, V)) /\ Cardinality(Places(s, V)) \in Nat
<1>1. IsFiniteSet(1 .. Len(s))
  BY LenProperties, FS_Interval
<1>2. Places(s, V) \subseteq 1 .. Len(s)
  BY DEF Places
<1> QED
  BY <1>1, <1>2, FS_Subset, FS_CardinalityType

\* A new last place counts if its element does.
LEMMA PlacesAppend ==
  ASSUME NEW S, NEW s \in Seq(S), NEW x \in S, NEW V
  PROVE  Cardinality(Places(Append(s, x), V))
           = Cardinality(Places(s, V)) + (IF x \in V THEN 1 ELSE 0)
<1> DEFINE n == Len(s)
<1>1. /\ n \in Nat /\ Len(Append(s, x)) = n + 1 /\ Append(s, x)[n + 1] = x
      /\ \A k \in 1 .. n : Append(s, x)[k] = s[k]
  BY LenProperties, AppendProperties
<1>2. \A k : k \in 1 .. n + 1 <=> k \in 1 .. n \/ k = n + 1
  BY <1>1
<1>3. Places(Append(s, x), V) = Places(s, V) \cup (IF x \in V THEN {n + 1} ELSE {})
  BY <1>1, <1>2 DEF Places
<1>4. n + 1 \notin Places(s, V)
  BY <1>1 DEF Places
<1>5. IsFiniteSet(Places(s, V)) /\ Cardinality(Places(s, V)) \in Nat
  BY PlacesFinite
<1>6. CASE x \in V
  <2>1. Cardinality(Places(s, V) \cup {n + 1}) = Cardinality(Places(s, V)) + 1
    BY <1>4, <1>5, FS_AddElement
  <2> QED
    BY <1>3, <1>6, <2>1
<1>7. CASE x \notin V
  BY <1>3, <1>5, <1>7
<1> QED
  BY <1>6, <1>7

\* The places behind the one taken out move down by one.
LEMMA PlacesRemove ==
  ASSUME NEW S, NEW s \in Seq(S), NEW i \in 1 .. Len(s), NEW V
  PROVE  Cardinality(Places(RemoveAt(s, i), V))
           = Cardinality(Places(s, V)) - (IF s[i] \in V THEN 1 ELSE 0)
<1> DEFINE n == Len(s)
           old == Places(s, V) \ {i}
           new == Places(RemoveAt(s, i), V)
           up == [k \in new |-> IF k < i THEN k ELSE k + 1]
<1>1. /\ n \in Nat /\ i \in Nat /\ 1 <= i /\ i <= n /\ RemoveAt(s, i) \in Seq(S)
      /\ Len(RemoveAt(s, i)) = n - 1
      /\ \A k \in 1 .. n - 1 : RemoveAt(s, i)[k] = IF k < i THEN s[k] ELSE s[k + 1]
  <2>1. n \in Nat
    BY LenProperties
  <2>2. /\ RemoveAt(s, i) \in Seq(S) /\ Len(RemoveAt(s, i)) = n - 1
        /\ \A k \in 1 .. n - 1 : RemoveAt(s, i)[k] = IF k < i THEN s[k] ELSE s[k + 1]
    BY RemoveAtProperties
  <2> QED
    BY <2>1, <2>2
<1>2. IsFiniteSet(Places(s, V)) /\ Cardinality(Places(s, V)) \in Nat /\ IsFiniteSet(new)
  BY <1>1, PlacesFinite
<1>3. \A k \in new : k \in 1 .. n - 1 /\ (IF k < i THEN s[k] ELSE s[k + 1]) \in V
  BY <1>1 DEF Places
<1>4. up \in Bijection(new, old)
  <2>1. ASSUME NEW k \in new PROVE up[k] \in old
    BY <1>1, <1>3 DEF Places
  <2>2. ASSUME NEW j \in new, NEW k \in new, up[j] = up[k] PROVE j = k
    BY <1>1, <1>3, <2>2
  <2>3. ASSUME NEW m \in old PROVE \E k \in new : up[k] = m
    <3>1. m \in 1 .. n /\ m # i /\ s[m] \in V
      BY DEF Places
    <3>2. CASE m < i
      <4>1. m \in new
        BY <1>1, <3>1, <3>2 DEF Places
      <4> QED
        BY <3>2, <4>1
    <3>3. CASE m > i
      <4>1. m - 1 \in 1 .. n - 1 /\ ~(m - 1 < i) /\ (m - 1) + 1 = m
        BY <1>1, <3>1, <3>3
      <4>2. m - 1 \in new
        BY <1>1, <3>1, <4>1 DEF Places
      <4> QED
        BY <4>1, <4>2
    <3> QED
      BY <1>1, <3>1, <3>2, <3>3
  <2> HIDE DEF old, new
  <2>4. up \in [new -> old]
    BY <2>1
  <2> HIDE DEF up
  <2> QED
    BY <2>2, <2>3, <2>4, Fun_IsBij
<1>5. Cardinality(new) = Cardinality(old)
  <2>1. ExistsBijection(new, old)
    <3> HIDE DEF old, new, up
    <3> QED
      BY <1>4 DEF ExistsBijection
  <2> HIDE DEF old, new, up
  <2> QED
    BY <1>2, <2>1, FS_Bijection
<1>6. Cardinality(old) = Cardinality(Places(s, V)) - (IF i \in Places(s, V) THEN 1 ELSE 0)
  <2>1. CASE i \in Places(s, V)
    BY <1>2, <2>1, FS_RemoveElement
  <2>2. CASE i \notin Places(s, V)
    <3>1. old = Places(s, V)
      BY <2>2
    <3> HIDE DEF old
    <3> QED
      BY <1>2, <2>2, <3>1
  <2> QED
    BY <2>1, <2>2
<1>7. i \in Places(s, V) <=> s[i] \in V
  BY DEF Places
<1> QED
  BY <1>5, <1>6, <1>7

\* A set of numbers that is not empty has a least one.
LEMMA LeastNumber == ASSUME NEW I \in SUBSET Nat, I # {} PROVE \E m \in I : \A k \in I : m <= k
<1> DEFINE Less == {p \in Nat \X Nat : p[1] < p[2]}
<1>1. IsWellFoundedOn(Less, Nat)
  BY NatLessThanWellFounded DEF OpToRel
<1>2. PICK m \in I : \A k \in I : <<k, m>> \notin Less
  <2> HIDE DEF Less
  <2> QED
    BY <1>1, WFMin
<1>3. ASSUME NEW k \in I PROVE m <= k
  <2>1. <<k, m>> \notin Less
    BY <1>2
  <2>2. <<k, m>> \in Nat \X Nat /\ m \in Nat /\ k \in Nat
    OBVIOUS
  <2>3. ~(k < m)
    BY <2>1, <2>2
  <2> QED
    BY <2>2, <2>3
<1> QED
  BY <1>3

-----------------------------------------------------------------------------
(* Subscriptions *)

\* Events.unsubscribe finds a subscription of the handler when there is one.
LEMMA FindProperties ==
  ASSUME RangesInv, NEW e \in Event, NEW fn
  PROVE  /\ Find(e, fn) \in 0 .. Len(subscriptions[e])
         /\ Find(e, fn) # 0 => subscriptions[e][Find(e, fn)].fn = fn
         /\ Find(e, fn) = 0 => \A k \in 1 .. Len(subscriptions[e]) : subscriptions[e][k].fn # fn
<1> DEFINE s == subscriptions[e]
           I == {k \in 1 .. Len(s) : s[k].fn = fn}
<1>1. Len(s) \in Nat /\ I \in SUBSET Nat
  <2>1. s \in Seq(Subscription)
    BY DEF RangesInv
  <2> QED
    BY <2>1, LenProperties
<1>2. Find(e, fn) = IF I # {} THEN Min(I) ELSE 0
  BY DEF Find, SelectInSeq
<1>3. CASE I = {}
  BY <1>1, <1>2, <1>3
<1>4. CASE I # {}
  <2>1. Min(I) \in I
    <3>1. \E m \in I : \A k \in I : m <= k
      <4> HIDE DEF I
      <4> QED
        BY <1>1, <1>4, LeastNumber
    <3> HIDE DEF I
    <3> QED
      BY <3>1 DEF Min
  <2> QED
    BY <1>1, <1>2, <1>4, <2>1
<1> QED
  BY <1>3, <1>4

\* What handlers, calls and components are.
LEMMA Kinds ==
  /\ \A c \in Component, e \in Event : e \in Handled(c) <=> HandlerOf[c][e] \in ComponentFn
  /\ \A c \in Component, e \in Event : HandlerOf[c][e] \in ComponentFn \cup {NoFn}
  /\ NoFn \notin ComponentFn /\ NoFn \notin Fn /\ Fn \cap ComponentFn = {}
  /\ NoComponent \notin Component /\ NoName \notin Name
  /\ MaxSubscriptions \in Nat /\ MaxShifts \in Nat
  /\ \A fn \in Fn \cup ComponentFn : Subscriber(fn) \in Subscription
<1>1. NoFn \notin ComponentFn
  BY DEF ComponentFn
<1> QED
  BY <1>1, HandlersAssumption, NilsAssumption, BoundAssumption DEF Handled, Subscriber, Subscription

\* What the walk knows of a table stays true when a handler is appended.
LEMMA Added ==
  ASSUME RangesInv, NEW e \in Event, NEW fn \in Fn \cup ComponentFn, CallsOf(e), RoomFor(e),
         UNCHANGED <<event, index>>,
         subscriptions'[e] = Append(subscriptions[e], Subscriber(fn))
  PROVE  /\ subscriptions'[e] \in Seq(Subscription) /\ Len(subscriptions'[e]) <= MaxSubscriptions
         /\ CallsOf(e)'
         /\ Hits(e)' = Hits(e)
         /\ \A f \in ComponentFn : Copies(e, f)' = Copies(e, f) + (IF f = fn THEN 1 ELSE 0)
<1> DEFINE s == subscriptions[e]
           x == Subscriber(fn)
<1>1. s \in Seq(Subscription) /\ Len(s) \in Nat /\ x \in Subscription /\ x.fn = fn /\ x.calls = 0
  BY Kinds, LenProperties DEF RangesInv, Subscriber
<1>2. /\ subscriptions'[e] \in Seq(Subscription) /\ Len(subscriptions'[e]) = Len(s) + 1
      /\ subscriptions'[e][Len(s) + 1] = x
      /\ \A k \in 1 .. Len(s) : subscriptions'[e][k] = s[k]
  BY <1>1, AppendProperties
<1>3. Len(subscriptions'[e]) <= MaxSubscriptions
  BY <1>1, <1>2, Kinds DEF RoomFor
<1>4. CallsOf(e)'
  <2> SUFFICES ASSUME NEW k \in 1 .. Len(s) + 1
               PROVE  subscriptions'[e][k].calls <= (IF e = event /\ k <= index THEN 1 ELSE 0)
    BY <1>2 DEF CallsOf
  <2>1. CASE k = Len(s) + 1
    BY <1>1, <1>2, <2>1
  <2>2. CASE k \in 1 .. Len(s)
    BY <1>2, <2>2 DEF CallsOf
  <2> QED
    BY <1>1, <2>1, <2>2
<1>5. x \notin Reached /\ \A f \in ComponentFn : x \in OfHandler(f) <=> f = fn
  BY <1>1 DEF Reached, OfHandler
<1> HIDE DEF s, x
<1>6. \A V : Cardinality(Places(Append(s, x), V))
               = Cardinality(Places(s, V)) + (IF x \in V THEN 1 ELSE 0)
  BY <1>1, PlacesAppend
<1>7. \A V : Cardinality(Places(s, V)) \in Nat
  BY <1>1, PlacesFinite
<1>8. subscriptions'[e] = Append(s, x) /\ subscriptions[e] = s
  BY DEF s, x
<1>9. Cardinality(Places(Append(s, x), Reached)) = Cardinality(Places(s, Reached))
  BY <1>5, <1>6, <1>7
<1>10. ASSUME NEW f \in ComponentFn
       PROVE  Cardinality(Places(Append(s, x), OfHandler(f)))
                = Cardinality(Places(s, OfHandler(f))) + (IF f = fn THEN 1 ELSE 0)
  BY <1>5, <1>6
<1> QED
  BY <1>2, <1>3, <1>4, <1>8, <1>9, <1>10 DEF Hits, Copies

\* And when one is taken out, but for the place it had behind the index.
LEMMA Taken ==
  ASSUME RangesInv, NEW e \in Event, NEW fn, CallsOf(e),
         UNCHANGED <<event, index>>,
         subscriptions'[e] = Unsubscribed(subscriptions, e, fn)[e]
  PROVE  /\ subscriptions'[e] \in Seq(Subscription) /\ Len(subscriptions'[e]) <= MaxSubscriptions
         /\ CallsOf(e)'
         /\ Hits(e) <= Hits(e)' + (IF e = event /\ Find(e, fn) \in 1 .. index THEN 1 ELSE 0)
         /\ \A f \in ComponentFn :
              Copies(e, f)' = Copies(e, f) - (IF f = fn /\ Find(e, fn) # 0 THEN 1 ELSE 0)
<1> DEFINE s == subscriptions[e]
           i == Find(e, fn)
<1>1. /\ s \in Seq(Subscription) /\ Len(s) \in Nat /\ index \in Nat
      /\ \A V : Cardinality(Places(s, V)) \in Nat
      /\ Len(s) <= MaxSubscriptions /\ MaxSubscriptions \in Nat
      /\ \A k \in 1 .. Len(s) : s[k] \in Subscription /\ s[k].calls \in Nat
  <2>1. s \in Seq(Subscription) /\ index \in Nat /\ Len(s) <= MaxSubscriptions
    BY Kinds DEF RangesInv
  <2>2. Len(s) \in Nat /\ \A k \in 1 .. Len(s) : s[k] \in Subscription /\ s[k].calls \in Nat
    <3>1. \A r \in Subscription : r.calls \in Nat
      BY DEF Subscription
    <3>2. Len(s) \in Nat /\ \A k \in 1 .. Len(s) : s[k] \in Subscription
      BY <2>1, LenProperties, ElementOfSeq
    <3> QED
      BY <3>1, <3>2
  <2>3. \A V : Cardinality(Places(s, V)) \in Nat
    BY <2>1, PlacesFinite
  <2> QED
    BY <2>1, <2>2, <2>3, Kinds
<1>2. /\ i \in 0 .. Len(s) /\ (i # 0 => s[i].fn = fn)
  BY FindProperties
<1>3. subscriptions'[e] = IF i = 0 THEN s ELSE RemoveAt(s, i)
  <2>1. s = subscriptions[e] /\ subscriptions \in [Event -> Seq(Subscription)]
    BY DEF RangesInv
  <2> QED
    BY <2>1 DEF Unsubscribed
<1> HIDE DEF i
<1>4. CASE i = 0
  <2>1. subscriptions'[e] = subscriptions[e]
    BY <1>3, <1>4
  <2>2. CallsOf(e)'
    BY <2>1 DEF CallsOf
  <2> QED
    BY <1>1, <1>4, <2>1, <2>2 DEF i, Hits, Copies
<1>5. CASE i # 0
  <2>1. /\ i \in 1 .. Len(s) /\ i \in Nat /\ subscriptions'[e] = RemoveAt(s, i)
        /\ s[i] \in Subscription /\ s[i].calls \in Nat /\ s[i].fn = fn
    BY <1>1, <1>2, <1>3, <1>5
  <2>2. /\ RemoveAt(s, i) \in Seq(Subscription) /\ Len(RemoveAt(s, i)) = Len(s) - 1
        /\ \A k \in 1 .. Len(s) - 1 : RemoveAt(s, i)[k] = IF k < i THEN s[k] ELSE s[k + 1]
    BY <1>1, <2>1, RemoveAtProperties
  <2>3. \A V : Cardinality(Places(RemoveAt(s, i), V))
                 = Cardinality(Places(s, V)) - (IF s[i] \in V THEN 1 ELSE 0)
    BY <1>1, <2>1, PlacesRemove
  <2>4. \A k \in 1 .. Len(s) : s[k].calls <= (IF e = event /\ k <= index THEN 1 ELSE 0)
    BY DEF CallsOf
  <2> HIDE DEF s
  <2>5. CallsOf(e)'
    <3> SUFFICES ASSUME NEW k \in 1 .. Len(s) - 1
                 PROVE  RemoveAt(s, i)[k].calls <= (IF e = event /\ k <= index THEN 1 ELSE 0)
      BY <2>1, <2>2 DEF CallsOf
    <3>1. k \in 1 .. Len(s) /\ k + 1 \in 1 .. Len(s) /\ k \in Nat
      BY <1>1
    <3>2. s[k].calls \in Nat /\ s[k + 1].calls \in Nat
      BY <1>1, <3>1
    <3> QED
      BY <1>1, <2>2, <2>4, <3>1, <3>2
  <2>6. s[i] \in Reached => e = event /\ i \in 1 .. index
    <3>1. s[i].calls = 1 => e = event /\ i <= index
      BY <2>1, <2>4
    <3> QED
      BY <1>1, <2>1, <3>1 DEF Reached
  <2>7. Cardinality(Places(s, Reached))
          <= Cardinality(Places(RemoveAt(s, i), Reached))
               + (IF e = event /\ i \in 1 .. index THEN 1 ELSE 0)
    <3>1. Cardinality(Places(s, Reached)) \in Nat
      BY <1>1
    <3>2. Cardinality(Places(RemoveAt(s, i), Reached))
            = Cardinality(Places(s, Reached)) - (IF s[i] \in Reached THEN 1 ELSE 0)
      BY <2>3
    <3> QED
      BY <2>6, <3>1, <3>2
  <2>8. ASSUME NEW f \in ComponentFn
        PROVE  Cardinality(Places(RemoveAt(s, i), OfHandler(f)))
                 = Cardinality(Places(s, OfHandler(f))) - (IF f = fn THEN 1 ELSE 0)
    <3>1. s[i] \in OfHandler(f) <=> f = fn
      BY <2>1 DEF OfHandler
    <3> QED
      BY <2>3, <3>1
  <2>9. s = subscriptions[e] /\ i = Find(e, fn)
    BY DEF s, i
  <2> QED
    BY <1>1, <1>5, <2>1, <2>2, <2>5, <2>7, <2>8, <2>9 DEF Hits, Copies
<1> QED
  BY <1>4, <1>5

\* The counts are numbers.
LEMMA NaturalCounts ==
  ASSUME RangesInv
  PROVE  \A e \in Event : Hits(e) \in Nat /\ \A f \in ComponentFn : Copies(e, f) \in Nat
BY PlacesFinite DEF RangesInv, Hits, Copies

\* Tables may change under the walk: every place it loses behind its index is
\* counted.
LEMMA WalkKept ==
  ASSUME IInv, UNCHANGED <<mode, event, index>>,
         subscriptions' \in [Event -> Seq(Subscription)],
         \A e \in Event : Len(subscriptions'[e]) <= MaxSubscriptions /\ CallsOf(e)',
         shifts' \in 0 .. MaxShifts,
         \A e \in Event : e = event => Hits(e) <= Hits(e)' + (shifts' - shifts),
         components' \in [Name -> Component \cup {NoComponent}],
         registered' \in [Component -> BOOLEAN],
         name' \in [Component -> Name \cup {NoName}]
  PROVE  RangesInv' /\ (\A e \in Event : CallsOf(e)') /\ CoverInv'
<1>1. RangesInv'
  BY DEF IInv, RangesInv
<1>2. CoverInv'
  <2> SUFFICES ASSUME NEW e \in Event, e = event' PROVE index' <= Hits(e)' + shifts'
    BY DEF CoverInv
  <2>1. Hits(e) \in Nat /\ Hits(e)' \in Nat
    <3>1. Cardinality(Places(subscriptions'[e], Reached)) \in Nat
      BY PlacesFinite
    <3> QED
      BY <3>1, NaturalCounts DEF IInv, Hits
  <2>2. index <= Hits(e) + shifts /\ index \in Nat /\ shifts \in Nat /\ shifts' \in Nat
    BY Kinds DEF IInv, RangesInv, CoverInv
  <2>3. Hits(e) <= Hits(e)' + (shifts' - shifts)
    OBVIOUS
  <2> HIDE DEF Hits
  <2>4. index <= Hits(e)' + shifts'
    BY <2>1, <2>2, <2>3
  <2> QED
    BY <2>4
<1> QED
  BY <1>1, <1>2

\* Events.subscribe by the script
LEMMA SubscribeKeepsIInv ==
  ASSUME IInv, NEW e \in Event, NEW fn \in Fn, Subscribe(e, fn)
  PROVE  IInv'
<1>1. /\ RoomFor(e) /\ subscriptions' = [subscriptions EXCEPT ![e] = Append(@, Subscriber(fn))]
      /\ UNCHANGED <<mode, event, index, shifts, components, registered, name>>
  BY DEF Subscribe, Subscribed, walk, bucket
<1>2. subscriptions \in [Event -> Seq(Subscription)] /\ fn \notin ComponentFn /\ RangesInv
  BY Kinds DEF IInv, RangesInv
<1>3. /\ subscriptions'[e] = Append(subscriptions[e], Subscriber(fn))
      /\ \A d \in Event : d # e => subscriptions'[d] = subscriptions[d]
  BY <1>1, <1>2
<1>4. /\ subscriptions'[e] \in Seq(Subscription) /\ Len(subscriptions'[e]) <= MaxSubscriptions
      /\ CallsOf(e)' /\ Hits(e)' = Hits(e)
      /\ \A f \in ComponentFn : Copies(e, f)' = Copies(e, f) + (IF f = fn THEN 1 ELSE 0)
  BY <1>1, <1>3, Added DEF IInv
<1>5. ASSUME NEW d \in Event, d # e
      PROVE  /\ Len(subscriptions'[d]) <= MaxSubscriptions
             /\ CallsOf(d)' /\ Hits(d)' = Hits(d)
             /\ \A f \in ComponentFn : Copies(d, f)' = Copies(d, f)
  BY <1>1, <1>3, <1>5 DEF IInv, RangesInv, CallsOf, Hits, Copies
<1>6. \A d \in Event : Hits(d) \in Nat /\ \A f \in ComponentFn : Copies(d, f) \in Nat
  BY <1>2, NaturalCounts
<1>7. /\ RangesInv' /\ (\A d \in Event : CallsOf(d)') /\ CoverInv'
  <2>1. subscriptions' \in [Event -> Seq(Subscription)]
    BY <1>1, <1>2, <1>4
  <2>2. /\ shifts' = shifts /\ shifts' \in 0 .. MaxShifts /\ shifts \in Nat
        /\ components' \in [Name -> Component \cup {NoComponent}]
        /\ registered' \in [Component -> BOOLEAN]
        /\ name' \in [Component -> Name \cup {NoName}]
    BY <1>1, <1>2, Kinds DEF RangesInv
  <2>3. \A d \in Event : Len(subscriptions'[d]) <= MaxSubscriptions /\ CallsOf(d)'
    BY <1>4, <1>5
  <2>4. \A d \in Event : Hits(d) <= Hits(d)' + (shifts' - shifts)
    BY <1>4, <1>5, <1>6, <2>2
  <2> QED
    BY <1>1, <2>1, <2>2, <2>3, <2>4, WalkKept
<1>8. CountInv'
  <2>1. ASSUME NEW d \in Event, NEW f \in ComponentFn PROVE Copies(d, f)' = Copies(d, f)
    <3>1. CASE d = e
      BY <1>2, <1>4, <1>6, <3>1
    <3>2. CASE d # e
      BY <1>5, <3>2
    <3> QED
      BY <3>1, <3>2
  <2> QED
    BY <1>1, <2>1 DEF IInv, CountInv, Sharing
<1> QED
  BY <1>1, <1>7, <1>8 DEF IInv, BucketInv

\* Events.unsubscribe by the script
LEMMA UnsubscribeKeepsIInv ==
  ASSUME IInv, NEW e \in Event, NEW fn \in Fn, Unsubscribe(e, fn)
  PROVE  IInv'
<1>1. /\ Find(e, fn) # 0 /\ subscriptions' = Unsubscribed(subscriptions, e, fn)
      /\ shifts' = shifts + Shifts(e, fn) /\ shifts' <= MaxShifts
      /\ UNCHANGED <<mode, event, index, components, registered, name>>
      /\ mode \in {"main", "called"}
  BY DEF Unsubscribe, walk, bucket, InScript
<1>2. subscriptions \in [Event -> Seq(Subscription)] /\ fn \notin ComponentFn /\ RangesInv
  BY Kinds DEF IInv, RangesInv
<1>3. \A d \in Event : d # e => subscriptions'[d] = subscriptions[d]
  BY <1>1, <1>2 DEF Unsubscribed
<1>4. /\ subscriptions'[e] \in Seq(Subscription) /\ Len(subscriptions'[e]) <= MaxSubscriptions
      /\ CallsOf(e)'
      /\ Hits(e) <= Hits(e)' + (IF e = event /\ Find(e, fn) \in 1 .. index THEN 1 ELSE 0)
      /\ \A f \in ComponentFn :
           Copies(e, f)' = Copies(e, f) - (IF f = fn /\ Find(e, fn) # 0 THEN 1 ELSE 0)
  BY <1>1, Taken DEF IInv
<1>5. ASSUME NEW d \in Event, d # e
      PROVE  /\ Len(subscriptions'[d]) <= MaxSubscriptions
             /\ CallsOf(d)' /\ Hits(d)' = Hits(d)
             /\ \A f \in ComponentFn : Copies(d, f)' = Copies(d, f)
  BY <1>1, <1>3, <1>5 DEF IInv, RangesInv, CallsOf, Hits, Copies
<1>6. \A d \in Event : Hits(d) \in Nat /\ \A f \in ComponentFn : Copies(d, f) \in Nat
  BY <1>2, NaturalCounts
<1>7. /\ shifts \in Nat /\ shifts' \in 0 .. MaxShifts
      /\ shifts' - shifts = IF e = event /\ Find(e, fn) \in 1 .. index THEN 1 ELSE 0
  <2>1. shifts \in 0 .. MaxShifts /\ MaxShifts \in Nat /\ (mode = "main" => index = 0)
    BY Kinds DEF IInv, RangesInv
  <2>2. Shifts(e, fn) = IF e = event /\ Find(e, fn) \in 1 .. index THEN 1 ELSE 0
    BY <1>1, <2>1 DEF Shifts
  <2> QED
    BY <1>1, <2>1, <2>2
<1>8. /\ RangesInv' /\ (\A d \in Event : CallsOf(d)') /\ CoverInv'
  <2>1. subscriptions' \in [Event -> Seq(Subscription)]
    BY <1>1, <1>2, <1>4 DEF Unsubscribed
  <2>2. /\ components' \in [Name -> Component \cup {NoComponent}]
        /\ registered' \in [Component -> BOOLEAN]
        /\ name' \in [Component -> Name \cup {NoName}]
    BY <1>1, <1>2 DEF RangesInv
  <2>3. \A d \in Event : Len(subscriptions'[d]) <= MaxSubscriptions /\ CallsOf(d)'
    BY <1>4, <1>5
  <2>4. ASSUME NEW d \in Event, d = event PROVE Hits(d) <= Hits(d)' + (shifts' - shifts)
    <3>1. CASE d = e
      BY <1>4, <1>7, <2>4, <3>1
    <3>2. CASE d # e
      <4>1. Hits(d)' = Hits(d) /\ Hits(d) \in Nat
        BY <1>5, <1>6, <3>2
      <4>2. shifts' - shifts = 0
        BY <1>7, <2>4, <3>2
      <4> QED
        BY <4>1, <4>2
    <3> QED
      BY <3>1, <3>2
  <2> QED
    BY <1>1, <1>7, <2>1, <2>2, <2>3, <2>4, WalkKept
<1>9. CountInv'
  <2>1. ASSUME NEW d \in Event, NEW f \in ComponentFn PROVE Copies(d, f)' = Copies(d, f)
    <3>1. CASE d = e
      BY <1>2, <1>4, <1>6, <3>1
    <3>2. CASE d # e
      BY <1>5, <3>2
    <3> QED
      BY <3>1, <3>2
  <2> QED
    BY <1>1, <2>1 DEF IInv, CountInv, Sharing
<1> QED
  BY <1>1, <1>8, <1>9 DEF IInv, BucketInv

\* ComponentBucket:addcomponent
LEMMA AddComponentKeepsIInv ==
  ASSUME IInv, NEW c \in Component, NEW n \in Name, AddComponent(c, n)
  PROVE  IInv'
<1>1. /\ components[n] = NoComponent /\ ~registered[c]
      /\ \A e \in Handled(c) : RoomFor(e)
      /\ registered' = [registered EXCEPT ![c] = TRUE]
      /\ name' = [name EXCEPT ![c] = n]
      /\ components' = [components EXCEPT ![n] = c]
      /\ UNCHANGED <<mode, event, index, shifts>>
  BY DEF AddComponent, walk
<1>2. subscriptions' = [e \in Event |->
        IF e \in Handled(c) THEN Append(subscriptions[e], Subscriber(HandlerOf[c][e]))
        ELSE subscriptions[e]]
  BY DEF AddComponent
<1>3. /\ subscriptions \in [Event -> Seq(Subscription)] /\ RangesInv
      /\ components \in [Name -> Component \cup {NoComponent}]
      /\ registered \in [Component -> BOOLEAN]
      /\ name \in [Component -> Name \cup {NoName}]
  BY DEF IInv, RangesInv
<1>4. ASSUME NEW e \in Event
      PROVE  /\ subscriptions'[e] \in Seq(Subscription) /\ Len(subscriptions'[e]) <= MaxSubscriptions
             /\ CallsOf(e)' /\ Hits(e)' = Hits(e)
             /\ \A f \in ComponentFn :
                  Copies(e, f)' = Copies(e, f) + (IF f = HandlerOf[c][e] THEN 1 ELSE 0)
  <2>1. CASE e \in Handled(c)
    <3>1. HandlerOf[c][e] \in Fn \cup ComponentFn
      BY <2>1, Kinds
    <3>2. subscriptions'[e] = Append(subscriptions[e], Subscriber(HandlerOf[c][e]))
      BY <1>2, <2>1
    <3>3. CallsOf(e) /\ RoomFor(e)
      BY <1>1, <2>1 DEF IInv
    <3> QED
      BY <1>1, <1>3, <3>1, <3>2, <3>3, Added
  <2>2. CASE e \notin Handled(c)
    <3>1. subscriptions'[e] = subscriptions[e]
      BY <1>2, <2>2
    <3>2. /\ subscriptions'[e] \in Seq(Subscription) /\ Len(subscriptions'[e]) <= MaxSubscriptions
          /\ CallsOf(e)' /\ Hits(e)' = Hits(e) /\ \A f \in ComponentFn : Copies(e, f)' = Copies(e, f)
      BY <1>1, <3>1 DEF IInv, RangesInv, CallsOf, Hits, Copies
    <3>3. ASSUME NEW f \in ComponentFn PROVE f # HandlerOf[c][e] /\ Copies(e, f) \in Nat
      BY <1>3, <2>2, NaturalCounts, Kinds
    <3> QED
      BY <3>2, <3>3
  <2> QED
    BY <2>1, <2>2
<1>5. RangesInv' /\ (\A e \in Event : CallsOf(e)') /\ CoverInv'
  <2>1. subscriptions' \in [Event -> Seq(Subscription)]
    BY <1>2, <1>4
  <2>2. /\ shifts' = shifts /\ shifts' \in 0 .. MaxShifts /\ shifts \in Nat
        /\ components' \in [Name -> Component \cup {NoComponent}]
        /\ registered' \in [Component -> BOOLEAN]
        /\ name' \in [Component -> Name \cup {NoName}]
    BY <1>1, <1>3, Kinds DEF RangesInv
  <2>3. \A d \in Event : Hits(d) <= Hits(d)' + (shifts' - shifts)
    BY <1>3, <1>4, <2>2, NaturalCounts
  <2> QED
    BY <1>1, <1>4, <2>1, <2>2, <2>3, WalkKept
<1>6. CountInv'
  <2>1. IsFiniteSet({d \in Component : registered[d]}) /\ IsFiniteSet({d \in Component : registered'[d]})
    <3>1. IsFiniteSet({d \in Component : registered[d]})
      BY DEF IInv, CountInv
    <3>2. {d \in Component : registered'[d]} = {d \in Component : registered[d]} \cup {c}
      BY <1>1, <1>3
    <3> QED
      BY <3>1, <3>2, FS_AddElement
  <2>2. ASSUME NEW e \in Event, NEW f \in ComponentFn
        PROVE  Copies(e, f)' = Cardinality(Sharing(e, f)')
    <3>1. Copies(e, f) = Cardinality(Sharing(e, f)) /\ Copies(e, f) \in Nat
      BY <1>3, NaturalCounts DEF IInv, CountInv
    <3>2. IsFiniteSet(Sharing(e, f)) /\ c \notin Sharing(e, f)
      <4>1. Sharing(e, f) \subseteq {d \in Component : registered[d]}
        BY DEF Sharing
      <4> QED
        BY <1>1, <2>1, <4>1, FS_Subset DEF Sharing
    <3>3. CASE f = HandlerOf[c][e]
      <4>1. Sharing(e, f)' = Sharing(e, f) \cup {c}
        BY <1>1, <1>3, <3>3 DEF Sharing
      <4>2. Cardinality(Sharing(e, f) \cup {c}) = Cardinality(Sharing(e, f)) + 1
        BY <3>2, FS_AddElement
      <4> QED
        BY <1>4, <3>1, <3>3, <4>1, <4>2
    <3>4. CASE f # HandlerOf[c][e]
      <4>1. Sharing(e, f)' = Sharing(e, f)
        BY <1>1, <1>3, <3>4 DEF Sharing
      <4> QED
        BY <1>4, <3>1, <3>4, <4>1
    <3> QED
      BY <3>3, <3>4
  <2> QED
    BY <2>1, <2>2 DEF CountInv
<1>7. BucketInv'
  <2> SUFFICES ASSUME NEW d \in Component, registered'[d]
               PROVE  name'[d] \in Name /\ components'[name'[d]] = d
    BY DEF BucketInv
  <2>1. CASE d = c
    BY <1>1, <1>3, <2>1
  <2>2. CASE d # c
    <3>1. registered[d] /\ name'[d] = name[d] /\ name[d] \in Name /\ components[name[d]] = d
      BY <1>1, <1>3, <2>2 DEF IInv, BucketInv
    <3>2. name[d] # n
      BY <1>1, <3>1, Kinds
    <3> QED
      BY <1>1, <1>3, <3>1, <3>2
  <2> QED
    BY <2>1, <2>2
<1> QED
  BY <1>5, <1>6, <1>7 DEF IInv

\* Component:unregister.  A registered component's handlers are all subscribed, so
\* each is found: of a handler that several components share, one subscription
\* goes and the others keep theirs.
LEMMA UnregisterKeepsIInv ==
  ASSUME IInv, NEW c \in Component, Unregister(c)
  PROVE  IInv'
<1>1. /\ registered[c] /\ mode \in {"main", "called"}
      /\ shifts' = shifts + (IF event \in Handled(c) THEN Shifts(event, HandlerOf[c][event]) ELSE 0)
      /\ shifts' <= MaxShifts
      /\ registered' = [registered EXCEPT ![c] = FALSE]
      /\ name' = [name EXCEPT ![c] = NoName]
      /\ UNCHANGED <<mode, event, index, components>>
  BY DEF Unregister, walk, InScript
<1>2. subscriptions' = [e \in Event |->
        IF e \in Handled(c) THEN Unsubscribed(subscriptions, e, HandlerOf[c][e])[e]
        ELSE subscriptions[e]]
  BY DEF Unregister
<1>3. /\ subscriptions \in [Event -> Seq(Subscription)] /\ RangesInv
      /\ components \in [Name -> Component \cup {NoComponent}]
      /\ registered \in [Component -> BOOLEAN]
      /\ name \in [Component -> Name \cup {NoName}]
      /\ IsFiniteSet({d \in Component : registered[d]})
  BY DEF IInv, RangesInv, CountInv
<1>4. ASSUME NEW e \in Event, NEW f \in ComponentFn
      PROVE  /\ IsFiniteSet(Sharing(e, f)) /\ Cardinality(Sharing(e, f)) \in Nat
             /\ Copies(e, f) = Cardinality(Sharing(e, f))
  <2>1. Sharing(e, f) \subseteq {d \in Component : registered[d]}
    BY DEF Sharing
  <2> QED
    BY <1>3, <2>1, FS_Subset, FS_CardinalityType DEF IInv, CountInv
<1>5. ASSUME NEW e \in Handled(c) PROVE Find(e, HandlerOf[c][e]) # 0
  <2>1. e \in Event /\ HandlerOf[c][e] \in ComponentFn
    BY Kinds DEF Handled
  <2>2. c \in Sharing(e, HandlerOf[c][e])
    BY <1>1 DEF Sharing
  <2>3. Cardinality(Sharing(e, HandlerOf[c][e])) # 0
    BY <1>4, <2>1, <2>2, FS_EmptySet
  <2>4. Places(subscriptions[e], OfHandler(HandlerOf[c][e])) # {}
    <3>1. Cardinality(Places(subscriptions[e], OfHandler(HandlerOf[c][e]))) # 0
      BY <1>4, <2>1, <2>3 DEF Copies
    <3> QED
      BY <3>1, FS_EmptySet
  <2>5. PICK k \in 1 .. Len(subscriptions[e]) : subscriptions[e][k].fn = HandlerOf[c][e]
    BY <2>4 DEF Places, OfHandler
  <2> QED
    BY <1>3, <2>1, <2>5, FindProperties
<1>6. ASSUME NEW e \in Event
      PROVE  /\ subscriptions'[e] \in Seq(Subscription) /\ Len(subscriptions'[e]) <= MaxSubscriptions
             /\ CallsOf(e)'
             /\ Hits(e) <= Hits(e)' + (IF /\ e = event /\ e \in Handled(c)
                                          /\ Find(e, HandlerOf[c][e]) \in 1 .. index THEN 1 ELSE 0)
             /\ \A f \in ComponentFn :
                  Copies(e, f)' = Copies(e, f) - (IF f = HandlerOf[c][e] THEN 1 ELSE 0)
  <2>1. CASE e \in Handled(c)
    <3>1. subscriptions'[e] = Unsubscribed(subscriptions, e, HandlerOf[c][e])[e] /\ CallsOf(e)
      BY <1>2, <2>1 DEF IInv
    <3>2. /\ subscriptions'[e] \in Seq(Subscription) /\ Len(subscriptions'[e]) <= MaxSubscriptions
          /\ CallsOf(e)'
          /\ Hits(e) <= Hits(e)' + (IF e = event /\ Find(e, HandlerOf[c][e]) \in 1 .. index
                                    THEN 1 ELSE 0)
          /\ \A f \in ComponentFn :
               Copies(e, f)' = Copies(e, f)
                 - (IF f = HandlerOf[c][e] /\ Find(e, HandlerOf[c][e]) # 0 THEN 1 ELSE 0)
      BY <1>1, <1>3, <3>1, Taken
    <3> QED
      BY <1>5, <2>1, <3>2
  <2>2. CASE e \notin Handled(c)
    <3>1. subscriptions'[e] = subscriptions[e]
      BY <1>2, <2>2
    <3>2. /\ subscriptions'[e] \in Seq(Subscription) /\ Len(subscriptions'[e]) <= MaxSubscriptions
          /\ CallsOf(e)' /\ Hits(e)' = Hits(e) /\ \A f \in ComponentFn : Copies(e, f)' = Copies(e, f)
      BY <1>1, <3>1 DEF IInv, RangesInv, CallsOf, Hits, Copies
    <3>3. Hits(e) \in Nat /\ \A f \in ComponentFn : f # HandlerOf[c][e] /\ Copies(e, f) \in Nat
      BY <1>3, <2>2, NaturalCounts, Kinds
    <3> QED
      BY <2>2, <3>2, <3>3
  <2> QED
    BY <2>1, <2>2
<1>7. /\ shifts \in Nat /\ shifts' \in 0 .. MaxShifts
      /\ shifts' - shifts = IF event \in Handled(c) /\ Find(event, HandlerOf[c][event]) \in 1 .. index
                            THEN 1 ELSE 0
  <2>1. shifts \in 0 .. MaxShifts /\ MaxShifts \in Nat /\ (mode = "main" => index = 0)
    BY Kinds DEF IInv, RangesInv
  <2>2. Shifts(event, HandlerOf[c][event])
          = IF Find(event, HandlerOf[c][event]) \in 1 .. index THEN 1 ELSE 0
    BY <1>1, <2>1 DEF Shifts
  <2> QED
    BY <1>1, <2>1, <2>2
<1>8. RangesInv' /\ (\A e \in Event : CallsOf(e)') /\ CoverInv'
  <2>1. subscriptions' \in [Event -> Seq(Subscription)]
    BY <1>2, <1>6
  <2>2. /\ components' \in [Name -> Component \cup {NoComponent}]
        /\ registered' \in [Component -> BOOLEAN]
        /\ name' \in [Component -> Name \cup {NoName}]
    BY <1>1, <1>3
  <2>3. ASSUME NEW e \in Event, e = event PROVE Hits(e) <= Hits(e)' + (shifts' - shifts)
    BY <1>6, <1>7, <2>3
  <2> QED
    BY <1>1, <1>6, <1>7, <2>1, <2>2, <2>3, WalkKept
<1>9. CountInv'
  <2>1. IsFiniteSet({d \in Component : registered'[d]})
    <3>1. {d \in Component : registered'[d]} \subseteq {d \in Component : registered[d]}
      BY <1>1, <1>3
    <3> QED
      BY <1>3, <3>1, FS_Subset
  <2>2. ASSUME NEW e \in Event, NEW f \in ComponentFn
        PROVE  Copies(e, f)' = Cardinality(Sharing(e, f)')
    <3>1. CASE f = HandlerOf[c][e]
      <4>1. c \in Sharing(e, f) /\ Sharing(e, f)' = Sharing(e, f) \ {c}
        BY <1>1, <1>3, <3>1 DEF Sharing
      <4>2. Cardinality(Sharing(e, f) \ {c}) = Cardinality(Sharing(e, f)) - 1
        BY <1>4, <4>1, FS_RemoveElement
      <4> QED
        BY <1>4, <1>6, <3>1, <4>1, <4>2
    <3>2. CASE f # HandlerOf[c][e]
      <4>1. Sharing(e, f)' = Sharing(e, f)
        BY <1>1, <1>3, <3>2 DEF Sharing
      <4> QED
        BY <1>4, <1>6, <3>2, <4>1
    <3> QED
      BY <3>1, <3>2
  <2> QED
    BY <2>1, <2>2 DEF CountInv
<1>10. BucketInv'
  BY <1>1, <1>3 DEF IInv, BucketInv
<1> QED
  BY <1>8, <1>9, <1>10 DEF IInv

-----------------------------------------------------------------------------
(* The walk *)

\* A table of subscribers in which only calls have changed has as many
\* subscriptions of each handler.
LEMMA SameHandlers ==
  ASSUME NEW e \in Event, subscriptions[e] \in Seq(Subscription),
         subscriptions'[e] \in Seq(Subscription),
         Len(subscriptions'[e]) = Len(subscriptions[e]),
         \A k \in 1 .. Len(subscriptions[e]) : subscriptions'[e][k].fn = subscriptions[e][k].fn
  PROVE  \A f \in ComponentFn : Copies(e, f)' = Copies(e, f)
<1> TAKE f \in ComponentFn
<1>1. \A k \in 1 .. Len(subscriptions[e]) :
        subscriptions[e][k] \in Subscription /\ subscriptions'[e][k] \in Subscription
  BY ElementOfSeq, LenProperties
<1>2. Places(subscriptions'[e], OfHandler(f)) = Places(subscriptions[e], OfHandler(f))
  BY <1>1 DEF Places, OfHandler
<1> QED
  BY <1>2 DEF Copies

\* The next place of the table is called: its subscriber was not called before.
LEMMA CallKeepsIInv == ASSUME IInv, Call PROVE IInv'
<1> DEFINE s == subscriptions[event]
           t == [s EXCEPT ![index + 1].calls = @ + 1]
           old == Places(s, Reached)
           new == Places(t, Reached)
<1>1. /\ mode = "walking" /\ index < Len(s) /\ mode' = "called" /\ index' = index + 1
      /\ subscriptions' = [subscriptions EXCEPT ![event] = t]
      /\ UNCHANGED <<event, shifts, components, registered, name>>
  BY DEF Call, bucket
<1>2. /\ subscriptions \in [Event -> Seq(Subscription)] /\ event \in Event /\ s \in Seq(Subscription)
      /\ Len(s) \in Nat /\ Len(s) <= MaxSubscriptions /\ MaxSubscriptions \in Nat
      /\ index \in Nat /\ index + 1 \in 1 .. Len(s) /\ shifts \in Nat
      /\ \A k \in 1 .. Len(s) : s[k] \in Subscription
  <2>1. /\ subscriptions \in [Event -> Seq(Subscription)] /\ event \in Event /\ index \in Nat
        /\ s \in Seq(Subscription) /\ Len(s) <= MaxSubscriptions /\ shifts \in Nat
    BY Kinds DEF IInv, RangesInv
  <2>2. Len(s) \in Nat /\ \A k \in 1 .. Len(s) : s[k] \in Subscription
    BY <2>1, LenProperties, ElementOfSeq
  <2> QED
    BY <1>1, <2>1, <2>2, Kinds
<1>3. s[index + 1].calls = 0 /\ s[index + 1].fn \in Fn \cup ComponentFn
  <2>1. s[index + 1].calls <= 0
    BY <1>2 DEF IInv, CallsOf
  <2>2. s[index + 1] \in Subscription
    BY <1>2
  <2> QED
    BY <2>1, <2>2 DEF Subscription
<1>4. /\ t \in Seq(Subscription) /\ Len(t) = Len(s)
      /\ \A k \in 1 .. Len(s) : k # index + 1 => t[k] = s[k]
      /\ t[index + 1] = [fn |-> s[index + 1].fn, calls |-> 1]
  <2>1. [s[index + 1] EXCEPT !.calls = @ + 1] = [fn |-> s[index + 1].fn, calls |-> 1]
    <3>1. s[index + 1] \in Subscription
      BY <1>2
    <3> QED
      BY <1>3, <3>1 DEF Subscription
  <2>2. [fn |-> s[index + 1].fn, calls |-> 1] \in Subscription
    BY <1>3 DEF Subscription
  <2>3. t = [s EXCEPT ![index + 1] = [fn |-> s[index + 1].fn, calls |-> 1]]
    BY <2>1
  <2> HIDE DEF s, t
  <2> QED
    BY <1>2, <2>2, <2>3, ExceptSeq
<1>5. subscriptions'[event] = t /\ \A e \in Event : e # event => subscriptions'[e] = subscriptions[e]
  BY <1>1, <1>2
<1>6. new = old \cup {index + 1} /\ index + 1 \notin old
  <2>1. t[index + 1] \in Reached /\ s[index + 1] \notin Reached
    BY <1>3, <1>4 DEF Reached, Subscription
  <2> HIDE DEF s, t
  <2> QED
    BY <1>2, <1>4, <2>1 DEF Places
<1>7. Cardinality(new) = Cardinality(old) + 1 /\ Cardinality(old) \in Nat
  <2>1. IsFiniteSet(old) /\ Cardinality(old) \in Nat
    BY <1>2, PlacesFinite
  <2> HIDE DEF old, new
  <2> QED
    BY <1>6, <2>1, FS_AddElement
<1>8. RangesInv'
  <2> HIDE DEF s, t
  <2>1. subscriptions' \in [Event -> Seq(Subscription)]
    BY <1>1, <1>2, <1>4
  <2>2. \A e \in Event : Len(subscriptions'[e]) <= MaxSubscriptions
    BY <1>2, <1>4, <1>5 DEF IInv, RangesInv
  <2>3. index' \in 0 .. MaxSubscriptions
    BY <1>1, <1>2
  <2> QED
    BY <1>1, <2>1, <2>2, <2>3 DEF IInv, RangesInv
<1>9. ASSUME NEW e \in Event PROVE CallsOf(e)'
  <2>1. CASE e = event
    <3> SUFFICES ASSUME NEW k \in 1 .. Len(s)
                 PROVE  t[k].calls <= (IF k <= index + 1 THEN 1 ELSE 0)
      BY <1>1, <1>4, <1>5, <2>1 DEF CallsOf
    <3>1. s[k].calls <= (IF k <= index THEN 1 ELSE 0)
      BY <1>2 DEF IInv, CallsOf
    <3>2. s[k].calls \in Nat
      <4>1. s[k] \in Subscription
        BY <1>2
      <4> QED
        BY <4>1 DEF Subscription
    <3> HIDE DEF s, t
    <3>3. CASE k = index + 1
      BY <1>2, <1>4, <3>3
    <3>4. CASE k # index + 1
      BY <1>2, <1>4, <3>1, <3>2, <3>4
    <3> QED
      BY <3>3, <3>4
  <2>2. CASE e # event
    BY <1>1, <1>5, <2>2 DEF IInv, CallsOf
  <2> QED
    BY <2>1, <2>2
<1>10. CoverInv'
  <2>1. index <= Cardinality(old) + shifts
    BY <1>2 DEF IInv, CoverInv, Hits
  <2>2. Hits(event)' = Cardinality(new)
    BY <1>1, <1>5 DEF Hits
  <2> SUFFICES ASSUME NEW e \in Event, e = event' PROVE index' <= Hits(e)' + shifts'
    BY DEF CoverInv
  <2>3. Hits(e)' = Cardinality(new)
    BY <1>1, <1>5 DEF Hits
  <2> HIDE DEF old, new
  <2> QED
    BY <1>1, <1>2, <1>7, <2>1, <2>3
<1>11. CountInv'
  <2>1. ASSUME NEW e \in Event, NEW f \in ComponentFn PROVE Copies(e, f)' = Copies(e, f)
    <3>1. CASE e = event
      <4>1. \A k \in 1 .. Len(s) : t[k].fn = s[k].fn
        BY <1>4
      <4> QED
        BY <1>2, <1>4, <1>5, <3>1, <4>1, SameHandlers
    <3>2. CASE e # event
      BY <1>5, <3>2 DEF Copies
    <3> QED
      BY <3>1, <3>2
  <2> QED
    BY <1>1, <2>1 DEF IInv, CountInv, Sharing
<1> QED
  BY <1>1, <1>8, <1>9, <1>10, <1>11 DEF IInv, BucketInv

\* The walk ends, or an error ends it.
LEMMA OverKeepsIInv == ASSUME IInv, Over PROVE IInv'
<1> DEFINE s == subscriptions[event]
           t == [k \in DOMAIN s |-> Subscriber(s[k].fn)]
<1>1. /\ mode' = "idle" /\ index' = 0 /\ shifts' = 0
      /\ subscriptions' = [subscriptions EXCEPT ![event] = t]
      /\ UNCHANGED <<event, components, registered, name>>
  BY DEF Over, bucket
<1>2. /\ subscriptions \in [Event -> Seq(Subscription)] /\ event \in Event /\ s \in Seq(Subscription)
      /\ Len(s) \in Nat /\ DOMAIN s = 1 .. Len(s) /\ \A k \in 1 .. Len(s) : s[k] \in Subscription
  <2>1. subscriptions \in [Event -> Seq(Subscription)] /\ event \in Event /\ s \in Seq(Subscription)
    BY DEF IInv, RangesInv
  <2> QED
    BY <2>1, LenProperties, ElementOfSeq
<1>3. \A k \in 1 .. Len(s) : t[k] \in Subscription /\ t[k].fn = s[k].fn /\ t[k].calls = 0
  <2>1. ASSUME NEW k \in 1 .. Len(s) PROVE s[k].fn \in Fn \cup ComponentFn
    <3>1. s[k] \in Subscription
      BY <1>2
    <3> QED
      BY <3>1 DEF Subscription
  <2> QED
    BY <1>2, <2>1, Kinds DEF Subscriber
<1>4. t \in Seq(Subscription) /\ Len(t) = Len(s)
  <2>1. t \in [1 .. Len(s) -> Subscription]
    BY <1>2, <1>3
  <2> HIDE DEF s, t
  <2> QED
    BY <1>2, <2>1, LenProperties
<1>5. subscriptions'[event] = t /\ \A e \in Event : e # event => subscriptions'[e] = subscriptions[e]
  BY <1>1, <1>2
<1>6. RangesInv'
  <2> HIDE DEF s, t
  <2>1. subscriptions' \in [Event -> Seq(Subscription)]
    BY <1>1, <1>2, <1>4
  <2>2. \A e \in Event : Len(subscriptions'[e]) <= MaxSubscriptions
    BY <1>4, <1>5 DEF IInv, RangesInv, s
  <2> QED
    BY <1>1, <2>1, <2>2, Kinds DEF IInv, RangesInv
<1>7. ASSUME NEW e \in Event PROVE CallsOf(e)'
  <2>1. CASE e = event
    <3> HIDE DEF s, t
    <3> QED
      BY <1>1, <1>2, <1>3, <1>4, <1>5, <2>1 DEF CallsOf
  <2>2. CASE e # event
    <3>1. \A k \in 1 .. Len(subscriptions[e]) : subscriptions[e][k].calls <= 0
      BY <2>2 DEF IInv, CallsOf
    <3> QED
      BY <1>1, <1>5, <2>2, <3>1 DEF CallsOf
  <2> QED
    BY <2>1, <2>2
<1>8. CoverInv'
  <2> SUFFICES ASSUME NEW e \in Event PROVE Hits(e)' \in Nat
    BY <1>1 DEF CoverInv
  <2> QED
    BY <1>6, PlacesFinite DEF RangesInv, Hits
<1>9. CountInv'
  <2>1. ASSUME NEW e \in Event, NEW f \in ComponentFn PROVE Copies(e, f)' = Copies(e, f)
    <3>1. CASE e = event
      BY <1>2, <1>3, <1>4, <1>5, <3>1, SameHandlers
    <3>2. CASE e # event
      BY <1>5, <3>2 DEF Copies
    <3> QED
      BY <3>1, <3>2
  <2> QED
    BY <1>1, <2>1 DEF IInv, CountInv, Sharing
<1> QED
  BY <1>1, <1>6, <1>7, <1>8, <1>9 DEF IInv, BucketInv

\* Between walks no subscriber has been called.
LEMMA DispatchKeepsIInv == ASSUME IInv, NEW e \in Event, Dispatch(e) PROVE IInv'
<1>1. /\ mode = "idle" /\ mode' = "walking" /\ event' = e /\ index' = 0 /\ index = 0
      /\ UNCHANGED <<subscriptions, shifts, components, registered, name>>
  BY DEF Dispatch, bucket, IInv, RangesInv
<1>2. RangesInv'
  BY <1>1, Kinds DEF IInv, RangesInv
<1>3. ASSUME NEW d \in Event PROVE CallsOf(d)'
  <2>1. \A k \in 1 .. Len(subscriptions[d]) : subscriptions[d][k].calls <= 0
    <3>1. \A k \in 1 .. Len(subscriptions[d]) : ~(k <= index)
      BY <1>1
    <3> QED
      BY <3>1 DEF IInv, CallsOf
  <2>2. \A k \in 1 .. Len(subscriptions[d]) : ~(k <= index')
    BY <1>1
  <2> QED
    BY <1>1, <2>1, <2>2 DEF CallsOf
<1>4. CoverInv'
  <2> SUFFICES ASSUME NEW d \in Event PROVE index' <= Hits(d)' + shifts'
    BY DEF CoverInv
  <2>1. Hits(d)' \in Nat /\ shifts' \in Nat
    BY <1>2, PlacesFinite, Kinds DEF RangesInv, Hits
  <2> QED
    BY <1>1, <2>1
<1>5. CountInv'
  BY <1>1 DEF IInv, CountInv, Copies, Sharing
<1> QED
  BY <1>1, <1>2, <1>3, <1>4, <1>5 DEF IInv, BucketInv

\* main returns, a handler returns, or nothing happens.
LEMMA ModeKeepsIInv ==
  ASSUME IInv, MainReturns \/ Return \/ UNCHANGED vars
  PROVE  IInv'
<1>1. UNCHANGED <<subscriptions, event, index, shifts, components, registered, name>>
  BY DEF MainReturns, Return, vars, bucket
<1>2. /\ mode' \in {"main", "idle", "walking", "called"}
      /\ mode' \in {"main", "idle"} => mode \in {"main", "idle"}
  BY DEF MainReturns, Return, vars, IInv, RangesInv
<1>3. RangesInv'
  BY <1>1, <1>2 DEF IInv, RangesInv
<1> QED
  BY <1>1, <1>3 DEF IInv, CallsOf, CoverInv, CountInv, BucketInv, Hits, Copies, Sharing

\* Before main runs there are neither subscribers nor components.
LEMMA InitIInv == Init => IInv
<1> SUFFICES ASSUME Init PROVE IInv
  OBVIOUS
<1>1. /\ subscriptions = [e \in Event |-> <<>>] /\ \A e \in Event : subscriptions[e] = <<>>
      /\ mode = "main" /\ event \in Event /\ index = 0 /\ shifts = 0
      /\ components = [n \in Name |-> NoComponent]
      /\ registered = [c \in Component |-> FALSE] /\ \A c \in Component : ~registered[c]
      /\ name = [c \in Component |-> NoName]
  BY DEF Init
<1>2. <<>> \in Seq(Subscription) /\ Len(<<>>) = 0 /\ \A V : Places(<<>>, V) = {}
  BY EmptySeq DEF Places
<1>3. RangesInv
  BY <1>1, <1>2, Kinds DEF RangesInv
<1>4. \A e \in Event : CallsOf(e)
  BY <1>1, <1>2 DEF CallsOf
<1>5. CoverInv
  <2>1. \A e \in Event : Hits(e) = 0
    <3>1. \A e \in Event : Places(subscriptions[e], Reached) = {}
      BY <1>1, <1>2
    <3> QED
      BY <3>1, FS_EmptySet DEF Hits
  <2> QED
    BY <1>1, <2>1 DEF CoverInv
<1>6. CountInv
  <2>1. {c \in Component : registered[c]} = {} /\ \A e, f : Sharing(e, f) = {}
    BY <1>1 DEF Sharing
  <2> QED
    BY <1>1, <1>2, <2>1, FS_EmptySet DEF CountInv, Copies
<1>7. BucketInv
  BY <1>1 DEF BucketInv
<1> QED
  BY <1>3, <1>4, <1>5, <1>6, <1>7 DEF IInv

\* Every step keeps the inductive invariant.
LEMMA NextKeepsIInv == IInv /\ [Next]_vars => IInv'
<1> SUFFICES ASSUME IInv, [Next]_vars PROVE IInv'
  OBVIOUS
<1>1. CASE \E e \in Event, fn \in Fn : Subscribe(e, fn) \/ Unsubscribe(e, fn)
  BY <1>1, SubscribeKeepsIInv, UnsubscribeKeepsIInv
<1>2. CASE \E c \in Component, n \in Name : AddComponent(c, n)
  BY <1>2, AddComponentKeepsIInv
<1>3. CASE \E c \in Component : Unregister(c)
  BY <1>3, UnregisterKeepsIInv
<1>4. CASE EndWalk \/ Raise \/ \E c \in Component : RemoveComponent(c)
  BY <1>4, OverKeepsIInv DEF EndWalk, Raise, RemoveComponent
<1>5. CASE \E e \in Event : Dispatch(e)
  BY <1>5, DispatchKeepsIInv
<1>6. CASE Call
  BY <1>6, CallKeepsIInv
<1>7. CASE MainReturns \/ Return \/ UNCHANGED vars
  BY <1>7, ModeKeepsIInv
<1> QED
  BY <1>1, <1>2, <1>3, <1>4, <1>5, <1>6, <1>7 DEF Next, Script, Handler

-----------------------------------------------------------------------------
\* The inductive invariant of the event dispatch.
THEOREM Invariance == Spec => []IInv
<1>1. Init => IInv
  BY InitIInv
<1>2. IInv /\ [Next]_vars => IInv'
  BY NextKeepsIInv
<1> QED
  BY <1>1, <1>2, PTL DEF Spec

\* The types of Handler.lua's tables, of a walk and of the component bucket.
THEOREM TypeCorrectness == Spec => []TypeOK
<1>1. IInv => TypeOK
  BY DEF IInv, RangesInv, TypeOK, Subscription
<1> QED
  BY <1>1, Invariance, PTL

\* Events.handler (Handler.lua:80) calls no subscriber twice in one walk, whatever
\* its handlers do to the table: a subscriber that was called never comes to stand
\* before the index, because subscribing appends and removing moves others down.
THEOREM NoSubscriberTwice == Spec => []CalledOnce
<1>1. IInv => CalledOnce
  <2> SUFFICES ASSUME IInv, NEW e \in Event, NEW k \in DOMAIN subscriptions[e]
               PROVE  subscriptions[e][k].calls
                        <= (IF e = event /\ mode \in {"walking", "called"} THEN 1 ELSE 0)
    BY DEF CalledOnce
  <2>1. /\ subscriptions[e] \in Seq(Subscription) /\ index \in Nat
        /\ (mode \notin {"walking", "called"} => index = 0)
    BY Kinds DEF IInv, RangesInv
  <2>2. k \in 1 .. Len(subscriptions[e]) /\ subscriptions[e][k].calls \in Nat
    <3>1. k \in 1 .. Len(subscriptions[e])
      BY <2>1, LenProperties
    <3>2. subscriptions[e][k] \in Subscription
      BY <2>1, <3>1, ElementOfSeq
    <3> QED
      BY <3>1, <3>2 DEF Subscription
  <2>3. subscriptions[e][k].calls <= (IF e = event /\ k <= index THEN 1 ELSE 0)
    BY <2>2 DEF IInv, CallsOf
  <2> QED
    BY <2>1, <2>2, <2>3
<1> QED
  BY <1>1, Invariance, PTL

\* Who is passed over pays for a removal: a walk that removes nobody it has reached
\* calls every subscriber, those who subscribe during the walk too.
THEOREM PassedOverByRemoval == Spec => []MissedByRemoval
<1>1. IInv => MissedByRemoval
  <2> SUFFICES ASSUME IInv PROVE Cardinality(Passed) <= shifts
    BY DEF MissedByRemoval
  <2> DEFINE s == subscriptions[event]
             hit == Places(s, Reached)
  <2>1. /\ s \in Seq(Subscription) /\ Len(s) \in Nat /\ DOMAIN s = 1 .. Len(s)
        /\ index \in Nat /\ shifts \in Nat
        /\ \A k \in 1 .. Len(s) : s[k] \in Subscription
    <3>1. s \in Seq(Subscription) /\ index \in Nat /\ shifts \in Nat
      BY Kinds DEF IInv, RangesInv
    <3> QED
      BY <3>1, LenProperties, ElementOfSeq
  <2>2. \A k \in 1 .. Len(s) : s[k].calls <= (IF k <= index THEN 1 ELSE 0)
    BY DEF IInv, RangesInv, CallsOf
  <2>3. Passed \cap hit = {} /\ Passed \cup hit \subseteq 1 .. index
    <3>1. Passed = {k \in 1 .. Len(s) : k <= index /\ s[k].calls = 0}
      BY <2>1 DEF Passed
    <3> HIDE DEF s
    <3> QED
      BY <2>1, <2>2, <3>1 DEF Places, Reached
  <2>4. IsFiniteSet(1 .. index) /\ Cardinality(1 .. index) = index
    BY <2>1, FS_Interval
  <2> HIDE DEF hit
  <2>5. /\ IsFiniteSet(Passed) /\ IsFiniteSet(hit)
        /\ Cardinality(Passed) \in Nat /\ Cardinality(hit) \in Nat
        /\ Cardinality(Passed \cup hit) <= index
    <3>1. Passed \subseteq 1 .. index /\ hit \subseteq 1 .. index
      BY <2>3
    <3> QED
      BY <2>3, <2>4, <3>1, FS_Subset, FS_CardinalityType
  <2>6. Cardinality(Passed \cup hit) = Cardinality(Passed) + Cardinality(hit)
    BY <2>3, <2>5, FS_Union, FS_EmptySet
  <2>7. index <= Cardinality(hit) + shifts
    BY DEF IInv, RangesInv, CoverInv, Hits, hit
  <2> QED
    BY <2>1, <2>5, <2>6, <2>7
<1> QED
  BY <1>1, Invariance, PTL

\* Components that share a handler keep one subscription each although
\* Events.unsubscribe (Handler.lua:57) goes by the handler alone, and the bucket
\* has each registered component under its name.
THEOREM SubscriptionsMatchComponents == Spec => []ComponentsInPlace
<1>1. IInv => ComponentsInPlace
  <2> SUFFICES ASSUME IInv PROVE ComponentsInPlace
    OBVIOUS
  <2>1. ASSUME NEW e \in Event, NEW fn \in ComponentFn
        PROVE  Cardinality({k \in DOMAIN subscriptions[e] : subscriptions[e][k].fn = fn})
                 = Cardinality({c \in Component : registered[c] /\ HandlerOf[c][e] = fn})
    <3>1. /\ DOMAIN subscriptions[e] = 1 .. Len(subscriptions[e])
          /\ \A k \in 1 .. Len(subscriptions[e]) : subscriptions[e][k] \in Subscription
      <4>1. subscriptions[e] \in Seq(Subscription)
        BY DEF IInv, RangesInv
      <4> QED
        BY <4>1, LenProperties, ElementOfSeq
    <3>2. {k \in DOMAIN subscriptions[e] : subscriptions[e][k].fn = fn}
            = Places(subscriptions[e], OfHandler(fn))
      BY <3>1 DEF Places, OfHandler
    <3> QED
      BY <3>2 DEF IInv, CountInv, Copies, Sharing
  <2> QED
    BY <2>1 DEF ComponentsInPlace, IInv, BucketInv
<1> QED
  BY <1>1, Invariance, PTL
=============================================================================
