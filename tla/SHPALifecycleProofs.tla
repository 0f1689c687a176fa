------------------------- MODULE SHPALifecycleProofs -------------------------
(***************************************************************************)
(* Proofs about SHPALifecycle, for every set of specs, every list of       *)
(* finalizers that holds none twice, and every number of edits, faults and *)
(* versions the cache has not seen yet.                                    *)
(***************************************************************************)
EXTENDS SHPALifecycle, NumberLemmas, SequenceTheorems
LOCAL INSTANCE FiniteSetsExt

-----------------------------------------------------------------------------
(* Lists of finalizers *)

\* The first elements of a list.
LEMMA Prefix ==
    ASSUME NEW S, NEW s, NEW m \in Nat, \A i \in 1..m : s[i] \in S
    PROVE  /\ SubSeq(s, 1, m) \in Seq(S) /\ Len(SubSeq(s, 1, m)) = m
           /\ \A i \in 1..m : SubSeq(s, 1, m)[i] = s[i]
<1>1. /\ SubSeq(s, 1, m) \in Seq(S)
      /\ Len(SubSeq(s, 1, m)) = IF 1 <= m THEN m - 1 + 1 ELSE 0
      /\ \A i \in 1..m - 1 + 1 : SubSeq(s, 1, m)[i] = s[1 + i - 1]
  BY SubSeqProperties
<1>. QED  BY <1>1

\* The list has s at place k and nowhere else.
OnlyAt(list, s, k) == \A i \in 1..Len(list) : list[i] = s <=> i = k

\* RemoveString's loop over a list that it changes takes out a string that is listed once,
\* wherever it is, and keeps the others in their order.
LEMMA RemoveStringOnce ==
    ASSUME NEW S, NEW list \in Seq(S), NEW s, NEW k \in 1..Len(list), OnlyAt(list, s, k)
    PROVE  /\ ~RemovalPanics(list, s)
           /\ RemoveString(list, s) = SubSeq(list, 1, k - 1) \o SubSeq(list, k + 1, Len(list))
           /\ RemoveString(list, s) \in Seq(S)
           /\ ~ContainsString(RemoveString(list, s), s)
<1>. USE DEF OnlyAt
<1>. DEFINE n == Len(list)
            start == [array |-> list, len |-> n, panics |-> FALSE]
            step(after, i) == IF i = 0 THEN start
                              ELSE LET slice == after[i - 1] IN
                                   IF slice.panics \/ slice.array[i] # s THEN slice
                                   ELSE Shift(slice, i)
            f[i \in 0..n] == step(f, i)
            shifted == Shift(start, k)
            w == [i \in 0..n |-> IF i < k THEN start ELSE shifted]
<1>1. n \in Nat /\ n - 1 \in Nat /\ k \in 1..n
  BY LenProperties
<1>2. shifted = [array |-> [j \in 1..n |-> IF j \in k..(n - 1) THEN list[j + 1] ELSE list[j]],
                 len |-> n - 1, panics |-> FALSE]
  <2>1. k <= n /\ list \in [1..n -> S]
    BY <1>1, LenProperties
  <2>2. shifted = [start EXCEPT !.len = n - 1,
                                !.array = [j \in DOMAIN list |->
                                    IF j \in k..(n - 1) THEN list[j + 1] ELSE list[j]]]
    BY <1>1, <2>1 DEF Shift
  <2>. QED  BY <2>1, <2>2
<1>3. w = [i \in 0..n |-> step(w, i)]
  <2>1. ASSUME NEW i \in 0..n PROVE w[i] = step(w, i)
    <3>1. CASE i = 0
      BY <1>1, <3>1
    <3>2. CASE i \in 1..(k - 1)
      <4>1. w[i - 1] = start /\ w[i] = start
        BY <1>1, <3>2
      <4>2. start.array[i] # s
        BY <1>1, <3>2
      <4>. QED  BY <3>2, <4>1, <4>2
    <3>3. CASE i = k
      BY <1>1, <3>3
    <3>4. CASE i \in (k + 1)..n
      <4>1. w[i - 1] = shifted /\ w[i] = shifted
        BY <1>1, <3>4
      <4>2. shifted.array[i] # s
        BY <1>1, <1>2, <3>4
      <4>. QED  BY <1>1, <1>2, <3>4, <4>1, <4>2
    <3>. QED  BY <1>1, <3>1, <3>2, <3>3, <3>4
  <2>. QED  BY <2>1
<1>4. f = [i \in 0..n |-> step(f, i)]
  BY <1>3, Zenon
<1>5. \A i \in 0..n : f[i] = w[i]
  <2>. DEFINE differ == {i \in 0..n : f[i] # w[i]}
  <2>. HIDE DEF f, w, step
  <2>1. SUFFICES ASSUME differ # {} PROVE FALSE
    OBVIOUS
  <2>2. PICK i \in differ : \A j \in differ : i <= j
    <3>1. differ \subseteq Nat
      BY <1>1
    <3>. QED  BY <2>1, <3>1, LeastNatural, Zenon
  <2>3. f[i] = step(f, i) /\ w[i] = step(w, i)
    BY <1>3, <1>4
  <2>4. i # 0 => f[i - 1] = w[i - 1]
    BY <1>1, <2>2
  <2>5. step(f, i) = step(w, i)
    BY <2>4 DEF step
  <2>. QED  BY <2>2, <2>3, <2>5
<1>6. RemovalLoop(list, s) = shifted
  <2>1. RemovalLoop(list, s) = f[n]
    BY DEF RemovalLoop
  <2>2. w[n] = shifted
    BY <1>1
  <2>. HIDE DEF f, w
  <2>. QED  BY <1>1, <1>5, <2>1, <2>2
<1>. HIDE DEF f, w, step, shifted
<1>7. RemoveString(list, s) = SubSeq(shifted.array, 1, n - 1)
  BY <1>2, <1>6 DEF RemoveString
<1>. DEFINE front == SubSeq(list, 1, k - 1)
            back == SubSeq(list, k + 1, n)
            removed == SubSeq(shifted.array, 1, n - 1)
<1>8. /\ removed \in Seq(S) /\ Len(removed) = n - 1
      /\ \A i \in 1..(n - 1) : removed[i] = IF i < k THEN list[i] ELSE list[i + 1]
  <2>1. \A i \in 1..(n - 1) :
           shifted.array[i] = IF i < k THEN list[i] ELSE list[i + 1]
    BY <1>1, <1>2
  <2>2. \A i \in 1..(n - 1) : shifted.array[i] \in S
    BY <1>1, <2>1, ElementOfSeq
  <2>3. /\ removed \in Seq(S) /\ Len(removed) = n - 1
        /\ \A i \in 1..(n - 1) : removed[i] = shifted.array[i]
    <3>1. PICK m \in Nat : m = n - 1
      BY <1>1
    <3>2. PICK a : a = shifted.array
      OBVIOUS
    <3>3. \A i \in 1..m : a[i] \in S
      BY <2>2, <3>1, <3>2
    <3>4. /\ SubSeq(a, 1, m) \in Seq(S) /\ Len(SubSeq(a, 1, m)) = m
          /\ \A i \in 1..m : SubSeq(a, 1, m)[i] = a[i]
      BY <3>3, Prefix
    <3>. QED  BY <3>1, <3>2, <3>4, Zenon
  <2>. HIDE DEF removed
  <2>. QED  BY <2>1, <2>3, Zenon
<1>9. /\ front \in Seq(S) /\ Len(front) = k - 1
      /\ \A i \in 1..(k - 1) : front[i] = list[i]
  BY <1>1, ElementOfSeq, SubSeqProperties
<1>10. /\ back \in Seq(S) /\ Len(back) = n - k
       /\ \A i \in 1..(n - k) : back[i] = list[k + i]
  BY <1>1, ElementOfSeq, SubSeqProperties
<1>. HIDE DEF front, back, removed
<1>11. /\ front \o back \in Seq(S) /\ Len(front \o back) = n - 1
       /\ \A i \in 1..(n - 1) :
             (front \o back)[i] = IF i < k THEN list[i] ELSE list[i + 1]
  <2>1. /\ front \o back \in Seq(S) /\ Len(front \o back) = Len(front) + Len(back)
        /\ \A i \in 1..Len(front) + Len(back) :
              (front \o back)[i] = IF i <= Len(front) THEN front[i] ELSE back[i - Len(front)]
    BY <1>9, <1>10, ConcatProperties, Zenon
  <2>. DEFINE joined == front \o back
  <2>. HIDE DEF joined
  <2>2. Len(joined) = n - 1
    BY <1>1, <1>9, <1>10, <2>1 DEF joined
  <2>3. ASSUME NEW i \in 1..(n - 1), i < k
        PROVE  joined[i] = list[i]
    <3>1. i \in 1..Len(front) + Len(back) /\ i <= Len(front) /\ i \in 1..(k - 1)
      BY <1>1, <1>9, <1>10, <2>3
    <3>2. joined[i] = front[i]
      BY <2>1, <3>1, Zenon DEF joined
    <3>. QED  BY <1>9, <3>1, <3>2, Zenon
  <2>4. ASSUME NEW i \in 1..(n - 1), ~(i < k)
        PROVE  joined[i] = list[i + 1]
    <3>1. /\ i \in 1..Len(front) + Len(back) /\ ~(i <= Len(front))
          /\ i - Len(front) \in 1..(n - k) /\ k + (i - Len(front)) = i + 1
      BY <1>1, <1>9, <1>10, <2>4
    <3>2. joined[i] = back[i - Len(front)]
      BY <2>1, <3>1, Zenon DEF joined
    <3>. QED  BY <1>10, <3>1, <3>2, Zenon
  <2>5. \A i \in 1..(n - 1) : joined[i] = IF i < k THEN list[i] ELSE list[i + 1]
    BY <2>3, <2>4, Zenon
  <2>. QED  BY <2>1, <2>2, <2>5, Zenon DEF joined
<1>12. removed = front \o back
  <2>1. Len(removed) = Len(front \o back)
        /\ \A i \in 1..Len(removed) : removed[i] = (front \o back)[i]
    BY <1>8, <1>11, Zenon
  <2>. QED  BY <1>8, <1>11, <2>1, SeqEqual, Zenon
<1>13. ASSUME NEW i \in 1..(n - 1) PROVE removed[i] # s
  <2>1. /\ i \in 1..n /\ i + 1 \in 1..n
        /\ i < k => i # k
        /\ ~(i < k) => i + 1 # k
    BY <1>1
  <2>2. CASE i < k
    BY <1>8, <2>1, <2>2
  <2>3. CASE ~(i < k)
    BY <1>8, <2>1, <2>3
  <2>. QED  BY <2>2, <2>3
<1>14. ~ContainsString(removed, s)
  BY <1>8, <1>13, Zenon DEF ContainsString
<1>15. ~RemovalPanics(list, s)
  BY <1>2, <1>6 DEF RemovalPanics
<1>16. RemoveString(list, s) = removed
  BY <1>7, Zenon DEF removed
<1>17. front \o back = SubSeq(list, 1, k - 1) \o SubSeq(list, k + 1, Len(list))
  BY Zenon DEF front, back
<1>. QED  BY <1>8, <1>12, <1>14, <1>15, <1>16, <1>17, Zenon

\* The finalizers of others are what RemoveString leaves, and
LEMMA OthersAfterRemoval ==
    ASSUME NEW obj, NEW fs \in Seq(Finalizers), obj.finalizers = fs, HasFinalizer(obj),
           \A i, j \in 1..Len(fs) : fs[i] = shpaFinalizer /\ fs[j] = shpaFinalizer => i = j
    PROVE  /\ RemoveString(fs, shpaFinalizer) = Others(obj)
           /\ RemoveString(fs, shpaFinalizer) \in Seq(Finalizers)
           /\ ~ContainsString(RemoveString(fs, shpaFinalizer), shpaFinalizer)
<1>. DEFINE at == CHOOSE i \in DOMAIN fs : fs[i] = shpaFinalizer
<1>1. PICK k \in 1..Len(fs) : fs[k] = shpaFinalizer
  BY DEF HasFinalizer, ContainsString
<1>2. \A i \in 1..Len(fs) : fs[i] = shpaFinalizer <=> i = k
  BY <1>1
<1>3. at = k
  <2>1. DOMAIN fs = 1..Len(fs)
    BY LenProperties
  <2>. QED  BY <1>1, <1>2, <2>1
<1>. HIDE DEF at
<1>4. Others(obj) = SubSeq(fs, 1, k - 1) \o SubSeq(fs, k + 1, Len(fs))
  <2>1. Others(obj) = SubSeq(fs, 1, at - 1) \o SubSeq(fs, at + 1, Len(fs))
    BY Zenon DEF Others, at
  <2>. QED  BY <1>3, <2>1, Zenon
<1>5. /\ RemoveString(fs, shpaFinalizer) = SubSeq(fs, 1, k - 1) \o SubSeq(fs, k + 1, Len(fs))
      /\ RemoveString(fs, shpaFinalizer) \in Seq(Finalizers)
      /\ ~ContainsString(RemoveString(fs, shpaFinalizer), shpaFinalizer)
  <2>1. PICK s : s = shpaFinalizer
    OBVIOUS
  <2>2. OnlyAt(fs, s, k)
    BY <1>2, <2>1 DEF OnlyAt
  <2>3. /\ RemoveString(fs, s) = SubSeq(fs, 1, k - 1) \o SubSeq(fs, k + 1, Len(fs))
        /\ RemoveString(fs, s) \in Seq(Finalizers)
        /\ ~ContainsString(RemoveString(fs, s), s)
    BY <2>2, RemoveStringOnce, Zenon
  <2>. QED  BY <2>1, <2>3, Zenon
<1>. QED  BY <1>4, <1>5, Zenon

\* those that were there when addFinalizer appends.
LEMMA OthersAfterAppend ==
    ASSUME NEW obj, NEW fs \in Seq(Finalizers), obj.finalizers = Append(fs, shpaFinalizer),
           ~ContainsString(fs, shpaFinalizer)
    PROVE  HasFinalizer(obj) /\ Others(obj) = fs
<1>. DEFINE longer == Append(fs, shpaFinalizer)
            n == Len(fs)
            at == CHOOSE i \in DOMAIN longer : longer[i] = shpaFinalizer
<1>1. /\ n \in Nat /\ DOMAIN longer = 1..(n + 1) /\ Len(longer) = n + 1
      /\ \A i \in 1..n : longer[i] = fs[i] /\ fs[i] # shpaFinalizer /\ fs[i] \in Finalizers
      /\ longer[n + 1] = shpaFinalizer
  BY ListsAssumption, AppendProperties, ElementOfSeq DEF ContainsString
<1>. HIDE DEF longer, n
<1>2. HasFinalizer(obj)
  BY <1>1 DEF HasFinalizer, ContainsString, longer
<1>3. at = n + 1
  BY <1>1
<1>. HIDE DEF at
<1>4. Others(obj) = SubSeq(longer, 1, at - 1) \o SubSeq(longer, at + 1, Len(longer))
  BY <1>2, Zenon DEF Others, at, longer
<1>5. SubSeq(longer, 1, n) = fs
  <2>1. /\ SubSeq(longer, 1, n) \in Seq(Finalizers) /\ Len(SubSeq(longer, 1, n)) = n
        /\ \A i \in 1..n : SubSeq(longer, 1, n)[i] = longer[i]
    BY <1>1, Prefix
  <2>2. \A i \in 1..n : SubSeq(longer, 1, n)[i] = fs[i]
    BY <1>1, <2>1
  <2>. QED  BY <2>1, <2>2, SeqEqual DEF n
<1>6. SubSeq(longer, n + 2, n + 1) = <<>>
  BY <1>1, SubSeqEmpty
<1>7. at - 1 = n /\ at + 1 = n + 2
  BY <1>1, <1>3
<1>. QED  BY <1>1, <1>2, <1>4, <1>5, <1>6, <1>7, ConcatEmptySeq

-----------------------------------------------------------------------------
(* The inductive invariant *)

\* The states from the cache's to the API server's, oldest first.
At(j) == IF j = 0 THEN cached ELSE watch[j]

\* The change from one state to the next reaches the work queue.
Reaches(old, new) ==
    \/ new.exists # old.exists
    \/ new.exists /\ new.spec # old.spec

\* Such a change is still on its way from the j-th state on.
Coming(j) == \E k \in j..(Len(watch) - 1) : Reaches(At(k), At(k + 1))

\* What LeftAloneWhenDone says of the SHPA.
Done(obj) ==
    \/ ~obj.exists
    \/ obj.deleting /\ ~HasFinalizer(obj)
    \/ /\ IsDefaultSHPA(obj.spec) /\ ~Valid(obj.spec)
       /\ obj.able = CheckSHPAValidity(obj.spec)

Settled(j) == Done(api) \/ Coming(j)

\* A state that somebody has read or will read: if it is of the SHPA there is, not marked for
\* deletion and has the finalizer, so has the SHPA.
Trusted(obj) ==
    /\ obj.uid <= uids
    /\ /\ obj.exists /\ ~obj.deleting /\ HasFinalizer(obj)
       /\ api.exists /\ api.uid = obj.uid
       => HasFinalizer(api)

\* The finalizer is listed once.
FinalizerOnce(fs) ==
    \A i, j \in 1..Len(fs) : fs[i] = shpaFinalizer /\ fs[j] = shpaFinalizer => i = j

HistoryInv ==
    /\ At(Len(watch)) = api
    /\ api.uid <= uids
    /\ FinalizerOnce(api.finalizers)
    /\ \A j \in 0..Len(watch) : Trusted(At(j))
    /\ Trusted(inst)

\* The pass is where its copy leads; a copy that is up to date is the API server's, and
\* until the finalizer is settled so is the cache.
PassInv ==
    /\ pc # "idle" => inst.exists /\ pc = AtFinalizer(inst)
    /\ fresh => pc # "idle" /\ inst = api
    /\ fresh /\ pc \in {"remove", "add"} => watch = <<>>

\* Whoever sees a state that needs nothing more either sees the latest one or will be told.
AttendedInv ==
    /\ \A j \in 0..Len(watch) : Done(At(j)) => Settled(j)
    /\ pc = "idle" /\ ~dirty /\ ~timer /\ ~lost => Settled(0)
    /\ pc # "idle" /\ Done(inst) => dirty \/ Settled(0)

IInv == TypeOK /\ HistoryInv /\ PassInv /\ AttendedInv

-----------------------------------------------------------------------------
(* Specs and objects *)

AllSpecs == Specs \union {DefaultSHPA(s) : s \in Specs}

\* The error that CheckSHPAValidity returns is one of those it knows: the first bad metric
\* exists.
LEMMA ErrorType ==
    ASSUME NEW spec \in SpecType
    PROVE  CheckSHPAValidity(spec) \in Errors
<1>. DEFINE bad == {i \in DOMAIN spec.metrics : MetricError(spec.metrics[i]) # NoError}
<1>1. ASSUME NEW m \in MetricType PROVE MetricError(m) \in Errors
  <2>1. m.type \in STRING
    BY DEF MetricType
  <2>. QED  BY <2>1 DEF MetricError, Errors
<1>2. spec.metrics \in Seq(MetricType) /\ DOMAIN spec.metrics = 1..Len(spec.metrics)
  BY LenProperties DEF SpecType
<1>3. CASE bad = {}
  <2>1. MetricsError(spec.metrics) = NoError
    BY <1>3 DEF MetricsError
  <2>. QED  BY <2>1 DEF CheckSHPAValidity, Errors
<1>4. CASE bad # {}
  <2>1. PICK m \in bad : \A k \in bad : m <= k
    <3>1. bad \subseteq Nat
      BY <1>2
    <3>. QED  BY <1>4, <3>1, LeastNatural, Zenon
  <2>2. Min(bad) \in bad
    BY <2>1 DEF Min
  <2>3. spec.metrics[Min(bad)] \in MetricType
    BY <1>2, <2>2, ElementOfSeq
  <2>4. MetricsError(spec.metrics) = MetricError(spec.metrics[Min(bad)])
    BY <1>4 DEF MetricsError
  <2>. HIDE DEF bad
  <2>5. MetricsError(spec.metrics) \in Errors
    BY <1>1, <2>3, <2>4
  <2>. QED  BY <2>5 DEF CheckSHPAValidity, Errors
<1>. QED  BY <1>3, <1>4

\* Defaulting makes a spec complete, once and for all.
LEMMA SpecFacts ==
    ASSUME NEW spec \in AllSpecs
    PROVE  /\ spec \in SpecType
           /\ DefaultSHPA(spec) \in AllSpecs
           /\ CheckSHPAValidity(spec) \in Errors
<1>1. ASSUME NEW s \in Specs
      PROVE  /\ s \in SpecType /\ DefaultSHPA(s) \in SpecType
             /\ DefaultSHPA(DefaultSHPA(s)) = DefaultSHPA(s)
  <2>1. s \in SpecType
    BY SpecsAssumption
  <2>2. DefaultSHPA(s) \in SpecType
    <3>. DEFINE complete == [s EXCEPT !.unset = {}]
    <3>1. complete \in SpecType /\ complete.MinReplicas = s.MinReplicas
      BY <2>1 DEF SpecType
    <3>2. DefaultSHPA(s) =
             [complete EXCEPT !.MinReplicas = IF s.MinReplicas = 0 THEN 1 ELSE s.MinReplicas]
      BY <2>1 DEF SpecType, DefaultSHPA, DefaultMinReplicas
    <3>. HIDE DEF complete
    <3>. QED  BY <2>1, <3>1, <3>2 DEF SpecType
  <2>3. DefaultSHPA(DefaultSHPA(s)) = DefaultSHPA(s)
    BY <2>1 DEF SpecType, DefaultSHPA, DefaultMinReplicas
  <2>. QED  BY <2>1, <2>2, <2>3
<1>2. spec \in SpecType /\ DefaultSHPA(spec) \in AllSpecs
  BY <1>1 DEF AllSpecs
<1>. QED  BY <1>2, ErrorType

\* An object that is gone is one that a watch event, a pass and the clean-up may meet.
LEMMA GoneFacts ==
    /\ Gone \in Objects
    /\ ~Gone.exists /\ ~Gone.deleting /\ Gone.uid = 0 /\ Gone.finalizers = <<>>
    /\ Done(Gone) /\ (uids \in Nat => Trusted(Gone))
<1>1. (CHOOSE s \in Specs : TRUE) \in Specs
  BY SpecsAssumption
<1>. QED  BY <1>1 DEF Gone, Objects, Errors, Done, Trusted

\* Where the pass goes tells what it works on.
LEMMA Places ==
    ASSUME NEW obj
    PROVE  /\ AtFinalizer(obj) \in {"idle", "remove", "add", "default", "report", "work"}
           /\ AtFinalizer(obj) = "idle" => obj.deleting /\ ~HasFinalizer(obj)
           /\ AtFinalizer(obj) = "remove" => obj.deleting /\ HasFinalizer(obj)
           /\ AtFinalizer(obj) = "add" => ~obj.deleting /\ ~HasFinalizer(obj)
           /\ AtFinalizer(obj) \in {"default", "report", "work"} =>
                 ~obj.deleting /\ HasFinalizer(obj)
           /\ AtFinalizer(obj) = "report" => IsDefaultSHPA(obj.spec) /\ ~Valid(obj.spec)
           /\ AtFinalizer(obj) = "work" => Valid(obj.spec)
BY DEF AtFinalizer, AfterFinalizer

-----------------------------------------------------------------------------
(* What a step stores *)

\* The next state of the SHPA keeps what the invariant says of the earlier ones.
Follows(obj) ==
    /\ FinalizerOnce(obj.finalizers)
    /\ obj.uid <= uids'
    /\ Done(api) => Done(obj) \/ Reaches(api, obj)
    /\ obj.exists =>
          \/ obj.uid > uids
          \/ /\ api.exists /\ obj.uid = api.uid
             /\ \/ HasFinalizer(api) => HasFinalizer(obj)
                \/ fresh /\ pc = "remove" /\ inst' = Gone /\ obj.deleting

\* A call of the pass stores nothing, or it stores what it means to, over the version that
\* the copy was read from.
LEMMA PassStores ==
    ASSUME Pass
    PROVE  /\ cached' = cached /\ uids' = uids /\ edits' = edits
           /\ \/ UNCHANGED <<api, watch>>
              \/ /\ fresh /\ pc = "remove" /\ inst' = Gone
                 /\ Update(RemoveString(inst.finalizers, shpaFinalizer), inst.spec)
              \/ /\ fresh /\ pc = "add"
                 /\ Update(Append(inst.finalizers, shpaFinalizer), inst.spec)
              \/ fresh /\ pc = "default" /\ Update(inst.finalizers, DefaultSHPA(inst.spec))
              \/ /\ fresh /\ pc = "report"
                 /\ Store([api EXCEPT !.able = CheckSHPAValidity(inst.spec)])
              \/ fresh /\ pc = "work" /\ Store([api EXCEPT !.able = <<"ok">>])
<1>1. CASE Begin
  BY <1>1 DEF Begin, counters
<1>2. CASE RemoveFinalizer
  BY <1>2 DEF RemoveFinalizer, CallFails, Forget, Requeue, Unstored, counters
<1>3. CASE AddFinalizer
  BY <1>3 DEF AddFinalizer, CallFails, Unstored, counters
<1>4. CASE SetDefaults
  BY <1>4 DEF SetDefaults, CallFails, Unstored, counters
<1>5. CASE ReportInvalid
  BY <1>5 DEF ReportInvalid, CallFails, Unstored, counters
<1>6. CASE Work
  BY <1>6 DEF Work, TargetNotReached, CallFails, Unstored, counters
<1>. QED  BY <1>1, <1>2, <1>3, <1>4, <1>5, <1>6 DEF Pass

\* The fields of an object.
LEMMA ObjectFields ==
    ASSUME NEW obj \in Objects
    PROVE  /\ obj.exists \in BOOLEAN /\ obj.deleting \in BOOLEAN /\ obj.uid \in Nat
           /\ obj.finalizers \in Seq(Finalizers) /\ obj.spec \in AllSpecs
BY DEF Objects, AllSpecs

\* addFinalizer appends to a list without the finalizer.
LEMMA AppendKeepsOnce ==
    ASSUME NEW fs \in Seq(Finalizers), ~ContainsString(fs, shpaFinalizer)
    PROVE  /\ Append(fs, shpaFinalizer) \in Seq(Finalizers)
           /\ FinalizerOnce(Append(fs, shpaFinalizer))
<1>1. /\ Append(fs, shpaFinalizer) \in Seq(Finalizers)
      /\ Len(fs) \in Nat /\ Len(Append(fs, shpaFinalizer)) = Len(fs) + 1
      /\ \A i \in 1..Len(fs) : Append(fs, shpaFinalizer)[i] = fs[i]
  BY ListsAssumption, LenProperties, AppendProperties
<1>. QED  BY <1>1 DEF FinalizerOnce, ContainsString

\* What the pass stores follows; a removal and a report leave nothing to do.
LEMMA PassFollows ==
    ASSUME IInv, Pass
    PROVE  \/ UNCHANGED <<api, watch>>
           \/ \E obj \in Objects :
                 /\ Store(obj) /\ Follows(obj)
                 /\ pc \in {"remove", "report"} => Done(obj)
<1>. USE DEF IInv
<1>1. /\ cached' = cached /\ uids' = uids
      /\ api \in Objects /\ uids \in Nat /\ api.uid <= uids
      /\ FinalizerOnce(api.finalizers)
  BY PassStores DEF TypeOK, HistoryInv
<1>2. fresh => inst = api /\ api.exists /\ pc = AtFinalizer(api)
  BY DEF PassInv
<1>. SUFFICES ASSUME fresh, ~UNCHANGED <<api, watch>>
              PROVE  \E obj \in Objects :
                        /\ Store(obj) /\ Follows(obj)
                        /\ pc \in {"remove", "report"} => Done(obj)
  BY PassStores
<1>. DEFINE fs == api.finalizers
<1>3. fs \in Seq(Finalizers) /\ api.spec \in AllSpecs /\ api.deleting \in BOOLEAN
  BY <1>1, ObjectFields
<1>4. CASE pc = "remove" /\ inst' = Gone /\ Update(RemoveString(fs, shpaFinalizer), api.spec)
  <2>. DEFINE rest == RemoveString(fs, shpaFinalizer)
  <2>1. api.deleting /\ HasFinalizer(api)
    BY <1>2, <1>4, Places
  <2>2. rest \in Seq(Finalizers) /\ ~ContainsString(rest, shpaFinalizer)
    BY <1>1, <1>3, <2>1, OthersAfterRemoval DEF FinalizerOnce
  <2>. HIDE DEF rest
  <2>0. PICK new : new = [api EXCEPT !.finalizers = rest, !.spec = api.spec]
    OBVIOUS
  <2>3. /\ new \in Objects /\ new.finalizers = rest /\ new.deleting
        /\ new.exists = api.exists /\ new.uid = api.uid
    BY <1>1, <1>3, <2>0, <2>1, <2>2 DEF Objects, AllSpecs
  <2>4. Store(IF new.deleting /\ new.finalizers = <<>> THEN Gone ELSE new)
    BY <1>4, <2>0 DEF Update, StoreOrRemove, rest
  <2>5. CASE rest = <<>>
    <3>1. Follows(Gone)
      BY <1>1, GoneFacts DEF Follows, FinalizerOnce
    <3>. QED  BY <1>4, <2>3, <2>4, <2>5, <3>1, GoneFacts
  <2>6. CASE rest # <<>>
    <3>1. Done(new)
      BY <2>2, <2>3 DEF Done, HasFinalizer
    <3>2. FinalizerOnce(new.finalizers)
      BY <2>2, <2>3 DEF FinalizerOnce, ContainsString
    <3>3. Follows(new)
      BY <1>1, <1>2, <1>4, <2>3, <3>1, <3>2 DEF Follows
    <3>. QED  BY <1>4, <2>3, <2>4, <2>6, <3>1, <3>3
  <2>. QED  BY <2>5, <2>6
<1>5. CASE pc = "add" /\ Update(Append(fs, shpaFinalizer), api.spec)
  <2>. DEFINE longer == Append(fs, shpaFinalizer)
  <2>1. ~api.deleting /\ ~ContainsString(fs, shpaFinalizer)
    BY <1>2, <1>5, Places DEF HasFinalizer
  <2>2. longer \in Seq(Finalizers) /\ FinalizerOnce(longer)
    BY <1>3, <2>1, AppendKeepsOnce
  <2>. HIDE DEF longer
  <2>0. PICK new : new = [api EXCEPT !.finalizers = longer, !.spec = api.spec]
    OBVIOUS
  <2>3. /\ new \in Objects /\ new.finalizers = longer /\ ~new.deleting
        /\ new.exists = api.exists /\ new.uid = api.uid
        /\ new.spec = api.spec /\ new.able = api.able
    BY <1>1, <1>3, <2>0, <2>1, <2>2 DEF Objects, AllSpecs
  <2>4. Store(new)
    BY <1>5, <2>0, <2>3 DEF Update, StoreOrRemove, longer
  <2>5. HasFinalizer(new)
    BY <1>3, <2>1, <2>3, OthersAfterAppend DEF longer
  <2>6. Done(api) => Done(new)
    BY <1>2, <2>1, <2>3 DEF Done
  <2>7. Follows(new)
    BY <1>1, <1>2, <2>2, <2>3, <2>5, <2>6 DEF Follows
  <2>. QED  BY <1>5, <2>3, <2>4, <2>7
<1>6. CASE pc = "default" /\ Update(fs, DefaultSHPA(api.spec))
  <2>0. PICK new : new = [api EXCEPT !.finalizers = fs, !.spec = DefaultSHPA(api.spec)]
    OBVIOUS
  <2>1. ~api.deleting
    BY <1>2, <1>6, Places
  <2>2. /\ new \in Objects /\ new.finalizers = fs /\ ~new.deleting
        /\ new.exists = api.exists /\ new.uid = api.uid
        /\ new.spec = DefaultSHPA(api.spec) /\ new.able = api.able
    BY <1>1, <1>3, <2>0, <2>1, SpecFacts DEF Objects, AllSpecs
  <2>3. Store(new)
    BY <1>6, <2>0, <2>2 DEF Update, StoreOrRemove
  <2>4. Done(api) => Done(new) \/ Reaches(api, new)
    BY <1>2, <2>1, <2>2 DEF Done, Reaches
  <2>5. Follows(new)
    BY <1>1, <1>2, <2>2, <2>4 DEF Follows, HasFinalizer
  <2>. QED  BY <1>6, <2>2, <2>3, <2>5
<1>7. CASE pc = "report" /\ Store([api EXCEPT !.able = CheckSHPAValidity(api.spec)])
  <2>0. PICK new : new = [api EXCEPT !.able = CheckSHPAValidity(api.spec)]
    OBVIOUS
  <2>1. IsDefaultSHPA(api.spec) /\ ~Valid(api.spec)
    BY <1>2, <1>7, Places
  <2>2. /\ new \in Objects /\ new.finalizers = fs
        /\ new.exists = api.exists /\ new.uid = api.uid
        /\ new.spec = api.spec /\ new.able = CheckSHPAValidity(api.spec)
    BY <1>1, <1>3, <2>0, SpecFacts DEF Objects
  <2>3. Done(new)
    BY <2>1, <2>2 DEF Done
  <2>4. Follows(new)
    BY <1>1, <1>2, <2>2, <2>3 DEF Follows, HasFinalizer
  <2>. QED  BY <1>7, <2>0, <2>2, <2>3, <2>4
<1>8. CASE pc = "work" /\ Store([api EXCEPT !.able = <<"ok">>])
  <2>0. PICK new : new = [api EXCEPT !.able = <<"ok">>]
    OBVIOUS
  <2>1. Valid(api.spec) /\ ~api.deleting
    BY <1>2, <1>8, Places
  <2>2. /\ new \in Objects /\ new.finalizers = fs
        /\ new.exists = api.exists /\ new.uid = api.uid /\ new.spec = api.spec
    BY <1>1, <1>3, <2>0 DEF Objects
  <2>3. ~Done(api)
    BY <1>2, <2>1 DEF Done
  <2>4. Follows(new)
    BY <1>1, <1>2, <2>2, <2>3 DEF Follows, HasFinalizer
  <2>. QED  BY <1>8, <2>0, <2>2, <2>4
<1>. QED  BY <1>2, <1>4, <1>5, <1>6, <1>7, <1>8, PassStores

\* What people and the other controllers store follows.
LEMMA PeopleFollow ==
    ASSUME IInv, Create \/ EditSpec \/ EditMetadata \/ Delete \/ ForeignFinalizersGo
    PROVE  /\ cached' = cached /\ uids' \in Nat /\ uids <= uids'
           /\ \E obj \in Objects : Store(obj) /\ Follows(obj)
<1>1. /\ api \in Objects /\ uids \in Nat /\ api.uid \in Nat /\ api.uid <= uids
      /\ FinalizerOnce(api.finalizers)
  BY DEF IInv, TypeOK, HistoryInv, Objects
<1>2. CASE Create
  <2>1. PICK spec \in Specs, fs \in Lists :
           Store([Gone EXCEPT !.exists = TRUE, !.uid = uids + 1,
                              !.finalizers = fs, !.spec = spec])
    BY <1>2 DEF Create, Edit
  <2>2. PICK new : new = [Gone EXCEPT !.exists = TRUE, !.uid = uids + 1,
                                      !.finalizers = fs, !.spec = spec]
    OBVIOUS
  <2>3. new \in Objects /\ new.exists /\ new.uid = uids + 1 /\ new.finalizers = fs
    <3>1. Gone \in Objects /\ fs \in Seq(Finalizers) /\ uids + 1 \in Nat
      BY <1>1, GoneFacts, ListsAssumption
    <3>. QED  BY <2>2, <3>1 DEF Objects
  <2>4. /\ ~api.exists /\ uids' = uids + 1 /\ cached' = cached
    BY <1>2 DEF Create, Edit
  <2>5. FinalizerOnce(fs)
    BY ListsAssumption DEF FinalizerOnce
  <2>6. new.uid > uids /\ new.uid <= uids' /\ uids' \in Nat /\ uids <= uids'
    BY <1>1, <2>3, <2>4
  <2>7. Follows(new)
    BY <2>3, <2>4, <2>5, <2>6 DEF Follows, Reaches
  <2>. QED  BY <2>1, <2>2, <2>3, <2>4, <2>6, <2>7
<1>3. CASE EditSpec
  <2>1. PICK spec \in Specs \ {api.spec} : Store([api EXCEPT !.spec = spec])
    BY <1>3 DEF EditSpec, Edit
  <2>2. PICK new : new = [api EXCEPT !.spec = spec]
    OBVIOUS
  <2>3. /\ new \in Objects /\ new.exists = api.exists /\ new.uid = api.uid
        /\ new.finalizers = api.finalizers /\ new.spec # api.spec
    BY <1>1, <2>2 DEF Objects
  <2>4. api.exists /\ uids' = uids /\ cached' = cached
    BY <1>3 DEF EditSpec, Edit
  <2>5. Follows(new)
    BY <1>1, <2>3, <2>4 DEF Follows, Reaches, HasFinalizer
  <2>. QED  BY <1>1, <2>1, <2>2, <2>3, <2>4, <2>5
<1>4. CASE EditMetadata
  <2>1. PICK fs \in Lists \union {api.finalizers} :
           /\ ContainsString(fs, shpaFinalizer) = HasFinalizer(api)
           /\ api.deleting => fs = api.finalizers
           /\ Store([api EXCEPT !.finalizers = fs])
    BY <1>4 DEF EditMetadata, Edit
  <2>2. PICK new : new = [api EXCEPT !.finalizers = fs]
    OBVIOUS
  <2>3. fs \in Seq(Finalizers) /\ FinalizerOnce(fs)
    BY <1>1, ObjectFields, ListsAssumption DEF FinalizerOnce
  <2>4. /\ new \in Objects /\ new.exists = api.exists /\ new.uid = api.uid
        /\ new.finalizers = fs /\ new.deleting = api.deleting
        /\ new.spec = api.spec /\ new.able = api.able
    BY <1>1, <2>2, <2>3 DEF Objects
  <2>5. uids' = uids /\ cached' = cached
    BY <1>4 DEF EditMetadata, Edit
  <2>6. (HasFinalizer(new) <=> HasFinalizer(api)) /\ (Done(api) => Done(new))
    BY <2>1, <2>4 DEF Done, HasFinalizer, ContainsString
  <2>7. Follows(new)
    BY <1>1, <2>3, <2>4, <2>5, <2>6, Zenon DEF Follows
  <2>. QED  BY <1>1, <2>1, <2>2, <2>4, <2>5, <2>7
<1>5. CASE Delete
  <2>1. PICK new : new = [api EXCEPT !.deleting = TRUE]
    OBVIOUS
  <2>2. /\ new \in Objects /\ new.exists = api.exists /\ new.uid = api.uid
        /\ new.finalizers = api.finalizers /\ new.spec = api.spec /\ new.able = api.able
    BY <1>1, <2>1 DEF Objects
  <2>3. /\ api.exists /\ ~api.deleting /\ uids' = uids /\ cached' = cached
        /\ Store(IF new.deleting /\ new.finalizers = <<>> THEN Gone ELSE new)
    BY <1>5, <2>1 DEF Delete, Edit, StoreOrRemove
  <2>4. Follows(Gone)
    BY <1>1, <2>3, GoneFacts DEF Follows, FinalizerOnce
  <2>5. Done(api) => Done(new)
    BY <2>2, <2>3 DEF Done
  <2>6. Follows(new)
    BY <1>1, <2>2, <2>3, <2>5 DEF Follows, HasFinalizer
  <2>. QED  BY <1>1, <2>2, <2>3, <2>4, <2>6, GoneFacts
<1>6. CASE ForeignFinalizersGo
  <2>. DEFINE left == IF HasFinalizer(api) THEN <<shpaFinalizer>> ELSE <<>>
  <2>1. left \in Seq(Finalizers) /\ FinalizerOnce(left)
    BY ListsAssumption DEF FinalizerOnce
  <2>2. HasFinalizer(api) => ContainsString(left, shpaFinalizer)
    BY DEF ContainsString
  <2>. HIDE DEF left
  <2>3. PICK new : new = [api EXCEPT !.finalizers = left]
    OBVIOUS
  <2>4. /\ new \in Objects /\ new.exists = api.exists /\ new.uid = api.uid
        /\ new.finalizers = left /\ new.deleting = api.deleting
        /\ new.spec = api.spec /\ new.able = api.able
    BY <1>1, <2>1, <2>3 DEF Objects
  <2>5. /\ api.deleting /\ uids' = uids /\ cached' = cached
        /\ Store(IF new.deleting /\ new.finalizers = <<>> THEN Gone ELSE new)
    BY <1>6, <2>3 DEF ForeignFinalizersGo, StoreOrRemove, left, counters
  <2>6. Follows(Gone)
    BY <1>1, <2>5, GoneFacts DEF Follows, FinalizerOnce
  <2>7. ~HasFinalizer(api) => left = <<>>
    BY DEF left
  <2>8. left # <<>> => (Done(api) => Done(new))
    BY <2>4, <2>7 DEF Done
  <2>9. left # <<>> => Follows(new)
    BY <1>1, <2>1, <2>2, <2>4, <2>5, <2>8 DEF Follows, HasFinalizer
  <2>. QED  BY <1>1, <2>4, <2>5, <2>6, <2>9, GoneFacts
<1>. QED  BY <1>2, <1>3, <1>4, <1>5, <1>6

\* The states on their way grow at one end and leave at the other.
LEMMA HistoryGrows ==
    ASSUME watch \in Seq(Objects), NEW obj \in Objects, Store(obj), cached' = cached,
           NEW n, n = Len(watch)
    PROVE  /\ api' = obj /\ watch' \in Seq(Objects) /\ n \in Nat /\ Len(watch') = n + 1
           /\ \A j \in 0..n : At(j)' = At(j)
           /\ At(n + 1)' = obj
<1>1. /\ n \in Nat /\ watch' \in Seq(Objects) /\ Len(watch') = n + 1
      /\ \A j \in 1..n : watch'[j] = watch[j]
      /\ watch'[n + 1] = obj
  BY LenProperties, AppendProperties DEF Store
<1>. QED  BY <1>1 DEF Store, At

\* The cache takes the oldest of them.
LEMMA HistoryLeaves ==
    ASSUME watch \in Seq(Objects), Deliver, NEW n, n = Len(watch)
    PROVE  /\ api' = api /\ cached' \in Objects /\ watch' \in Seq(Objects)
           /\ n \in Nat \ {0} /\ Len(watch') = n - 1
           /\ \A j \in 0..n - 1 : At(j)' = At(j + 1)
<1>1. /\ n \in Nat \ {0} /\ Head(watch) = watch[1] /\ Head(watch) \in Objects
      /\ Tail(watch) \in Seq(Objects) /\ Len(Tail(watch)) = n - 1
      /\ \A j \in 1..n - 1 : Tail(watch)[j] = watch[j + 1]
  BY EmptySeq, LenProperties, HeadTailProperties DEF Deliver
<1>. QED  BY <1>1 DEF Deliver, At

\* What is stored is one more of them, even if it is the same again.
LEMMA StoreNotifies ==
    ASSUME watch \in Seq(Objects), NEW obj, Store(obj)
    PROVE  watch' # watch
<1>1. watch \in Seq(Objects \union {obj})
  BY LenProperties
<1>. QED  BY <1>1, AppendProperties DEF Store

\* Every state on its way is an object.
LEMMA HistoryObjects ==
    ASSUME TypeOK
    PROVE  \A j \in 0..Len(watch) : At(j) \in Objects
BY ElementOfSeq, LenProperties DEF TypeOK, At

\* What is stored and what of it is known, in every step.
LEMMA WhatIsStored ==
    ASSUME IInv, Next
    PROVE  /\ uids' \in Nat /\ uids <= uids'
           /\ \/ UNCHANGED <<api, watch, cached>>
              \/ Deliver
              \/ Restart
              \/ cached' = cached /\ \E obj \in Objects : Store(obj) /\ Follows(obj)
<1>1. uids \in Nat
  BY DEF IInv, TypeOK
<1>2. CASE Pass
  BY <1>1, <1>2, PassStores, PassFollows
<1>3. CASE Deliver \/ TimerFires \/ Restart
  BY <1>1, <1>3 DEF Deliver, TimerFires, Restart, counters
<1>4. CASE Create \/ EditSpec \/ EditMetadata \/ Delete \/ ForeignFinalizersGo
  BY <1>4, PeopleFollow
<1>. QED  BY <1>2, <1>3, <1>4 DEF Next

\* addFinalizer ends the pass with its error dropped, or goes on with the version it stored.
LEMMA FinalizerAdded ==
    ASSUME IInv, AddFinalizer
    PROVE  \/ Forget /\ lost'
           \/ /\ inst' = api' /\ inst'.exists /\ pc' = AtFinalizer(inst')
              /\ pc' \notin {"idle", "remove", "add"}
<1>. SUFFICES ASSUME fresh, Update(Append(inst.finalizers, shpaFinalizer), inst.spec),
                     inst' = [inst EXCEPT !.finalizers = Append(@, shpaFinalizer)],
                     pc' = AfterFinalizer(inst)
              PROVE  /\ inst' = api' /\ inst'.exists /\ pc' = AtFinalizer(inst')
                     /\ pc' \notin {"idle", "remove", "add"}
  BY DEF AddFinalizer
<1>1. inst = api /\ api \in Objects /\ api.exists /\ ~api.deleting /\ ~HasFinalizer(api)
  BY Places DEF AddFinalizer, IInv, TypeOK, PassInv
<1>2. api' = [api EXCEPT !.finalizers = Append(@, shpaFinalizer)]
  BY <1>1 DEF Update, StoreOrRemove, Store, Objects
<1>3. PICK fs \in Seq(Finalizers) : fs = api.finalizers
  BY <1>1, ObjectFields
<1>4. /\ inst' = api' /\ inst'.exists /\ ~inst'.deleting /\ inst'.spec = inst.spec
      /\ inst'.finalizers = Append(fs, shpaFinalizer)
  BY <1>1, <1>2, <1>3 DEF Objects
<1>5. HasFinalizer(inst')
  BY <1>1, <1>3, <1>4, OthersAfterAppend DEF HasFinalizer
<1>6. /\ AtFinalizer(inst') = AfterFinalizer(inst)
      /\ AfterFinalizer(inst) \notin {"idle", "remove", "add"}
  BY <1>4, <1>5 DEF AtFinalizer, AfterFinalizer
<1>. QED  BY <1>4, <1>6

\* The copy is of a state that is or was on its way.
LEMMA NextCopy ==
    ASSUME IInv, Next
    PROVE  inst' \in {inst, Gone, cached, api'}
<1>1. CASE AddFinalizer
  BY <1>1, FinalizerAdded DEF Forget
<1>2. CASE Next /\ ~AddFinalizer
  BY <1>2 DEF Next, Pass, Begin, RemoveFinalizer, SetDefaults, ReportInvalid, Work,
              TargetNotReached, Forget, Requeue, Deliver, TimerFires, Restart,
              Create, EditSpec, EditMetadata, Delete, ForeignFinalizersGo, Edit, passVars
<1>. QED  BY <1>1, <1>2

\* What is stored keeps the trust in the earlier states.
LEMMA TrustStays ==
    ASSUME IInv, NEW obj \in Objects, api' = obj, Follows(obj), uids' \in Nat, uids <= uids',
           NEW old \in Objects, Trusted(old),
           fresh /\ pc = "remove" /\ inst' = Gone => old.deleting
    PROVE  Trusted(old)'
<1>1. obj.uid \in Nat /\ old.uid \in Nat /\ uids \in Nat /\ old.uid <= uids
  BY DEF IInv, TypeOK, Objects, Trusted
<1>2. old.uid <= uids'
  BY <1>1
<1>3. SUFFICES ASSUME old.exists, ~old.deleting, HasFinalizer(old), obj.exists, obj.uid = old.uid
               PROVE  HasFinalizer(obj)
  BY <1>2 DEF Trusted, HasFinalizer
<1>4. ~(obj.uid > uids)
  BY <1>1, <1>3
<1>. QED  BY <1>3, <1>4 DEF Follows, Trusted

-----------------------------------------------------------------------------
(* The invariant is inductive *)

\* A step of people, of the watch or of the pass keeps every variable's type.
LEMMA TypeStep ==
    ASSUME IInv, Next
    PROVE  TypeOK'
<1>1. api' \in Objects /\ cached' \in Objects /\ watch' \in Seq(Objects) /\ uids' \in Nat
  <2>1. TypeOK /\ uids' \in Nat
    BY WhatIsStored DEF IInv
  <2>2. CASE UNCHANGED <<api, watch, cached>>
    BY <2>1, <2>2 DEF TypeOK
  <2>3. CASE Deliver
    BY <2>1, <2>3, HistoryLeaves DEF TypeOK
  <2>4. CASE Restart
    BY <2>1, <2>4 DEF TypeOK, Restart
  <2>5. CASE cached' = cached /\ \E obj \in Objects : Store(obj)
    BY <2>1, <2>5 DEF TypeOK, Store
  <2>. QED  BY <2>1, <2>2, <2>3, <2>4, <2>5, WhatIsStored
<1>2. inst' \in Objects
  BY <1>1, NextCopy, GoneFacts DEF IInv, TypeOK
<1>3. /\ pc' \in {pc, "idle", AfterFinalizer(inst), AtFinalizer(cached)}
      /\ edits' \in {edits, edits + 1} /\ faults' \in {faults, faults + 1}
      /\ dirty' \in {dirty, TRUE, FALSE, api.exists, dirty \/ Enqueues(Head(watch))}
      /\ timer' \in {timer, TRUE, FALSE} /\ lost' \in {lost, TRUE, FALSE}
      /\ fresh' \in {fresh, FALSE, pc' # "idle" /\ watch = <<>>}
  <2>1. CASE Begin
    BY <2>1 DEF Begin, counters
  <2>2. CASE RemoveFinalizer
    BY <2>2 DEF RemoveFinalizer, CallFails, Forget, Requeue, counters
  <2>3. CASE AddFinalizer
    BY <2>3 DEF AddFinalizer, CallFails, Forget, counters
  <2>4. CASE SetDefaults
    BY <2>4 DEF SetDefaults, CallFails, Requeue, counters
  <2>5. CASE ReportInvalid
    BY <2>5 DEF ReportInvalid, CallFails, Forget, Requeue, counters
  <2>6. CASE Work
    BY <2>6 DEF Work, TargetNotReached, CallFails, Requeue, counters
  <2>7. CASE TimerFires \/ Restart
    BY <2>7 DEF TimerFires, Restart, passVars, counters
  <2>8. CASE Deliver
    BY <2>8 DEF Deliver, passVars, counters
  <2>9. CASE Create \/ EditSpec \/ EditMetadata \/ Delete \/ ForeignFinalizersGo
    BY <2>9 DEF Create, EditSpec, EditMetadata, Delete, ForeignFinalizersGo, Edit, counters
  <2>. QED  BY <2>1, <2>2, <2>3, <2>4, <2>5, <2>6, <2>7, <2>8, <2>9 DEF Next, Pass
<1>4. /\ dirty' \in BOOLEAN /\ timer' \in BOOLEAN /\ lost' \in BOOLEAN /\ fresh' \in BOOLEAN
      /\ pc' \in {"idle", "remove", "add", "default", "report", "work"}
      /\ edits' \in Nat /\ faults' \in Nat
  <2>1. /\ dirty \in BOOLEAN /\ timer \in BOOLEAN /\ lost \in BOOLEAN /\ fresh \in BOOLEAN
        /\ pc \in {"idle", "remove", "add", "default", "report", "work"}
        /\ edits \in Nat /\ faults \in Nat /\ api.exists \in BOOLEAN
    BY ObjectFields DEF IInv, TypeOK
  <2>2. AfterFinalizer(inst) \in {"default", "report", "work"}
    BY DEF AfterFinalizer
  <2>3. AtFinalizer(cached) \in {"idle", "remove", "add", "default", "report", "work"}
    BY Places
  <2>4. edits' \in Nat /\ faults' \in Nat
    BY <1>3, <2>1
  <2>5. pc' \in {"idle", "remove", "add", "default", "report", "work"}
    BY <1>3, <2>1, <2>2, <2>3
  <2>6. timer' \in BOOLEAN /\ lost' \in BOOLEAN
    BY <1>3, <2>1
  <2>7. dirty' \in BOOLEAN
    BY <1>3, <2>1
  <2>8. fresh' \in BOOLEAN
    BY <1>3, <2>1
  <2>. QED  BY <2>4, <2>5, <2>6, <2>7, <2>8
<1>. QED  BY <1>1, <1>2, <1>4 DEF TypeOK


\* The states on their way are earlier ones or the one stored now, which is the last.
LEMMA HistoryShifts ==
    ASSUME IInv, Next
    PROVE  /\ (At(Len(watch)) = api)'
           /\ \A j \in 0..Len(watch') :
                 At(j)' = api' \/ \E i \in 0..Len(watch) : At(j)' = At(i)
<1>1. PICK n \in Nat : n = Len(watch)
  BY LenProperties DEF IInv, TypeOK
<1>2. watch \in Seq(Objects) /\ At(n) = api
  BY <1>1 DEF IInv, TypeOK, HistoryInv
<1>3. CASE UNCHANGED <<api, watch, cached>>
  BY <1>1, <1>2, <1>3 DEF At
<1>4. CASE Deliver
  <2>1. /\ api' = api /\ n \in Nat \ {0} /\ Len(watch') = n - 1
        /\ \A j \in 0..n - 1 : At(j)' = At(j + 1)
    BY <1>1, <1>2, <1>4, HistoryLeaves
  <2>2. At(n - 1)' = At(n)
    BY <2>1
  <2>3. (At(Len(watch)) = api)'
    BY <1>2, <2>1, <2>2 DEF At
  <2>. QED  BY <1>1, <2>1, <2>3
<1>5. CASE Restart
  <2>1. cached' = api' /\ watch' = <<>> /\ Len(watch') = 0
    BY <1>5 DEF Restart
  <2>. QED  BY <2>1 DEF At
<1>6. CASE cached' = cached /\ \E obj \in Objects : Store(obj)
  <2>1. PICK obj \in Objects : Store(obj)
    BY <1>6
  <2>2. /\ api' = obj /\ Len(watch') = n + 1
        /\ \A j \in 0..n : At(j)' = At(j)
        /\ At(n + 1)' = obj
    BY <1>1, <1>2, <1>6, <2>1, HistoryGrows
  <2>3. (At(Len(watch)) = api)'
    BY <2>2 DEF At
  <2>. QED  BY <1>1, <2>2, <2>3
<1>. QED  BY <1>3, <1>4, <1>5, <1>6, WhatIsStored

\* The history and the trust in it survive every step.
LEMMA HistoryStep ==
    ASSUME IInv, Next
    PROVE  HistoryInv'
<1>1. /\ uids' \in Nat /\ uids \in Nat /\ uids <= uids' /\ inst' \in Objects
      /\ api' \in Objects /\ api \in Objects /\ cached \in Objects /\ inst \in Objects
  BY WhatIsStored, TypeStep DEF IInv, TypeOK
<1>2. /\ api'.uid \in Nat /\ api'.uid <= uids' /\ FinalizerOnce(api'.finalizers)
      /\ \/ api' = api
         \/ \E obj \in Objects : api' = obj /\ Follows(obj)
  <2>1. api.uid \in Nat /\ api'.uid \in Nat
    BY <1>1, ObjectFields
  <2>2. CASE api' = api
    BY <1>1, <2>1, <2>2 DEF IInv, HistoryInv
  <2>3. CASE \E obj \in Objects : api' = obj /\ Follows(obj)
    BY <2>1, <2>3 DEF Follows
  <2>. QED  BY <2>2, <2>3, WhatIsStored DEF Deliver, Restart, Store
<1>3. ASSUME NEW old \in Objects, Trusted(old),
             fresh /\ pc = "remove" /\ inst' = Gone => old.deleting
      PROVE  Trusted(old)'
  <2>1. CASE api' = api
    <3>1. old.uid \in Nat
      BY ObjectFields
    <3>. QED  BY <1>1, <1>3, <2>1, <3>1 DEF Trusted, HasFinalizer
  <2>. QED  BY <1>1, <1>2, <1>3, <2>1, TrustStays
<1>4. Trusted(api)' /\ Trusted(Gone)'
  BY <1>1, <1>2, GoneFacts DEF Trusted
<1>5. ASSUME NEW i \in 0..Len(watch), NEW old \in Objects, old = At(i)
      PROVE  Trusted(old)'
  <2>1. Trusted(old)
    BY <1>5 DEF IInv, HistoryInv
  <2>2. ASSUME fresh, pc = "remove" PROVE old.deleting
    <3>1. watch = <<>> /\ Len(watch) = 0
      BY <2>2 DEF IInv, PassInv
    <3>2. api = At(0) /\ i = 0
      BY <1>5, <3>1 DEF IInv, HistoryInv
    <3>3. inst = api /\ pc = AtFinalizer(inst)
      BY <2>2 DEF IInv, PassInv
    <3>. QED  BY <1>5, <2>2, <3>2, <3>3, Places
  <2>. QED  BY <1>3, <2>1, <2>2
<1>6. ASSUME NEW j \in 0..Len(watch')
      PROVE  Trusted(At(j))'
  <2>1. CASE At(j)' = api'
    BY <1>4, <2>1 DEF Trusted, HasFinalizer
  <2>2. CASE \E i \in 0..Len(watch) : At(j)' = At(i)
    <3>1. PICK i \in 0..Len(watch) : At(j)' = At(i)
      BY <2>2
    <3>2. PICK old \in Objects : old = At(i)
      BY HistoryObjects DEF IInv
    <3>3. Trusted(old)'
      BY <1>5, <3>2
    <3>. QED  BY <3>1, <3>2, <3>3 DEF Trusted, HasFinalizer
  <2>. QED  BY <2>1, <2>2, HistoryShifts
<1>7. Trusted(inst)'
  <2>1. CASE inst' = inst /\ inst' # Gone
    <3>1. PICK old \in Objects : old = inst
      BY <1>1
    <3>2. Trusted(old)'
      BY <1>3, <2>1, <3>1 DEF IInv, HistoryInv
    <3>. QED  BY <2>1, <3>1, <3>2 DEF Trusted, HasFinalizer
  <2>2. CASE inst' = cached
    <3>1. PICK old \in Objects : old = cached
      BY <1>1
    <3>2. old = At(0) /\ 0 \in 0..Len(watch)
      BY <3>1, LenProperties DEF At, IInv, TypeOK
    <3>3. Trusted(old)'
      BY <1>5, <3>2
    <3>. QED  BY <2>2, <3>1, <3>3 DEF Trusted, HasFinalizer
  <2>3. CASE inst' \in {Gone, api'}
    BY <1>4, <2>3 DEF Trusted, HasFinalizer
  <2>. QED  BY <2>1, <2>2, <2>3, NextCopy
<1>. QED  BY <1>2, <1>6, <1>7, HistoryShifts DEF HistoryInv

\* So does what the pass knows.
LEMMA PassStep ==
    ASSUME IInv, Next
    PROVE  PassInv'
<1>1. PassInv /\ api \in Objects
  BY DEF IInv, TypeOK
<1>2. CASE Begin
  <2>1. watch = <<>> => cached = api
    BY DEF IInv, HistoryInv, At
  <2>. QED  BY <1>2, <2>1 DEF Begin, PassInv
<1>3. CASE RemoveFinalizer
  BY <1>3 DEF RemoveFinalizer, CallFails, Forget, Requeue, PassInv
<1>4. CASE AddFinalizer
  BY <1>4, FinalizerAdded DEF Forget, PassInv
<1>5. CASE SetDefaults \/ ReportInvalid \/ Work
  BY <1>5 DEF SetDefaults, ReportInvalid, Work, Forget, Requeue, PassInv
<1>6. CASE TimerFires \/ Restart
  BY <1>1, <1>6 DEF TimerFires, Restart, passVars, PassInv
<1>7. CASE Deliver
  BY <1>1, <1>7 DEF Deliver, passVars, PassInv
<1>8. CASE Create \/ EditSpec \/ EditMetadata \/ Delete \/ ForeignFinalizersGo
  <2>1. pc' = pc /\ inst' = inst /\ ~fresh'
    BY <1>8 DEF Create, EditSpec, EditMetadata, Delete, ForeignFinalizersGo, Edit
  <2>. QED  BY <1>1, <2>1 DEF PassInv
<1>. QED  BY <1>2, <1>3, <1>4, <1>5, <1>6, <1>7, <1>8 DEF Next, Pass

\* What was done or on its way stays so, or the key gets into the work queue.
LEMMA SettledStays ==
    ASSUME IInv, Next
    PROVE  /\ Settled(0) => Settled(0)' \/ dirty'
           /\ \A j \in 0..Len(watch') : Done(At(j)') => Settled(j)'
<1>. DEFINE Then(j) == Done(api') \/ \E k \in j..(Len(watch') - 1) : Reaches(At(k)', At(k + 1)')
<1>1. PICK n \in Nat : n = Len(watch)
  BY LenProperties DEF IInv, TypeOK
<1>2. /\ watch \in Seq(Objects) /\ At(n) = api
      /\ \A j \in 0..n : Done(At(j)) => Settled(j)
  BY <1>1 DEF IInv, TypeOK, HistoryInv, AttendedInv
<1>3. ASSUME NEW j, Then(j) PROVE Settled(j)'
  BY <1>3 DEF Settled, Coming, Reaches, Done, HasFinalizer
<1>. HIDE DEF Then
<1>4. CASE UNCHANGED <<api, watch, cached>>
  <2>1. Len(watch') = n /\ \A j : At(j)' = At(j)
    BY <1>1, <1>4 DEF At
  <2>2. ASSUME NEW j \in 0..n, Settled(j) PROVE Settled(j)'
    <3>1. Then(j)
      BY <1>1, <1>4, <2>1, <2>2 DEF Settled, Coming, Then
    <3>. QED  BY <1>3, <3>1
  <2>. QED  BY <1>1, <1>2, <2>1, <2>2
<1>5. CASE Deliver
  <2>1. /\ api' = api /\ n \in Nat \ {0} /\ Len(watch') = n - 1
        /\ \A j \in 0..n - 1 : At(j)' = At(j + 1)
    BY <1>1, <1>2, <1>5, HistoryLeaves
  <2>2. ASSUME NEW j \in 0..n - 1, Settled(j + 1) PROVE Settled(j)'
    <3>1. ASSUME NEW k \in j + 1..n - 1, Reaches(At(k), At(k + 1)) PROVE Then(j)
      <4>1. k - 1 \in j..(Len(watch') - 1) /\ k - 1 \in 0..n - 1 /\ k \in 0..n - 1
        BY <2>1
      <4>2. At(k - 1)' = At(k) /\ At((k - 1) + 1)' = At(k + 1)
        BY <2>1, <4>1, SMT DEF At
      <4>. QED  BY <3>1, <4>1, <4>2 DEF Then
    <3>2. Then(j)
      BY <1>1, <2>1, <2>2, <3>1 DEF Settled, Coming, Then
    <3>. QED  BY <1>3, <3>2
  <2>3. ASSUME Settled(0), ~Settled(1) PROVE dirty'
    <3>1. Reaches(At(0), At(1))
      BY <1>1, <2>1, <2>3 DEF Settled, Coming
    <3>2. Enqueues(Head(watch))
      BY <1>2, <2>1, <3>1, <1>5, HeadTailProperties DEF At, Reaches, Enqueues, Deliver
    <3>. QED  BY <1>5, <3>2 DEF Deliver
  <2>. QED  BY <1>2, <2>1, <2>2, <2>3
<1>6. CASE Restart
  <2>1. ASSUME NEW j \in 0..Len(watch') PROVE At(j)' = api'
    BY <1>6 DEF At, Restart
  <2>2. Settled(0) => Done(api') \/ dirty'
    BY <1>6 DEF Restart, Done
  <2>3. \A j : Done(api') => Settled(j)'
    BY <1>3 DEF Then
  <2>. QED  BY <2>1, <2>2, <2>3
<1>7. CASE cached' = cached /\ \E obj \in Objects : Store(obj) /\ Follows(obj)
  <2>1. PICK obj \in Objects : Store(obj) /\ Follows(obj)
    BY <1>7
  <2>2. /\ api' = obj /\ Len(watch') = n + 1
        /\ \A j \in 0..n : At(j)' = At(j)
        /\ At(n + 1)' = obj
    BY <1>1, <1>2, <1>7, <2>1, HistoryGrows
  <2>3. ASSUME NEW j \in 0..n, Settled(j) PROVE Settled(j)'
    <3>1. ASSUME NEW k \in j..n - 1, Reaches(At(k), At(k + 1)) PROVE Then(j)
      <4>1. k \in j..(Len(watch') - 1) /\ k \in 0..n /\ k + 1 \in 0..n
        BY <2>2
      <4>. QED  BY <2>2, <3>1, <4>1 DEF Then
    <3>2. ASSUME Reaches(api, obj) PROVE Then(j)
      <4>1. n \in j..(Len(watch') - 1) /\ n \in 0..n
        BY <2>2
      <4>. QED  BY <1>2, <2>2, <3>2, <4>1 DEF Then
    <3>3. Then(j)
      BY <1>1, <2>1, <2>2, <2>3, <3>1, <3>2 DEF Settled, Coming, Follows, Then
    <3>. QED  BY <1>3, <3>3
  <2>4. Done(api') => Settled(n + 1)'
    BY <1>3 DEF Then
  <2>5. ASSUME NEW j \in 0..Len(watch'), Done(At(j)') PROVE Settled(j)'
    <3>1. CASE j \in 0..n
      BY <1>2, <2>2, <2>3, <2>5, <3>1
    <3>2. CASE j = n + 1
      BY <2>2, <2>4, <2>5, <3>2
    <3>. QED  BY <2>2, <3>1, <3>2
  <2>6. Settled(0) => Settled(0)'
    BY <2>3
  <2>. QED  BY <2>5, <2>6
<1>. QED  BY <1>4, <1>5, <1>6, <1>7, WhatIsStored

\* Each end of a pass that leaves no error behind leaves the SHPA done, or on its way back to
\* the work queue.
LEMMA AttendedStep ==
    ASSUME IInv, Next
    PROVE  AttendedInv'
<1>1. /\ pc = "idle" /\ ~dirty /\ ~timer /\ ~lost => Settled(0)
      /\ pc # "idle" /\ Done(inst) => dirty \/ Settled(0)
      /\ Done(cached) => Settled(0)
  <2>1. cached = At(0) /\ 0 \in 0..Len(watch)
    BY LenProperties DEF At, IInv, TypeOK
  <2>. QED  BY <2>1 DEF IInv, AttendedInv
<1>2. /\ Settled(0) => Settled(0)' \/ dirty'
      /\ \A j \in 0..Len(watch') : Done(At(j)') => Settled(j)'
  BY SettledStays
<1>3. Done(api') => Settled(0)'
  BY DEF Settled, Done, HasFinalizer
<1>. SUFFICES /\ pc' = "idle" /\ ~dirty' /\ ~timer' /\ ~lost' => Settled(0)'
              /\ pc' # "idle" /\ Done(inst') => dirty' \/ Settled(0)'
  BY <1>2 DEF AttendedInv, Done, HasFinalizer
<1>4. CASE Begin
  <2>1. pc' = "idle" => Done(cached)
    BY <1>4, Places DEF Begin, Done
  <2>2. pc' # "idle" => inst' = cached
    BY <1>4 DEF Begin
  <2>. QED  BY <1>1, <1>2, <2>1, <2>2
<1>5. CASE RemoveFinalizer \/ ReportInvalid
  <2>1. pc \in {"remove", "report"} /\ pc' = "idle" /\ dirty' = dirty
    BY <1>5 DEF RemoveFinalizer, ReportInvalid, Forget, Requeue
  <2>2. CASE timer'
    BY <2>1, <2>2
  <2>3. CASE \E obj \in Objects : Store(obj) /\ Done(obj)
    BY <1>3, <2>1, <2>3 DEF Store
  <2>4. CASE ReportInvalid /\ inst.able = CheckSHPAValidity(inst.spec)
    <3>1. inst.exists /\ IsDefaultSHPA(inst.spec) /\ ~Valid(inst.spec)
      BY <2>4, Places DEF ReportInvalid, IInv, PassInv
    <3>2. Done(inst)
      BY <2>4, <3>1 DEF Done
    <3>. QED  BY <1>1, <1>2, <2>1, <3>2
  <2>5. CASE \E obj : Store(obj)
    <3>1. watch' # watch
      BY <2>5, StoreNotifies DEF IInv, TypeOK
    <3>. QED  BY <1>5, <2>1, <2>3, <3>1, PassFollows DEF Pass
  <2>. QED  BY <1>5, <2>2, <2>4, <2>5
            DEF RemoveFinalizer, ReportInvalid, Requeue, Update, StoreOrRemove
<1>6. CASE AddFinalizer
  <2>1. inst' = api' => (Done(inst') => Settled(0)')
    BY <1>3
  <2>. QED  BY <1>6, <2>1, FinalizerAdded DEF Forget
<1>7. CASE SetDefaults \/ Work
  BY <1>7 DEF SetDefaults, Work, Requeue
<1>8. CASE TimerFires
  BY <1>1, <1>2, <1>8 DEF TimerFires, passVars
<1>9. CASE Deliver
  BY <1>1, <1>2, <1>9 DEF Deliver, passVars
<1>10. CASE Restart
  <2>1. ~dirty' => Done(api')
    BY <1>10 DEF Restart, Done
  <2>. QED  BY <1>3, <1>10, <2>1 DEF Restart
<1>11. CASE Create \/ EditSpec \/ EditMetadata \/ Delete \/ ForeignFinalizersGo
  <2>1. UNCHANGED <<pc, inst, dirty, timer, lost>>
    BY <1>11 DEF Create, EditSpec, EditMetadata, Delete, ForeignFinalizersGo, Edit
  <2>. QED  BY <1>1, <1>2, <2>1
<1>. QED  BY <1>4, <1>5, <1>6, <1>7, <1>8, <1>9, <1>10, <1>11 DEF Next, Pass

\* The invariant holds in every state, whatever people, the manager and the API server do.
THEOREM InductiveInvariant == Spec => []IInv
<1>1. Init => IInv
  <2>. SUFFICES ASSUME Init PROVE IInv
    OBVIOUS
  <2>1. /\ api = Gone /\ cached = Gone /\ inst = Gone /\ watch = <<>> /\ Len(watch) = 0
        /\ uids = 0 /\ uids \in Nat
    BY DEF Init
  <2>2. TypeOK
    BY <2>1, GoneFacts, EmptySeq, Zenon DEF Init, TypeOK
  <2>3. HistoryInv
    BY <2>1, GoneFacts DEF HistoryInv, At, FinalizerOnce
  <2>4. PassInv
    BY DEF Init, PassInv
  <2>5. AttendedInv
    BY <2>1, GoneFacts DEF Init, AttendedInv, Settled
  <2>. QED  BY <2>2, <2>3, <2>4, <2>5 DEF IInv
<1>2. IInv /\ [Next]_vars => IInv'
  <2>. SUFFICES ASSUME IInv, [Next]_vars PROVE IInv'
    OBVIOUS
  <2>1. CASE Next
    BY <2>1, TypeStep, HistoryStep, PassStep, AttendedStep DEF IInv
  <2>2. CASE UNCHANGED vars
    <3>. USE <2>2 DEF vars, passVars, counters
    <3>1. TypeOK'
      BY DEF IInv, TypeOK
    <3>2. HistoryInv'
      BY DEF IInv, HistoryInv, At, Trusted, HasFinalizer, FinalizerOnce
    <3>3. PassInv'
      BY DEF IInv, PassInv
    <3>4. AttendedInv'
      BY DEF IInv, AttendedInv, At, Settled, Coming, Reaches, Done, HasFinalizer
    <3>. QED  BY <3>1, <3>2, <3>3, <3>4 DEF IInv
  <2>. QED  BY <2>1, <2>2
<1>. QED  BY <1>1, <1>2, PTL DEF Spec

\* Every variable keeps its type.
THEOREM LifecycleTypeCorrect == Spec => []TypeOK
<1>1. IInv => TypeOK
  BY DEF IInv
<1>. QED  BY <1>1, InductiveInvariant, PTL

\* reconcileSHPA never scales for a SHPA that is there without the controller's finalizer, in
\* spite of a copy that may be many versions old.
THEOREM FinalizerBeforeWork == Spec => []WorksBehindFinalizer
<1>1. IInv => WorksBehindFinalizer
  <2>. SUFFICES ASSUME IInv, pc = "work", api.exists, api.uid = inst.uid
                PROVE  HasFinalizer(api)
    BY DEF WorksBehindFinalizer
  <2>1. inst.exists /\ ~inst.deleting /\ HasFinalizer(inst)
    BY Places DEF IInv, PassInv
  <2>. QED  BY <2>1 DEF IInv, HistoryInv, Trusted
<1>. QED  BY <1>1, InductiveInvariant, PTL

\* No path through Reconcile, no order of events and no lag of the cache leaves a SHPA alone
\* with work to do, but for the error of addFinalizer.
THEOREM NeverForgotten == Spec => []LeftAloneWhenDone
<1>1. IInv => LeftAloneWhenDone
  <2>. SUFFICES ASSUME IInv, Unattended, ~lost
                PROVE  Done(api)
    BY DEF LeftAloneWhenDone, Done
  <2>1. Settled(0) /\ Len(watch) = 0
    BY DEF Unattended, IInv, AttendedInv
  <2>. QED  BY <2>1 DEF Settled, Coming
<1>. QED  BY <1>1, InductiveInvariant, PTL

-----------------------------------------------------------------------------
(* What the pass writes *)

\* The pass writes over the version it read: it leaves the others' finalizers in place, the
\* spec or its defaulted form, and the status that the spec deserves.
LEMMA PassWrites ==
    ASSUME IInv, Pass
    PROVE  /\ Others(api') = Others(api)
           /\ api'.exists => api'.spec \in {api.spec, DefaultSHPA(api.spec)}
           /\ api'.exists /\ api'.able # api.able =>
                 IF Valid(api.spec) THEN api'.able = <<"ok">>
                 ELSE api'.able = CheckSHPAValidity(api.spec)
<1>1. /\ api \in Objects /\ FinalizerOnce(api.finalizers)
      /\ fresh => inst = api /\ pc = AtFinalizer(api)
  BY DEF IInv, TypeOK, HistoryInv, PassInv
<1>2. PICK fs \in Seq(Finalizers) : fs = api.finalizers
  BY <1>1, ObjectFields
<1>3. ASSUME NEW obj, obj.finalizers = fs PROVE Others(obj) = Others(api)
  <2>. DEFINE at == CHOOSE i \in DOMAIN fs : fs[i] = shpaFinalizer
  <2>. HIDE DEF at
  <2>1. HasFinalizer(obj) <=> HasFinalizer(api)
    BY <1>2, <1>3 DEF HasFinalizer
  <2>2. CASE HasFinalizer(api)
    <3>1. Others(obj) = SubSeq(fs, 1, at - 1) \o SubSeq(fs, at + 1, Len(fs))
      BY <1>3, <2>1, <2>2, Zenon DEF Others, at
    <3>2. Others(api) = SubSeq(fs, 1, at - 1) \o SubSeq(fs, at + 1, Len(fs))
      BY <1>2, <2>2, Zenon DEF Others, at
    <3>. QED  BY <3>1, <3>2, Zenon
  <2>3. CASE ~HasFinalizer(api)
    BY <1>2, <1>3, <2>1, <2>3 DEF Others
  <2>. QED  BY <2>2, <2>3
<1>4. CASE api' = api
  BY <1>4
<1>5. CASE fresh /\ pc = "remove" /\ Update(RemoveString(fs, shpaFinalizer), api.spec)
  <2>1. PICK new : new = [api EXCEPT !.finalizers = RemoveString(fs, shpaFinalizer),
                                     !.spec = api.spec]
    OBVIOUS
  <2>2. /\ new.finalizers = RemoveString(fs, shpaFinalizer)
        /\ new.exists = api.exists /\ new.spec = api.spec /\ new.able = api.able
    BY <1>1, <2>1 DEF Objects
  <2>3. HasFinalizer(api)
    BY <1>1, <1>5, Places
  <2>4. /\ RemoveString(fs, shpaFinalizer) = Others(api)
        /\ ~ContainsString(RemoveString(fs, shpaFinalizer), shpaFinalizer)
    BY <1>1, <1>2, <2>3, OthersAfterRemoval DEF FinalizerOnce
  <2>5. api' = new \/ (api' = Gone /\ new.finalizers = <<>>)
    <3>1. Store(IF new.deleting /\ new.finalizers = <<>> THEN Gone ELSE new)
      BY <1>5, <2>1 DEF Update, StoreOrRemove
    <3>. QED  BY <3>1 DEF Store
  <2>6. Others(new) = new.finalizers
    BY <2>2, <2>4 DEF Others, HasFinalizer
  <2>7. Others(Gone) = <<>> /\ ~Gone.exists
    BY GoneFacts DEF Others, HasFinalizer, ContainsString
  <2>. QED  BY <2>2, <2>4, <2>5, <2>6, <2>7
<1>6. CASE fresh /\ pc = "add" /\ Update(Append(fs, shpaFinalizer), api.spec)
  <2>1. PICK new : new = [api EXCEPT !.finalizers = Append(fs, shpaFinalizer),
                                     !.spec = api.spec]
    OBVIOUS
  <2>2. /\ new.finalizers = Append(fs, shpaFinalizer)
        /\ new.spec = api.spec /\ new.able = api.able /\ new.deleting = api.deleting
    BY <1>1, <2>1 DEF Objects
  <2>3. ~api.deleting /\ ~HasFinalizer(api)
    BY <1>1, <1>6, Places
  <2>4. api' = new
    BY <1>6, <2>1, <2>2, <2>3 DEF Update, StoreOrRemove, Store
  <2>5. Others(new) = fs /\ Others(api) = fs
    BY <1>2, <2>2, <2>3, OthersAfterAppend DEF Others, HasFinalizer
  <2>. QED  BY <2>2, <2>4, <2>5
<1>7. CASE fresh /\ pc = "default" /\ Update(fs, DefaultSHPA(api.spec))
  <2>1. PICK new : new = [api EXCEPT !.finalizers = fs, !.spec = DefaultSHPA(api.spec)]
    OBVIOUS
  <2>2. /\ new.finalizers = fs /\ new.spec = DefaultSHPA(api.spec)
        /\ new.able = api.able /\ new.deleting = api.deleting
    BY <1>1, <2>1 DEF Objects
  <2>3. api' = new
    BY <1>1, <1>7, <2>1, <2>2, Places DEF Update, StoreOrRemove, Store
  <2>. QED  BY <1>3, <2>2, <2>3
<1>8. CASE fresh /\ pc = "report" /\ Store([api EXCEPT !.able = CheckSHPAValidity(api.spec)])
  <2>1. /\ api'.finalizers = fs /\ api'.spec = api.spec
        /\ api'.able = CheckSHPAValidity(api.spec)
    BY <1>1, <1>2, <1>8 DEF Store, Objects
  <2>2. ~Valid(api.spec)
    BY <1>1, <1>8, Places
  <2>. QED  BY <1>3, <2>1, <2>2
<1>9. CASE fresh /\ pc = "work" /\ Store([api EXCEPT !.able = <<"ok">>])
  <2>1. api'.finalizers = fs /\ api'.spec = api.spec /\ api'.able = <<"ok">>
    BY <1>1, <1>2, <1>9 DEF Store, Objects
  <2>2. Valid(api.spec)
    BY <1>1, <1>9, Places
  <2>. QED  BY <1>3, <2>1, <2>2
<1>. QED  BY <1>1, <1>2, <1>4, <1>5, <1>6, <1>7, <1>8, <1>9, PassStores

\* Nobody else ends or starts a pass, or writes without editing, but others' finalizers go.
LEMMA OthersWrite ==
    ASSUME IInv, Next, ~Pass
    PROVE  /\ pc' # pc => api' = api
           /\ api.exists /\ api'.exists => api'.able = api.able
           /\ api.exists /\ api'.exists /\ edits' = edits => api'.spec = api.spec
<1>1. api \in Objects /\ edits \in Nat
  BY DEF IInv, TypeOK
<1>2. CASE Deliver \/ TimerFires \/ Restart
  BY <1>2 DEF Deliver, TimerFires, Restart
<1>3. CASE Create
  BY <1>3 DEF Create, Edit
<1>4. CASE EditSpec
  BY <1>1, <1>4 DEF EditSpec, Edit, Store, Objects
<1>5. CASE EditMetadata
  BY <1>1, <1>5 DEF EditMetadata, Edit, Store, Objects
<1>6. CASE Delete
  BY <1>1, <1>6, GoneFacts DEF Delete, Edit, StoreOrRemove, Store, Objects
<1>7. CASE ForeignFinalizersGo
  BY <1>1, <1>7, GoneFacts DEF ForeignFinalizersGo, StoreOrRemove, Store, Objects
<1>. QED  BY <1>2, <1>3, <1>4, <1>5, <1>6, <1>7 DEF Next

\* Updates carry the whole object, read from a cache that lags: still they leave the others'
\* finalizers as they are.
THEOREM OthersFinalizersKept == Spec => OthersFinalizersStay
<1>1. IInv /\ [Next]_vars => [pc' # pc => Others(api') = Others(api)]_vars
  <2>. SUFFICES ASSUME IInv, Next, pc' # pc PROVE Others(api') = Others(api)
    OBVIOUS
  <2>. QED  BY PassWrites, OthersWrite
<1>. QED  BY <1>1, InductiveInvariant, PTL DEF Spec, OthersFinalizersStay

\* The controller never undoes an edit of the spec.
THEOREM SpecIsThePeoples == Spec => OnlyDefaultsAreWritten
<1>. DEFINE A == api.exists /\ api'.exists /\ api'.spec # api.spec /\ edits' = edits =>
                    api'.spec = DefaultSHPA(api.spec)
<1>1. IInv /\ [Next]_vars => [A]_vars
  <2>. SUFFICES ASSUME IInv, Next PROVE A
    OBVIOUS
  <2>. QED  BY PassWrites, OthersWrite
<1>. HIDE DEF A
<1>2. [][A]_vars => OnlyDefaultsAreWritten
  BY PTL DEF OnlyDefaultsAreWritten, A
<1>. QED  BY <1>1, <1>2, InductiveInvariant, PTL DEF Spec

\* A status is never one of another spec than the stored one.
THEOREM StatusMatchesSpec == Spec => StatusIsOfStoredSpec
<1>. DEFINE A == api.exists /\ api'.exists /\ api'.uid = api.uid /\ api'.able # api.able =>
                    IF Valid(api.spec) THEN api'.able = <<"ok">>
                    ELSE api'.able = CheckSHPAValidity(api.spec)
<1>1. IInv /\ [Next]_vars => [A]_vars
  <2>. SUFFICES ASSUME IInv, Next PROVE A
    OBVIOUS
  <2>. QED  BY PassWrites, OthersWrite
<1>. HIDE DEF A
<1>2. [][A]_vars => StatusIsOfStoredSpec
  BY PTL DEF StatusIsOfStoredSpec, A
<1>. QED  BY <1>1, <1>2, InductiveInvariant, PTL DEF Spec
=============================================================================
