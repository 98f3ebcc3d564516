--------------------------- MODULE PlannerProofs ---------------------------
(***************************************************************************)
(* Theorems about Planner: its type invariant, what a complete run leaves  *)
(* of a profile's bindings, and what a run may touch on the agenda, for    *)
(* every set of profiles, services, placements and agendas and any number  *)
(* of runs, changes, edits and stops.                                      *)
(***************************************************************************)
EXTENDS Planner, SequenceTheorems, FiniteSetTheorems, WellFoundedInduction, TLAPS

-----------------------------------------------------------------------------
(* The inductive invariant *)

Whats == Songs \cup Additions \cup UNION {{ag[i].what : i \in DOMAIN ag} : ag \in Agendas}
Items == [id : Nat, what : Whats]
AllConfigs == UNION {Configs[p] : p \in Profiles}
Placements == UNION {Range(c) : c \in AllConfigs}
Keys == {NoKey} \cup ({pl.id : pl \in Placements} \X Nat \X Songs)
Kinds == {"noop", "replace", "insert", "delete", "cleanup"}
Actions == [kind : Kinds, item : Nat, song : Songs, key : Keys, owned : BOOLEAN,
            before : Nat, after : Nat, afterKey : Keys]
Bindings == [item : Nat, by : Profiles, key : Keys, song : Songs]
Origins == Services \X AllConfigs
Jobs == [pc : {"idle", "planned", "applying"}, todo : Seq(Actions), expect : Seq(Items),
         made : SUBSET [key : Keys, item : Nat], from : Origins \cup {<<>>}]

Typed ==
  /\ agenda \in Seq(Items)
  /\ nextId \in Nat /\ nextId >= 10
  /\ service \in Services
  /\ config \in [Profiles -> AllConfigs]
  /\ \A p \in Profiles : config[p] \in Configs[p]
  /\ binding \subseteq Bindings /\ IsFiniteSet(binding)
  /\ checkpoint \in [Profiles -> Origins \cup {<<>>}]
  /\ job \in [Profiles -> Jobs]
  /\ \A p \in Profiles : job[p].pc = "idle" => job[p].todo = <<>>
  /\ written \in [Profiles -> SUBSET Nat]
  /\ complete \subseteq Profiles /\ disturbed \subseteq Profiles
  /\ budget \in [{"run", "change", "edit", "stop"} -> Nat]

\* An item has one identifier, given out before.
ItemsAreDistinct ==
  /\ \A i \in DOMAIN agenda : agenda[i].id \in 1 .. nextId - 1
  /\ \A i, j \in DOMAIN agenda : agenda[i].id = agenda[j].id => i = j

\* An item is bound once, to a profile that has written it.
BindingsAreExclusive ==
  /\ \A b \in binding : b.item \in 1 .. nextId - 1 /\ b.item \in written[b.by]
  /\ \A b, c \in binding : b.item = c.item => b = c

OneApplies == \A p, q \in Profiles : job[p].pc = "applying" /\ job[q].pc = "applying" => p = q

Releases(a) == a.kind \in {"delete", "cleanup"}
BoundTo(p, id) == \E b \in binding : b.item = id /\ b.by = p

\* What p is still going to do with an item that is there is within its rights, now
\* as at the time of the plan.
Permitted(p, a) ==
  /\ a.kind # "insert" => a.item \in 1 .. nextId - 1
  /\ a.kind \in {"replace", "delete"} =>
       \A j \in DOMAIN agenda : agenda[j].id = a.item => IsSong(agenda[j])
  /\ a.owned \/ a.kind = "delete" => a.item \in written[p]
  /\ a.kind = "delete" => BoundTo(p, a.item)
  /\ a.kind = "replace" /\ p \notin disturbed => ~OwnedByOther(p, a.item)

ReleasesAreDistinct(todo) ==
  \A i, j \in DOMAIN todo :
    Releases(todo[i]) /\ Releases(todo[j]) /\ todo[i].item = todo[j].item => i = j

PlansArePermitted ==
  \A p \in Profiles :
    /\ \A i \in DOMAIN job[p].todo : Permitted(p, job[p].todo[i])
    /\ ReleasesAreDistinct(job[p].todo)

\* The plan deals with the item: it binds it to another place or lets it go.
Settles(a, id) == a.item = id /\ a.kind # "insert" /\ (Claims(a) \/ Releases(a))

\* Whatever a profile owns has a wanted key, or the rest of the plan deals with it.
PlansAreThorough ==
  \A p \in Profiles : job[p].pc # "idle" =>
    /\ p \notin complete /\ job[p].from \in Origins
    /\ \A i \in DOMAIN job[p].todo : Claims(job[p].todo[i]) =>
         job[p].todo[i].key \in Wanted(job[p].from[2], job[p].from[1])
    /\ \A b \in binding : b.by = p =>
         \/ b.key \in Wanted(job[p].from[2], job[p].from[1])
         \/ \E i \in DOMAIN job[p].todo : Settles(job[p].todo[i], b.item)

CompleteIsWanted ==
  \A p \in complete :
    /\ checkpoint[p] \in Origins
    /\ \A b \in binding : b.by = p => b.key \in Wanted(checkpoint[p][2], checkpoint[p][1])

IInv ==
  /\ Typed /\ ItemsAreDistinct /\ BindingsAreExclusive /\ OneApplies
  /\ PlansArePermitted /\ PlansAreThorough /\ CompleteIsWanted

-----------------------------------------------------------------------------
(* Numbers, sequences and sets *)

\* Induction, over a set of numbers in place of a predicate.
LEMMA NaturalsUpFrom ==
  ASSUME NEW T, 0 \in T, \A n \in T \cap Nat : n + 1 \in T
  PROVE  Nat \subseteq T
<1>1. SUFFICES ASSUME Nat \ T # {} PROVE FALSE
  OBVIOUS
<1>2. PICK m \in Nat \ T : \A n \in Nat \ T : ~(<<n, m>> \in OpToRel(<, Nat))
  BY <1>1, NatLessThanWellFounded, WFMin
<1>3. \A n \in Nat \ T : ~(n < m)
  BY <1>2 DEF OpToRel
<1>4. m - 1 \in Nat /\ m - 1 < m
  OBVIOUS
<1>5. m - 1 \in T
  BY <1>3, <1>4
<1>6. (m - 1) + 1 \in T
  BY <1>4, <1>5
<1> QED
  BY <1>6

LEMMA MinProperties ==
  ASSUME NEW S \in SUBSET Nat, S # {}
  PROVE  Min(S) \in S /\ \A n \in S : Min(S) <= n
<1>1. PICK m \in S : \A n \in S : ~(<<n, m>> \in OpToRel(<, Nat))
  BY NatLessThanWellFounded, WFMin
<1>2. \A n \in S : ~(n < m)
  BY <1>1 DEF OpToRel
<1>3. m \in S /\ \A n \in S : m =< n
  BY <1>2
<1> QED
  BY <1>3 DEF Min

LEMMA MinOfTwo ==
  ASSUME NEW a \in Int, NEW b \in Int
  PROVE  Min({a, b}) = IF a <= b THEN a ELSE b
BY DEF Min

LEMMA MaxOfTwo ==
  ASSUME NEW a \in Int, NEW b \in Int
  PROVE  Max({a, b}) = IF a >= b THEN a ELSE b
BY DEF Max

LEMMA InsertAtProperties ==
  ASSUME NEW S, NEW s \in Seq(S), NEW i \in 1 .. Len(s) + 1, NEW v \in S
  PROVE  /\ InsertAt(s, i, v) \in Seq(S)
         /\ Len(InsertAt(s, i, v)) = Len(s) + 1
         /\ \A j \in 1 .. Len(s) + 1 :
              InsertAt(s, i, v)[j] = IF j < i THEN s[j] ELSE IF j = i THEN v ELSE s[j - 1]
<1> DEFINE front == SubSeq(s, 1, i - 1)
           back == SubSeq(s, i, Len(s))
           head == front \o <<v>>
<1>1. Len(s) \in Nat /\ \A j \in 1 .. Len(s) : s[j] \in S
  BY LenProperties, ElementOfSeq
<1>2. /\ front \in Seq(S) /\ Len(front) = i - 1
      /\ \A j \in 1 .. i - 1 : front[j] = s[j]
  <2>1. \A j \in 1 .. i - 1 : s[j] \in S
    BY <1>1
  <2>2. /\ front \in Seq(S) /\ Len(front) = IF 1 <= i - 1 THEN (i - 1) - 1 + 1 ELSE 0
        /\ \A j \in 1 .. (i - 1) - 1 + 1 : front[j] = s[1 + j - 1]
    BY <2>1, <1>1, SubSeqProperties
  <2> HIDE DEF front
  <2> QED
    BY <2>2, <1>1
<1>3. /\ back \in Seq(S) /\ Len(back) = Len(s) - i + 1
      /\ \A j \in 1 .. Len(s) - i + 1 : back[j] = s[i + j - 1]
  <2>1. \A j \in i .. Len(s) : s[j] \in S
    BY <1>1
  <2>2. /\ back \in Seq(S) /\ Len(back) = IF i <= Len(s) THEN Len(s) - i + 1 ELSE 0
        /\ \A j \in 1 .. Len(s) - i + 1 : back[j] = s[i + j - 1]
    BY <2>1, <1>1, SubSeqProperties
  <2> HIDE DEF back
  <2> QED
    BY <2>2, <1>1
<1>4. <<v>> \in Seq(S) /\ Len(<<v>>) = 1 /\ <<v>>[1] = v
  <2>1. <<v>> = Append(<<>>, v)
    OBVIOUS
  <2>2. Append(<<>>, v) \in Seq(S)
    BY EmptySeq, AppendProperties
  <2>3. Len(<<v>>) = 1
    OBVIOUS
  <2> QED
    BY <2>1, <2>2, <2>3
<1>5. /\ head \in Seq(S) /\ Len(head) = i
      /\ \A j \in 1 .. i : head[j] = IF j < i THEN s[j] ELSE v
  <2>1. /\ head \in Seq(S) /\ Len(head) = Len(front) + Len(<<v>>)
        /\ \A j \in 1 .. Len(front) + Len(<<v>>) : head[j] =
             IF j <= Len(front) THEN front[j] ELSE <<v>>[j - Len(front)]
    BY <1>2, <1>4, ConcatProperties
  <2> HIDE DEF head, front
  <2> QED
    BY <2>1, <1>1, <1>2, <1>4
<1>6. InsertAt(s, i, v) = head \o back
  BY DEF InsertAt
<1>7. /\ head \o back \in Seq(S) /\ Len(head \o back) = Len(head) + Len(back)
      /\ \A j \in 1 .. Len(head) + Len(back) : (head \o back)[j] =
           IF j <= Len(head) THEN head[j] ELSE back[j - Len(head)]
  BY <1>3, <1>5, ConcatProperties, ZenonT(40)
<1> HIDE DEF front, back, head
<1>8. Len(InsertAt(s, i, v)) = Len(s) + 1
  BY <1>1, <1>3, <1>5, <1>6, <1>7
<1>9. ASSUME NEW j \in 1 .. Len(s) + 1
      PROVE  InsertAt(s, i, v)[j] = IF j < i THEN s[j] ELSE IF j = i THEN v ELSE s[j - 1]
  <2>1. CASE j <= i
    BY <2>1, <1>1, <1>3, <1>5, <1>6, <1>7
  <2>2. CASE j > i
    <3>1. j - i \in 1 .. Len(s) - i + 1 /\ i + (j - i) - 1 = j - 1
      BY <2>2, <1>1
    <3> QED
      BY <2>2, <3>1, <1>1, <1>3, <1>5, <1>6, <1>7
  <2> QED
    BY <2>1, <2>2, <1>1
<1> QED
  BY <1>6, <1>7, <1>8, <1>9

LEMMA RemoveAtProperties ==
  ASSUME NEW S, NEW s \in Seq(S), NEW i \in 1 .. Len(s)
  PROVE  /\ RemoveAt(s, i) \in Seq(S)
         /\ Len(RemoveAt(s, i)) = Len(s) - 1
         /\ \A j \in 1 .. Len(s) - 1 :
              RemoveAt(s, i)[j] = IF j < i THEN s[j] ELSE s[j + 1]
<1> DEFINE front == SubSeq(s, 1, i - 1)
           back == SubSeq(s, i + 1, Len(s))
<1>1. Len(s) \in Nat /\ \A j \in 1 .. Len(s) : s[j] \in S
  BY LenProperties, ElementOfSeq
<1>2. /\ front \in Seq(S) /\ Len(front) = i - 1
      /\ \A j \in 1 .. i - 1 : front[j] = s[j]
  <2>1. \A j \in 1 .. i - 1 : s[j] \in S
    BY <1>1
  <2>2. /\ front \in Seq(S) /\ Len(front) = IF 1 <= i - 1 THEN (i - 1) - 1 + 1 ELSE 0
        /\ \A j \in 1 .. (i - 1) - 1 + 1 : front[j] = s[1 + j - 1]
    BY <2>1, <1>1, SubSeqProperties
  <2> HIDE DEF front
  <2> QED
    BY <2>2, <1>1
<1>3. /\ back \in Seq(S) /\ Len(back) = Len(s) - i
      /\ \A j \in 1 .. Len(s) - i : back[j] = s[i + j]
  <2>1. \A j \in i + 1 .. Len(s) : s[j] \in S
    BY <1>1
  <2>2. /\ back \in Seq(S) /\ Len(back) = IF i + 1 <= Len(s) THEN Len(s) - (i + 1) + 1 ELSE 0
        /\ \A j \in 1 .. Len(s) - (i + 1) + 1 : back[j] = s[(i + 1) + j - 1]
    BY <2>1, <1>1, SubSeqProperties
  <2> HIDE DEF back
  <2> QED
    BY <2>2, <1>1
<1>4. RemoveAt(s, i) = front \o back
  BY DEF RemoveAt
<1>5. /\ front \o back \in Seq(S) /\ Len(front \o back) = Len(front) + Len(back)
      /\ \A j \in 1 .. Len(front) + Len(back) : (front \o back)[j] =
           IF j <= Len(front) THEN front[j] ELSE back[j - Len(front)]
  BY <1>2, <1>3, ConcatProperties
<1> HIDE DEF front, back
<1>6. ASSUME NEW j \in 1 .. Len(s) - 1
      PROVE  RemoveAt(s, i)[j] = IF j < i THEN s[j] ELSE s[j + 1]
  <2>1. CASE j < i
    BY <2>1, <1>1, <1>2, <1>3, <1>4, <1>5
  <2>2. CASE j >= i
    <3> DEFINE d == j - (i - 1)
    <3>1. d \in 1 .. Len(s) - i /\ i + d = j + 1
      BY <2>2, <1>1
    <3>2. RemoveAt(s, i)[j] = back[d]
      <4>1. Len(front) = i - 1 /\ j \in 1 .. Len(front) + Len(back) /\ ~(j <= Len(front))
        BY <2>2, <1>1, <1>2, <1>3
      <4>2. (front \o back)[j] = back[j - Len(front)]
        BY <1>5, <4>1
      <4> QED
        BY <1>4, <4>1, <4>2
    <3> HIDE DEF d
    <3>3. back[d] = s[j + 1]
      BY <3>1, <1>3
    <3> QED
      BY <2>2, <3>2, <3>3, <1>1
  <2> QED
    BY <2>1, <2>2, <1>1
<1> QED
  BY <1>1, <1>2, <1>3, <1>4, <1>5, <1>6

\* A finite set as a sequence has each element once.
LEMMA SetToSeqProperties ==
  ASSUME NEW S, IsFiniteSet(S)
  PROVE  /\ SetToSeq(S) \in Seq(S)
         /\ \A i, j \in DOMAIN SetToSeq(S) : SetToSeq(S)[i] = SetToSeq(S)[j] => i = j
         /\ \A x \in S : \E i \in DOMAIN SetToSeq(S) : SetToSeq(S)[i] = x
<1> DEFINE n == Cardinality(S)
           D == 1 .. n
           f == SetToSeq(S)
<1>1. n \in Nat /\ ExistsBijection(D, S)
  BY FS_CardinalityType
<1>2. PICK g : g \in Bijection(D, S)
  BY <1>1 DEF ExistsBijection
<1>3. g \in [D -> S] /\ IsInjective(g)
  BY <1>2 DEF Bijection, Injection, IsInjective
<1>4. f \in [D -> S] /\ IsInjective(f)
  BY <1>3 DEF SetToSeq
<1>5. IsFiniteSet(D) /\ Cardinality(D) = n
  BY <1>1, FS_Interval
<1>6. f \in Injection(D, S)
  BY <1>4 DEF Injection, IsInjective
<1>7. f \in Surjection(D, S)
  BY <1>5, <1>6, FS_Injection
<1> HIDE DEF f
<1>8. f \in Seq(S)
  BY <1>1, <1>4, SeqDef
<1>9. \A x \in S : \E i \in DOMAIN f : f[i] = x
  BY <1>4, <1>7 DEF Surjection
<1> QED
  BY <1>4, <1>8, <1>9 DEF f, IsInjective

-----------------------------------------------------------------------------
(* What _plan_placements makes of the placements *)

Wants(p) == Wanted(config[p], service)

LEMMA ConstantsTyped ==
  ASSUME Typed, NEW p \in Profiles
  PROVE  /\ service \in Seq(Songs) /\ Len(service) \in Nat
         /\ \A i \in 1 .. Len(service) : service[i] \in Songs
         /\ config[p] \in Seq(Placements) /\ Len(config[p]) \in Nat
         /\ DOMAIN config[p] = 1 .. Len(config[p])
         /\ \A k \in 1 .. Len(config[p]) :
              /\ config[p][k] \in Placements
              /\ config[p][k].start \in Int /\ config[p][k].end \in Int
<1>1. service \in Seq(Songs)
  BY PlannerAssumption DEF Typed
<1>2. config[p] \in Configs[p] /\ config[p] \in AllConfigs
  BY DEF Typed, AllConfigs
<1>3. /\ config[p] \in Seq(Range(config[p]))
      /\ \A k \in DOMAIN config[p] : config[p][k].start \in Int /\ config[p][k].end \in Int
  BY <1>2, PlannerAssumption
<1>4. Range(config[p]) \subseteq Placements
  BY <1>2 DEF Placements
<1>5. config[p] \in Seq(Placements)
  BY <1>3, <1>4, SeqMonotonic
<1>6. DOMAIN config[p] = 1 .. Len(config[p]) /\ Len(config[p]) \in Nat
  BY <1>5, LenProperties
<1>7. \A k \in 1 .. Len(config[p]) : config[p][k] \in Placements
  BY <1>5, ElementOfSeq
<1>8. Len(service) \in Nat /\ \A i \in 1 .. Len(service) : service[i] \in Songs
  BY <1>1, LenProperties, ElementOfSeq
<1> QED
  BY <1>1, <1>3, <1>5, <1>6, <1>7, <1>8

LEMMA ClampProperties ==
  ASSUME NEW n \in Nat, NEW k \in Int
  PROVE  Clamp(k, n) \in 0 .. n
<1>1. Max({0, n + k}) = IF 0 >= n + k THEN 0 ELSE n + k
  BY MaxOfTwo
<1>2. Min({k, n}) = IF k <= n THEN k ELSE n
  BY MinOfTwo
<1> QED
  BY <1>1, <1>2 DEF Clamp

\* A slice selects indexes of the sequence.
LEMMA SliceProperties ==
  ASSUME NEW n \in Nat, NEW pl, pl.start \in Int, pl.end \in Int
  PROVE  Slice(pl, n) \in Seq(1 .. n)
<1> DEFINE lo == Clamp(pl.start, n)
           hi == Clamp(pl.end, n)
           m == Max({0, hi - lo})
<1>1. lo \in 0 .. n /\ hi \in 0 .. n
  BY ClampProperties
<1>2. m = IF 0 >= hi - lo THEN 0 ELSE hi - lo
  BY <1>1, MaxOfTwo
<1>3. Slice(pl, n) = [j \in 1 .. m |-> lo + j]
  BY DEF Slice
<1> HIDE DEF lo, hi, m
<1>4. m \in Nat /\ \A j \in 1 .. m : lo + j \in 1 .. n
  BY <1>1, <1>2
<1>5. Slice(pl, n) \in [1 .. m -> 1 .. n]
  BY <1>3, <1>4
<1> QED
  BY <1>4, <1>5, SeqDef

\* A key the profile asks for
LEMMA WantedKey ==
  ASSUME Typed, NEW p \in Profiles, NEW k \in 1 .. Len(config[p]),
         NEW i \in Range(Slice(config[p][k], Len(service)))
  PROVE  /\ i \in 1 .. Len(service) /\ service[i] \in Songs
         /\ <<config[p][k].id, i, service[i]>> \in Wants(p)
         /\ <<config[p][k].id, i, service[i]>> \in Keys
<1>1. /\ Len(service) \in Nat /\ DOMAIN config[p] = 1 .. Len(config[p])
      /\ config[p][k] \in Placements /\ config[p][k].start \in Int /\ config[p][k].end \in Int
      /\ \A j \in 1 .. Len(service) : service[j] \in Songs
  BY ConstantsTyped
<1>2. Slice(config[p][k], Len(service)) \in Seq(1 .. Len(service))
  BY <1>1, SliceProperties
<1>3. i \in 1 .. Len(service)
  BY <1>2, LenProperties, ElementOfSeq DEF Range
<1>4. <<config[p][k].id, i, service[i]>> \in Wants(p)
  BY <1>1 DEF Wants, Wanted
<1>5. service[i] \in Songs /\ i \in Nat
  BY <1>1, <1>3
<1> QED
  BY <1>1, <1>3, <1>4, <1>5 DEF Keys

-----------------------------------------------------------------------------
(* Loops *)

\* The values that a loop with steps R takes
Loops(S, base, n, R) ==
  {f \in [0 .. n -> S] : f[0] = base /\ \A k \in 1 .. n : f[k] = R[<<f[k - 1], k>>]}

\* A loop whose steps stay within S has the values a recursive function defines.
LEMMA LoopHasValues ==
  ASSUME NEW S, NEW base \in S, NEW n \in Nat, NEW R \in [S \X (1 .. n) -> S]
  PROVE  Loops(S, base, n, R) # {}
<1> DEFINE Fits(f, m) ==
             /\ f \in [0 .. m -> S] /\ f[0] = base
             /\ \A k \in 1 .. m : f[k] = R[<<f[k - 1], k>>]
           T == {m \in Nat : m <= n => \E f : Fits(f, m)}
<1>1. 0 \in T
  <2>1. Fits([k \in 0 .. 0 |-> base], 0)
    OBVIOUS
  <2> HIDE DEF Fits
  <2> QED
    BY <2>1
<1>2. ASSUME NEW m \in T \cap Nat PROVE m + 1 \in T
  <2>1. SUFFICES ASSUME m + 1 <= n PROVE \E f : Fits(f, m + 1)
    OBVIOUS
  <2>2. m \in Nat /\ m <= n /\ m + 1 \in 1 .. n
    BY <2>1
  <2>3. PICK f : Fits(f, m)
    BY <2>2
  <2> DEFINE g == [k \in 0 .. m + 1 |-> IF k = m + 1 THEN R[<<f[m], m + 1>>] ELSE f[k]]
  <2>4. R[<<f[m], m + 1>>] \in S
    <3>1. f[m] \in S
      BY <2>2, <2>3
    <3> QED
      BY <2>2, <3>1
  <2>5. g \in [0 .. m + 1 -> S]
    BY <2>2, <2>3, <2>4
  <2>6. g[0] = base
    BY <2>2, <2>3
  <2>7. ASSUME NEW k \in 1 .. m + 1 PROVE g[k] = R[<<g[k - 1], k>>]
    <3>1. CASE k = m + 1
      <4>1. (m + 1) - 1 = m /\ m \in 0 .. m + 1 /\ m # m + 1
        BY <2>2
      <4>2. g[m] = f[m]
        BY <4>1
      <4> QED
        BY <3>1, <4>1, <4>2
    <3>2. CASE k # m + 1
      <4>1. k \in 1 .. m /\ k - 1 \in 0 .. m + 1 /\ k - 1 # m + 1
        BY <2>2, <3>2
      <4>2. g[k] = f[k] /\ g[k - 1] = f[k - 1]
        BY <3>2, <4>1
      <4> HIDE DEF g
      <4> QED
        BY <2>3, <4>1, <4>2
    <3> QED
      BY <3>1, <3>2
  <2> HIDE DEF g
  <2>8. Fits(g, m + 1)
    BY <2>5, <2>6, <2>7
  <2> HIDE DEF Fits
  <2> QED
    BY <2>8
<1>3. n \in T
  <2> HIDE DEF T
  <2> QED
    BY <1>1, <1>2, NaturalsUpFrom
<1>4. PICK f : Fits(f, n)
  BY <1>3
<1> QED
  BY <1>4 DEF Loops

LEMMA LoopStaysWithin ==
  ASSUME NEW S, NEW n \in Nat, NEW f, f[0] \in S,
         \A k \in 1 .. n : f[k - 1] \in S => f[k] \in S
  PROVE  f[n] \in S
<1> DEFINE T == {m \in Nat : m <= n => f[m] \in S}
<1>1. 0 \in T
  OBVIOUS
<1>2. ASSUME NEW m \in T \cap Nat PROVE m + 1 \in T
  <2>1. SUFFICES ASSUME m + 1 <= n PROVE f[m + 1] \in S
    OBVIOUS
  <2>2. m \in Nat /\ m <= n /\ m + 1 \in 1 .. n /\ (m + 1) - 1 = m
    BY <2>1
  <2> QED
    BY <2>2
<1>3. n \in T
  <2> HIDE DEF T
  <2> QED
    BY <1>1, <1>2, NaturalsUpFrom
<1> QED
  BY <1>3

LEMMA AppendElements ==
  ASSUME NEW S, NEW s \in Seq(S), NEW a \in S
  PROVE  /\ Append(s, a) \in Seq(S)
         /\ \A i \in DOMAIN Append(s, a) :
              Append(s, a)[i] = a \/ (i \in DOMAIN s /\ Append(s, a)[i] = s[i])
         /\ \A i \in DOMAIN s : i \in DOMAIN Append(s, a) /\ Append(s, a)[i] = s[i]
         /\ \E i \in DOMAIN Append(s, a) : Append(s, a)[i] = a
<1>1. Len(s) \in Nat /\ DOMAIN s = 1 .. Len(s)
  BY LenProperties
<1>2. /\ Append(s, a) \in Seq(S) /\ Len(Append(s, a)) = Len(s) + 1
      /\ \A i \in 1 .. Len(s) : Append(s, a)[i] = s[i]
      /\ Append(s, a)[Len(s) + 1] = a
  BY AppendProperties
<1>3. DOMAIN Append(s, a) = 1 .. Len(s) + 1
  BY <1>2, LenProperties
<1> QED
  BY <1>1, <1>2, <1>3

-----------------------------------------------------------------------------
(* The songs of a placement *)

PlacementStates ==
  [acts : Seq(Actions), reserved : SUBSET Nat, desired : SUBSET Keys, used : SUBSET Nat,
   failed : BOOLEAN, cursor : Nat, last : Nat, lastKey : Keys]

\* An action on a place of its own: a song that p wants there
PlacedRight(p, failed, a) ==
  /\ a.kind \in {"noop", "replace", "insert"} /\ a.key \in Wants(p)
  /\ a.kind = "insert" => ~a.owned
  /\ a.kind # "insert" =>
       /\ a.owned = Owned(p, a.item)
       /\ failed \/ ~OwnedByOther(p, a.item)
       /\ \E j \in DOMAIN agenda : agenda[j].id = a.item /\ IsSong(agenda[j])

Placing(p, t) ==
  /\ t \in PlacementStates /\ t.cursor \in 1 .. Len(agenda) + 1
  /\ t.desired \subseteq Wants(p)
  /\ \A i \in DOMAIN t.acts : PlacedRight(p, t.failed, t.acts[i])
  /\ \A id \in t.reserved :
       \E i \in DOMAIN t.acts : t.acts[i].kind # "insert" /\ t.acts[i].item = id

LEMMA AgendaTyped ==
  ASSUME Typed
  PROVE  /\ Len(agenda) \in Nat /\ DOMAIN agenda = 1 .. Len(agenda)
         /\ \A j \in 1 .. Len(agenda) :
              agenda[j] \in Items /\ agenda[j].id \in Nat /\ agenda[j].what \in Whats
<1>1. agenda \in Seq(Items)
  BY DEF Typed
<1>2. Len(agenda) \in Nat /\ DOMAIN agenda = 1 .. Len(agenda)
  BY <1>1, LenProperties
<1>3. \A j \in 1 .. Len(agenda) : agenda[j] \in Items
  BY <1>1, ElementOfSeq
<1> QED
  BY <1>2, <1>3 DEF Items

\* Keeping or replacing a song, or inserting one, is right.
LEMMA PlaceSongIsRight ==
  ASSUME Typed, NEW p \in Profiles, NEW k \in 1 .. Len(config[p]),
         NEW i \in Range(Slice(config[p][k], Len(service))), NEW t, Placing(p, t)
  PROVE  Placing(p, PlaceSong(p, config[p][k], t, i))
<1> DEFINE song == service[i]
           key == <<config[p][k].id, i, song>>
           free == {j \in t.cursor .. Len(agenda) + 1 :
                      j <= Len(agenda) => agenda[j].id \notin t.reserved}
           c == Min(free)
           u == PlaceSong(p, config[p][k], t, i)
<1>1. song \in Songs /\ key \in Wants(p) /\ key \in Keys
  BY WantedKey
<1>2. /\ Len(agenda) \in Nat /\ DOMAIN agenda = 1 .. Len(agenda)
      /\ \A j \in 1 .. Len(agenda) : agenda[j] \in Items /\ agenda[j].id \in Nat
  BY AgendaTyped
<1>3. /\ t.acts \in Seq(Actions) /\ t.reserved \subseteq Nat /\ t.desired \subseteq Keys
      /\ t.used \subseteq Nat /\ t.failed \in BOOLEAN /\ t.cursor \in 1 .. Len(agenda) + 1
      /\ t.last \in Nat /\ t.lastKey \in Keys /\ t \in PlacementStates
  BY DEF Placing, PlacementStates
<1>4. c \in t.cursor .. Len(agenda) + 1
  <2>1. free \in SUBSET Nat /\ Len(agenda) + 1 \in free
    BY <1>2, <1>3
  <2> QED
    BY <2>1, MinProperties
<1>5. c \in 1 .. Len(agenda) + 1
  BY <1>2, <1>3, <1>4
<1>6. NoItem \in Nat /\ NoKey \in Keys
  BY DEF NoItem, Keys
<1>7. t.desired \cup {key} \subseteq Keys /\ t.desired \cup {key} \subseteq Wants(p)
  BY <1>1, <1>3 DEF Placing
<1>8. CASE Replaceable(c)
  <2> DEFINE id == agenda[c].id
             kind == IF agenda[c].what = song THEN "noop" ELSE "replace"
             failed == t.failed \/ OwnedByOther(p, id)
             a == [Action(kind, id, song, key) EXCEPT !.owned = Owned(p, id)]
  <2>1. u = [t EXCEPT !.failed = failed, !.reserved = @ \cup {id}, !.desired = @ \cup {key},
                      !.acts = Append(@, a), !.cursor = c + 1, !.last = id, !.lastKey = NoKey]
    BY <1>8 DEF PlaceSong
  <2>2. c \in 1 .. Len(agenda) /\ IsSong(agenda[c])
    <3> HIDE DEF c
    <3>1. c <= Len(agenda) /\ IsSong(agenda[c])
      BY <1>8 DEF Replaceable
    <3> QED
      BY <1>2, <1>5, <3>1
  <2>3. id \in Nat /\ kind \in {"noop", "replace"}
    BY <1>2, <2>2
  <2>4. Owned(p, id) \in BOOLEAN /\ failed \in BOOLEAN
    BY <1>3 DEF Owned, OwnedByOther
  <2>5. /\ a \in Actions /\ a.kind = kind /\ a.item = id /\ a.key = key
        /\ a.owned = Owned(p, id)
    BY <1>1, <1>6, <2>3, <2>4 DEF Actions, Action, Kinds
  <2>6. PlacedRight(p, failed, a)
    BY <1>1, <1>2, <2>2, <2>3, <2>5 DEF PlacedRight
  <2> HIDE DEF c, key, free, song, a
  <2>7. /\ Append(t.acts, a) \in Seq(Actions)
        /\ \A n \in DOMAIN Append(t.acts, a) :
              \/ Append(t.acts, a)[n] = a
              \/ n \in DOMAIN t.acts /\ Append(t.acts, a)[n] = t.acts[n]
        /\ \A n \in DOMAIN t.acts :
              n \in DOMAIN Append(t.acts, a) /\ Append(t.acts, a)[n] = t.acts[n]
        /\ \E n \in DOMAIN Append(t.acts, a) : Append(t.acts, a)[n] = a
    <3>1. t.acts \in Seq(Actions) /\ a \in Actions
      BY <1>3, <2>5
    <3> QED
      BY <3>1, AppendElements
  <2> HIDE DEF id, kind, failed, u
  <2>8. c + 1 \in Nat /\ c + 1 \in 1 .. Len(agenda) + 1
    BY <1>2, <2>2
  <2>9. /\ u \in PlacementStates /\ u.cursor = c + 1 /\ u.desired = t.desired \cup {key}
        /\ u.acts = Append(t.acts, a) /\ u.failed = failed /\ u.reserved = t.reserved \cup {id}
    BY <1>3, <1>6, <1>7, <2>1, <2>3, <2>4, <2>7, <2>8 DEF PlacementStates
  <2>10. \A n \in DOMAIN u.acts : PlacedRight(p, u.failed, u.acts[n])
    <3>1. \A n \in DOMAIN t.acts : PlacedRight(p, failed, t.acts[n])
      BY DEF Placing, PlacedRight, failed
    <3> QED
      BY <2>6, <2>7, <2>9, <3>1
  <2>11. \A x \in u.reserved :
           \E n \in DOMAIN u.acts : u.acts[n].kind # "insert" /\ u.acts[n].item = x
    <3>1. \A x \in t.reserved :
            \E n \in DOMAIN t.acts : t.acts[n].kind # "insert" /\ t.acts[n].item = x
      BY DEF Placing
    <3>2. a.kind # "insert" /\ a.item = id
      BY <2>3, <2>5
    <3> QED
      BY <2>7, <2>9, <3>1, <3>2
  <2>12. Placing(p, u)
    BY <1>7, <2>8, <2>9, <2>10, <2>11 DEF Placing
  <2> QED
    BY <2>12 DEF u
<1>9. CASE ~Replaceable(c)
  <2> DEFINE before == IF c <= Len(agenda) THEN agenda[c].id ELSE NoItem
             after == IF c <= Len(agenda) \/ t.lastKey # NoKey THEN NoItem ELSE t.last
             afterKey == IF c <= Len(agenda) THEN NoKey ELSE t.lastKey
             a == [Action("insert", NoItem, song, key) EXCEPT
                    !.before = before, !.after = after, !.afterKey = afterKey]
  <2>1. u = [t EXCEPT !.desired = @ \cup {key}, !.cursor = c, !.last = NoItem, !.lastKey = key,
                      !.acts = Append(@, a)]
    BY <1>9 DEF PlaceSong
  <2>2. before \in Nat /\ after \in Nat /\ afterKey \in Keys
    <3> HIDE DEF c
    <3>1. c <= Len(agenda) => c \in 1 .. Len(agenda)
      BY <1>2, <1>5
    <3> QED
      BY <1>2, <1>3, <1>6, <3>1
  <2>3. a \in Actions /\ a.kind = "insert" /\ a.key = key /\ ~a.owned
    <3> HIDE DEF before, after, afterKey
    <3> QED
      BY <1>1, <1>6, <2>2 DEF Actions, Action, Kinds
  <2>4. PlacedRight(p, t.failed, a)
    BY <1>1, <2>3 DEF PlacedRight
  <2> HIDE DEF c, key, free, song, a
  <2>5. /\ Append(t.acts, a) \in Seq(Actions)
        /\ \A n \in DOMAIN Append(t.acts, a) :
              \/ Append(t.acts, a)[n] = a
              \/ n \in DOMAIN t.acts /\ Append(t.acts, a)[n] = t.acts[n]
        /\ \A n \in DOMAIN t.acts :
              n \in DOMAIN Append(t.acts, a) /\ Append(t.acts, a)[n] = t.acts[n]
    <3>1. t.acts \in Seq(Actions) /\ a \in Actions
      BY <1>3, <2>3
    <3> QED
      BY <3>1, AppendElements
  <2>51. c \in Nat /\ NoItem \in Nat
    BY <1>2, <1>5, <1>6
  <2> HIDE DEF u
  <2>6. /\ u \in PlacementStates /\ u.cursor = c /\ u.desired = t.desired \cup {key}
        /\ u.acts = Append(t.acts, a) /\ u.failed = t.failed /\ u.reserved = t.reserved
    <3>1. t \in PlacementStates /\ key \in Keys /\ NoItem \in Nat
          /\ Append(t.acts, a) \in Seq(Actions) /\ t.desired \cup {key} \subseteq Keys
      BY <1>1, <1>3, <1>7, <2>5, <2>51
    <3>2. u \in PlacementStates
      BY <2>1, <2>51, <3>1 DEF PlacementStates
    <3>3. /\ u.cursor = c /\ u.desired = t.desired \cup {key}
          /\ u.acts = Append(t.acts, a) /\ u.reserved = t.reserved
      BY <2>1, <3>1 DEF PlacementStates
    <3>4. u.failed = t.failed
      BY <2>1, <3>1 DEF PlacementStates
    <3> QED
      BY <3>2, <3>3, <3>4
  <2>7. \A n \in DOMAIN u.acts : PlacedRight(p, u.failed, u.acts[n])
    BY <2>4, <2>5, <2>6 DEF Placing
  <2>8. \A x \in u.reserved :
           \E n \in DOMAIN u.acts : u.acts[n].kind # "insert" /\ u.acts[n].item = x
    BY <2>5, <2>6 DEF Placing
  <2>9. Placing(p, u)
    BY <1>5, <1>7, <2>6, <2>7, <2>8 DEF Placing
  <2> QED
    BY <2>9 DEF u
<1> QED
  BY <1>8, <1>9

\* So is a whole placement.
LEMMA PlaceSongsIsRight ==
  ASSUME Typed, NEW p \in Profiles, NEW k \in 1 .. Len(config[p]), NEW t, Placing(p, t)
  PROVE  Placing(p, PlaceSongs(p, config[p][k], Slice(config[p][k], Len(service)), t))
<1> DEFINE pl == config[p][k]
           indexes == Slice(pl, Len(service))
           n == Len(indexes)
           S == {u \in PlacementStates : Placing(p, u)}
           R == [x \in S \X (1 .. n) |-> PlaceSong(p, pl, x[1], indexes[x[2]])]
           Runs(f) == f = [m \in 0 .. n |->
                             IF m = 0 THEN t ELSE PlaceSong(p, pl, f[m - 1], indexes[m])]
           placed == CHOOSE f : Runs(f)
<1>1. n \in Nat /\ \A m \in 1 .. n : indexes[m] \in Range(indexes)
  <2>1. /\ Len(service) \in Nat /\ pl.start \in Int /\ pl.end \in Int
    BY ConstantsTyped
  <2>2. indexes \in Seq(1 .. Len(service))
    BY <2>1, SliceProperties
  <2> QED
    BY <2>2, LenProperties DEF Range
<1>2. ASSUME NEW u \in S, NEW m \in 1 .. n PROVE PlaceSong(p, pl, u, indexes[m]) \in S
  <2>1. indexes[m] \in Range(Slice(config[p][k], Len(service))) /\ Placing(p, u)
    BY <1>1
  <2>2. Placing(p, PlaceSong(p, pl, u, indexes[m]))
    BY <2>1, PlaceSongIsRight
  <2> QED
    BY <2>2 DEF Placing
<1>3. t \in S
  BY DEF Placing
<1>4. PlaceSongs(p, pl, indexes, t) = placed[n]
  BY DEF PlaceSongs
<1> HIDE DEF S, n, pl, indexes
<1>5. R \in [S \X (1 .. n) -> S]
  BY <1>2
<1> HIDE DEF R
<1>6. PICK g \in Loops(S, t, n, R) : TRUE
  BY <1>1, <1>3, <1>5, LoopHasValues
<1>7. g \in [0 .. n -> S] /\ g[0] = t /\ \A m \in 1 .. n : g[m] = R[<<g[m - 1], m>>]
  BY DEF Loops
<1>8. Runs(g)
  <2>1. ASSUME NEW m \in 1 .. n PROVE g[m] = PlaceSong(p, pl, g[m - 1], indexes[m])
    <3>1. m - 1 \in 0 .. n
      BY <1>1
    <3>2. g[m - 1] \in S
      BY <1>7, <3>1
    <3> QED
      BY <1>7, <3>2 DEF R
  <2>2. \A m \in 0 .. n : g[m] = IF m = 0 THEN t ELSE PlaceSong(p, pl, g[m - 1], indexes[m])
    <3>1. \A m \in 0 .. n : m = 0 \/ m \in 1 .. n
      BY <1>1
    <3> QED
      BY <1>7, <2>1, <3>1
  <2> QED
    BY <1>7, <2>2
<1>9. Runs(placed)
  BY <1>8
<1> HIDE DEF placed
<1>10. placed[n] \in S
  <2>1. placed[0] \in S
    BY <1>1, <1>3, <1>9
  <2>2. ASSUME NEW m \in 1 .. n, placed[m - 1] \in S PROVE placed[m] \in S
    <3>1. m \in 0 .. n /\ m # 0
      BY <1>1
    <3>2. placed[m] = PlaceSong(p, pl, placed[m - 1], indexes[m])
      BY <1>9, <3>1
    <3> QED
      BY <1>2, <2>2, <3>2
  <2> QED
    BY <1>1, <2>1, <2>2, LoopStaysWithin
<1> QED
  BY <1>4, <1>10 DEF S, pl, indexes

LEMMA PlacePlacementIsRight ==
  ASSUME Typed, NEW p \in Profiles, NEW k \in 1 .. Len(config[p]), NEW t, Placing(p, t)
  PROVE  Placing(p, PlacePlacement(p, t, config[p][k]))
<1> DEFINE pl == config[p][k]
           indexes == Slice(pl, Len(service))
           anchors == {i \in DOMAIN agenda : agenda[i].what \in pl.anchor}
           c == StartOfSlot(pl, Min(anchors))
           last == IF c > 1 THEN agenda[c - 1].id ELSE NoItem
           u == [t EXCEPT !.used = @ \cup Range(indexes), !.cursor = c, !.lastKey = NoKey,
                          !.last = last]
           v == [t EXCEPT !.failed = TRUE]
<1>1. /\ Len(agenda) \in Nat /\ DOMAIN agenda = 1 .. Len(agenda)
      /\ \A j \in 1 .. Len(agenda) : agenda[j].id \in Nat
  BY AgendaTyped
<1>2. Range(indexes) \subseteq Nat
  <2>1. /\ Len(service) \in Nat /\ pl.start \in Int /\ pl.end \in Int
    BY ConstantsTyped
  <2>2. indexes \in Seq(1 .. Len(service))
    BY <2>1, SliceProperties
  <2> HIDE DEF indexes
  <2>3. \A j \in DOMAIN indexes : indexes[j] \in 1 .. Len(service)
    BY <2>2, LenProperties, ElementOfSeq
  <2> QED
    BY <2>1, <2>3 DEF Range
<1>3. t \in PlacementStates /\ t.used \subseteq Nat
  BY DEF Placing, PlacementStates
<1>4. Placing(p, v)
  <2>1. v \in PlacementStates
    BY <1>3 DEF PlacementStates
  <2>2. /\ v.cursor = t.cursor /\ v.desired = t.desired /\ v.acts = t.acts
        /\ v.reserved = t.reserved /\ v.failed
    BY <1>3 DEF PlacementStates
  <2> HIDE DEF v
  <2>3. \A i \in DOMAIN v.acts : PlacedRight(p, v.failed, v.acts[i])
    BY <2>2 DEF Placing, PlacedRight
  <2> QED
    BY <2>1, <2>2, <2>3 DEF Placing
<1>5. ASSUME anchors # {} PROVE Placing(p, u)
  <2>1. Min(anchors) \in 1 .. Len(agenda)
    <3>1. anchors \in SUBSET Nat
      BY <1>1
    <3>2. Min(anchors) \in anchors
      BY <1>5, <3>1, MinProperties
    <3> QED
      BY <1>1, <3>2
  <2> HIDE DEF anchors
  <2>2. c \in 1 .. Len(agenda) + 1
    BY <1>1, <2>1 DEF StartOfSlot
  <2> HIDE DEF c
  <2>3. last \in Nat
    <3>1. c > 1 => c - 1 \in 1 .. Len(agenda)
      BY <1>1, <2>2
    <3> QED
      BY <1>1, <3>1 DEF NoItem
  <2> HIDE DEF last, indexes
  <2>4. c \in Nat /\ NoKey \in Keys /\ t.used \cup Range(indexes) \subseteq Nat
    BY <1>1, <1>2, <1>3, <2>2 DEF Keys
  <2>5. u \in PlacementStates
    BY <1>3, <2>3, <2>4 DEF PlacementStates
  <2>6. /\ u.cursor = c /\ u.desired = t.desired /\ u.acts = t.acts /\ u.reserved = t.reserved
    BY <1>3 DEF PlacementStates
  <2>7. u.failed = t.failed
    BY <1>3 DEF PlacementStates
  <2> HIDE DEF u
  <2>8. \A i \in DOMAIN u.acts : PlacedRight(p, u.failed, u.acts[i])
    BY <2>6, <2>7 DEF Placing
  <2> QED
    BY <2>2, <2>5, <2>6, <2>7, <2>8 DEF Placing
<1>6. CASE \/ t.used \cap Range(indexes) # {} \/ anchors = {}
           \/ Cardinality(anchors) > 1 /\ ~pl.first
  <2>1. PlacePlacement(p, t, pl) = v
    BY <1>6 DEF PlacePlacement
  <2> HIDE DEF v
  <2> QED
    BY <1>4, <2>1
<1>7. CASE ~(\/ t.used \cap Range(indexes) # {} \/ anchors = {}
             \/ Cardinality(anchors) > 1 /\ ~pl.first)
  <2>1. PlacePlacement(p, t, pl) = PlaceSongs(p, pl, indexes, u)
    BY <1>7 DEF PlacePlacement
  <2>2. Placing(p, u)
    BY <1>5, <1>7
  <2> HIDE DEF u
  <2> QED
    BY <2>1, <2>2, PlaceSongsIsRight
<1> QED
  BY <1>6, <1>7

\* And so are all placements of a profile.
LEMMA PlacePlacementsIsRight ==
  ASSUME Typed, NEW p \in Profiles
  PROVE  Placing(p, PlacePlacements(p))
<1> DEFINE pls == config[p]
           n == Len(pls)
           S == {u \in PlacementStates : Placing(p, u)}
           R == [x \in S \X (1 .. n) |-> PlacePlacement(p, x[1], pls[x[2]])]
           Runs(f) == f = [m \in 0 .. n |-> IF m = 0 THEN NothingPlaced
                                             ELSE PlacePlacement(p, f[m - 1], pls[m])]
           placed == CHOOSE f : Runs(f)
<1>1. n \in Nat
  BY ConstantsTyped
<1>2. ASSUME NEW u \in S, NEW m \in 1 .. n PROVE PlacePlacement(p, u, pls[m]) \in S
  <2>1. Placing(p, PlacePlacement(p, u, pls[m]))
    BY PlacePlacementIsRight
  <2> QED
    BY <2>1 DEF Placing
<1>3. NothingPlaced \in S
  <2> DEFINE u == NothingPlaced
  <2>1. <<>> \in Seq(Actions) /\ DOMAIN <<>> = {} /\ NoKey \in Keys
    BY EmptySeq DEF Keys
  <2>2. u \in PlacementStates
    BY <2>1 DEF NothingPlaced, PlacementStates, NoItem
  <2>3. u.acts = <<>> /\ u.reserved = {} /\ u.desired = {} /\ u.cursor = 1
    BY DEF NothingPlaced
  <2>4. 1 \in 1 .. Len(agenda) + 1
    BY AgendaTyped
  <2> HIDE DEF u
  <2> QED
    BY <2>1, <2>2, <2>3, <2>4 DEF Placing, u
<1>4. PlacePlacements(p) = placed[n]
  BY DEF PlacePlacements
<1> HIDE DEF S, n, pls
<1>5. R \in [S \X (1 .. n) -> S]
  BY <1>2
<1> HIDE DEF R
<1>6. PICK g \in Loops(S, NothingPlaced, n, R) : TRUE
  BY <1>1, <1>3, <1>5, LoopHasValues
<1>7. g \in [0 .. n -> S] /\ g[0] = NothingPlaced /\ \A m \in 1 .. n : g[m] = R[<<g[m - 1], m>>]
  BY DEF Loops
<1>8. Runs(g)
  <2>1. ASSUME NEW m \in 1 .. n PROVE g[m] = PlacePlacement(p, g[m - 1], pls[m])
    <3>1. m - 1 \in 0 .. n
      BY <1>1
    <3>2. g[m - 1] \in S
      BY <1>7, <3>1
    <3> QED
      BY <1>7, <3>2 DEF R
  <2>2. \A m \in 0 .. n : g[m] = IF m = 0 THEN NothingPlaced
                                  ELSE PlacePlacement(p, g[m - 1], pls[m])
    <3>1. \A m \in 0 .. n : m = 0 \/ m \in 1 .. n
      BY <1>1
    <3> QED
      BY <1>7, <2>1, <3>1
  <2> QED
    BY <1>7, <2>2
<1>9. Runs(placed)
  BY <1>8
<1> HIDE DEF placed
<1>10. placed[n] \in S
  <2>1. placed[0] \in S
    BY <1>1, <1>3, <1>9
  <2>2. ASSUME NEW m \in 1 .. n, placed[m - 1] \in S PROVE placed[m] \in S
    <3>1. m \in 0 .. n /\ m # 0
      BY <1>1
    <3>2. placed[m] = PlacePlacement(p, placed[m - 1], pls[m])
      BY <1>9, <3>1
    <3> QED
      BY <1>2, <2>2, <3>2
  <2> QED
    BY <1>1, <2>1, <2>2, LoopStaysWithin
<1> QED
  BY <1>4, <1>10 DEF S

LEMMA ConcatElements ==
  ASSUME NEW S, NEW s \in Seq(S), NEW t \in Seq(S)
  PROVE  /\ s \o t \in Seq(S)
         /\ \A i \in DOMAIN (s \o t) :
              \/ i \in DOMAIN s /\ (s \o t)[i] = s[i]
              \/ /\ i \notin DOMAIN s /\ i - Len(s) \in DOMAIN t
                 /\ (s \o t)[i] = t[i - Len(s)]
         /\ \A i \in DOMAIN s : i \in DOMAIN (s \o t) /\ (s \o t)[i] = s[i]
         /\ \A i \in DOMAIN t : Len(s) + i \in DOMAIN (s \o t) /\ (s \o t)[Len(s) + i] = t[i]
<1>1. /\ Len(s) \in Nat /\ DOMAIN s = 1 .. Len(s)
      /\ Len(t) \in Nat /\ DOMAIN t = 1 .. Len(t)
  BY LenProperties
<1>2. /\ s \o t \in Seq(S) /\ Len(s \o t) = Len(s) + Len(t)
      /\ \A i \in 1 .. Len(s) + Len(t) : (s \o t)[i] =
           IF i <= Len(s) THEN s[i] ELSE t[i - Len(s)]
  BY ConcatProperties
<1>3. DOMAIN (s \o t) = 1 .. Len(s) + Len(t)
  BY <1>2, LenProperties
<1>4. ASSUME NEW i \in 1 .. Len(t)
      PROVE  Len(s) + i \in 1 .. Len(s) + Len(t) /\ (s \o t)[Len(s) + i] = t[i]
  <2>1. Len(s) + i \in 1 .. Len(s) + Len(t) /\ ~(Len(s) + i <= Len(s)) /\ (Len(s) + i) - Len(s) = i
    BY <1>1
  <2> QED
    BY <1>2, <2>1
<1>5. ASSUME NEW i \in 1 .. Len(s)
      PROVE  i \in 1 .. Len(s) + Len(t) /\ (s \o t)[i] = s[i]
  BY <1>1, <1>2
<1>6. ASSUME NEW i \in 1 .. Len(s) + Len(t)
      PROVE  \/ i \in 1 .. Len(s) /\ (s \o t)[i] = s[i]
             \/ /\ i \notin 1 .. Len(s) /\ i - Len(s) \in 1 .. Len(t)
                /\ (s \o t)[i] = t[i - Len(s)]
  BY <1>1, <1>2
<1> QED
  BY <1>1, <1>2, <1>3, <1>4, <1>5, <1>6

-----------------------------------------------------------------------------
(* The plan *)

\* What a placement does is within the rights of its profile.
LEMMA PlacedIsPermitted ==
  ASSUME Typed, ItemsAreDistinct, BindingsAreExclusive, NEW p \in Profiles,
         NEW a, PlacedRight(p, FALSE, a)
  PROVE  /\ Permitted(p, a) /\ ~Releases(a) /\ a.key \in Wants(p)
         /\ a.kind = "replace" => ~OwnedByOther(p, a.item)
<1>1. a.kind # "insert" => a.item \in 1 .. nextId - 1
  BY DEF PlacedRight, ItemsAreDistinct
<1>2. a.kind # "insert" => \A j \in DOMAIN agenda : agenda[j].id = a.item => IsSong(agenda[j])
  BY DEF PlacedRight, ItemsAreDistinct
<1>3. a.owned => a.item \in written[p]
  BY DEF PlacedRight, BindingsAreExclusive, Owned
<1>4. a.kind = "replace" => ~OwnedByOther(p, a.item)
  BY DEF PlacedRight
<1>5. a.kind \in {"noop", "replace", "insert"} /\ a.key \in Wants(p)
  BY DEF PlacedRight
<1> QED
  BY <1>1, <1>2, <1>3, <1>4, <1>5 DEF Permitted, Releases

\* What it does not want any more it lets go, and it may.
LEMMA ReleaseIsPermitted ==
  ASSUME Typed, ItemsAreDistinct, BindingsAreExclusive, NEW p \in Profiles,
         NEW b \in binding, b.by = p
  PROVE  /\ ReleaseOf(b) \in Actions /\ Releases(ReleaseOf(b)) /\ ReleaseOf(b).item = b.item
         /\ Permitted(p, ReleaseOf(b)) /\ ~Claims(ReleaseOf(b))
<1> DEFINE a == ReleaseOf(b)
<1>1. b.item \in Nat /\ b.key \in Keys /\ b.song \in Songs
  BY DEF Typed, Bindings
<1>2. NoItem \in Nat /\ NoKey \in Keys
  BY DEF NoItem, Keys
<1>3. a \in Actions
  BY <1>1, <1>2 DEF ReleaseOf, Action, Actions, Kinds
<1>4. a.kind \in {"delete", "cleanup"} /\ a.item = b.item /\ ~a.owned
  BY DEF ReleaseOf, Action
<1>5. a.kind = "delete" => Shows(b.item, b.song)
  BY DEF ReleaseOf, Action
<1> HIDE DEF a
<1>6. a.item \in 1 .. nextId - 1 /\ a.item \in written[p]
  BY <1>4 DEF BindingsAreExclusive
<1>7. a.kind = "delete" => \A j \in DOMAIN agenda : agenda[j].id = a.item => IsSong(agenda[j])
  <2>1. SUFFICES ASSUME a.kind = "delete", NEW j \in DOMAIN agenda, agenda[j].id = a.item
                 PROVE  IsSong(agenda[j])
    OBVIOUS
  <2>2. PICK i \in DOMAIN agenda : agenda[i] = [id |-> b.item, what |-> b.song]
    BY <1>5, <2>1 DEF Shows
  <2>3. agenda[i].id = b.item /\ agenda[i].what = b.song
    BY <2>2
  <2>4. i = j
    BY <1>4, <2>1, <2>3 DEF ItemsAreDistinct
  <2> QED
    BY <1>1, <2>3, <2>4 DEF IsSong
<1>8. BoundTo(p, a.item)
  BY <1>4 DEF BoundTo
<1>9. Permitted(p, a)
  BY <1>4, <1>6, <1>7, <1>8 DEF Permitted
<1>10. Releases(a) /\ ~Claims(a)
  BY <1>4 DEF Releases, Claims
<1> QED
  BY <1>3, <1>4, <1>9, <1>10 DEF a

\* A plan keeps to the rights of its profile and deals with everything it owns.
LEMMA PlanFacts ==
  ASSUME Typed, ItemsAreDistinct, BindingsAreExclusive, NEW p \in Profiles, PlanOf(p).ready
  PROVE  /\ PlanOf(p).acts \in Seq(Actions)
         /\ \A i \in DOMAIN PlanOf(p).acts : LET a == PlanOf(p).acts[i] IN
              /\ Permitted(p, a)
              /\ Claims(a) => a.key \in Wants(p)
              /\ a.kind = "replace" => ~OwnedByOther(p, a.item)
         /\ ReleasesAreDistinct(PlanOf(p).acts)
         /\ \A b \in binding : b.by = p =>
              \/ b.key \in Wants(p)
              \/ \E i \in DOMAIN PlanOf(p).acts : Settles(PlanOf(p).acts[i], b.item)
<1> DEFINE t == PlacePlacements(p)
           left == Leftovers(p, t)
           leftovers == SetToSeq(left)
           rest == [i \in DOMAIN leftovers |-> ReleaseOf(leftovers[i])]
           acts == t.acts \o rest
<1>1. Placing(p, t)
  BY PlacePlacementsIsRight
<1>2. PlanOf(p).acts = acts /\ ~t.failed
  BY DEF PlanOf
<1> HIDE DEF t
<1>3. t.acts \in Seq(Actions) /\ t.failed \in BOOLEAN /\ t.desired \subseteq Wants(p)
  BY <1>1 DEF Placing, PlacementStates
<1>4. \A i \in DOMAIN t.acts : PlacedRight(p, FALSE, t.acts[i])
  BY <1>1, <1>2, <1>3 DEF Placing
<1>5. \A i \in DOMAIN t.acts :
        /\ Permitted(p, t.acts[i]) /\ ~Releases(t.acts[i]) /\ t.acts[i].key \in Wants(p)
        /\ t.acts[i].kind = "replace" => ~OwnedByOther(p, t.acts[i].item)
  BY <1>4, PlacedIsPermitted
<1>6. left \subseteq binding /\ \A b \in left : b.by = p
  BY DEF Leftovers
<1>7. IsFiniteSet(left)
  BY <1>6, FS_Subset DEF Typed
<1>8. /\ leftovers \in Seq(left)
      /\ \A i, j \in DOMAIN leftovers : leftovers[i] = leftovers[j] => i = j
      /\ \A b \in left : \E i \in DOMAIN leftovers : leftovers[i] = b
  BY <1>7, SetToSeqProperties
<1> HIDE DEF leftovers, left
<1>9. /\ Len(leftovers) \in Nat /\ DOMAIN leftovers = 1 .. Len(leftovers)
      /\ \A i \in DOMAIN leftovers : leftovers[i] \in left
  BY <1>8, LenProperties, ElementOfSeq
<1>10. \A i \in DOMAIN leftovers :
         /\ leftovers[i] \in binding /\ leftovers[i].by = p
         /\ ReleaseOf(leftovers[i]) \in Actions /\ Releases(ReleaseOf(leftovers[i]))
         /\ ReleaseOf(leftovers[i]).item = leftovers[i].item
         /\ Permitted(p, ReleaseOf(leftovers[i])) /\ ~Claims(ReleaseOf(leftovers[i]))
  BY <1>6, <1>9, ReleaseIsPermitted
<1>11. /\ rest \in Seq(Actions) /\ DOMAIN rest = DOMAIN leftovers
       /\ \A i \in DOMAIN rest : rest[i] = ReleaseOf(leftovers[i])
  <2>1. rest \in [1 .. Len(leftovers) -> Actions]
    BY <1>9, <1>10
  <2>2. rest \in Seq(Actions)
    BY <1>9, <2>1, SeqDef
  <2> QED
    BY <2>2
<1> HIDE DEF rest
<1>12. /\ acts \in Seq(Actions)
       /\ \A i \in DOMAIN acts :
            \/ i \in DOMAIN t.acts /\ acts[i] = t.acts[i]
            \/ /\ i \notin DOMAIN t.acts /\ i - Len(t.acts) \in DOMAIN rest
               /\ acts[i] = rest[i - Len(t.acts)]
       /\ \A i \in DOMAIN t.acts : i \in DOMAIN acts /\ acts[i] = t.acts[i]
       /\ \A i \in DOMAIN rest :
            Len(t.acts) + i \in DOMAIN acts /\ acts[Len(t.acts) + i] = rest[i]
  BY <1>3, <1>11, ConcatElements, ZenonT(40)
<1>13. Len(t.acts) \in Nat /\ DOMAIN acts \subseteq Nat
  <2>1. DOMAIN acts = 1 .. Len(acts) /\ Len(acts) \in Nat
    BY <1>12, LenProperties
  <2> QED
    BY <1>3, <2>1, LenProperties
<1> HIDE DEF acts
<1>14. ASSUME NEW i \in DOMAIN acts
       PROVE  /\ Permitted(p, acts[i])
              /\ Claims(acts[i]) => acts[i].key \in Wants(p)
              /\ acts[i].kind = "replace" => ~OwnedByOther(p, acts[i].item)
  <2>1. CASE i \in DOMAIN t.acts /\ acts[i] = t.acts[i]
    BY <1>5, <2>1
  <2>2. CASE i - Len(t.acts) \in DOMAIN rest /\ acts[i] = rest[i - Len(t.acts)]
    BY <1>10, <1>11, <2>2 DEF Releases
  <2> QED
    BY <1>12, <2>1, <2>2
<1>15. ReleasesAreDistinct(acts)
  <2>1. SUFFICES ASSUME NEW i \in DOMAIN acts, NEW j \in DOMAIN acts, Releases(acts[i]),
                        Releases(acts[j]), acts[i].item = acts[j].item
                 PROVE  i = j
    BY DEF ReleasesAreDistinct
  <2> DEFINE x == i - Len(t.acts)
             y == j - Len(t.acts)
  <2>2. /\ x \in DOMAIN rest /\ acts[i] = ReleaseOf(leftovers[x])
        /\ y \in DOMAIN rest /\ acts[j] = ReleaseOf(leftovers[y])
    BY <1>5, <1>11, <1>12, <2>1
  <2> HIDE DEF x, y
  <2>3. leftovers[x].item = leftovers[y].item
    BY <1>10, <1>11, <2>1, <2>2
  <2>4. leftovers[x] = leftovers[y]
    BY <1>10, <1>11, <2>2, <2>3 DEF BindingsAreExclusive
  <2>5. x = y
    BY <1>8, <1>11, <2>2, <2>4
  <2> QED
    BY <1>13, <2>5 DEF x, y
<1>16. ASSUME NEW b \in binding, b.by = p, b.key \notin Wants(p)
       PROVE  \E i \in DOMAIN acts : Settles(acts[i], b.item)
  <2>1. b.key \notin t.desired
    BY <1>3, <1>16
  <2>2. CASE b.item \in t.reserved
    <3>1. PICK i \in DOMAIN t.acts : t.acts[i].kind # "insert" /\ t.acts[i].item = b.item
      BY <1>1, <2>2 DEF Placing
    <3>2. Owned(p, b.item)
      BY <1>16 DEF Owned
    <3>3. t.acts[i].owned /\ t.acts[i].kind \in {"noop", "replace"}
      BY <1>4, <3>1, <3>2 DEF PlacedRight
    <3>4. Settles(t.acts[i], b.item)
      BY <3>1, <3>3 DEF Settles, Claims
    <3> QED
      BY <1>12, <3>4
  <2>3. CASE b.item \notin t.reserved
    <3>1. b \in left
      BY <1>16, <2>1, <2>3 DEF left, Leftovers
    <3>2. PICK i \in DOMAIN leftovers : leftovers[i] = b
      BY <1>8, <3>1
    <3>3. Settles(rest[i], b.item)
      BY <1>10, <1>11, <3>2 DEF Settles, Releases
    <3> QED
      BY <1>11, <1>12, <3>3
  <2> QED
    BY <2>2, <2>3
<1> QED
  BY <1>2, <1>12, <1>14, <1>15, <1>16

-----------------------------------------------------------------------------
(* The agenda *)

\* Where an item stands: once at most, and nowhere is 0.
LEMMA AtProperties ==
  ASSUME Typed, NEW id
  PROVE  /\ At(id) \in 0 .. Len(agenda)
         /\ At(id) # 0 => agenda[At(id)].id = id
         /\ At(id) = 0 => \A i \in DOMAIN agenda : agenda[i].id # id
<1> DEFINE I == {i \in 1 .. Len(agenda) : agenda[i].id = id}
<1>1. Len(agenda) \in Nat /\ DOMAIN agenda = 1 .. Len(agenda)
  BY AgendaTyped
<1>2. At(id) = IF I # {} THEN Min(I) ELSE 0
  BY DEF At, SelectInSeq
<1>3. CASE I = {}
  BY <1>1, <1>2, <1>3
<1>4. CASE I # {}
  <2>1. I \in SUBSET Nat
    BY <1>1
  <2>2. Min(I) \in I
    BY <1>4, <2>1, MinProperties
  <2> QED
    BY <1>1, <1>2, <1>4, <2>2
<1> QED
  BY <1>3, <1>4

\* The order of the foreign items stays when they keep their order.
LEMMA SameForeignOrder ==
  ASSUME NEW ag, NEW f \in [Foreign(agenda) -> Foreign(ag)],
         \A i \in Foreign(agenda) : ag[f[i]] = agenda[i],
         \A i, j \in Foreign(agenda) : i <= j <=> f[i] <= f[j],
         \A n \in Foreign(ag) : \E i \in Foreign(agenda) : f[i] = n
  PROVE  ForeignOrder(ag) = ForeignOrder(agenda)
<1>1. ASSUME NEW x
      PROVE  x \in ForeignOrder(agenda) <=>
               \E i, j \in Foreign(agenda) : i <= j /\ x = <<agenda[i], agenda[j]>>
  BY DEF ForeignOrder
<1>2. ASSUME NEW x
      PROVE  x \in ForeignOrder(ag) <=>
               \E i, j \in Foreign(ag) : i <= j /\ x = <<ag[i], ag[j]>>
  BY DEF ForeignOrder
<1>3. ASSUME NEW x \in ForeignOrder(agenda) PROVE x \in ForeignOrder(ag)
  <2>1. PICK i \in Foreign(agenda), j \in Foreign(agenda) : i <= j /\ x = <<agenda[i], agenda[j]>>
    BY <1>1
  <2>2. f[i] \in Foreign(ag) /\ f[j] \in Foreign(ag) /\ f[i] <= f[j] /\ x = <<ag[f[i]], ag[f[j]]>>
    BY <2>1
  <2> QED
    BY <1>2, <2>2
<1>4. ASSUME NEW x \in ForeignOrder(ag) PROVE x \in ForeignOrder(agenda)
  <2>1. PICK m \in Foreign(ag), n \in Foreign(ag) : m <= n /\ x = <<ag[m], ag[n]>>
    BY <1>2
  <2>2. PICK i \in Foreign(agenda) : f[i] = m
    OBVIOUS
  <2>3. PICK j \in Foreign(agenda) : f[j] = n
    OBVIOUS
  <2>4. i <= j /\ x = <<agenda[i], agenda[j]>>
    BY <2>1, <2>2, <2>3
  <2> QED
    BY <1>1, <2>4
<1> QED
  BY <1>3, <1>4

\* Nothing on ag is another item's, or an item that has ceased to be a song.
WellFormed(ag, n) ==
  /\ ag \in Seq(Items)
  /\ \A i \in DOMAIN ag : ag[i].id \in 1 .. n - 1
  /\ \A i, j \in DOMAIN ag : ag[i].id = ag[j].id => i = j

SongsStay(ag) ==
  \A j \in DOMAIN ag : ag[j].id # nextId =>
    \E i \in DOMAIN agenda : agenda[i].id = ag[j].id /\ (IsSong(agenda[i]) => IsSong(ag[j]))

\* InsertAtProperties for a sequence of items, with the result hidden in a name
IsInsertion(ag, old, i, v) ==
  /\ ag \in Seq(Items) /\ Len(ag) = Len(old) + 1
  /\ \A j \in 1 .. Len(old) + 1 :
       ag[j] = IF j < i THEN old[j] ELSE IF j = i THEN v ELSE old[j - 1]

LEMMA ItemInsertion ==
  ASSUME NEW old \in Seq(Items), NEW i \in 1 .. Len(old) + 1, NEW v \in Items
  PROVE  IsInsertion(InsertAt(old, i, v), old, i, v)
<1> DEFINE S == Items
<1> HIDE DEF S
<1>1. old \in Seq(S) /\ v \in S
  BY DEF S
<1>2. InsertAt(old, i, v) \in Seq(S)
  BY <1>1, InsertAtProperties
<1>3. Len(InsertAt(old, i, v)) = Len(old) + 1
  BY <1>1, InsertAtProperties
<1>4. \A j \in 1 .. Len(old) + 1 :
        InsertAt(old, i, v)[j] = IF j < i THEN old[j] ELSE IF j = i THEN v ELSE old[j - 1]
  BY <1>1, InsertAtProperties
<1> QED
  BY <1>2, <1>3, <1>4 DEF IsInsertion, S

\* An item is added.
LEMMA ItemInserted ==
  ASSUME Typed, ItemsAreDistinct, NEW s \in 1 .. Len(agenda) + 1, NEW what \in Whats, NEW ag,
         ag = InsertAt(agenda, s, [id |-> nextId, what |-> what])
  PROVE  /\ WellFormed(ag, nextId + 1) /\ SongsStay(ag)
         /\ \A i \in DOMAIN agenda : \E j \in DOMAIN ag : ag[j] = agenda[i]
         /\ what \in Songs => ForeignOrder(ag) = ForeignOrder(agenda)
<1> DEFINE x == [id |-> nextId, what |-> what]
           n == Len(agenda)
<1>1. /\ n \in Nat /\ DOMAIN agenda = 1 .. n /\ agenda \in Seq(Items)
      /\ nextId \in Nat /\ nextId >= 10
  BY AgendaTyped DEF Typed
<1>2. x \in Items /\ x.id = nextId /\ x.what = what
  BY <1>1 DEF Items
<1> HIDE DEF x
<1>3. /\ ag \in Seq(Items) /\ Len(ag) = n + 1
      /\ \A j \in 1 .. n + 1 :
           ag[j] = IF j < s THEN agenda[j] ELSE IF j = s THEN x ELSE agenda[j - 1]
  <2>1. ag = InsertAt(agenda, s, x)
    BY DEF x
  <2>2. agenda \in Seq(Items) /\ s \in 1 .. Len(agenda) + 1 /\ x \in Items
    BY <1>1, <1>2
  <2> HIDE DEF n
  <2>3. IsInsertion(InsertAt(agenda, s, x), agenda, s, x)
    BY <2>2, ItemInsertion
  <2> QED
    BY <2>1, <2>3 DEF IsInsertion, n
<1>4. DOMAIN ag = 1 .. n + 1
  BY <1>1, <1>3, LenProperties
<1>5. \A j \in 1 .. n + 1 :
        \/ j = s /\ ag[j] = x
        \/ j < s /\ j \in 1 .. n /\ ag[j] = agenda[j]
        \/ j > s /\ j - 1 \in 1 .. n /\ ag[j] = agenda[j - 1]
  BY <1>1, <1>3
<1>6. \A i \in 1 .. n : agenda[i].id \in 1 .. nextId - 1 /\ agenda[i].id # nextId
  BY <1>1 DEF ItemsAreDistinct
<1>7. \A i, j \in 1 .. n : agenda[i].id = agenda[j].id => i = j
  BY <1>1 DEF ItemsAreDistinct
<1>8. \A j \in 1 .. n + 1 : ag[j].id \in 1 .. (nextId + 1) - 1
  <2>1. nextId \in 1 .. (nextId + 1) - 1 /\ 1 .. nextId - 1 \subseteq 1 .. (nextId + 1) - 1
    BY <1>1
  <2> HIDE DEF n
  <2> QED
    BY <1>2, <1>5, <1>6, <2>1
<1>9. ASSUME NEW i \in 1 .. n + 1, NEW j \in 1 .. n + 1, ag[i].id = ag[j].id PROVE i = j
  <2>1. CASE i = s
    BY <1>1, <1>2, <1>5, <1>6, <1>9, <2>1
  <2>2. CASE i < s
    <3>1. i \in 1 .. n /\ ag[i] = agenda[i]
      BY <1>1, <1>5, <2>2
    <3>2. CASE j = s
      BY <1>2, <1>5, <1>6, <1>9, <3>1, <3>2
    <3>3. CASE j < s
      <4>1. j \in 1 .. n /\ ag[j] = agenda[j]
        BY <1>1, <1>5, <3>3
      <4> QED
        BY <1>7, <1>9, <3>1, <4>1
    <3>4. CASE j > s
      <4>1. j - 1 \in 1 .. n /\ ag[j] = agenda[j - 1] /\ i # j - 1
        BY <1>1, <1>5, <2>2, <3>4
      <4> QED
        BY <1>7, <1>9, <3>1, <4>1
    <3> QED
      BY <1>1, <3>2, <3>3, <3>4
  <2>3. CASE i > s
    <3>1. i - 1 \in 1 .. n /\ ag[i] = agenda[i - 1]
      BY <1>1, <1>5, <2>3
    <3>2. CASE j = s
      BY <1>2, <1>5, <1>6, <1>9, <3>1, <3>2
    <3>3. CASE j < s
      <4>1. j \in 1 .. n /\ ag[j] = agenda[j] /\ j # i - 1
        BY <1>1, <1>5, <2>3, <3>3
      <4> QED
        BY <1>7, <1>9, <3>1, <4>1
    <3>4. CASE j > s
      <4>1. j - 1 \in 1 .. n /\ ag[j] = agenda[j - 1]
        BY <1>1, <1>5, <3>4
      <4>2. i - 1 = j - 1
        BY <1>7, <1>9, <3>1, <4>1
      <4> QED
        BY <1>1, <4>2
    <3> QED
      BY <1>1, <3>2, <3>3, <3>4
  <2> QED
    BY <1>1, <2>1, <2>2, <2>3
<1>10. WellFormed(ag, nextId + 1)
  BY <1>3, <1>4, <1>8, <1>9 DEF WellFormed
<1>11. SongsStay(ag)
  <2>1. SUFFICES ASSUME NEW j \in 1 .. n + 1, ag[j].id # nextId
                 PROVE  \E i \in 1 .. n : agenda[i] = ag[j]
    BY <1>1, <1>4 DEF SongsStay, IsSong
  <2> QED
    BY <1>2, <1>5, <2>1
<1> DEFINE up(i) == IF i < s THEN i ELSE i + 1
<1>12. \A i \in 1 .. n : up(i) \in 1 .. n + 1 /\ up(i) # s /\ ag[up(i)] = agenda[i]
  <2>1. ASSUME NEW i \in 1 .. n, i >= s PROVE ag[i + 1] = agenda[i] /\ i + 1 # s
    <3>1. i + 1 \in 1 .. n + 1 /\ ~(i + 1 < s) /\ i + 1 # s /\ (i + 1) - 1 = i
      BY <1>1, <2>1
    <3> QED
      BY <1>3, <3>1
  <2>2. ASSUME NEW i \in 1 .. n, i < s PROVE ag[i] = agenda[i]
    BY <1>1, <1>3, <2>2
  <2> QED
    BY <1>1, <2>1, <2>2
<1>13. \A i \in DOMAIN agenda : \E j \in DOMAIN ag : ag[j] = agenda[i]
  BY <1>1, <1>4, <1>12
<1>14. ASSUME what \in Songs PROVE ForeignOrder(ag) = ForeignOrder(agenda)
  <2> DEFINE f == [i \in Foreign(agenda) |-> up(i)]
  <2>1. ~(s \in Foreign(ag))
    BY <1>1, <1>2, <1>5, <1>14 DEF Foreign, IsSong
  <2>2. Foreign(agenda) \subseteq 1 .. n
    BY <1>1 DEF Foreign
  <2>3. f \in [Foreign(agenda) -> Foreign(ag)] /\ \A i \in Foreign(agenda) : ag[f[i]] = agenda[i]
    <3>1. \A i \in Foreign(agenda) : up(i) \in Foreign(ag) /\ ag[up(i)] = agenda[i]
      BY <1>4, <1>12, <2>2 DEF Foreign, IsSong
    <3> HIDE DEF up
    <3> QED
      BY <3>1
  <2>4. \A i, j \in Foreign(agenda) : i <= j <=> f[i] <= f[j]
    <3>1. \A i, j \in 1 .. n : i <= j <=> up(i) <= up(j)
      BY <1>1
    <3> HIDE DEF up
    <3> QED
      BY <2>2, <3>1
  <2>5. ASSUME NEW m \in Foreign(ag) PROVE \E i \in Foreign(agenda) : f[i] = m
    <3>1. m \in 1 .. n + 1 /\ m # s /\ ~IsSong(ag[m])
      BY <1>4, <2>1 DEF Foreign
    <3>2. \E i \in 1 .. n : up(i) = m
      <4>1. CASE m < s
        BY <1>1, <3>1, <4>1
      <4>2. CASE m > s
        <5>1. m - 1 \in 1 .. n /\ ~(m - 1 < s) /\ (m - 1) + 1 = m
          BY <1>1, <3>1, <4>2
        <5> QED
          BY <5>1
      <4> QED
        BY <1>1, <3>1, <4>1, <4>2
    <3>3. PICK i \in 1 .. n : up(i) = m
      BY <3>2
    <3>4. i \in Foreign(agenda)
      BY <1>1, <1>12, <3>1, <3>3 DEF Foreign, IsSong
    <3> QED
      BY <3>3, <3>4
  <2> HIDE DEF f
  <2> QED
    BY <2>3, <2>4, <2>5, SameForeignOrder
<1> QED
  BY <1>10, <1>11, <1>13, <1>14

\* An item goes.
LEMMA ItemRemoved ==
  ASSUME Typed, ItemsAreDistinct, NEW s \in 1 .. Len(agenda), NEW ag, ag = RemoveAt(agenda, s)
  PROVE  /\ WellFormed(ag, nextId) /\ SongsStay(ag)
         /\ \A i \in DOMAIN agenda : i # s => \E j \in DOMAIN ag : ag[j] = agenda[i]
         /\ IsSong(agenda[s]) => ForeignOrder(ag) = ForeignOrder(agenda)
<1> DEFINE n == Len(agenda)
           up(i) == IF i < s THEN i ELSE i + 1
           down(i) == IF i < s THEN i ELSE i - 1
<1>1. n \in Nat /\ DOMAIN agenda = 1 .. n /\ agenda \in Seq(Items) /\ n - 1 \in Nat
  BY AgendaTyped DEF Typed
<1>2. /\ ag \in Seq(Items) /\ Len(ag) = n - 1
      /\ \A j \in 1 .. n - 1 : ag[j] = IF j < s THEN agenda[j] ELSE agenda[j + 1]
  BY <1>1, RemoveAtProperties
<1>3. DOMAIN ag = 1 .. n - 1
  BY <1>1, <1>2, LenProperties
<1>4. \A j \in 1 .. n - 1 : up(j) \in 1 .. n /\ up(j) # s /\ ag[j] = agenda[up(j)]
  BY <1>1, <1>2
<1>5. \A i, j \in 1 .. n - 1 : i <= j <=> up(i) <= up(j)
  BY <1>1
<1>6. \A i \in 1 .. n : i # s => down(i) \in 1 .. n - 1 /\ up(down(i)) = i
  BY <1>1
<1>7. \A i, j \in 1 .. n : i # s /\ j # s => (i <= j <=> down(i) <= down(j))
  BY <1>1
<1>8. \A j \in 1 .. n - 1 : down(up(j)) = j
  BY <1>1
<1>9. \A i, j \in 1 .. n - 1 : up(i) = up(j) => i = j
  BY <1>1
<1> HIDE DEF up, down, n
<1>10. \A i, j \in 1 .. n : agenda[i].id = agenda[j].id => i = j
  BY <1>1 DEF ItemsAreDistinct
<1>11. \A i \in 1 .. n : agenda[i].id \in 1 .. nextId - 1
  BY <1>1 DEF ItemsAreDistinct
<1>12. WellFormed(ag, nextId)
  <2>1. \A j \in 1 .. n - 1 : ag[j].id \in 1 .. nextId - 1
    BY <1>4, <1>11
  <2>2. ASSUME NEW i \in 1 .. n - 1, NEW j \in 1 .. n - 1, ag[i].id = ag[j].id PROVE i = j
    <3>1. up(i) = up(j)
      BY <1>4, <1>10, <2>2
    <3> QED
      BY <1>9, <3>1
  <2> QED
    BY <1>2, <1>3, <2>1, <2>2 DEF WellFormed
<1>13. SongsStay(ag)
  BY <1>1, <1>3, <1>4 DEF SongsStay, IsSong
<1>14. \A i \in DOMAIN agenda : i # s => \E j \in DOMAIN ag : ag[j] = agenda[i]
  BY <1>1, <1>3, <1>4, <1>6, ZenonT(40)
<1>15. ASSUME IsSong(agenda[s]) PROVE ForeignOrder(ag) = ForeignOrder(agenda)
  <2> DEFINE f == [i \in Foreign(agenda) |-> down(i)]
  <2>1. \A i \in Foreign(agenda) : i \in 1 .. n /\ i # s /\ ~IsSong(agenda[i])
    BY <1>1, <1>15 DEF Foreign
  <2>2. \A i \in Foreign(agenda) : down(i) \in Foreign(ag) /\ ag[down(i)] = agenda[i]
    BY <1>3, <1>4, <1>6, <2>1 DEF Foreign, IsSong
  <2>3. \A i, j \in Foreign(agenda) : i <= j <=> f[i] <= f[j]
    BY <1>7, <2>1
  <2>4. ASSUME NEW m \in Foreign(ag) PROVE \E i \in Foreign(agenda) : f[i] = m
    <3>1. m \in 1 .. n - 1 /\ ~IsSong(ag[m])
      BY <1>3 DEF Foreign
    <3>2. up(m) \in Foreign(agenda)
      BY <1>1, <1>4, <3>1 DEF Foreign, IsSong
    <3> QED
      BY <1>8, <3>1, <3>2
  <2>5. f \in [Foreign(agenda) -> Foreign(ag)] /\ \A i \in Foreign(agenda) : ag[f[i]] = agenda[i]
    BY <2>2
  <2> HIDE DEF f
  <2> QED
    BY <2>3, <2>4, <2>5, SameForeignOrder
<1> QED
  BY <1>12, <1>13, <1>14, <1>15

\* An item shows something else.
LEMMA ItemReplaced ==
  ASSUME Typed, ItemsAreDistinct, NEW s \in 1 .. Len(agenda), IsSong(agenda[s]),
         NEW song \in Songs, NEW ag,
         ag = [agenda EXCEPT ![s] = [id |-> agenda[s].id, what |-> song]]
  PROVE  /\ WellFormed(ag, nextId) /\ SongsStay(ag)
         /\ \A i \in DOMAIN agenda : i # s => \E j \in DOMAIN ag : ag[j] = agenda[i]
         /\ ag[s].id = agenda[s].id /\ s \in DOMAIN ag
         /\ ForeignOrder(ag) = ForeignOrder(agenda)
<1> DEFINE n == Len(agenda)
           x == [id |-> agenda[s].id, what |-> song]
<1>1. n \in Nat /\ DOMAIN agenda = 1 .. n /\ agenda \in Seq(Items) /\ agenda[s].id \in Nat
  BY AgendaTyped DEF Typed
<1>2. x \in Items /\ x.id = agenda[s].id /\ x.what = song
  BY <1>1 DEF Items, Whats
<1>3. ag = [agenda EXCEPT ![s] = x]
  OBVIOUS
<1> HIDE DEF x
<1>4. DOMAIN ag = 1 .. n /\ \A j \in 1 .. n : ag[j] = IF j = s THEN x ELSE agenda[j]
  BY <1>1, <1>3
<1>5. ag \in Seq(Items)
  <2>1. agenda \in [1 .. n -> Items]
    BY <1>1, LenProperties
  <2>2. ag \in [1 .. n -> Items]
    BY <1>2, <1>3, <2>1
  <2> QED
    BY <1>1, <2>2, SeqDef
<1> HIDE DEF n
<1>6. \A j \in 1 .. n : ag[j].id = agenda[j].id /\ (IsSong(ag[j]) <=> IsSong(agenda[j]))
  BY <1>2, <1>4 DEF IsSong
<1>7. WellFormed(ag, nextId)
  BY <1>1, <1>4, <1>5, <1>6 DEF WellFormed, ItemsAreDistinct
<1>8. SongsStay(ag)
  BY <1>1, <1>4, <1>6 DEF SongsStay
<1>9. s \in 1 .. n
  BY DEF n
<1>10. Foreign(ag) = Foreign(agenda) /\ \A i \in Foreign(agenda) : i \in 1 .. n /\ i # s
  BY <1>1, <1>4, <1>6 DEF Foreign
<1>11. ForeignOrder(ag) = ForeignOrder(agenda)
  <2> DEFINE f == [i \in Foreign(agenda) |-> i]
  <2>1. f \in [Foreign(agenda) -> Foreign(ag)] /\ \A i \in Foreign(agenda) : f[i] = i
    BY <1>10
  <2> HIDE DEF f
  <2>2. \A i \in Foreign(agenda) : ag[f[i]] = agenda[i]
    BY <1>4, <1>10, <2>1
  <2>3. \A i, j \in Foreign(agenda) : i <= j <=> f[i] <= f[j]
    BY <2>1
  <2>4. \A m \in Foreign(ag) : \E i \in Foreign(agenda) : f[i] = m
    BY <1>10, <2>1
  <2> QED
    BY <2>1, <2>2, <2>3, <2>4, SameForeignOrder
<1> QED
  BY <1>1, <1>4, <1>6, <1>7, <1>8, <1>9, <1>11

\* Two items change places.
LEMMA ItemMoved ==
  ASSUME Typed, ItemsAreDistinct, NEW s \in 1 .. Len(agenda) - 1, NEW ag,
         ag = [agenda EXCEPT ![s] = agenda[s + 1], ![s + 1] = agenda[s]]
  PROVE  WellFormed(ag, nextId) /\ SongsStay(ag)
<1> DEFINE n == Len(agenda)
           swap(j) == IF j = s THEN s + 1 ELSE IF j = s + 1 THEN s ELSE j
<1>1. n \in Nat /\ DOMAIN agenda = 1 .. n /\ agenda \in Seq(Items) /\ s \in 1 .. n /\ s + 1 \in 1 .. n
  BY AgendaTyped DEF Typed
<1>2. DOMAIN ag = 1 .. n /\ \A j \in 1 .. n : swap(j) \in 1 .. n /\ ag[j] = agenda[swap(j)]
  BY <1>1
<1>3. \A i, j \in 1 .. n : swap(i) = swap(j) => i = j
  BY <1>1
<1> HIDE DEF swap
<1>4. ag \in Seq(Items)
  <2>1. agenda[s] \in Items /\ agenda[s + 1] \in Items /\ agenda \in [1 .. n -> Items]
    BY <1>1, LenProperties, ElementOfSeq
  <2>2. ag \in [1 .. n -> Items]
    BY <1>1, <2>1
  <2> QED
    BY <1>1, <2>2, SeqDef
<1> HIDE DEF n
<1>5. WellFormed(ag, nextId)
  <2>1. /\ \A i \in 1 .. n : agenda[i].id \in 1 .. nextId - 1
        /\ \A i, j \in 1 .. n : agenda[i].id = agenda[j].id => i = j
    BY <1>1 DEF ItemsAreDistinct
  <2>2. \A j \in 1 .. n : ag[j].id \in 1 .. nextId - 1
    BY <1>2, <2>1
  <2>3. ASSUME NEW i \in 1 .. n, NEW j \in 1 .. n, ag[i].id = ag[j].id PROVE i = j
    <3>1. swap(i) = swap(j)
      BY <1>2, <2>1, <2>3
    <3> QED
      BY <1>3, <3>1
  <2> QED
    BY <1>2, <1>4, <2>2, <2>3, SMTT(40) DEF WellFormed
<1>6. SongsStay(ag)
  BY <1>1, <1>2 DEF SongsStay, IsSong
<1> QED
  BY <1>5, <1>6

-----------------------------------------------------------------------------
(* One action of a plan *)

\* The next action of a plan and those after it
LEMMA NextAction ==
  ASSUME IInv, NEW p \in Profiles, job[p].todo # <<>>
  PROVE  LET todo == job[p].todo IN
         /\ job[p].pc # "idle" /\ todo \in Seq(Actions) /\ 1 \in DOMAIN todo
         /\ Head(todo) = todo[1] /\ Head(todo) \in Actions /\ Permitted(p, Head(todo))
         /\ Tail(todo) \in Seq(Actions)
         /\ \A i \in DOMAIN Tail(todo) :
              i + 1 \in DOMAIN todo /\ i + 1 # 1 /\ Tail(todo)[i] = todo[i + 1]
         /\ \A i \in DOMAIN todo : i # 1 => i - 1 \in DOMAIN Tail(todo) /\ Tail(todo)[i - 1] = todo[i]
         /\ \A i, j \in DOMAIN Tail(todo) : i + 1 = j + 1 => i = j
<1> DEFINE todo == job[p].todo
           n == Len(todo)
<1>1. todo \in Seq(Actions) /\ job[p].pc # "idle"
  BY DEF IInv, Typed, Jobs
<1>2. todo # <<>>
  OBVIOUS
<1>3. \A i \in DOMAIN todo : Permitted(p, todo[i])
  BY DEF IInv, PlansArePermitted
<1> HIDE DEF todo
<1>4. n \in Nat /\ DOMAIN todo = 1 .. n /\ n # 0
  BY <1>1, <1>2, LenProperties, EmptySeq
<1>5. /\ Head(todo) \in Actions /\ Tail(todo) \in Seq(Actions) /\ Len(Tail(todo)) = n - 1
      /\ \A i \in 1 .. Len(Tail(todo)) : Tail(todo)[i] = todo[i + 1]
  BY <1>1, <1>2, HeadTailProperties
<1>6. DOMAIN Tail(todo) = 1 .. n - 1
  BY <1>5, LenProperties
<1>7. Head(todo) = todo[1]
  BY <1>1, <1>2
<1> HIDE DEF n
<1>8. 1 \in DOMAIN todo /\ Permitted(p, Head(todo))
  BY <1>3, <1>4, <1>7
<1>9. \A i \in 1 .. n - 1 : i + 1 \in 1 .. n /\ i + 1 # 1 /\ Tail(todo)[i] = todo[i + 1]
  BY <1>4, <1>5
<1>10. \A i \in 1 .. n : i # 1 => i - 1 \in 1 .. n - 1 /\ Tail(todo)[i - 1] = todo[i]
  <2>1. SUFFICES ASSUME NEW i \in 1 .. n, i # 1
                 PROVE  i - 1 \in 1 .. n - 1 /\ Tail(todo)[i - 1] = todo[i]
    OBVIOUS
  <2>2. i - 1 \in 1 .. n - 1 /\ (i - 1) + 1 = i
    BY <1>4, <2>1
  <2> QED
    BY <1>9, <2>2
<1>11. \A i, j \in 1 .. n - 1 : i + 1 = j + 1 => i = j
  BY <1>4
<1> QED
  BY <1>1, <1>4, <1>5, <1>6, <1>7, <1>8, <1>9, <1>10, <1>11 DEF todo

\* What an action makes of the agenda: it is well formed, songs stay songs, the foreign
\* items keep their order, and only the item the action is about changes.
LEMMA AppliedAgenda ==
  ASSUME IInv, NEW p \in Profiles, job[p].todo # <<>>, NEW a, a = Head(job[p].todo),
         ~Refused(p, a), NEW id, id = IF a.kind = "insert" THEN nextId ELSE a.item,
         NEW ag, ag = Applied(a, id, job[p].made)
  PROVE  /\ WellFormed(ag, IF a.kind = "insert" THEN nextId + 1 ELSE nextId)
         /\ SongsStay(ag) /\ ForeignOrder(ag) = ForeignOrder(agenda)
         /\ \A i \in DOMAIN agenda :
              (a.kind \in {"replace", "delete"} => agenda[i].id # a.item) =>
                \E j \in DOMAIN ag : ag[j] = agenda[i]
         /\ a.kind # "delete" => Ids(agenda) \subseteq Ids(ag)
<1>1. a \in Actions /\ Permitted(p, a)
  BY NextAction
<1>2. a.kind \in Kinds /\ a.song \in Songs /\ a.song \in Whats
  BY <1>1 DEF Actions, Whats
<1>3. Typed /\ ItemsAreDistinct
  BY DEF IInv
<1>4. Len(agenda) \in Nat /\ DOMAIN agenda = 1 .. Len(agenda)
  BY <1>3, AgendaTyped
<1>5. (\A i \in DOMAIN agenda : \E j \in DOMAIN ag : ag[j] = agenda[i]) => Ids(agenda) \subseteq Ids(ag)
  BY SMTT(40) DEF Ids
<1>6. CASE a.kind = "insert"
  <2> DEFINE s == Slot(a, job[p].made)
             at == At(Neighbour(a, job[p].made))
  <2>1. at # 0 /\ at \in 0 .. Len(agenda)
    BY <1>3, <1>6, AtProperties DEF Refused
  <2>2. s = at + (IF a.before # NoItem THEN 0 ELSE 1)
    BY DEF Slot
  <2>3. ag = InsertAt(agenda, s, [id |-> nextId, what |-> a.song])
    BY <1>6 DEF Applied
  <2> HIDE DEF s, at
  <2>4. s \in 1 .. Len(agenda) + 1
    BY <1>4, <2>1, <2>2
  <2>5. /\ WellFormed(ag, nextId + 1) /\ SongsStay(ag) /\ ForeignOrder(ag) = ForeignOrder(agenda)
        /\ \A i \in DOMAIN agenda : \E j \in DOMAIN ag : ag[j] = agenda[i]
    BY <1>2, <1>3, <2>3, <2>4, ItemInserted, SMTT(40)
  <2> QED
    BY <1>5, <1>6, <2>5
<1>7. ASSUME a.kind \in {"replace", "delete"}
      PROVE  /\ At(a.item) \in 1 .. Len(agenda) /\ agenda[At(a.item)].id = a.item
             /\ IsSong(agenda[At(a.item)]) /\ id = a.item
  <2>1. At(a.item) # 0
    BY <1>7 DEF Refused
  <2>2. At(a.item) \in 1 .. Len(agenda) /\ agenda[At(a.item)].id = a.item
    BY <1>3, <1>4, <2>1, AtProperties
  <2> QED
    BY <1>1, <1>4, <1>7, <2>2 DEF Permitted
<1>8. CASE a.kind = "replace"
  <2> DEFINE s == At(a.item)
  <2>1. s \in 1 .. Len(agenda) /\ agenda[s].id = a.item /\ IsSong(agenda[s]) /\ id = a.item
    BY <1>7, <1>8
  <2>2. ag = [agenda EXCEPT ![s] = [id |-> agenda[s].id, what |-> a.song]]
    BY <1>8, <2>1 DEF Applied, ReplaceAt
  <2> HIDE DEF s
  <2>3. /\ WellFormed(ag, nextId) /\ SongsStay(ag) /\ ForeignOrder(ag) = ForeignOrder(agenda)
        /\ \A i \in DOMAIN agenda : i # s => \E j \in DOMAIN ag : ag[j] = agenda[i]
        /\ ag[s].id = agenda[s].id /\ s \in DOMAIN ag
    BY <1>2, <1>3, <2>1, <2>2, ItemReplaced, ZenonT(40)
  <2>4. Ids(agenda) \subseteq Ids(ag)
    <3>1. \A i \in DOMAIN agenda : \E j \in DOMAIN ag : ag[j].id = agenda[i].id
      BY <2>3, ZenonT(40)
    <3> QED
      BY <3>1, SMTT(40) DEF Ids
  <2> QED
    BY <1>8, <2>1, <2>3, <2>4
<1>9. CASE a.kind = "delete"
  <2> DEFINE s == At(a.item)
  <2>1. s \in 1 .. Len(agenda) /\ agenda[s].id = a.item /\ IsSong(agenda[s]) /\ id = a.item
    BY <1>7, <1>9
  <2>2. ag = RemoveAt(agenda, s)
    BY <1>9, <2>1 DEF Applied
  <2> HIDE DEF s
  <2>3. /\ WellFormed(ag, nextId) /\ SongsStay(ag) /\ ForeignOrder(ag) = ForeignOrder(agenda)
        /\ \A i \in DOMAIN agenda : i # s => \E j \in DOMAIN ag : ag[j] = agenda[i]
    BY <1>3, <2>1, <2>2, ItemRemoved
  <2> QED
    BY <1>9, <2>1, <2>3
<1>10. CASE a.kind \in {"noop", "cleanup"}
  <2>1. ag = agenda
    BY <1>10 DEF Applied
  <2>2. WellFormed(agenda, nextId) /\ SongsStay(agenda)
    BY <1>3 DEF WellFormed, SongsStay, Typed, ItemsAreDistinct
  <2> QED
    BY <1>5, <1>10, <2>1, <2>2
<1> QED
  BY <1>2, <1>6, <1>8, <1>9, <1>10 DEF Kinds

-----------------------------------------------------------------------------
(* The inductive invariant is one *)

LEMMA IdleIsAJob == Idle \in Jobs /\ Idle.todo = <<>> /\ Idle.pc = "idle"
BY EmptySeq DEF Idle, Jobs

LEMMA InitEstablishes == Init => IInv
<1> SUFFICES ASSUME Init PROVE IInv
  OBVIOUS
<1>1. /\ agenda \in Agendas /\ nextId = 10 /\ service \in Services
      /\ config \in [Profiles -> AllConfigs] /\ \A p \in Profiles : config[p] \in Configs[p]
      /\ binding = {} /\ checkpoint = [p \in Profiles |-> <<>>]
      /\ job = [p \in Profiles |-> Idle] /\ written = [p \in Profiles |-> {}]
      /\ complete = {} /\ disturbed = {}
  BY DEF Init, AllConfigs
<1>2. /\ agenda \in Seq(Range(agenda))
      /\ \A i \in DOMAIN agenda : agenda[i] = [id |-> agenda[i].id, what |-> agenda[i].what]
      /\ \A i \in DOMAIN agenda : agenda[i].id \in 1 .. 9
      /\ \A i, j \in DOMAIN agenda : agenda[i].id = agenda[j].id => i = j
  BY <1>1, PlannerAssumption
<1>3. \A i \in DOMAIN agenda : agenda[i].what \in Whats
  BY <1>1 DEF Whats
<1>4. agenda \in Seq(Items)
  <2>1. \A i \in DOMAIN agenda : agenda[i] \in Items
    BY <1>2, <1>3 DEF Items
  <2>2. Range(agenda) \subseteq Items
    BY <2>1 DEF Range
  <2> QED
    BY <1>2, <2>2, SeqMonotonic
<1>5. ItemsAreDistinct
  BY <1>1, <1>2 DEF ItemsAreDistinct
<1>6. Idle \in Jobs /\ Idle.todo = <<>> /\ Idle.pc = "idle"
  BY IdleIsAJob
<1>7. budget \in [{"run", "change", "edit", "stop"} -> Nat]
  BY PlannerAssumption DEF Init
<1>8. IsFiniteSet(binding)
  BY <1>1, FS_EmptySet
<1>9. Typed
  BY <1>1, <1>4, <1>6, <1>7, <1>8 DEF Typed
<1>10. BindingsAreExclusive /\ OneApplies /\ PlansAreThorough /\ CompleteIsWanted
  BY <1>1, <1>6 DEF BindingsAreExclusive, OneApplies, PlansAreThorough, CompleteIsWanted
<1>11. PlansArePermitted
  <2>1. \A p \in Profiles : DOMAIN job[p].todo = {}
    BY <1>1, <1>6
  <2> QED
    BY <2>1 DEF PlansArePermitted, ReleasesAreDistinct
<1> QED
  BY <1>5, <1>9, <1>10, <1>11 DEF IInv

\* Every action pays from its budget or leaves it.
LEMMA SpendKeeps ==
  ASSUME Typed, NEW what \in {"run", "change", "edit", "stop"}, Spend(what)
  PROVE  budget' \in [{"run", "change", "edit", "stop"} -> Nat]
BY DEF Spend, Typed

\* A profile gets a plan.
LEMMA PlanKeeps ==
  ASSUME IInv, NEW p \in Profiles, Plan(p)
  PROVE  IInv'
<1> DEFINE new == [Idle EXCEPT !.pc = "planned", !.todo = PlanOf(p).acts,
                               !.expect = agenda, !.from = <<service, config[p]>>]
<1>1. /\ UNCHANGED <<agenda, nextId, service, config, binding, checkpoint, written, shifted>>
      /\ Spend("run")
  BY DEF Plan
<1>2. Typed /\ ItemsAreDistinct /\ BindingsAreExclusive
  BY DEF IInv
<1>3. budget' \in [{"run", "change", "edit", "stop"} -> Nat]
  BY <1>1, <1>2, SpendKeeps
<1>4. CASE UNCHANGED <<job, complete, disturbed>>
  <2>1. Typed'
    BY <1>1, <1>2, <1>3, <1>4 DEF Typed
  <2> QED
    BY <1>1, <1>4, <2>1 DEF IInv, ItemsAreDistinct, BindingsAreExclusive, OneApplies, Permitted,
       OwnedByOther, BoundTo, IsSong, PlansArePermitted, PlansAreThorough, CompleteIsWanted
<1>5. CASE /\ PlanOf(p).ready /\ job' = [job EXCEPT ![p] = new]
           /\ complete' = complete \ {p} /\ disturbed' = disturbed \ {p}
  <2>1. /\ PlanOf(p).acts \in Seq(Actions)
        /\ \A i \in DOMAIN PlanOf(p).acts : LET a == PlanOf(p).acts[i] IN
             /\ Permitted(p, a)
             /\ Claims(a) => a.key \in Wants(p)
             /\ a.kind = "replace" => ~OwnedByOther(p, a.item)
        /\ ReleasesAreDistinct(PlanOf(p).acts)
        /\ \A b \in binding : b.by = p =>
             \/ b.key \in Wants(p)
             \/ \E i \in DOMAIN PlanOf(p).acts : Settles(PlanOf(p).acts[i], b.item)
    BY <1>2, <1>5, PlanFacts
  <2> DEFINE acts == PlanOf(p).acts
  <2>2. <<service, config[p]>> \in Origins
    BY <1>2 DEF Typed, Origins
  <2> HIDE DEF acts
  <2>3. /\ new.pc = "planned" /\ new.todo = acts /\ new.from = <<service, config[p]>>
    BY DEF Idle, acts
  <2>4. new \in Jobs
    <3>1. acts \in Seq(Actions) /\ agenda \in Seq(Items)
      BY <1>2, <2>1 DEF Typed, acts
    <3>2. Idle \in Jobs
      BY IdleIsAJob
    <3> QED
      BY <2>2, <3>1, <3>2 DEF Jobs, acts
  <2> HIDE DEF new
  <2>5. /\ job' \in [Profiles -> Jobs] /\ job'[p] = new
        /\ \A q \in Profiles \ {p} : job'[q] = job[q]
    BY <1>2, <1>5, <2>4 DEF Typed
  <2>6. \A q \in Profiles : job'[q].pc = "idle" => job'[q].todo = <<>>
    BY <1>2, <2>3, <2>5 DEF Typed
  <2>7. Typed'
    BY <1>1, <1>2, <1>3, <1>5, <2>5, <2>6 DEF Typed
  <2>8. ItemsAreDistinct' /\ BindingsAreExclusive'
    BY <1>1, <1>2 DEF ItemsAreDistinct, BindingsAreExclusive
  <2>9. OneApplies'
    BY <2>3, <2>5 DEF IInv, OneApplies
  <2>10. PlansArePermitted'
    <3>1. ASSUME NEW q \in Profiles \ {p}, NEW a, Permitted(q, a) PROVE Permitted(q, a)'
      <4>1. q \in disturbed' <=> q \in disturbed
        BY <1>5
      <4> QED
        BY <1>1, <3>1, <4>1 DEF Permitted, OwnedByOther, BoundTo, IsSong
    <3>2. ASSUME NEW a, Permitted(p, a), a.kind = "replace" => ~OwnedByOther(p, a.item)
          PROVE  Permitted(p, a)'
      BY <1>1, <3>2 DEF Permitted, OwnedByOther, BoundTo, IsSong
    <3>3. ASSUME NEW q \in Profiles, NEW i \in DOMAIN job'[q].todo
          PROVE  Permitted(q, job[q].todo[i])'
      <4>1. CASE q = p
        BY <2>1, <2>3, <2>5, <3>2, <4>1 DEF acts
      <4>2. CASE q # p
        BY <2>5, <3>1, <4>2 DEF IInv, PlansArePermitted
      <4> QED
        BY <4>1, <4>2
    <3>4. ASSUME NEW q \in Profiles PROVE ReleasesAreDistinct(job[q].todo)'
      <4>1. CASE q = p
        BY <2>1, <2>3, <2>5, <4>1 DEF acts
      <4>2. CASE q # p
        BY <2>5, <4>2 DEF IInv, PlansArePermitted
      <4> QED
        BY <4>1, <4>2
    <3> QED
      BY <3>3, <3>4 DEF PlansArePermitted
  <2>11. PlansAreThorough'
    <3>1. ASSUME NEW q \in Profiles \ {p}, job'[q].pc # "idle" PROVE
            /\ q \notin complete' /\ job'[q].from \in Origins
            /\ \A i \in DOMAIN job'[q].todo : Claims(job'[q].todo[i]) =>
                 job'[q].todo[i].key \in Wanted(job'[q].from[2], job'[q].from[1])
            /\ \A b \in binding' : b.by = q =>
                 \/ b.key \in Wanted(job'[q].from[2], job'[q].from[1])
                 \/ \E i \in DOMAIN job'[q].todo : Settles(job'[q].todo[i], b.item)
      BY <1>1, <1>5, <2>5, <3>1 DEF IInv, PlansAreThorough
    <3>2. Wants(p) = Wanted(new.from[2], new.from[1])
      BY <2>3 DEF Wants
    <3>3. /\ p \notin complete' /\ job'[p].from \in Origins
          /\ \A i \in DOMAIN job'[p].todo : Claims(job'[p].todo[i]) =>
               job'[p].todo[i].key \in Wanted(job'[p].from[2], job'[p].from[1])
          /\ \A b \in binding' : b.by = p =>
               \/ b.key \in Wanted(job'[p].from[2], job'[p].from[1])
               \/ \E i \in DOMAIN job'[p].todo : Settles(job'[p].todo[i], b.item)
      BY <1>1, <1>5, <2>1, <2>2, <2>3, <2>5, <3>2 DEF acts
    <3> QED
      BY <3>1, <3>3 DEF PlansAreThorough, Settles
  <2>12. CompleteIsWanted'
    BY <1>1, <1>5 DEF IInv, CompleteIsWanted
  <2> QED
    BY <2>7, <2>8, <2>9, <2>10, <2>11, <2>12 DEF IInv
<1> QED
  BY <1>4, <1>5 DEF Plan

\* Rights remain while songs stay songs and nobody else takes the item.
LEMMA RightsRemain ==
  ASSUME IInv, NEW q \in Profiles, NEW a, Permitted(q, a),
         nextId' \in {nextId, nextId + 1}, SongsStay(agenda'), written[q] \subseteq written'[q],
         a.kind = "delete" => BoundTo(q, a.item)',
         a.kind = "replace" /\ q \notin disturbed' => ~OwnedByOther(q, a.item)'
  PROVE  Permitted(q, a)'
<1>1. nextId \in Nat
  BY DEF IInv, Typed
<1>2. a.kind # "insert" => a.item \in 1 .. nextId - 1 /\ a.item \in 1 .. nextId' - 1 /\ a.item # nextId
  BY <1>1 DEF Permitted
<1>3. a.kind \in {"replace", "delete"} =>
        \A j \in DOMAIN agenda' : agenda'[j].id = a.item => IsSong(agenda'[j])
  <2>1. SUFFICES ASSUME a.kind \in {"replace", "delete"}, NEW j \in DOMAIN agenda',
                        agenda'[j].id = a.item
                 PROVE  IsSong(agenda'[j])
    OBVIOUS
  <2>2. agenda'[j].id # nextId
    BY <1>2, <2>1
  <2>3. PICK i \in DOMAIN agenda : /\ agenda[i].id = agenda'[j].id
                                   /\ IsSong(agenda[i]) => IsSong(agenda'[j])
    BY <2>2 DEF SongsStay
  <2> QED
    BY <2>1, <2>3 DEF Permitted
<1>4. a.owned \/ a.kind = "delete" => a.item \in written'[q]
  BY DEF Permitted
<1> QED
  BY <1>2, <1>3, <1>4 DEF Permitted, IsSong

\* What a step does to the agenda when it leaves the bindings alone and at most ends runs.
LEMMA QuietStepKeeps ==
  ASSUME IInv, WellFormed(agenda', nextId'), SongsStay(agenda'), nextId' \in {nextId, nextId + 1},
         service' \in Services, config' \in [Profiles -> AllConfigs],
         \A q \in Profiles : config'[q] \in Configs[q],
         UNCHANGED <<binding, checkpoint, complete>>,
         job' \in [Profiles -> Jobs], \A q \in Profiles : job'[q] \in {job[q], Idle},
         written' \in [Profiles -> SUBSET Nat],
         \A q \in Profiles : written[q] \subseteq written'[q],
         disturbed \subseteq disturbed', disturbed' \subseteq Profiles,
         budget' \in [{"run", "change", "edit", "stop"} -> Nat]
  PROVE  IInv'
<1>1. Typed /\ nextId \in Nat /\ nextId >= 10 /\ nextId' \in Nat /\ nextId' >= nextId
  BY DEF IInv, Typed
<1>2. \A q \in Profiles : job'[q].pc = "idle" => job'[q].todo = <<>>
  BY <1>1, IdleIsAJob DEF Typed
<1>3. Typed'
  BY <1>1, <1>2 DEF Typed, WellFormed
<1>4. ItemsAreDistinct'
  BY DEF WellFormed, ItemsAreDistinct
<1>5. BindingsAreExclusive'
  <2>1. ASSUME NEW b \in binding PROVE b.item \in 1 .. nextId' - 1 /\ b.item \in written'[b.by]
    <3>1. b.item \in 1 .. nextId - 1 /\ b.item \in written[b.by] /\ b.by \in Profiles
      BY <1>1 DEF IInv, BindingsAreExclusive, Typed, Bindings
    <3> QED
      BY <1>1, <3>1
  <2> QED
    BY <2>1 DEF IInv, BindingsAreExclusive
<1>6. OneApplies'
  BY IdleIsAJob DEF IInv, OneApplies
<1>7. PlansArePermitted'
  <2>1. ASSUME NEW q \in Profiles, NEW a, Permitted(q, a) PROVE Permitted(q, a)'
    <3>1. a.kind = "delete" => BoundTo(q, a.item)'
      BY <2>1 DEF Permitted, BoundTo
    <3>2. a.kind = "replace" /\ q \notin disturbed' => ~OwnedByOther(q, a.item)'
      BY <2>1 DEF Permitted, OwnedByOther
    <3> QED
      BY <2>1, <3>1, <3>2, RightsRemain
  <2>2. ASSUME NEW q \in Profiles
        PROVE  /\ \A i \in DOMAIN job'[q].todo : Permitted(q, job'[q].todo[i])
               /\ ReleasesAreDistinct(job'[q].todo)
    <3>1. CASE job'[q] = job[q]
      BY <3>1 DEF IInv, PlansArePermitted
    <3>2. CASE job'[q] = Idle
      <4>1. DOMAIN job'[q].todo = {}
        BY <3>2, IdleIsAJob
      <4> QED
        BY <4>1 DEF ReleasesAreDistinct
    <3> QED
      BY <3>1, <3>2
  <2> QED
    BY <2>1, <2>2 DEF PlansArePermitted
<1>8. PlansAreThorough'
  <2>1. ASSUME NEW q \in Profiles, job'[q].pc # "idle" PROVE job'[q] = job[q]
    BY <2>1, IdleIsAJob
  <2> QED
    BY <2>1 DEF IInv, PlansAreThorough
<1>9. CompleteIsWanted'
  BY DEF IInv, CompleteIsWanted
<1> QED
  BY <1>3, <1>4, <1>5, <1>6, <1>7, <1>8, <1>9 DEF IInv

\* The agenda as it stands
LEMMA AgendaUnchanged ==
  ASSUME Typed, ItemsAreDistinct
  PROVE  WellFormed(agenda, nextId) /\ SongsStay(agenda)
BY DEF Typed, ItemsAreDistinct, WellFormed, SongsStay

LEMMA DropKeepsJobs ==
  ASSUME Typed, NEW p \in Profiles, Drop(p)
  PROVE  /\ job' \in [Profiles -> Jobs] /\ \A q \in Profiles : job'[q] \in {job[q], Idle}
         /\ job'[p] = Idle /\ \A q \in Profiles \ {p} : job'[q] = job[q]
BY IdleIsAJob DEF Drop, Typed

LEMMA StopKeeps ==
  ASSUME IInv, NEW p \in Profiles, Stop(p)
  PROVE  IInv'
<1>1. Typed /\ ItemsAreDistinct
  BY DEF IInv
<1>2. /\ Drop(p) /\ Spend("stop")
      /\ UNCHANGED <<agenda, nextId, service, config, binding, checkpoint, written, complete,
                     disturbed>>
  BY DEF Stop
<1>3. WellFormed(agenda, nextId) /\ SongsStay(agenda)
  BY <1>1, AgendaUnchanged
<1>4. budget' \in [{"run", "change", "edit", "stop"} -> Nat]
  BY <1>1, <1>2, SpendKeeps
<1>5. job' \in [Profiles -> Jobs] /\ \A q \in Profiles : job'[q] \in {job[q], Idle}
  BY <1>1, <1>2, DropKeepsJobs
<1>6. WellFormed(agenda', nextId') /\ SongsStay(agenda')
  BY <1>2, <1>3
<1>7. /\ nextId' \in {nextId, nextId + 1} /\ service' \in Services
      /\ config' \in [Profiles -> AllConfigs] /\ \A q \in Profiles : config'[q] \in Configs[q]
      /\ written' \in [Profiles -> SUBSET Nat]
      /\ \A q \in Profiles : written[q] \subseteq written'[q]
      /\ disturbed \subseteq disturbed' /\ disturbed' \subseteq Profiles
  BY <1>1, <1>2 DEF Typed
<1> QED
  BY <1>2, <1>4, <1>5, <1>6, <1>7, QuietStepKeeps

LEMMA StartKeeps ==
  ASSUME IInv, NEW p \in Profiles, Start(p)
  PROVE  IInv'
<1>1. Typed /\ ItemsAreDistinct
  BY DEF IInv
<1>2. /\ job[p].pc = "planned"
      /\ UNCHANGED <<agenda, nextId, service, config, binding, checkpoint, written, complete,
                     disturbed, budget>>
  BY DEF Start
<1>3. CASE Drop(p)
  <2>1. WellFormed(agenda', nextId') /\ SongsStay(agenda')
    BY <1>1, <1>2, AgendaUnchanged
  <2>2. job' \in [Profiles -> Jobs] /\ \A q \in Profiles : job'[q] \in {job[q], Idle}
    BY <1>1, <1>3, DropKeepsJobs
  <2>3. /\ nextId' \in {nextId, nextId + 1} /\ service' \in Services
        /\ config' \in [Profiles -> AllConfigs] /\ \A q \in Profiles : config'[q] \in Configs[q]
        /\ written' \in [Profiles -> SUBSET Nat]
        /\ \A q \in Profiles : written[q] \subseteq written'[q]
        /\ disturbed \subseteq disturbed' /\ disturbed' \subseteq Profiles
        /\ budget' \in [{"run", "change", "edit", "stop"} -> Nat]
    BY <1>1, <1>2 DEF Typed
  <2> QED
    BY <1>2, <2>1, <2>2, <2>3, QuietStepKeeps
<1>4. CASE ~Locked(p) /\ job' = [job EXCEPT ![p].pc = "applying"]
  <2>1. /\ job' \in [Profiles -> Jobs] /\ job'[p].pc = "applying"
        /\ job'[p].todo = job[p].todo /\ job'[p].from = job[p].from
        /\ \A q \in Profiles \ {p} : job'[q] = job[q]
    BY <1>1, <1>4, ZenonT(40) DEF Typed, Jobs
  <2>2. Typed'
    BY <1>1, <1>2, <2>1 DEF Typed
  <2>3. ItemsAreDistinct' /\ BindingsAreExclusive' /\ CompleteIsWanted'
    BY <1>2 DEF IInv, ItemsAreDistinct, BindingsAreExclusive, CompleteIsWanted
  <2>4. OneApplies'
    BY <1>4, <2>1 DEF OneApplies, Locked
  <2>5. \A q \in Profiles : /\ job'[q].todo = job[q].todo /\ job'[q].from = job[q].from
                            /\ job'[q].pc # "idle" => job[q].pc # "idle"
    BY <1>2, <2>1
  <2>6. PlansArePermitted'
    <3>1. ASSUME NEW q \in Profiles, NEW a, Permitted(q, a) PROVE Permitted(q, a)'
      BY <1>2, <3>1 DEF Permitted, OwnedByOther, BoundTo
    <3> QED
      BY <2>5, <3>1 DEF IInv, PlansArePermitted
  <2>7. PlansAreThorough'
    BY <1>2, <2>5 DEF IInv, PlansAreThorough
  <2> QED
    BY <2>2, <2>3, <2>4, <2>6, <2>7 DEF IInv
<1> QED
  BY <1>3, <1>4 DEF Start

\* After its last action a plan has left the profile nothing that it does not want.
LEMMA CheckpointKeeps ==
  ASSUME IInv, NEW p \in Profiles, Checkpoint(p)
  PROVE  IInv'
<1>1. Typed /\ ItemsAreDistinct
  BY DEF IInv
<1>2. /\ job[p].pc = "applying" /\ job[p].todo = <<>> /\ Drop(p)
      /\ checkpoint' = [checkpoint EXCEPT ![p] = job[p].from] /\ complete' = complete \cup {p}
      /\ UNCHANGED <<agenda, nextId, service, config, binding, written, disturbed, budget>>
  BY DEF Checkpoint
<1>3. /\ job' \in [Profiles -> Jobs] /\ job'[p] = Idle
      /\ \A q \in Profiles \ {p} : job'[q] = job[q]
  BY <1>1, <1>2, DropKeepsJobs
<1>4. job[p].from \in Origins
  BY <1>2 DEF IInv, PlansAreThorough
<1>5. checkpoint' \in [Profiles -> Origins \cup {<<>>}]
  BY <1>1, <1>2, <1>4 DEF Typed
<1>6. \A q \in Profiles : job'[q].pc = "idle" => job'[q].todo = <<>>
  BY <1>1, <1>3, IdleIsAJob DEF Typed
<1>7. Typed'
  BY <1>1, <1>2, <1>3, <1>5, <1>6 DEF Typed
<1>8. ItemsAreDistinct' /\ BindingsAreExclusive'
  BY <1>2 DEF IInv, ItemsAreDistinct, BindingsAreExclusive
<1>9. OneApplies'
  BY <1>3, IdleIsAJob DEF IInv, OneApplies
<1>10. PlansArePermitted'
  <2>1. ASSUME NEW q \in Profiles, NEW a, Permitted(q, a) PROVE Permitted(q, a)'
    BY <1>2, <2>1 DEF Permitted, OwnedByOther, BoundTo
  <2>2. ASSUME NEW q \in Profiles
        PROVE  /\ \A i \in DOMAIN job'[q].todo : Permitted(q, job'[q].todo[i])
               /\ ReleasesAreDistinct(job'[q].todo)
    <3>1. CASE q # p
      BY <1>3, <3>1 DEF IInv, PlansArePermitted
    <3>2. CASE q = p
      <4>1. DOMAIN job'[q].todo = {}
        BY <1>3, <3>2, IdleIsAJob
      <4> QED
        BY <4>1 DEF ReleasesAreDistinct
    <3> QED
      BY <3>1, <3>2
  <2> QED
    BY <2>1, <2>2 DEF PlansArePermitted
<1>11. PlansAreThorough'
  <2>1. \A q \in Profiles : job'[q].pc # "idle" => q # p /\ job'[q] = job[q]
    BY <1>3, IdleIsAJob
  <2> QED
    BY <1>2, <2>1 DEF IInv, PlansAreThorough
<1>12. CompleteIsWanted'
  <2>1. \A b \in binding : b.by = p => b.key \in Wanted(job[p].from[2], job[p].from[1])
    <3>1. DOMAIN job[p].todo = {}
      BY <1>2
    <3> QED
      BY <1>2, <3>1 DEF IInv, PlansAreThorough
  <2>2. checkpoint'[p] = job[p].from /\ \A q \in Profiles \ {p} : checkpoint'[q] = checkpoint[q]
    BY <1>1, <1>2 DEF Typed
  <2>3. ASSUME NEW q \in complete, q # p
        PROVE  /\ checkpoint'[q] \in Origins
               /\ \A b \in binding' : b.by = q => b.key \in Wanted(checkpoint'[q][2], checkpoint'[q][1])
    <3>1. q \in Profiles
      BY <1>1 DEF Typed
    <3> QED
      BY <1>2, <2>2, <2>3, <3>1 DEF IInv, CompleteIsWanted
  <2>4. /\ checkpoint'[p] \in Origins
        /\ \A b \in binding' : b.by = p => b.key \in Wanted(checkpoint'[p][2], checkpoint'[p][1])
    BY <1>2, <1>4, <2>1, <2>2
  <2> QED
    BY <1>2, <2>3, <2>4 DEF CompleteIsWanted
<1> QED
  BY <1>7, <1>8, <1>9, <1>10, <1>11, <1>12 DEF IInv

LEMMA SourceChangeKeeps ==
  ASSUME IInv, \/ \E s \in Services : ServiceChanges(s)
               \/ \E p \in Profiles : \E c \in Configs[p] : Reconfigure(p, c)
  PROVE  IInv'
<1>1. Typed /\ ItemsAreDistinct
  BY DEF IInv
<1>2. /\ Spend("change")
      /\ UNCHANGED <<agenda, nextId, binding, checkpoint, job, written, complete, disturbed>>
  BY DEF ServiceChanges, Reconfigure
<1>3. service' \in Services
  BY <1>1 DEF ServiceChanges, Reconfigure, Typed
<1>4. config' \in [Profiles -> AllConfigs] /\ \A q \in Profiles : config'[q] \in Configs[q]
  <2>1. CASE \E s \in Services : ServiceChanges(s)
    BY <1>1, <2>1 DEF ServiceChanges, Typed
  <2>2. CASE \E p \in Profiles : \E c \in Configs[p] : Reconfigure(p, c)
    <3>1. PICK p \in Profiles : \E c \in Configs[p] : config' = [config EXCEPT ![p] = c]
      BY <2>2 DEF Reconfigure
    <3>2. PICK c \in Configs[p] : config' = [config EXCEPT ![p] = c]
      BY <3>1
    <3>3. c \in AllConfigs
      BY <3>2 DEF AllConfigs
    <3> QED
      BY <1>1, <3>2, <3>3 DEF Typed
  <2> QED
    BY <2>1, <2>2
<1>5. WellFormed(agenda', nextId') /\ SongsStay(agenda')
  BY <1>1, <1>2, AgendaUnchanged
<1>6. budget' \in [{"run", "change", "edit", "stop"} -> Nat]
  BY <1>1, <1>2, SpendKeeps
<1>7. /\ nextId' \in {nextId, nextId + 1}
      /\ job' \in [Profiles -> Jobs] /\ \A q \in Profiles : job'[q] \in {job[q], Idle}
      /\ written' \in [Profiles -> SUBSET Nat]
      /\ \A q \in Profiles : written[q] \subseteq written'[q]
      /\ disturbed \subseteq disturbed' /\ disturbed' \subseteq Profiles
  BY <1>1, <1>2 DEF Typed
<1> QED
  BY <1>2, <1>3, <1>4, <1>5, <1>6, <1>7, QuietStepKeeps

LEMMA PersonEditsKeep ==
  ASSUME IInv, PersonEdits
  PROVE  IInv'
<1>1. Typed /\ ItemsAreDistinct
  BY DEF IInv
<1>2. Edited /\ nextId' \in {nextId, nextId + 1}
  BY DEF PersonEdits, PersonAdds, PersonMoves, PersonRemoves, PersonChanges
<1>3. /\ Spend("edit") /\ disturbed' = Profiles
      /\ UNCHANGED <<service, config, binding, checkpoint, job, written, complete>>
  BY <1>2 DEF Edited
<1>4. /\ Len(agenda) \in Nat /\ DOMAIN agenda = 1 .. Len(agenda)
      /\ \A i \in 1 .. Len(agenda) : agenda[i] \in Items
  BY <1>1, AgendaTyped
<1>5. WellFormed(agenda', nextId') /\ SongsStay(agenda')
  <2>1. CASE \E i \in 1 .. Len(agenda) + 1, what \in Additions : PersonAdds(i, what)
    <3>1. PICK i \in 1 .. Len(agenda) + 1, what \in Additions : PersonAdds(i, what)
      BY <2>1
    <3>2. /\ agenda' = InsertAt(agenda, i, [id |-> nextId, what |-> what])
          /\ nextId' = nextId + 1 /\ what \in Whats
      BY <3>1 DEF PersonAdds, Whats
    <3> QED
      BY <1>1, <3>2, ItemInserted
  <2>2. CASE \E i \in 1 .. Len(agenda) - 1 : PersonMoves(i)
    <3>1. PICK i \in 1 .. Len(agenda) - 1 : PersonMoves(i)
      BY <2>2
    <3>2. /\ agenda' = [agenda EXCEPT ![i] = agenda[i + 1], ![i + 1] = agenda[i]]
          /\ nextId' = nextId
      BY <3>1 DEF PersonMoves
    <3> QED
      BY <1>1, <3>2, ItemMoved
  <2>3. CASE \E i \in DOMAIN agenda : PersonRemoves(i)
    <3>1. PICK i \in 1 .. Len(agenda) : PersonRemoves(i)
      BY <1>4, <2>3
    <3>2. agenda' = RemoveAt(agenda, i) /\ nextId' = nextId
      BY <3>1 DEF PersonRemoves
    <3> QED
      BY <1>1, <3>2, ItemRemoved
  <2>4. CASE \E i \in DOMAIN agenda, song \in Additions \cap Songs : PersonChanges(i, song)
    <3>1. PICK i \in 1 .. Len(agenda), song \in Songs : PersonChanges(i, song)
      BY <1>4, <2>4
    <3>2. /\ agenda' = [agenda EXCEPT ![i].what = song] /\ nextId' = nextId
          /\ IsSong(agenda[i])
      BY <3>1 DEF PersonChanges
    <3>3. [agenda[i] EXCEPT !.what = song] = [id |-> agenda[i].id, what |-> song]
      BY <1>4 DEF Items
    <3>4. agenda' = [agenda EXCEPT ![i] = [id |-> agenda[i].id, what |-> song]]
      BY <3>2, <3>3
    <3> QED
      BY <1>1, <3>2, <3>4, ItemReplaced
  <2> QED
    BY <2>1, <2>2, <2>3, <2>4 DEF PersonEdits
<1>6. budget' \in [{"run", "change", "edit", "stop"} -> Nat]
  BY <1>1, <1>3, SpendKeeps
<1>7. /\ job' \in [Profiles -> Jobs] /\ \A q \in Profiles : job'[q] \in {job[q], Idle}
      /\ service' \in Services /\ config' \in [Profiles -> AllConfigs]
      /\ \A q \in Profiles : config'[q] \in Configs[q]
      /\ written' \in [Profiles -> SUBSET Nat]
      /\ \A q \in Profiles : written[q] \subseteq written'[q]
      /\ disturbed \subseteq disturbed' /\ disturbed' \subseteq Profiles
  BY <1>1, <1>3 DEF Typed
<1> QED
  BY <1>2, <1>3, <1>5, <1>6, <1>7, QuietStepKeeps

\* The next action of a run, whatever comes of it, and whose run it is that goes on
LEMMA ApplyNextAgenda ==
  ASSUME IInv, NEW p \in Profiles, ApplyNext(p)
  PROVE  /\ WellFormed(agenda', nextId') /\ SongsStay(agenda')
         /\ nextId' \in {nextId, nextId + 1}
         /\ written' \in [Profiles -> SUBSET Nat]
         /\ \A q \in Profiles : written[q] \subseteq written'[q]
         /\ disturbed \subseteq disturbed' /\ disturbed' \subseteq Profiles
         /\ \A q \in Profiles \ {p} : job[q].pc # "idle" => q \in disturbed'
<1> DEFINE a == Head(job[p].todo)
           id == IF a.kind = "insert" THEN nextId ELSE a.item
<1>1. Typed /\ ItemsAreDistinct
  BY DEF IInv
<1>2. job[p].todo # <<>> /\ disturbed' = disturbed \cup Disturbs(p)
  BY DEF ApplyNext
<1>3. /\ disturbed \subseteq disturbed' /\ disturbed' \subseteq Profiles
      /\ \A q \in Profiles \ {p} : job[q].pc # "idle" => q \in disturbed'
  BY <1>1, <1>2 DEF Typed, Disturbs
<1>4. CASE Refused(p, a)
  <2>1. UNCHANGED <<agenda, nextId, written>>
    BY <1>4 DEF ApplyNext
  <2>2. WellFormed(agenda', nextId') /\ SongsStay(agenda')
    BY <1>1, <2>1, AgendaUnchanged
  <2> QED
    BY <1>1, <1>3, <2>1, <2>2 DEF Typed
<1>5. CASE ~Refused(p, a)
  <2>1. /\ agenda' = Applied(a, id, job[p].made)
        /\ nextId' = IF a.kind = "insert" THEN nextId + 1 ELSE nextId
        /\ written' = IF a.kind \in {"insert", "replace"}
                      THEN [written EXCEPT ![p] = @ \cup {id}] ELSE written
    BY <1>5 DEF ApplyNext
  <2>2. a \in Actions /\ nextId \in Nat
    BY <1>1, <1>2, NextAction DEF Typed
  <2>3. id \in Nat
    BY <2>2 DEF Actions
  <2> HIDE DEF a, id
  <2>4. WellFormed(agenda', nextId') /\ SongsStay(agenda')
    BY <1>2, <1>5, <2>1, AppliedAgenda DEF a, id
  <2>5. /\ written' \in [Profiles -> SUBSET Nat]
        /\ \A q \in Profiles : written[q] \subseteq written'[q]
    BY <1>1, <2>1, <2>3 DEF Typed
  <2> QED
    BY <1>3, <2>1, <2>4, <2>5
<1> QED
  BY <1>4, <1>5

LEMMA ApplyNextKeeps ==
  ASSUME IInv, NEW p \in Profiles, ApplyNext(p)
  PROVE  IInv'
<1> DEFINE todo == job[p].todo
           a == Head(todo)
           id == IF a.kind = "insert" THEN nextId ELSE a.item
           new == [item |-> id, by |-> p, key |-> a.key, song |-> a.song]
           made == [key |-> a.key, item |-> id]
           expect == IF a.kind = "cleanup" THEN job[p].expect ELSE agenda'
<1>1. Typed /\ ItemsAreDistinct /\ BindingsAreExclusive /\ nextId \in Nat /\ nextId >= 10
  BY DEF IInv, Typed
<1>2. /\ job[p].pc = "applying" /\ todo # <<>>
      /\ UNCHANGED <<service, config, checkpoint, complete, budget>>
  BY DEF ApplyNext
<1>3. /\ WellFormed(agenda', nextId') /\ SongsStay(agenda')
      /\ nextId' \in {nextId, nextId + 1}
      /\ written' \in [Profiles -> SUBSET Nat]
      /\ \A q \in Profiles : written[q] \subseteq written'[q]
      /\ disturbed \subseteq disturbed' /\ disturbed' \subseteq Profiles
      /\ \A q \in Profiles \ {p} : job[q].pc # "idle" => q \in disturbed'
  BY ApplyNextAgenda
<1>4. /\ service' \in Services /\ config' \in [Profiles -> AllConfigs]
      /\ \A q \in Profiles : config'[q] \in Configs[q]
      /\ budget' \in [{"run", "change", "edit", "stop"} -> Nat]
  BY <1>1, <1>2 DEF Typed
<1>5. CASE Drop(p) /\ UNCHANGED binding
  <2>1. job' \in [Profiles -> Jobs] /\ \A q \in Profiles : job'[q] \in {job[q], Idle}
    BY <1>1, <1>5, DropKeepsJobs
  <2> QED
    BY <1>2, <1>3, <1>4, <1>5, <2>1, QuietStepKeeps
<1>6. CASE ~Refused(p, a) /\ ~(Claims(a) /\ OwnedByOther(p, id))
  <2>1. /\ todo \in Seq(Actions) /\ 1 \in DOMAIN todo
        /\ a = todo[1] /\ a \in Actions /\ Permitted(p, a)
        /\ Tail(todo) \in Seq(Actions)
        /\ \A i \in DOMAIN Tail(todo) :
             i + 1 \in DOMAIN todo /\ i + 1 # 1 /\ Tail(todo)[i] = todo[i + 1]
        /\ \A i \in DOMAIN todo : i # 1 => i - 1 \in DOMAIN Tail(todo) /\ Tail(todo)[i - 1] = todo[i]
        /\ \A i, j \in DOMAIN Tail(todo) : i + 1 = j + 1 => i = j
    BY <1>2, NextAction
  <2>2. /\ binding' = Bound(p, a, id)
        /\ nextId' = IF a.kind = "insert" THEN nextId + 1 ELSE nextId
        /\ written' = IF a.kind \in {"insert", "replace"}
                      THEN [written EXCEPT ![p] = @ \cup {id}] ELSE written
        /\ job' = [job EXCEPT ![p].todo = Tail(@), ![p].expect = expect,
                              ![p].made = @ \cup {made}]
    BY <1>6 DEF ApplyNext
  <2>3. /\ a.key \in Keys /\ a.song \in Songs /\ a.kind \in Kinds /\ id \in Nat
        /\ id \in 1 .. nextId' - 1 /\ (a.kind # "insert" => id = a.item)
        /\ (a.kind = "insert" => id = nextId)
    <3>1. a.key \in Keys /\ a.song \in Songs /\ a.kind \in Kinds /\ a.item \in Nat
      BY <2>1 DEF Actions
    <3>2. a.kind # "insert" => a.item \in 1 .. nextId - 1
      BY <2>1 DEF Permitted
    <3>3. nextId' = IF a.kind = "insert" THEN nextId + 1 ELSE nextId
      BY <2>2
    <3> HIDE DEF a
    <3>4. id \in Nat /\ (a.kind # "insert" => id = a.item) /\ (a.kind = "insert" => id = nextId)
      BY <1>1, <3>1
    <3>5. id \in 1 .. nextId' - 1
      BY <1>1, <3>2, <3>3
    <3> QED
      BY <3>1, <3>4, <3>5
  <2>4. new \in Bindings /\ new.item = id /\ new.by = p /\ new.key = a.key
    <3> HIDE DEF a, id
    <3> QED
      BY <2>3 DEF Bindings
  <2> HIDE DEF id, new
  <2>5. /\ \A b \in binding' : b \in binding \/ (Claims(a) /\ b = new)
        /\ \A b \in binding : b \in binding' \/ (b.item = id /\ b.by = p)
        /\ Claims(a) => new \in binding' /\ \A b \in binding' : b = new \/ ~(b.item = id /\ b.by = p)
        /\ a.kind = "noop" /\ ~Claims(a) => binding' = binding
        /\ a.kind # "noop" /\ ~Claims(a) => \A b \in binding' : ~(b.item = id /\ b.by = p)
    <3> HIDE DEF a
    <3> QED
      BY <2>2 DEF Bound, new
  <2>6. IsFiniteSet(binding')
    <3>1. binding' \subseteq binding \cup {new}
      BY <2>5
    <3>2. IsFiniteSet(binding \cup {new})
      BY <1>1, FS_AddElement DEF Typed
    <3> QED
      BY <3>1, <3>2, FS_Subset
  <2> HIDE DEF a, todo
  <2>7. /\ job' \in [Profiles -> Jobs] /\ job'[p].todo = Tail(todo)
        /\ job'[p].pc = job[p].pc /\ job'[p].from = job[p].from
        /\ \A q \in Profiles \ {p} : job'[q] = job[q]
    <3>1. job[p] \in Jobs /\ job \in [Profiles -> Jobs] /\ agenda' \in Seq(Items)
      BY <1>1, <1>3 DEF Typed, WellFormed
    <3>2. made \in [key : Keys, item : Nat] /\ expect \in Seq(Items)
      BY <2>3, <3>1 DEF Jobs
    <3>3. job' = [job EXCEPT ![p].todo = Tail(@), ![p].expect = expect,
                             ![p].made = @ \cup {made}]
      BY <2>2
    <3> HIDE DEF made, expect
    <3> QED
      BY <2>1, <3>1, <3>2, <3>3 DEF Jobs, todo
  <2>8. Typed'
    <3>1. binding' \subseteq Bindings
      BY <1>1, <2>4, <2>5 DEF Typed
    <3>2. \A q \in Profiles : job'[q].pc = "idle" => job'[q].todo = <<>>
      BY <1>1, <1>2, <2>7 DEF Typed
    <3>3. nextId' \in Nat /\ nextId' >= 10
      BY <1>1, <1>3
    <3> QED
      BY <1>1, <1>2, <1>3, <2>6, <2>7, <3>1, <3>2, <3>3 DEF Typed, WellFormed
  <2>9. ItemsAreDistinct'
    BY <1>3 DEF WellFormed, ItemsAreDistinct
  <2>10. BindingsAreExclusive'
    <3>1. ASSUME NEW b \in binding PROVE b.item \in 1 .. nextId' - 1 /\ b.item \in written'[b.by]
      <4>1. b.item \in 1 .. nextId - 1 /\ b.item \in written[b.by] /\ b.by \in Profiles
        BY <1>1 DEF BindingsAreExclusive, Typed, Bindings
      <4> QED
        BY <1>1, <1>3, <4>1
    <3>2. Claims(a) => id \in written'[p]
      <4>1. Claims(a) => a.kind \in {"insert", "replace"} \/ (a.kind = "noop" /\ a.owned)
        BY DEF Claims
      <4>2. CASE a.kind \in {"insert", "replace"}
        BY <1>1, <2>2, <4>2 DEF Typed
      <4>3. CASE a.kind = "noop" /\ a.owned
        BY <1>3, <2>1, <2>3, <4>3 DEF Permitted
      <4> QED
        BY <4>1, <4>2, <4>3
    <3>3. \A b \in binding' : b.item \in 1 .. nextId' - 1 /\ b.item \in written'[b.by]
      BY <2>3, <2>4, <2>5, <3>1, <3>2
    <3>4. ASSUME NEW b \in binding', NEW c \in binding', b.item = c.item PROVE b = c
      <4>1. \A d \in binding' : d \in binding /\ d # new /\ Claims(a) => d.item # id
        BY <1>6, <2>5 DEF OwnedByOther
      <4> QED
        BY <1>1, <2>4, <2>5, <3>4, <4>1 DEF BindingsAreExclusive
    <3> QED
      BY <3>3, <3>4 DEF BindingsAreExclusive
  <2>11. OneApplies'
    <3>1. \A q \in Profiles : job'[q].pc = job[q].pc
      BY <2>7
    <3> QED
      BY <3>1 DEF IInv, OneApplies
  <2>12. PlansArePermitted'
    <3>1. ASSUME NEW q \in Profiles, NEW b, Permitted(q, b), q # p, job[q].pc # "idle"
          PROVE  Permitted(q, b)'
      <4>1. b.kind = "delete" => BoundTo(q, b.item)'
        BY <2>5, <3>1 DEF Permitted, BoundTo
      <4>2. q \in disturbed'
        BY <1>3, <3>1
      <4> QED
        BY <1>3, <3>1, <4>1, <4>2, RightsRemain
    <3>2. ASSUME NEW i \in DOMAIN Tail(todo), NEW b, b = Tail(todo)[i] PROVE Permitted(p, b)'
      <4>1. i + 1 \in DOMAIN todo /\ i + 1 # 1 /\ b = todo[i + 1]
        BY <2>1, <3>2
      <4>2. Permitted(p, b) /\ ReleasesAreDistinct(todo)
        BY <4>1 DEF IInv, PlansArePermitted, todo
      <4>3. Releases(a) /\ Releases(b) => a.item # b.item
        BY <2>1, <4>1, <4>2 DEF ReleasesAreDistinct
      <4>4. b.kind = "delete" => BoundTo(p, b.item)'
        <5>1. SUFFICES ASSUME b.kind = "delete" PROVE \E c \in binding' : c.item = b.item /\ c.by = p
          BY DEF BoundTo
        <5>2. PICK c \in binding : c.item = b.item /\ c.by = p
          BY <4>2, <5>1 DEF Permitted, BoundTo
        <5>3. CASE b.item # id
          BY <2>5, <5>2, <5>3
        <5>4. CASE b.item = id /\ Claims(a)
          BY <2>4, <2>5, <5>4
        <5>5. CASE b.item = id /\ ~Claims(a)
          <6>1. a.kind # "insert"
            BY <5>5 DEF Claims
          <6>2. a.kind \notin {"delete", "cleanup"}
            BY <2>3, <4>3, <5>1, <5>5, <6>1 DEF Releases
          <6>3. a.kind = "noop"
            BY <2>3, <5>5, <6>1, <6>2 DEF Claims, Kinds
          <6> QED
            BY <2>5, <5>2, <5>5, <6>3
        <5> QED
          BY <5>3, <5>4, <5>5
      <4>5. b.kind = "replace" /\ p \notin disturbed' => ~OwnedByOther(p, b.item)'
        <5>1. SUFFICES ASSUME b.kind = "replace", p \notin disturbed',
                              NEW c \in binding', c.item = b.item, c.by # p
                       PROVE  FALSE
          BY DEF OwnedByOther
        <5>2. c \in binding /\ p \notin disturbed
          BY <1>3, <2>4, <2>5, <5>1
        <5> QED
          BY <4>2, <5>1, <5>2 DEF Permitted, OwnedByOther
      <4> QED
        BY <1>3, <4>2, <4>4, <4>5, RightsRemain
    <3>3. ASSUME NEW q \in Profiles, NEW i \in DOMAIN job'[q].todo
          PROVE  Permitted(q, job[q].todo[i])'
      <4>1. CASE q = p
        BY <2>7, <3>2, <4>1
      <4>2. CASE q # p
        <5>1. job'[q] = job[q]
          BY <2>7, <4>2
        <5>2. job[q].pc # "idle"
          <6>1. job[q].pc = "idle" => DOMAIN job[q].todo = {}
            BY <1>1 DEF Typed
          <6> QED
            BY <5>1, <6>1
        <5>3. Permitted(q, job[q].todo[i])
          BY <5>1 DEF IInv, PlansArePermitted
        <5> QED
          BY <3>1, <4>2, <5>1, <5>2, <5>3
      <4> QED
        BY <4>1, <4>2
    <3>4. ASSUME NEW q \in Profiles PROVE ReleasesAreDistinct(job[q].todo)'
      <4>1. CASE q = p
        <5>1. ReleasesAreDistinct(todo)
          BY DEF IInv, PlansArePermitted, todo
        <5>2. ReleasesAreDistinct(Tail(todo))
          BY <2>1, <5>1 DEF ReleasesAreDistinct
        <5> QED
          BY <2>7, <4>1, <5>2
      <4>2. CASE q # p
        BY <2>7, <4>2 DEF IInv, PlansArePermitted
      <4> QED
        BY <4>1, <4>2
    <3> QED
      BY <3>3, <3>4 DEF PlansArePermitted
  <2>13. PlansAreThorough'
    <3>1. ASSUME NEW q \in Profiles, q # p, job'[q].pc # "idle"
          PROVE  /\ q \notin complete' /\ job'[q].from \in Origins
                 /\ \A i \in DOMAIN job'[q].todo : Claims(job'[q].todo[i]) =>
                      job'[q].todo[i].key \in Wanted(job'[q].from[2], job'[q].from[1])
                 /\ \A b \in binding' : b.by = q =>
                      \/ b.key \in Wanted(job'[q].from[2], job'[q].from[1])
                      \/ \E i \in DOMAIN job'[q].todo : Settles(job'[q].todo[i], b.item)
      <4>1. \A b \in binding' : b.by = q => b \in binding
        BY <2>4, <2>5, <3>1
      <4> QED
        BY <1>2, <2>7, <3>1, <4>1 DEF IInv, PlansAreThorough
    <3> DEFINE W == Wanted(job[p].from[2], job[p].from[1])
    <3>2. /\ p \notin complete /\ job[p].from \in Origins
          /\ \A i \in DOMAIN todo : Claims(todo[i]) => todo[i].key \in W
          /\ \A b \in binding : b.by = p =>
               b.key \in W \/ \E i \in DOMAIN todo : Settles(todo[i], b.item)
      BY <1>2 DEF IInv, PlansAreThorough, todo
    <3> HIDE DEF W
    <3>3. \A i \in DOMAIN Tail(todo) : Claims(Tail(todo)[i]) => Tail(todo)[i].key \in W
      BY <2>1, <3>2
    <3>4. ASSUME NEW b \in binding', b.by = p, b.key \notin W
          PROVE  \E i \in DOMAIN Tail(todo) : Settles(Tail(todo)[i], b.item)
      <4>1. Claims(a) => b # new
        <5>1. Claims(a) => new.key \in W
          BY <2>1, <2>4, <3>2
        <5> QED
          BY <3>4, <5>1
      <4>2. b \in binding
        BY <2>5, <4>1
      <4>3. PICK i \in DOMAIN todo : Settles(todo[i], b.item)
        BY <3>2, <3>4, <4>2
      <4>4. i # 1
        <5>1. SUFFICES ASSUME Settles(a, b.item) PROVE FALSE
          BY <2>1, <4>3
        <5>2. b.item = id /\ (Claims(a) \/ Releases(a))
          BY <2>3, <5>1 DEF Settles
        <5>3. Releases(a) => a.kind # "noop"
          BY DEF Releases
        <5> QED
          BY <2>5, <3>4, <4>1, <5>2, <5>3
      <4> QED
        BY <2>1, <4>3, <4>4
    <3>5. /\ p \notin complete' /\ job'[p].from \in Origins
          /\ \A i \in DOMAIN job'[p].todo : Claims(job'[p].todo[i]) => job'[p].todo[i].key \in W
          /\ \A b \in binding' : b.by = p =>
               b.key \in W \/ \E i \in DOMAIN job'[p].todo : Settles(job'[p].todo[i], b.item)
      BY <1>2, <2>7, <3>2, <3>3, <3>4
    <3>6. W = Wanted(job'[p].from[2], job'[p].from[1])
      BY <2>7 DEF W
    <3> QED
      BY <3>1, <3>5, <3>6 DEF PlansAreThorough
  <2>14. CompleteIsWanted'
    <3>1. p \notin complete
      BY <1>2 DEF IInv, PlansAreThorough
    <3>2. \A b \in binding' : b.by # p => b \in binding
      BY <2>4, <2>5
    <3> QED
      BY <1>2, <3>1, <3>2 DEF IInv, CompleteIsWanted
  <2> QED
    BY <2>8, <2>9, <2>10, <2>11, <2>12, <2>13, <2>14 DEF IInv
<1> QED
  BY <1>5, <1>6 DEF ApplyNext

LEMMA StepKeeps == IInv /\ [Next]_vars => IInv'
<1> SUFFICES ASSUME IInv, [Next]_vars PROVE IInv'
  OBVIOUS
<1>1. ASSUME NEW p \in Profiles, Plan(p) PROVE IInv'
  BY <1>1, PlanKeeps
<1>2. ASSUME NEW p \in Profiles, Start(p) PROVE IInv'
  BY <1>2, StartKeeps
<1>3. ASSUME NEW p \in Profiles, ApplyNext(p) PROVE IInv'
  BY <1>3, ApplyNextKeeps
<1>4. ASSUME NEW p \in Profiles, Checkpoint(p) PROVE IInv'
  BY <1>4, CheckpointKeeps
<1>5. ASSUME NEW p \in Profiles, Stop(p) PROVE IInv'
  BY <1>5, StopKeeps
<1>6. ASSUME \/ \E s \in Services : ServiceChanges(s)
             \/ \E p \in Profiles : \E c \in Configs[p] : Reconfigure(p, c)
      PROVE  IInv'
  BY <1>6, SourceChangeKeeps
<1>7. ASSUME PersonEdits PROVE IInv'
  BY <1>7, PersonEditsKeep
<1>8. CASE UNCHANGED vars
  <2>1. Typed /\ ItemsAreDistinct
    BY DEF IInv
  <2>2. WellFormed(agenda', nextId') /\ SongsStay(agenda')
    BY <1>8, <2>1, AgendaUnchanged DEF vars
  <2>3. /\ nextId' \in {nextId, nextId + 1}
        /\ job' \in [Profiles -> Jobs] /\ \A q \in Profiles : job'[q] \in {job[q], Idle}
        /\ service' \in Services /\ config' \in [Profiles -> AllConfigs]
        /\ \A q \in Profiles : config'[q] \in Configs[q]
        /\ written' \in [Profiles -> SUBSET Nat]
        /\ \A q \in Profiles : written[q] \subseteq written'[q]
        /\ disturbed \subseteq disturbed' /\ disturbed' \subseteq Profiles
        /\ budget' \in [{"run", "change", "edit", "stop"} -> Nat]
        /\ UNCHANGED <<binding, checkpoint, complete>>
    BY <1>8, <2>1 DEF vars, Typed
  <2> QED
    BY <2>2, <2>3, QuietStepKeeps
<1> QED
  BY <1>1, <1>2, <1>3, <1>4, <1>5, <1>6, <1>7, <1>8 DEF Next

\* Whatever runs, changes, edits and stops there have been: bindings are exclusive and
\* their owners have written the items, plans stay within the rights of their profiles
\* and deal with all that these own.
THEOREM Invariance == Spec => []IInv
<1>1. Init => IInv
  BY InitEstablishes
<1>2. IInv /\ [Next]_vars => IInv'
  BY StepKeeps
<1> QED
  BY <1>1, <1>2, PTL DEF Spec

-----------------------------------------------------------------------------
(* What follows *)

\* The agenda shows an item once, an item is bound to one profile, and one run writes.
THEOREM TypeCorrect == Spec => []TypeOK
<1>1. IInv => TypeOK
  <2> SUFFICES ASSUME IInv PROVE TypeOK
    OBVIOUS
  <2>1. Typed /\ ItemsAreDistinct /\ BindingsAreExclusive /\ OneApplies
    BY DEF IInv
  <2>2. \A b \in binding : b.by \in Profiles /\ b.song \in Songs
    BY <2>1 DEF Typed, Bindings
  <2>3. ASSUME NEW p \in Profiles
        PROVE  /\ job[p].pc \in {"idle", "planned", "applying"}
               /\ \A i \in DOMAIN job[p].todo : job[p].todo[i].song \in Songs
    <3>1. job[p].pc \in {"idle", "planned", "applying"} /\ job[p].todo \in Seq(Actions)
      BY <2>1 DEF Typed, Jobs
    <3>2. \A i \in DOMAIN job[p].todo : job[p].todo[i] \in Actions
      BY <3>1, LenProperties, ElementOfSeq
    <3> QED
      BY <3>1, <3>2 DEF Actions
  <2>4. Cardinality({p \in Profiles : job[p].pc = "applying"}) <= 1
    <3> DEFINE A == {p \in Profiles : job[p].pc = "applying"}
    <3>1. CASE A = {}
      BY <3>1, FS_EmptySet
    <3>2. CASE A # {}
      <4>1. PICK p \in A : A = {p}
        BY <2>1, <3>2 DEF OneApplies
      <4> QED
        BY <4>1, FS_Singleton
    <3> QED
      BY <3>1, <3>2
  <2>5. \A what \in DOMAIN budget : budget[what] \in Nat
    BY <2>1 DEF Typed
  <2>6. service \in Services /\ \A p \in Profiles : config[p] \in Configs[p]
    BY <2>1 DEF Typed
  <2> QED
    BY <2>1, <2>2, <2>3, <2>4, <2>5, <2>6 DEF TypeOK, ItemsAreDistinct, BindingsAreExclusive
<1> QED
  BY <1>1, Invariance, PTL

\* After a complete run the profile owns nothing that its placements do not ask for,
\* whoever has interfered with the run, until its service or its placements change.
THEOREM OwnsOnlyWantedHolds == Spec => []OwnsOnlyWanted
<1>1. IInv => OwnsOnlyWanted
  <2> SUFFICES ASSUME IInv, NEW p \in complete, checkpoint[p] = <<service, config[p]>>,
                      NEW b \in binding, b.by = p
               PROVE  b.key \in Wanted(config[p], service)
    BY DEF OwnsOnlyWanted
  <2>1. b.key \in Wanted(checkpoint[p][2], checkpoint[p][1])
    BY DEF IInv, CompleteIsWanted
  <2> QED
    BY <2>1
<1> QED
  BY <1>1, Invariance, PTL

\* What one action of a run does to the agenda: nothing to the items that are no songs,
\* no deletion of an item that its profile has not written, and none of another profile's
\* unless an edit or another run has come between the plan and the action.
LEMMA ActionTouchesItsOwn ==
  ASSUME IInv, NEW p \in Profiles, ApplyNext(p)
  PROVE  /\ ForeignItemsStay
         /\ \A id \in Ids(agenda) \ Ids(agenda') : id \in written[p]
         /\ \A b \in binding : b.by # p /\ Shows(b.item, b.song) =>
              /\ b.item \in Ids(agenda')
              /\ p \notin disturbed => Shows(b.item, b.song)'
<1> DEFINE a == Head(job[p].todo)
           id == IF a.kind = "insert" THEN nextId ELSE a.item
<1>1. Typed /\ BindingsAreExclusive
  BY DEF IInv
<1>2. job[p].todo # <<>>
  BY DEF ApplyNext
<1>3. CASE Refused(p, a)
  <2>1. agenda' = agenda
    BY <1>3 DEF ApplyNext
  <2>2. \A b \in binding : Shows(b.item, b.song) => b.item \in Ids(agenda)
    BY DEF Shows, Ids
  <2> QED
    BY <2>1, <2>2 DEF ForeignItemsStay, Shows
<1>4. CASE ~Refused(p, a)
  <2>1. agenda' = Applied(a, id, job[p].made)
    BY <1>4 DEF ApplyNext
  <2>2. Permitted(p, a)
    BY <1>2, NextAction
  <2> HIDE DEF a, id
  <2>3. /\ ForeignOrder(agenda') = ForeignOrder(agenda)
        /\ \A i \in DOMAIN agenda :
             (a.kind \in {"replace", "delete"} => agenda[i].id # a.item) =>
               \E j \in DOMAIN agenda' : agenda'[j] = agenda[i]
        /\ a.kind # "delete" => Ids(agenda) \subseteq Ids(agenda')
    BY <1>2, <1>4, <2>1, AppliedAgenda DEF a, id
  <2>4. ASSUME NEW x \in Ids(agenda) \ Ids(agenda') PROVE x \in written[p]
    <3>1. a.kind = "delete"
      BY <2>3
    <3>2. x = a.item
      BY <2>3, <3>1 DEF Ids
    <3> QED
      BY <2>2, <3>1, <3>2 DEF Permitted
  <2>5. ASSUME NEW b \in binding, b.by # p, Shows(b.item, b.song)
        PROVE  /\ b.item \in Ids(agenda')
               /\ p \notin disturbed => Shows(b.item, b.song)'
    <3>1. PICK i \in DOMAIN agenda : agenda[i] = [id |-> b.item, what |-> b.song]
      BY <2>5 DEF Shows
    <3>2. agenda[i].id = b.item /\ b.item \in Ids(agenda)
      BY <3>1 DEF Ids
    <3>3. a.kind = "delete" => b.item # a.item
      BY <1>1, <2>2, <2>5 DEF Permitted, BoundTo, BindingsAreExclusive
    <3>4. a.kind = "replace" /\ p \notin disturbed => b.item # a.item
      BY <2>2, <2>5 DEF Permitted, OwnedByOther
    <3>5. p \notin disturbed \/ a.kind = "delete" => \E j \in DOMAIN agenda' : agenda'[j] = agenda[i]
      BY <2>3, <3>2, <3>3, <3>4
    <3>6. b.item \in Ids(agenda')
      BY <2>3, <3>2, <3>5 DEF Ids
    <3>7. p \notin disturbed => Shows(b.item, b.song)'
      BY <3>1, <3>5 DEF Shows
    <3> QED
      BY <3>6, <3>7
  <2> QED
    BY <2>3, <2>4, <2>5 DEF ForeignItemsStay
<1> QED
  BY <1>3, <1>4

\* A run changes only what is its own: headers and texts stay as they are, an item that
\* no run has written is never deleted, and the songs of another profile stay.
THEOREM RunsTouchOnlyTheirOwnHolds == Spec => RunsTouchOnlyTheirOwn
<1>1. IInv /\ [Next]_vars =>
        (Untouched => ForeignItemsStay /\ DeletesOnlyItsOwn) /\ OtherProfilesKeep
  <2> SUFFICES ASSUME IInv, [Next]_vars
               PROVE  (Untouched => ForeignItemsStay /\ DeletesOnlyItsOwn) /\ OtherProfilesKeep
    OBVIOUS
  <2>1. CASE agenda' = agenda
    <3>1. \A b \in binding : Shows(b.item, b.song) => b.item \in Ids(agenda) /\ Shows(b.item, b.song)'
      BY <2>1 DEF Shows, Ids
    <3> QED
      BY <2>1, <3>1 DEF ForeignItemsStay, DeletesOnlyItsOwn, OtherProfilesKeep
  <2>2. CASE PersonEdits
    <3>1. Edited
      BY <2>2 DEF PersonEdits, PersonAdds, PersonMoves, PersonRemoves, PersonChanges
    <3>2. job' = job /\ Spend("edit")
      BY <3>1 DEF Edited
    <3>3. budget \in [{"run", "change", "edit", "stop"} -> Nat]
      BY DEF IInv, Typed
    <3>4. ~Untouched
      BY <3>2, <3>3 DEF Spend, Untouched
    <3> QED
      BY <3>2, <3>4 DEF OtherProfilesKeep
  <2>3. CASE \E p \in Profiles : ApplyNext(p)
    <3>1. PICK p \in Profiles : ApplyNext(p)
      BY <2>3
    <3>2. /\ ForeignItemsStay
          /\ \A id \in Ids(agenda) \ Ids(agenda') : id \in written[p]
          /\ \A b \in binding : b.by # p /\ Shows(b.item, b.song) =>
               /\ b.item \in Ids(agenda')
               /\ p \notin disturbed => Shows(b.item, b.song)'
      BY <3>1, ActionTouchesItsOwn
    <3>3. \A q \in Profiles : q # p => job'[q] = job[q]
      <4>1. job \in [Profiles -> Jobs]
        BY DEF IInv, Typed
      <4> QED
        BY <3>1, <4>1 DEF ApplyNext, Drop
    <3>4. OtherProfilesKeep
      BY <3>2, <3>3 DEF OtherProfilesKeep
    <3>5. DeletesOnlyItsOwn
      BY <3>2, <3>3 DEF DeletesOnlyItsOwn
    <3> QED
      BY <3>2, <3>4, <3>5
  <2> QED
    BY <2>1, <2>2, <2>3 DEF Next, vars, Plan, Start, Checkpoint, Stop, ServiceChanges, Reconfigure
<1> QED
  BY <1>1, Invariance, PTL DEF Spec, RunsTouchOnlyTheirOwn

=============================================================================
