-------------------------- MODULE RegionLookupProofs --------------------------
(***************************************************************************)
(* Proofs about RegionLookup for any number of threads, any addresses and  *)
(* any size of the cache: the cache keeps its bound, a searcher's file is  *)
(* read once, and what is answered is true of the address asked for.       *)
(***************************************************************************)
EXTENDS RegionLookup, TLAPS

(***************************************************************************)
(* A thread acts on what it read before: on a searcher it saw, or found    *)
(* missing while it held the lock.  The properties need that what it saw   *)
(* still holds when it acts.                                               *)
(***************************************************************************)

Asking(t) == pc[t] \in {"missed", "locking", "locked", "loading", "searching"}

\* The lock is held by the thread that is behind it, and by no other.
LockHeld == \A t \in Threads : lock = t <=> pc[t] \in {"locked", "loading"}

\* A searcher is there, good or not, once its file was read.
LoadedIsThere ==
  \A v \in {4, 6} : loads[v] = IF searchers[v] = "absent" THEN 0 ELSE 1

\* Only an address that needs a searcher gets that far.
AskingNeeds == \A t \in Threads : Asking(t) => ~Shortcut(asked[t])

\* Whoever loads found the searcher missing, and it still is.
LoadingIsAbsent ==
  \A t \in Threads : pc[t] = "loading" => searchers[VersionAsked(t)] = "absent"

\* Whoever searches does so after the load.
SearchingIsThere ==
  \A t \in Threads : pc[t] = "searching" => searchers[VersionAsked(t)] # "absent"

IInv ==
  /\ TypeOK
  /\ LockHeld
  /\ LoadedIsThere
  /\ AskingNeeds
  /\ LoadingIsAbsent
  /\ SearchingIsThere
  /\ RegionsAreTrue

-----------------------------------------------------------------------------
(* The addresses and the cache. *)

\* A thread on its way to a searcher asks for a public address, of a version.
LEMMA AskedAddress ==
  ASSUME TypeOK, AskingNeeds, NEW t \in Threads, Asking(t)
  PROVE  /\ Enabled /\ Address[asked[t]] \in Addresses /\ Address[asked[t]] \notin Inner
         /\ Address[asked[t]] # Malformed /\ VersionAsked(t) \in {4, 6}
  <1>1. Enabled /\ Address[asked[t]] # Malformed /\ Address[asked[t]] \notin Inner
    BY DEF AskingNeeds, Shortcut
  <1>2. asked[t] \in Texts
    BY DEF TypeOK
  <1>3. Address[asked[t]] \in Addresses
    BY <1>1, <1>2 DEF Addresses
  <1>. QED BY <1>1, <1>3, ConstantAssumption DEF VersionAsked

\* An entry that is used again moves to the end: nothing else changes.
LEMMA MovedToEndKeeps ==
  ASSUME TypeOK, NEW i \in 1..Len(cache)
  PROVE  /\ MovedToEnd(i) \in Seq(Entries) /\ Len(MovedToEnd(i)) = Len(cache)
         /\ \A j \in 1..Len(cache) :
              \E k \in 1..Len(cache) : MovedToEnd(i)[j] = cache[k]
  <1>. DEFINE n == Len(cache)
  <1>1. cache \in Seq(Entries) /\ n \in Nat
    BY DEF TypeOK
  <1>2. \A j \in 1..n : \E k \in 1..n : MovedToEnd(i)[j] = cache[k]
    <2>. TAKE j \in 1..n
    <2>1. j < i => MovedToEnd(i)[j] = cache[j]
      BY DEF MovedToEnd
    <2>2. ~(j < i) /\ j = n => MovedToEnd(i)[j] = cache[i]
      BY DEF MovedToEnd
    <2>3. ~(j < i) /\ j # n => MovedToEnd(i)[j] = cache[j + 1] /\ j + 1 \in 1..n
      BY <1>1 DEF MovedToEnd
    <2>. QED BY <2>1, <2>2, <2>3
  <1>3. \A j \in 1..n : MovedToEnd(i)[j] \in Entries
    <2>. TAKE j \in 1..n
    <2>1. PICK k \in 1..n : MovedToEnd(i)[j] = cache[k]
      BY <1>2
    <2>2. cache[k] \in Entries
      BY <1>1
    <2>. QED BY <2>1, <2>2
  <1>4. MovedToEnd(i) = [j \in 1..n |-> MovedToEnd(i)[j]]
    BY DEF MovedToEnd
  <1>. HIDE DEF n
  <1>5. MovedToEnd(i) \in [1..n -> Entries]
    BY <1>3, <1>4
  <1>6. MovedToEnd(i) \in Seq(Entries) /\ Len(MovedToEnd(i)) = n
    BY <1>1, <1>5
  <1>. QED BY <1>2, <1>6 DEF n

\* A new entry comes last; at the limit the first one goes.
Added(e) == Append(IF Len(cache) < CacheSize THEN cache ELSE Tail(cache), e)

LEMMA AddedKeeps ==
  ASSUME TypeOK, NEW e \in Entries
  PROVE  /\ Added(e) \in Seq(Entries) /\ Len(Added(e)) <= CacheSize
         /\ \A j \in 1..Len(Added(e)) :
              Added(e)[j] = e \/ \E k \in 1..Len(cache) : Added(e)[j] = cache[k]
  <1>1. cache \in Seq(Entries) /\ Len(cache) \in Nat /\ Len(cache) <= CacheSize
        /\ CacheSize \in Nat \ {0}
    BY ConstantAssumption DEF TypeOK
  <1>2. CASE Len(cache) < CacheSize
    <2>1. Added(e) = Append(cache, e)
      BY <1>2 DEF Added
    <2>. QED BY <1>1, <1>2, <2>1
  <1>3. CASE ~(Len(cache) < CacheSize)
    <2>1. Added(e) = Append(Tail(cache), e) /\ cache # <<>>
      BY <1>1, <1>3 DEF Added
    <2>2. PICK s \in Seq(Entries) : s = Tail(cache)
      <3>1. Tail(cache) \in Seq(Entries)
        BY <1>1, <2>1
      <3>. QED BY <3>1
    <2>3. /\ Len(s) \in Nat /\ Len(s) = Len(cache) - 1
          /\ \A j \in 1..Len(s) : s[j] = cache[j + 1] /\ j + 1 \in 1..Len(cache)
      BY <1>1, <2>1, <2>2
    <2>4. /\ Added(e) \in Seq(Entries) /\ Len(Added(e)) = Len(s) + 1
          /\ \A j \in 1..Len(s) : Added(e)[j] = s[j]
          /\ Added(e)[Len(s) + 1] = e
      BY <2>1, <2>2
    <2>5. \A j \in 1..Len(Added(e)) :
            Added(e)[j] = e \/ \E k \in 1..Len(cache) : Added(e)[j] = cache[k]
      <3>. TAKE j \in 1..Len(Added(e))
      <3>1. j \in 1..Len(s) \/ j = Len(s) + 1
        BY <2>3, <2>4
      <3>. QED BY <2>3, <2>4, <3>1
    <2>. QED BY <1>1, <2>3, <2>4, <2>5
  <1>. QED BY <1>2, <1>3

\* What was true of an address stays true: searchers are never dropped, and
\* what broke is remembered.
LEMMA TrueStaysTrue ==
  ASSUME NEW x, NEW region, TrueRegion(x, region),
         broken \subseteq broken',
         \A v : searchers[v] = "none" => searchers'[v] = "none"
  PROVE  TrueRegion(x, region)'
  BY DEF TrueRegion

-----------------------------------------------------------------------------
LEMMA InitIInv == Init => IInv
  BY ConstantAssumption
  DEF Init, IInv, TypeOK, LockHeld, LoadedIsThere, AskingNeeds, Asking,
      LoadingIsAbsent, SearchingIsThere, RegionsAreTrue, Regions

\* A call that finds its text moves the entry; one that does not starts to ask,
\* or has its answer at once.
LEMMA LookupKeeps ==
  ASSUME IInv, NEW t \in Threads, NEW x \in Texts, Lookup(t, x)
  PROVE  IInv'
  <1>1. CASE Hit(t, x)
    <2>1. PICK i \in 1..Len(cache) : cache' = MovedToEnd(i)
      BY <1>1 DEF Hit
    <2>2. UNCHANGED <<searchers, lock, pc, asked, found, loads, broken>>
      BY <1>1 DEF Hit
    <2>3. /\ cache' \in Seq(Entries) /\ Len(cache') = Len(cache)
          /\ \A j \in 1..Len(cache) : \E k \in 1..Len(cache) : cache'[j] = cache[k]
      BY <2>1, MovedToEndKeeps DEF IInv
    <2>4. TypeOK'
      BY <2>2, <2>3 DEF IInv, TypeOK
    <2>5. LockHeld' /\ LoadedIsThere' /\ AskingNeeds' /\ LoadingIsAbsent' /\ SearchingIsThere'
      BY <2>2 DEF IInv, LockHeld, LoadedIsThere, AskingNeeds, Asking, LoadingIsAbsent,
                  SearchingIsThere, VersionAsked
    <2>6. RegionsAreTrue'
      <3>1. \A y, r : TrueRegion(y, r) => TrueRegion(y, r)'
        BY <2>2, TrueStaysTrue
      <3>2. Enabled => \A j \in 1..Len(cache') : TrueRegion(cache'[j].text, cache'[j].region)
        BY <2>3 DEF IInv, RegionsAreTrue
      <3>3. Enabled => \A u \in Threads : pc'[u] = "done" => TrueRegion(asked'[u], found'[u])
        BY <2>2 DEF IInv, RegionsAreTrue
      <3>. QED BY <3>1, <3>2, <3>3 DEF RegionsAreTrue
    <2>. QED BY <2>4, <2>5, <2>6 DEF IInv
  <1>2. CASE Miss(t, x)
    <2>. USE <1>2 DEF Miss
    <2>1. TypeOK'
      <3>1. Immediate(x) \in Regions /\ None \in Regions
        BY DEF Immediate, Regions
      <3>. QED BY <3>1 DEF IInv, TypeOK
    <2>2. LockHeld' /\ LoadedIsThere'
      BY DEF IInv, TypeOK, LockHeld, LoadedIsThere
    <2>3. AskingNeeds'
      BY DEF IInv, TypeOK, AskingNeeds, Asking, Shortcut
    <2>4. LoadingIsAbsent' /\ SearchingIsThere'
      BY DEF IInv, TypeOK, LoadingIsAbsent, SearchingIsThere, VersionAsked
    <2>5. RegionsAreTrue'
      <3>1. \A y, r : TrueRegion(y, r) => TrueRegion(y, r)'
        BY TrueStaysTrue
      <3>2. Enabled /\ Shortcut(x) => TrueRegion(x, Immediate(x))
        BY ConstantAssumption DEF Shortcut, TrueRegion, Immediate
      <3>3. Enabled => \A i \in 1..Len(cache') : TrueRegion(cache'[i].text, cache'[i].region)
        BY DEF IInv, RegionsAreTrue
      <3>4. Enabled => \A u \in Threads : pc'[u] = "done" => TrueRegion(asked'[u], found'[u])
        BY <3>2 DEF IInv, TypeOK, RegionsAreTrue
      <3>. QED BY <3>1, <3>3, <3>4 DEF RegionsAreTrue
    <2>. QED BY <2>1, <2>2, <2>3, <2>4, <2>5 DEF IInv
  <1>. QED BY <1>1, <1>2 DEF Lookup

\* Looking for the searcher: what is true of the regions does not change.
LEMMA ApproachKeeps ==
  ASSUME IInv, NEW t \in Threads, FirstCheck(t) \/ Acquire(t) \/ Recheck(t)
  PROVE  IInv'
  <1>. USE DEF FirstCheck, Acquire, Recheck
  <1>1. TypeOK'
    BY DEF IInv, TypeOK
  <1>2. LockHeld'
    BY ConstantAssumption DEF IInv, TypeOK, LockHeld
  <1>3. LoadedIsThere'
    BY DEF IInv, LoadedIsThere
  <1>4. AskingNeeds'
    BY DEF IInv, TypeOK, AskingNeeds, Asking
  <1>5. LoadingIsAbsent' /\ SearchingIsThere'
    BY DEF IInv, TypeOK, LoadingIsAbsent, SearchingIsThere, VersionAsked
  <1>6. RegionsAreTrue'
    <2>1. \A x, r : TrueRegion(x, r) => TrueRegion(x, r)'
      BY TrueStaysTrue
    <2>2. \A u \in Threads : pc'[u] = "done" => pc[u] = "done"
      BY DEF IInv, TypeOK
    <2>. QED BY <2>1, <2>2 DEF IInv, RegionsAreTrue
  <1>. QED BY <1>1, <1>2, <1>3, <1>4, <1>5, <1>6 DEF IInv

\* The load: of a searcher that is absent, by the one that holds the lock.
LEMMA LoadKeeps ==
  ASSUME IInv, NEW t \in Threads, Load(t)
  PROVE  IInv'
  <1>. DEFINE v == VersionAsked(t)
  <1>1. v \in {4, 6} /\ Address[asked[t]] \in Addresses
    BY AskedAddress DEF IInv, Load, Asking
  <1>2. PICK s \in {"ready", "none"} : searchers' = [searchers EXCEPT ![v] = s]
    BY DEF Load
  <1>3. /\ loads' = [loads EXCEPT ![v] = loads[v] + 1] /\ lock' = NoThread
        /\ pc' = [pc EXCEPT ![t] = "searching"] /\ pc[t] = "loading"
        /\ UNCHANGED <<cache, asked, found, broken>>
    BY DEF Load
  <1>4. searchers[v] = "absent" /\ loads[v] = 0 /\ lock = t
    BY <1>1, <1>3 DEF IInv, LoadingIsAbsent, LoadedIsThere, LockHeld
  <1>5. VersionAsked(t)' = v /\ \A u \in Threads : VersionAsked(u)' = VersionAsked(u)
    BY <1>3 DEF VersionAsked
  <1>. HIDE DEF v
  <1>6. TypeOK'
    BY <1>1, <1>2, <1>3 DEF IInv, TypeOK
  <1>7. LockHeld'
    BY <1>3, <1>4, ConstantAssumption DEF IInv, TypeOK, LockHeld
  <1>8. LoadedIsThere'
    BY <1>1, <1>2, <1>3, <1>4 DEF IInv, TypeOK, LoadedIsThere
  <1>9. AskingNeeds'
    BY <1>3 DEF IInv, TypeOK, AskingNeeds, Asking
  <1>10. LoadingIsAbsent'
    <2>1. \A u \in Threads : u # t => pc[u] # "loading"
      BY <1>4 DEF IInv, LockHeld
    <2>. QED BY <1>3, <2>1 DEF IInv, TypeOK, LoadingIsAbsent
  <1>11. SearchingIsThere'
    BY <1>1, <1>2, <1>3, <1>5 DEF IInv, TypeOK, SearchingIsThere, v
  <1>12. RegionsAreTrue'
    <2>1. \A w : searchers[w] = "none" => searchers'[w] = "none"
      BY <1>1, <1>2, <1>4 DEF IInv, TypeOK
    <2>2. \A x, region : TrueRegion(x, region) => TrueRegion(x, region)'
      BY <1>3, <2>1, TrueStaysTrue
    <2>. QED BY <1>3, <2>2 DEF IInv, TypeOK, RegionsAreTrue
  <1>. QED BY <1>6, <1>7, <1>8, <1>9, <1>10, <1>11, <1>12 DEF IInv

\* The search: of a searcher that was loaded, or found to be of no use.
LEMMA SearchKeeps ==
  ASSUME IInv, NEW t \in Threads, Search(t) \/ SearchFails(t)
  PROVE  IInv'
  <1>. DEFINE a == Address[asked[t]]
  <1>1. /\ Enabled /\ a \in Addresses /\ a \notin Inner /\ a # Malformed
        /\ VersionAsked(t) \in {4, 6} /\ searchers[VersionAsked(t)] # "absent"
    BY AskedAddress DEF IInv, Search, SearchFails, Asking, SearchingIsThere
  <1>2. PICK region \in Regions :
          /\ Finds(t, region) /\ pc[t] = "searching" /\ broken \subseteq broken'
          /\ broken' \subseteq broken \cup {a}
          /\ region # None => region = RegionOf[a]
          /\ region = None =>
               RegionOf[a] = None \/ a \in broken' \/ searchers[VersionAsked(t)] = "none"
    <2>1. CASE SearchFails(t)
      <3>1. /\ Finds(t, None) /\ pc[t] = "searching" /\ broken' = broken \cup {a}
            /\ None \in Regions
        BY <2>1 DEF SearchFails, Regions
      <3>. QED BY <3>1
    <2>2. CASE Search(t) /\ searchers[VersionAsked(t)] = "ready"
      <3>1. /\ Finds(t, RegionOf[a]) /\ pc[t] = "searching" /\ broken' = broken
            /\ RegionOf[a] \in Regions
        BY <1>1, <2>2 DEF Search, Regions
      <3>. QED BY <3>1
    <2>3. CASE Search(t) /\ searchers[VersionAsked(t)] # "ready"
      <3>1. /\ Finds(t, None) /\ pc[t] = "searching" /\ broken' = broken
            /\ None \in Regions
        BY <2>3 DEF Search, Regions
      <3>2. searchers[VersionAsked(t)] = "none"
        BY <1>1, <2>3 DEF IInv, TypeOK
      <3>. QED BY <3>1, <3>2
    <2>. QED BY <2>1, <2>2, <2>3
  <1>3. /\ found' = [found EXCEPT ![t] = region] /\ pc' = [pc EXCEPT ![t] = "done"]
        /\ UNCHANGED <<cache, searchers, lock, asked, loads>>
    BY <1>2 DEF Finds
  <1>4. TypeOK'
    BY <1>1, <1>2, <1>3 DEF IInv, TypeOK
  <1>5. LockHeld' /\ LoadedIsThere'
    BY <1>2, <1>3 DEF IInv, TypeOK, LockHeld, LoadedIsThere
  <1>6. AskingNeeds' /\ LoadingIsAbsent' /\ SearchingIsThere'
    BY <1>3 DEF IInv, TypeOK, AskingNeeds, Asking, LoadingIsAbsent, SearchingIsThere,
                VersionAsked
  <1>7. RegionsAreTrue'
    <2>1. \A x, r : TrueRegion(x, r) => TrueRegion(x, r)'
      BY <1>2, <1>3, TrueStaysTrue
    <2>2. TrueRegion(asked[t], region)'
      BY <1>1, <1>2, <1>3 DEF TrueRegion, VersionAsked
    <2>. QED BY <1>3, <2>1, <2>2 DEF IInv, TypeOK, RegionsAreTrue
  <1>. QED BY <1>4, <1>5, <1>6, <1>7 DEF IInv

\* What is stored is what was found.
LEMMA StoreKeeps ==
  ASSUME IInv, NEW t \in Threads, Store(t)
  PROVE  IInv'
  <1>. DEFINE e == [text |-> asked[t], region |-> found[t]]
  <1>1. e \in Entries /\ e.text = asked[t] /\ e.region = found[t]
    BY DEF IInv, TypeOK, Entries
  <1>2. /\ cache' = cache \/ cache' = Added(e)
        /\ pc[t] = "done" /\ pc' = [pc EXCEPT ![t] = "idle"]
        /\ asked' = [asked EXCEPT ![t] = Malformed]
        /\ found' = [found EXCEPT ![t] = None]
        /\ UNCHANGED <<searchers, lock, loads, broken>>
    BY DEF Store, Added
  <1>. HIDE DEF e
  <1>3. /\ cache' \in Seq(Entries) /\ Len(cache') <= CacheSize
        /\ \A j \in 1..Len(cache') :
             cache'[j] = e \/ \E k \in 1..Len(cache) : cache'[j] = cache[k]
    <2>1. CASE cache' = cache
      BY <2>1 DEF IInv, TypeOK
    <2>2. CASE cache' = Added(e)
      BY <1>1, <2>2, AddedKeeps DEF IInv
    <2>. QED BY <1>2, <2>1, <2>2
  <1>4. TypeOK'
    BY <1>2, <1>3, ConstantAssumption DEF IInv, TypeOK, Regions
  <1>5. LockHeld' /\ LoadedIsThere'
    BY <1>2 DEF IInv, TypeOK, LockHeld, LoadedIsThere
  <1>6. AskingNeeds' /\ LoadingIsAbsent' /\ SearchingIsThere'
    BY <1>2 DEF IInv, TypeOK, AskingNeeds, Asking, LoadingIsAbsent, SearchingIsThere,
                VersionAsked
  <1>7. RegionsAreTrue'
    <2>1. \A x, r : TrueRegion(x, r) => TrueRegion(x, r)'
      BY <1>2, TrueStaysTrue
    <2>2. Enabled => TrueRegion(e.text, e.region)
      BY <1>1, <1>2 DEF IInv, RegionsAreTrue
    <2>3. Enabled => \A j \in 1..Len(cache') : TrueRegion(cache'[j].text, cache'[j].region)
      BY <1>3, <2>2 DEF IInv, RegionsAreTrue
    <2>4. Enabled => \A u \in Threads : pc'[u] = "done" => TrueRegion(asked'[u], found'[u])
      BY <1>2 DEF IInv, TypeOK, RegionsAreTrue
    <2>. QED BY <2>1, <2>3, <2>4 DEF RegionsAreTrue
  <1>. QED BY <1>4, <1>5, <1>6, <1>7 DEF IInv

LEMMA IInvariant == Spec => []IInv
  <1>1. IInv /\ [Next]_vars => IInv'
    <2>. SUFFICES ASSUME IInv, [Next]_vars PROVE IInv'
      OBVIOUS
    <2>1. ASSUME NEW q \in Requests, Arrive(q) PROVE IInv'
      <3>1. PICK a \in Addresses : Lookup(Loop, a)
        BY <2>1 DEF Arrive
      <3>. QED BY <3>1, LookupKeeps, ConstantAssumption
    <2>2. ASSUME NEW t \in Threads, Progress(t) PROVE IInv'
      BY <2>2, ApproachKeeps, LoadKeeps, SearchKeeps, StoreKeeps DEF Progress
    <2>3. CASE UNCHANGED vars
      BY <2>3 DEF vars, IInv, TypeOK, LockHeld, LoadedIsThere, AskingNeeds, Asking,
                  LoadingIsAbsent, SearchingIsThere, RegionsAreTrue, VersionAsked,
                  TrueRegion
    <2>. QED BY <2>1, <2>2, <2>3, LookupKeeps DEF Next
  <1>. QED BY InitIInv, <1>1, PTL DEF Spec

-----------------------------------------------------------------------------
\* Every variable keeps its type; the cache never outgrows its size.
THEOREM TypeCorrect == Spec => []TypeOK
  <1>1. IInv => TypeOK
    BY DEF IInv
  <1>. QED BY IInvariant, <1>1, PTL

\* Two threads never read the file of one version twice, however they meet.
THEOREM LoadsOnce == Spec => []LoadedOnce
  <1>1. IInv => LoadedOnce
    BY DEF IInv, LoadedIsThere, LoadedOnce
  <1>. QED BY IInvariant, <1>1, PTL

\* What is answered, now or from the cache later, is true of the address, and
\* None is answered for a reason only.
THEOREM AnswersAreTrue == Spec => []RegionsAreTrue
  <1>1. IInv => RegionsAreTrue
    BY DEF IInv
  <1>. QED BY IInvariant, <1>1, PTL
=============================================================================
