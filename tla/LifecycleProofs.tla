--------------------------- MODULE LifecycleProofs ---------------------------
(***************************************************************************)
(* Proofs about Lifecycle with its Logging, for any number of coroutines,  *)
(* engines, pools and records, and all settings: what the lifespan's       *)
(* teardowns leave behind, and what the outputs show.                      *)
(***************************************************************************)
EXTENDS Lifecycle, LoggingProofs

(***************************************************************************)
(* The properties are about the end of the loop, so they need what holds   *)
(* while it runs: what each teardown behind it has left.                   *)
(***************************************************************************)

\* How far the lifespan is, and what the logging is by then.
Phase ==
  /\ pc = "down" =>
       /\ Quiet /\ failed = {}
       /\ handlers["asyncio"] = "none"
       /\ \A l \in EchoLoggers : handlers[l] \in {"none", "own"}
       /\ propagates = DOMAIN Parent \ {"uvicorn", "uvicorn.access"}
  /\ pc = "failed" => Quiet
  /\ pc = "serving" => failed = {}
  /\ pc \in {"down", "failed", "serving", "stopped"} => left = <<>>
  /\ pc = "disconnecting" => left = <<"redis", "logging">>
  /\ pc \in {"closing", "disconnecting", "cancelled"} =>
       left \in {<<"postgres", "redis", "logging">>, <<"redis", "logging">>, <<"logging">>}
  /\ Running => TakenOver /\ sinks \in {{}, Mounted}
  /\ pc \in {"serving", "closing", "disconnecting", "cancelled"} => sinks = Mounted
  /\ pc = "stopped" /\ "logging" \notin failed => sinks = {}

Holders(p) == {u \in Users : held[u] = p}

\* Those that hold a connection of p that is open still.
Live(p) == Holders(p) \ cut

\* A pool opens a connection only for a coroutine that holds one.
OpenBounded ==
  \A p \in Pools : idle[p] + Cardinality(Holders(p)) <= Cardinality(Users)

\* A teardown that did not raise leaves nothing open, and nothing open that
\* could be given back, unless a connection was opened behind it.
Released ==
  \A k \in Kinds \ (failed \cup late) : Behind(k) =>
    idle[<<k, current[k]>>] = 0 /\ Live(<<k, current[k]>>) = {}

\* Each teardown has logged its outcome while the sinks were there.
Reported ==
  \A k \in Kinds : TornDown(k) =>
    \E n \in DOMAIN records :
      /\ records[n].from = k /\ records[n].mounted
      /\ records[n].level = IF k \in failed THEN Error ELSE Info

IInv ==
  /\ TypeOK
  /\ InOrder /\ Routed /\ QueuesMounted /\ Echoes
  /\ Phase
  /\ OpenBounded
  /\ Released
  /\ Reported

\* The types of what the pools keep, and of where the lifespan is.
PoolTypes ==
  /\ current \in [Kinds -> 1..MaxPools]
  /\ idle \in [Pools -> 0..Cardinality(Users)]
  /\ held \in [Users -> Pools \cup {Nothing, Gone}]
  /\ \A k \in Kinds, g \in 1..MaxPools : g > current[k] =>
       idle[<<k, g>>] = 0 /\ \A u \in Users : held[u] # <<k, g>>
  /\ cut \subseteq {u \in Users : held[u] \in {"redis"} \X (1..MaxPools)}
  /\ stray \in Nat
  /\ late \subseteq Kinds

LoopTypes ==
  /\ pc \in {"down", "serving", "closing", "disconnecting", "stopped", "cancelled",
             "failed"}
  /\ left \in Seq(Range(Teardowns))
  /\ pc \in {"down", "serving", "stopped"} => left = <<>>
  /\ failed \subseteq Range(Teardowns) \ Range(left)

LEMMA Parts == IInv <=> /\ LogInv /\ PoolTypes /\ LoopTypes
                        /\ Phase /\ OpenBounded /\ Released /\ Reported
  BY DEF IInv, TypeOK, LogInv, PoolTypes, LoopTypes

-----------------------------------------------------------------------------
(* The pools. *)

\* How many coroutines hold a connection of a pool.
LEMMA HoldersFinite ==
  /\ Cardinality(Users) \in Nat
  /\ \A p : /\ IsFiniteSet(Holders(p)) /\ Cardinality(Holders(p)) \in Nat
            /\ Cardinality(Holders(p)) <= Cardinality(Users)
  <1>1. IsFiniteSet(Users) /\ Cardinality(Users) \in Nat
    BY LifecycleAssumption, FS_CardinalityType
  <1>2. ASSUME NEW p
        PROVE  /\ IsFiniteSet(Holders(p)) /\ Cardinality(Holders(p)) \in Nat
               /\ Cardinality(Holders(p)) <= Cardinality(Users)
    <2>1. Holders(p) \subseteq Users
      BY DEF Holders
    <2>. QED BY <1>1, <2>1, FS_Subset, FS_CardinalityType
  <1>. QED BY <1>1, <1>2

\* Connections are closed in the pools, or in the hands of their holders.
LEMMA ClosingKeeps ==
  ASSUME PoolTypes, OpenBounded, UNCHANGED <<current, held, stray, late>>,
         cut \subseteq cut', cut' \subseteq {u \in Users : held[u] \in {"redis"} \X (1..MaxPools)},
         idle' \in [Pools -> 0..Cardinality(Users)], \A q \in Pools : idle'[q] <= idle[q]
  PROVE  /\ PoolTypes' /\ OpenBounded'
         /\ \A q \in Pools : /\ idle[q] = 0 => idle'[q] = 0
                           /\ Holders(q)' = Holders(q) /\ Live(q)' \subseteq Live(q)
  <1>1. Cardinality(Users) \in Nat
    BY HoldersFinite
  <1>2. \A q \in Pools : idle[q] \in 0..Cardinality(Users) /\ idle'[q] \in 0..Cardinality(Users)
    BY DEF PoolTypes
  <1>3. \A q \in Pools : idle[q] = 0 => idle'[q] = 0
    BY <1>1, <1>2
  <1>4. \A q : Holders(q)' = Holders(q) /\ Live(q)' \subseteq Live(q)
    BY DEF Holders, Live
  <1>5. PoolTypes'
    <2>1. \A k \in Kinds, g \in 1..MaxPools : <<k, g>> \in Pools
      BY DEF Pools
    <2>. QED BY <1>3, <2>1 DEF PoolTypes
  <1>6. OpenBounded'
    <2>. SUFFICES ASSUME NEW q \in Pools
                  PROVE  idle'[q] + Cardinality(Holders(q)) <= Cardinality(Users)
      BY <1>4 DEF OpenBounded
    <2>1. Cardinality(Holders(q)) \in Nat
      BY HoldersFinite
    <2>. QED BY <1>1, <1>2, <2>1 DEF OpenBounded
  <1>. QED BY <1>3, <1>4, <1>5, <1>6

\* An engine leaves its pool behind: what is out does not come back to it.
LEMMA LeavingKeeps ==
  ASSUME PoolTypes, OpenBounded, NEW p \in {"postgres"} \X (1..MaxPools),
         held' = [u \in Users |-> IF held[u] = p THEN Gone ELSE held[u]],
         UNCHANGED <<current, idle, cut, stray, late>>
  PROVE  /\ PoolTypes' /\ OpenBounded' /\ Live(p)' = {}
         /\ \A q \in Pools : q # p => Live(q)' = Live(q)
  <1>1. Cardinality(Users) \in Nat /\ Cardinality({}) = 0
    BY HoldersFinite, FS_EmptySet
  <1>2. Gone \notin Pools /\ Nothing \notin Pools /\ p \in Pools
    BY LifecycleAssumption DEF Pools, Kinds
  <1>3. Holders(p)' = {}
    BY <1>2 DEF Holders
  <1>4. \A q \in Pools : q # p => Holders(q)' = Holders(q)
    BY <1>2 DEF Holders
  <1>5. PoolTypes'
    <2>1. held' \in [Users -> Pools \cup {Nothing, Gone}]
      BY DEF PoolTypes
    <2>2. ASSUME NEW k \in Kinds, NEW g \in 1..MaxPools, g > current[k]
          PROVE  idle[<<k, g>>] = 0 /\ \A u \in Users : held'[u] # <<k, g>>
      <3>1. <<k, g>> \in Pools
        BY DEF Pools
      <3>. QED BY <1>2, <2>2, <3>1 DEF PoolTypes
    <2>3. cut \subseteq {u \in Users : held'[u] \in {"redis"} \X (1..MaxPools)}
      BY DEF PoolTypes
    <2>. QED BY <2>1, <2>2, <2>3 DEF PoolTypes
  <1>6. OpenBounded'
    <2>. SUFFICES ASSUME NEW q \in Pools
                  PROVE  idle[q] + Cardinality(Holders(q)') <= Cardinality(Users)
      BY DEF OpenBounded
    <2>1. CASE q = p
      <3>1. Holders(q)' = {}
        BY <1>3, <2>1
      <3>2. idle[q] \in 0..Cardinality(Users)
        BY DEF PoolTypes
      <3>. QED BY <1>1, <3>1, <3>2
    <2>2. CASE q # p
      BY <1>4, <2>2 DEF OpenBounded
    <2>. QED BY <2>1, <2>2
  <1>. QED BY <1>3, <1>4, <1>5, <1>6 DEF Live

\* A connection is taken: an idle one, or one more.
LEMMA TakeKeeps ==
  ASSUME PoolTypes, OpenBounded, NEW u \in Users, NEW k \in Kinds, Take(u, k)
  PROVE  /\ PoolTypes' /\ OpenBounded'
         /\ \A j \in Kinds : j # k =>
              /\ idle'[<<j, current[j]>>] = idle[<<j, current[j]>>]
              /\ Live(<<j, current[j]>>)' = Live(<<j, current[j]>>)
  <1>1. PICK g \in Offered(k) :
          /\ held' = [held EXCEPT ![u] = <<k, g>>]
          /\ idle' = [idle EXCEPT ![<<k, g>>] = IF @ = 0 THEN 0 ELSE @ - 1]
    BY DEF Take
  <1>2. /\ held[u] = Nothing /\ current' = current /\ late' \in {late, late \cup {k}}
        /\ cut' = cut /\ stray' = stray
    BY DEF Take, NowLate
  <1>. DEFINE p == <<k, g>>
  <1>3. g \in 1..MaxPools /\ ~(g > current[k]) /\ p \in Pools
    BY LifecycleAssumption DEF Offered, PoolTypes, Pools
  <1>4. Cardinality(Users) \in Nat
    BY HoldersFinite
  <1>5. Gone \notin Pools /\ Nothing \notin Pools
    BY LifecycleAssumption DEF Pools, Kinds
  <1>6. \A q \in Pools : q # p => idle'[q] = idle[q]
    BY <1>1 DEF PoolTypes
  <1>7. idle'[p] = (IF idle[p] = 0 THEN 0 ELSE idle[p] - 1) /\ idle[p] \in 0..Cardinality(Users)
    BY <1>1, <1>3 DEF PoolTypes
  <1>8. Holders(p)' = Holders(p) \cup {u} /\ u \notin Holders(p)
    BY <1>1, <1>2, <1>3, <1>5 DEF Holders, PoolTypes
  <1>9. \A q \in Pools : q # p => Holders(q)' = Holders(q)
    BY <1>1, <1>2, <1>5 DEF Holders, PoolTypes
  <1>. HIDE DEF p
  <1>10. OpenBounded'
    <2>. SUFFICES ASSUME NEW q \in Pools
                  PROVE  idle'[q] + Cardinality(Holders(q)') <= Cardinality(Users)
      BY DEF OpenBounded
    <2>1. CASE q # p
      BY <1>6, <1>9, <2>1 DEF OpenBounded
    <2>2. CASE q = p
      <3>0. Holders(q)' = Holders(p)'
        BY <2>2
      <3>1. IsFiniteSet(Holders(p)) /\ Cardinality(Holders(p)) \in Nat
        BY HoldersFinite
      <3>2. Cardinality(Holders(p) \cup {u}) = Cardinality(Holders(p)) + 1
        BY <1>8, <3>1, FS_AddElement
      <3>3. Cardinality(Holders(p) \cup {u}) <= Cardinality(Users)
        <4>1. Holders(p) \cup {u} \subseteq Users /\ IsFiniteSet(Users)
          BY LifecycleAssumption DEF Holders
        <4>. QED BY <4>1, FS_Subset
      <3>4. idle[p] + Cardinality(Holders(p)) <= Cardinality(Users)
        BY <1>3 DEF OpenBounded, p
      <3>5. Cardinality(Holders(q)') = Cardinality(Holders(p) \cup {u})
        BY <1>8, <3>0
      <3>6. idle'[q] = IF idle[p] = 0 THEN 0 ELSE idle[p] - 1
        BY <1>7, <2>2
      <3>7. idle[p] \in 0..Cardinality(Users)
        BY <1>7
      <3>8. PICK c, n, i \in Nat : c = Cardinality(Users) /\ n = Cardinality(Holders(p)) /\ i = idle[p]
        BY <1>4, <3>1, <3>7
      <3>. QED BY <3>2, <3>3, <3>4, <3>5, <3>6, <3>8
    <2>. QED BY <2>1, <2>2
  <1>11. PoolTypes'
    <2>1. idle' \in [Pools -> 0..Cardinality(Users)]
      <3>1. \A q \in Pools : idle'[q] \in 0..Cardinality(Users)
        BY <1>4, <1>6, <1>7 DEF PoolTypes
      <3>2. idle' = [q \in Pools |-> idle'[q]]
        BY <1>1 DEF PoolTypes
      <3>. QED BY <3>1, <3>2
    <2>2. held' \in [Users -> Pools \cup {Nothing, Gone}]
      BY <1>1, <1>3 DEF PoolTypes, p
    <2>3. ASSUME NEW j \in Kinds, NEW h \in 1..MaxPools, h > current[j]
          PROVE  idle'[<<j, h>>] = 0 /\ \A v \in Users : held'[v] # <<j, h>>
      <3>1. <<j, h>> \in Pools /\ <<j, h>> # p
        BY <1>3, <2>3 DEF Pools, p
      <3>2. idle[<<j, h>>] = 0 /\ \A v \in Users : held[v] # <<j, h>>
        BY <2>3 DEF PoolTypes
      <3>. QED BY <1>1, <1>6, <3>1, <3>2 DEF PoolTypes, p
    <2>4. cut' \subseteq {v \in Users : held'[v] \in {"redis"} \X (1..MaxPools)}
      <3>1. u \notin cut
        BY <1>2, <1>5 DEF PoolTypes, Pools, Kinds
      <3>. QED BY <1>1, <1>2, <3>1 DEF PoolTypes
    <2>. QED BY <1>2, <2>1, <2>2, <2>3, <2>4 DEF PoolTypes
  <1>12. ASSUME NEW j \in Kinds, j # k
         PROVE  <<j, current[j]>> \in Pools /\ <<j, current[j]>> # p
    BY <1>12 DEF PoolTypes, Pools, p
  <1>13. ASSUME NEW j \in Kinds, j # k
         PROVE  /\ idle'[<<j, current[j]>>] = idle[<<j, current[j]>>]
                /\ Live(<<j, current[j]>>)' = Live(<<j, current[j]>>)
    <2>1. PICK q \in Pools : q = <<j, current[j]>> /\ q # p
      BY <1>12, <1>13
    <2>2. <<j, current[j]>>' = q
      BY <1>2, <2>1
    <2>3. Live(<<j, current[j]>>)' = Live(q)'
      BY <2>2 DEF Holders, Live
    <2>. QED BY <1>2, <1>6, <1>9, <2>1, <2>3 DEF Live
  <1>. QED BY <1>10, <1>11, <1>13

\* A connection is given back to its pool, and stays open there if it is.
LEMMA GiveBackKeeps ==
  ASSUME PoolTypes, OpenBounded, NEW u \in Users, GiveBack(u)
  PROVE  /\ PoolTypes' /\ OpenBounded'
         /\ \A q \in Pools : Live(q) = {} => idle'[q] = idle[q] /\ Live(q)' = {}
  <1>1. /\ held[u] # Nothing /\ held' = [held EXCEPT ![u] = Nothing]
        /\ idle' = IF held[u] = Gone \/ u \in cut THEN idle
                   ELSE [idle EXCEPT ![held[u]] = @ + 1]
        /\ stray' = IF held[u] = Gone THEN stray + 1 ELSE stray
        /\ current' = current /\ late' = late /\ cut' = cut \ {u}
    BY DEF GiveBack
  <1>2. Gone \notin Pools /\ Nothing \notin Pools
    BY LifecycleAssumption DEF Pools, Kinds
  <1>3. PICK p \in Pools \cup {Gone} : p = held[u]
    BY <1>1, <1>2 DEF PoolTypes
  <1>4. \A q \in Pools : q # p => idle'[q] = idle[q] /\ Holders(q)' = Holders(q)
    BY <1>1, <1>2, <1>3 DEF PoolTypes, Holders
  <1>5. held' \in [Users -> Pools \cup {Nothing, Gone}]
    BY <1>1 DEF PoolTypes
  <1>6. \A v \in Users : held'[v] = held[v] \/ held'[v] = Nothing
    BY <1>1 DEF PoolTypes
  <1>7. ASSUME p \in Pools
        PROVE  /\ idle' \in [Pools -> 0..Cardinality(Users)]
               /\ idle'[p] + Cardinality(Holders(p)') <= Cardinality(Users)
               /\ idle'[p] # idle[p] => u \notin cut
               /\ u \in Holders(p)
    <2>1. Holders(p)' = Holders(p) \ {u} /\ u \in Holders(p)
      BY <1>1, <1>2, <1>3, <1>7 DEF PoolTypes, Holders
    <2>2. IsFiniteSet(Holders(p)) /\ Cardinality(Holders(p)) \in Nat
          /\ Cardinality(Users) \in Nat
      BY HoldersFinite
    <2>3. Cardinality(Holders(p) \ {u}) = Cardinality(Holders(p)) - 1
          /\ Cardinality(Holders(p) \ {u}) \in Nat
      <3>1. IsFiniteSet(Holders(p) \ {u})
        BY <2>2, FS_RemoveElement
      <3>. QED BY <2>1, <2>2, <3>1, FS_RemoveElement, FS_CardinalityType
    <2>4. idle[p] + Cardinality(Holders(p)) <= Cardinality(Users)
      BY <1>7 DEF OpenBounded
    <2>5. idle \in [Pools -> 0..Cardinality(Users)] /\ idle[p] \in 0..Cardinality(Users)
      BY <1>7 DEF PoolTypes
    <2>6. CASE u \in cut
      <3>1. idle' = idle
        BY <1>1, <2>6
      <3>. QED BY <2>1, <2>2, <2>3, <2>4, <2>5, <3>1
    <2>7. CASE u \notin cut
      <3>1. idle' = [idle EXCEPT ![p] = idle[p] + 1]
        BY <1>1, <1>2, <1>3, <1>7, <2>7
      <3>2. idle'[p] = idle[p] + 1
        BY <1>7, <2>5, <3>1
      <3>3. idle[p] + 1 \in 0..Cardinality(Users)
        BY <2>1, <2>2, <2>3, <2>4, <2>5
      <3>4. idle' \in [Pools -> 0..Cardinality(Users)]
        BY <2>5, <3>1, <3>3
      <3>5. idle'[p] + Cardinality(Holders(p)') <= Cardinality(Users)
        BY <2>1, <2>2, <2>3, <2>4, <2>5, <3>2
      <3>. QED BY <2>1, <2>7, <3>4, <3>5
    <2>. QED BY <2>6, <2>7
  <1>8. OpenBounded'
    <2>. SUFFICES ASSUME NEW q \in Pools
                  PROVE  idle'[q] + Cardinality(Holders(q)') <= Cardinality(Users)
      BY DEF OpenBounded
    <2>1. CASE q # p
      BY <1>4, <2>1 DEF OpenBounded
    <2>2. CASE q = p
      <3>1. Holders(q)' = Holders(p)'
        BY <2>2
      <3>. QED BY <1>7, <2>2, <3>1
    <2>. QED BY <2>1, <2>2
  <1>9. PoolTypes'
    <2>1. idle' \in [Pools -> 0..Cardinality(Users)]
      <3>1. CASE p = Gone
        BY <1>1, <1>3, <3>1 DEF PoolTypes
      <3>2. CASE p \in Pools
        BY <1>7, <3>2
      <3>. QED BY <1>3, <3>1, <3>2
    <2>2. ASSUME NEW j \in Kinds, NEW h \in 1..MaxPools, h > current[j]
          PROVE  idle'[<<j, h>>] = 0 /\ \A v \in Users : held'[v] # <<j, h>>
      <3>1. <<j, h>> \in Pools
        BY DEF Pools
      <3>2. idle[<<j, h>>] = 0 /\ \A v \in Users : held[v] # <<j, h>>
        BY <2>2 DEF PoolTypes
      <3>3. <<j, h>> # p
        BY <1>3, <3>2
      <3>. QED BY <1>2, <1>4, <1>6, <3>1, <3>2, <3>3
    <2>3. cut' \subseteq {v \in Users : held'[v] \in {"redis"} \X (1..MaxPools)}
      BY <1>1 DEF PoolTypes
    <2>4. stray' \in Nat
      BY <1>1 DEF PoolTypes
    <2>. QED BY <1>1, <1>5, <2>1, <2>2, <2>3, <2>4 DEF PoolTypes
  <1>10. ASSUME NEW q \in Pools, Live(q) = {}
         PROVE  idle'[q] = idle[q] /\ Live(q)' = {}
    <2>1. Holders(q) \subseteq cut
      BY <1>10 DEF Live
    <2>2. Holders(q)' \subseteq Holders(q) \ {u}
      BY <1>1, <1>2 DEF Holders, PoolTypes
    <2>3. Live(q)' = {}
      BY <1>1, <2>1, <2>2 DEF Live
    <2>4. CASE q # p
      BY <1>4, <2>3, <2>4
    <2>5. CASE q = p
      BY <1>7, <2>1, <2>3, <2>5
    <2>. QED BY <2>4, <2>5
  <1>. QED BY <1>8, <1>9, <1>10

\* Where a pool was released, it stays so as long as it is the current one.
LEMMA ReleasedStays ==
  ASSUME PoolTypes, Released, current' = current, failed \subseteq failed', late \subseteq late',
         \A k \in Kinds \ (failed' \cup late') : Behind(k)' => Behind(k),
         \A q \in Pools : idle[q] = 0 /\ Live(q) = {} => idle'[q] = 0 /\ Live(q)' = {}
  PROVE  Released'
  <1>. SUFFICES ASSUME NEW k \in Kinds \ (failed' \cup late'), Behind(k)'
                PROVE  idle'[<<k, current[k]>>] = 0 /\ Live(<<k, current[k]>>)' = {}
    BY DEF Released
  <1>1. PICK q \in Pools : q = <<k, current[k]>>
    BY DEF PoolTypes, Pools
  <1>2. idle[q] = 0 /\ Live(q) = {}
    BY <1>1 DEF Released
  <1>3. idle'[q] = 0 /\ Live(q)' = {}
    BY <1>2
  <1>4. Live(<<k, current[k]>>)' = Live(q)'
    BY <1>1 DEF Holders, Live
  <1>. QED BY <1>1, <1>3, <1>4

-----------------------------------------------------------------------------
(* The loop and the records. *)

Three == <<"postgres", "redis", "logging">>
Two == <<"redis", "logging">>
One == <<"logging">>

LEMMA Loop ==
  /\ Teardowns = Three /\ Three \in Seq(Range(Teardowns)) /\ Two \in Seq(Range(Teardowns))
  /\ One \in Seq(Range(Teardowns)) /\ <<>> \in Seq(Range(Teardowns))
  /\ Range(Three) = {"postgres", "redis", "logging"} /\ Range(Two) = {"redis", "logging"}
  /\ Range(One) = {"logging"} /\ Range(<<>>) = {}
  /\ Head(Three) = "postgres" /\ Head(Two) = "redis" /\ Head(One) = "logging"
  /\ Tail(Three) = Two /\ Tail(Two) = One /\ Tail(One) = <<>>
  /\ Two # <<>> /\ One # <<>>
  <1>1. Teardowns = Three
    BY DEF Teardowns, Three
  <1>2. Range(Three) = {"postgres", "redis", "logging"} /\ Range(Two) = {"redis", "logging"}
    BY DEF Three, Two, Range
  <1>3. Range(One) = {"logging"} /\ Range(<<>>) = {}
    BY DEF One, Range
  <1>4. /\ Three \in Seq(Range(Teardowns)) /\ Two \in Seq(Range(Teardowns))
        /\ One \in Seq(Range(Teardowns)) /\ <<>> \in Seq(Range(Teardowns))
    BY <1>1, <1>2 DEF Three, Two, One
  <1>5. /\ Head(Three) = "postgres" /\ Head(Two) = "redis" /\ Head(One) = "logging"
        /\ Tail(Three) = Two /\ Tail(Two) = One /\ Tail(One) = <<>>
        /\ Two # <<>> /\ One # <<>>
    BY DEF Three, Two, One
  <1>. QED BY <1>1, <1>2, <1>3, <1>4, <1>5

\* What the loop has before and after it goes on.
LEMMA AdvanceKeeps ==
  ASSUME Phase, InLoop, Advance
  PROVE  /\ left' \in {Two, One, <<>>} /\ left' \in Seq(Range(Teardowns))
         /\ Range(left) = {Head(left)} \cup Range(left') /\ Head(left) \notin Range(left')
         /\ Head(left) \in Range(Teardowns)
         /\ left' # <<>> => pc' = "closing" /\ Head(left) # "logging"
         /\ left' = <<>> => pc' = "stopped" /\ Head(left) = "logging" /\ Range(left') = {}
         /\ pc' \in {"closing", "stopped"}
  <1>1. left \in {Three, Two, One}
    BY DEF Phase, InLoop, Three, Two, One
  <1>2. left' = Tail(left) /\ pc' = IF Tail(left) = <<>> THEN "stopped" ELSE "closing"
    BY DEF Advance
  <1>3. CASE left = Three
    BY <1>2, <1>3, Loop
  <1>4. CASE left = Two
    BY <1>2, <1>4, Loop
  <1>5. CASE left = One
    BY <1>2, <1>5, Loop
  <1>. QED BY <1>1, <1>3, <1>4, <1>5

\* Records are only ever added.
LEMMA RecordsGrow ==
  ASSUME LogTypeOK, NEW x, records' = Append(records, x)
  PROVE  /\ \A n \in DOMAIN records : n \in DOMAIN records' /\ records'[n] = records[n]
         /\ \E n \in DOMAIN records' : records'[n] = x
  <1>1. PICK n \in Nat : n = Len(records)
    BY LogFacts
  <1>2. records \in Seq(Record) /\ DOMAIN records = 1..n
    BY <1>1, LogFacts
  <1>3. /\ DOMAIN records' = 1..(n + 1) /\ records'[n + 1] = x
        /\ \A k \in 1..n : records'[k] = records[k]
    BY <1>1, <1>2
  <1>. QED BY <1>2, <1>3

\* What was reported stays so.
LEMMA ReportedStays ==
  ASSUME Reported, \A n \in DOMAIN records : n \in DOMAIN records' /\ records'[n] = records[n],
         NEW k \in Kinds, TornDown(k), k \in failed <=> k \in failed'
  PROVE  \E n \in DOMAIN records' :
           /\ records'[n].from = k /\ records'[n].mounted
           /\ records'[n].level = IF k \in failed' THEN Error ELSE Info
  <1>1. PICK n \in DOMAIN records :
          /\ records[n].from = k /\ records[n].mounted
          /\ records[n].level = IF k \in failed THEN Error ELSE Info
    BY DEF Reported
  <1>. QED BY <1>1

-----------------------------------------------------------------------------
(* The steps. *)

\* Steps that leave the pools alone, and tear nothing down.
LEMMA PoolsUnchanged ==
  ASSUME PoolTypes, OpenBounded, UNCHANGED poolVars
  PROVE  /\ PoolTypes' /\ OpenBounded'
         /\ \A q \in Pools : idle'[q] = idle[q] /\ Live(q)' = Live(q)
  BY DEF PoolTypes, OpenBounded, poolVars, Holders, Live

LEMMA StartKeeps ==
  ASSUME IInv, Start
  PROVE  IInv'
  <1>1. LogInv /\ PoolTypes /\ LoopTypes /\ Phase /\ OpenBounded
    BY Parts
  <1>2. /\ pc = "down" /\ pc' = "serving" /\ SetupLogging("lifespan")
        /\ UNCHANGED <<left, failed>> /\ UNCHANGED poolVars
    BY DEF Start
  <1>3. LogInv' /\ TakenOver' /\ sinks' = Mounted'
    BY <1>1, <1>2, SetupLoggingKeeps DEF Phase
  <1>4. PoolTypes' /\ OpenBounded'
    BY <1>1, <1>2, PoolsUnchanged
  <1>5. LoopTypes' /\ Phase'
    BY <1>1, <1>2, <1>3 DEF LoopTypes, Phase, Running
  <1>6. Released' /\ Reported'
    BY <1>2 DEF Released, Reported, TornDown, Behind
  <1>. QED BY <1>3, <1>4, <1>5, <1>6, Parts, PTL

LEMMA StartFailsKeeps ==
  ASSUME IInv, StartFails
  PROVE  IInv'
  <1>1. LogInv /\ PoolTypes /\ LoopTypes /\ Phase /\ OpenBounded
    BY Parts
  <1>2. /\ pc = "down" /\ pc' = "failed" /\ SetupFails
        /\ UNCHANGED <<left, failed>> /\ UNCHANGED poolVars
    BY DEF StartFails
  <1>3. LogInv' /\ Quiet'
    BY <1>1, <1>2, SetupFailsKeeps DEF Phase
  <1>4. PoolTypes' /\ OpenBounded'
    BY <1>1, <1>2, PoolsUnchanged
  <1>5. LoopTypes' /\ Phase'
    BY <1>1, <1>2, <1>3 DEF LoopTypes, Phase, Running
  <1>6. Released' /\ Reported'
    BY <1>2 DEF Released, Reported, TornDown, Behind
  <1>. QED BY <1>3, <1>4, <1>5, <1>6, Parts, PTL

LEMMA ShutdownKeeps ==
  ASSUME IInv, Shutdown
  PROVE  IInv'
  <1>1. LogInv /\ PoolTypes /\ LoopTypes /\ Phase /\ OpenBounded
    BY Parts
  <1>2. /\ pc = "serving" /\ pc' = "closing" /\ left' = Teardowns /\ Log(Info, "lifespan")
        /\ UNCHANGED failed /\ UNCHANGED poolVars
    BY DEF Shutdown
  <1>3. LogInv'
    BY <1>1, <1>2, LogKeeps DEF Phase, Sources
  <1>4. UNCHANGED <<settings, sinks, handlers, propagates>> /\ Mounted' = Mounted
    BY <1>2, SameSettings DEF Log
  <1>5. PoolTypes' /\ OpenBounded'
    BY <1>1, <1>2, PoolsUnchanged
  <1>6. failed = {} /\ TakenOver /\ sinks = Mounted
    BY <1>1, <1>2 DEF Phase, Running
  <1>7. LoopTypes'
    BY <1>2, <1>6, Loop DEF LoopTypes
  <1>8. Phase'
    BY <1>2, <1>4, <1>6 DEF Phase, Running, TakenOver, Teardowns
  <1>9. Released' /\ Reported'
    BY <1>2, Loop DEF Released, Reported, TornDown, Behind, Kinds
  <1>. QED BY <1>3, <1>5, <1>7, <1>8, <1>9, Parts, PTL

\* The loop goes on behind a teardown of a pool, or of the logging.
LEMMA PhaseAdvances ==
  ASSUME Phase, LoopTypes, InLoop, Advance, failed' \in {failed, failed \cup {Head(left)}},
         UNCHANGED <<settings, handlers, propagates>>, sinks' \in {sinks, {}},
         sinks' = {} => left' = <<>>, left' = <<>> /\ failed' = failed => sinks' = {}
  PROVE  Phase' /\ LoopTypes'
  <1>1. /\ left' \in {Two, One, <<>>} /\ left' \in Seq(Range(Teardowns))
        /\ Range(left) = {Head(left)} \cup Range(left') /\ Head(left) \notin Range(left')
        /\ Head(left) \in Range(Teardowns)
        /\ left' # <<>> => pc' = "closing" /\ Head(left) # "logging"
        /\ left' = <<>> => pc' = "stopped" /\ Head(left) = "logging"
        /\ pc' \in {"closing", "stopped"}
    BY AdvanceKeeps
  <1>2. LoopTypes'
    <2>1. failed' \subseteq Range(Teardowns) \ Range(left')
      BY <1>1 DEF LoopTypes
    <2>2. left' # <<>> => pc' = "closing"
      BY <1>1
    <2>. QED BY <1>1, <2>1, <2>2 DEF LoopTypes
  <1>3. sinks = Mounted /\ TakenOver /\ Mounted' = Mounted
    BY SameSettings DEF Phase, Running, InLoop
  <1>4. TakenOver' /\ sinks' \in {{}, Mounted'}
    BY <1>3 DEF TakenOver
  <1>5. pc' = "closing" => left' \in {Two, One} /\ sinks' = Mounted'
    BY <1>1, <1>3
  <1>6. pc' = "stopped" /\ "logging" \notin failed' => sinks' = {}
    <2>1. pc' = "stopped" => left' = <<>>
      BY <1>1
    <2>. QED BY <1>1, <2>1
  <1>7. pc' = "stopped" => left' = <<>>
    BY <1>1
  <1>. QED BY <1>1, <1>2, <1>4, <1>5, <1>6, <1>7 DEF Phase, Running, Two, One

\* What a teardown of a pool leaves in the records when it returns.
LEMMA ReturnReported ==
  ASSUME LogInv, LoopTypes, Phase, Reported, InLoop, NEW k \in Kinds, Head(left) = k, Advance,
         Log(Info, k), failed' = failed
  PROVE  /\ LogInv' /\ Phase' /\ LoopTypes' /\ Reported'
         /\ \A j \in Kinds : j # k /\ TornDown(j)' => TornDown(j)
         /\ pc' = "closing"
  <1>1. sinks = Mounted /\ Mounted # {} /\ k \in Sources /\ k # "access" /\ k # "logging"
    BY DEF Phase, Kinds, Sources, Mounted, StdoutSink, InLoop
  <1>2. /\ LogInv'
        /\ records' = Append(records, [level |-> Info, from |-> k, mounted |-> TRUE])
    BY <1>1, LogKeeps
  <1>3. UNCHANGED <<settings, sinks, handlers, propagates>>
    BY DEF Log
  <1>4. /\ Range(left) = {k} \cup Range(left') /\ k \notin Range(left') /\ left' # <<>>
        /\ pc' = "closing"
    BY <1>1, AdvanceKeeps
  <1>5. Phase' /\ LoopTypes'
    <2>1. sinks # {} /\ failed' \in {failed, failed \cup {Head(left)}} /\ sinks' \in {sinks, {}}
      BY <1>1, <1>3
    <2>2. (sinks' = {} => left' = <<>>) /\ (left' = <<>> /\ failed' = failed => sinks' = {})
      BY <1>3, <1>4, <2>1
    <2>. QED BY <1>3, <2>1, <2>2, PhaseAdvances
  <1>6. \A j \in Kinds : j # k /\ TornDown(j)' => TornDown(j)
    BY <1>4 DEF TornDown, InLoop
  <1>7. Reported'
    <2>1. /\ \A n \in DOMAIN records : n \in DOMAIN records' /\ records'[n] = records[n]
          /\ \E n \in DOMAIN records' :
               records'[n] = [level |-> Info, from |-> k, mounted |-> TRUE]
      BY <1>2, RecordsGrow DEF LogInv
    <2>2. k \notin failed
      BY <1>4 DEF LoopTypes
    <2>3. ASSUME NEW j \in Kinds, TornDown(j)'
          PROVE  \E n \in DOMAIN records' :
                   /\ records'[n].from = j /\ records'[n].mounted
                   /\ records'[n].level = IF j \in failed' THEN Error ELSE Info
      <3>1. CASE j = k
        BY <2>1, <2>2, <3>1
      <3>2. CASE j # k
        BY <1>6, <2>1, <2>3, <3>2, ReportedStays
      <3>. QED BY <3>1, <3>2
    <2>. QED BY <2>3 DEF Reported
  <1>. QED BY <1>2, <1>4, <1>5, <1>6, <1>7

\* Closing connections: with the engine's, the loop stays where it is, or is
\* left with CancelledError.
LEMMA DrainKeeps ==
  ASSUME IInv, DrainOne, pc' \in {"closing", "cancelled"},
         UNCHANGED <<logVars, left, failed, current, held, cut, stray, late>>
  PROVE  IInv'
  <1>1. LogInv /\ PoolTypes /\ LoopTypes /\ Phase /\ OpenBounded /\ Released /\ Reported
    BY Parts
  <1>2. pc = "closing" /\ UNCHANGED logVars
    BY DEF DrainOne, Closing
  <1>3. LogInv'
    <2>1. LogTypeOK' /\ InOrder' /\ Routed' /\ QueuesMounted' /\ Echoes'
      BY <1>1, <1>2, OrderUnchanged DEF logVars, LogInv, LogTypeOK
    <2>. QED BY <2>1 DEF LogInv
  <1>4. LoopTypes' /\ Phase'
    BY <1>1, <1>2, SameSettings DEF logVars, LoopTypes, Phase, Running, TakenOver
  <1>5. PICK p \in Pools : /\ idle[p] > 0 /\ idle' = [idle EXCEPT ![p] = idle[p] - 1]
    BY <1>1 DEF DrainOne, PoolTypes, Pools, Kinds
  <1>6. /\ idle' \in [Pools -> 0..Cardinality(Users)]
        /\ \A q \in Pools : idle'[q] <= idle[q]
    <2>1. Cardinality(Users) \in Nat /\ idle[p] \in 0..Cardinality(Users)
      BY <1>1, HoldersFinite DEF PoolTypes
    <2>2. \A q \in Pools : idle[q] \in Int
      BY <1>1, <2>1 DEF PoolTypes
    <2>3. \A q \in Pools : idle'[q] = IF q = p THEN idle[p] - 1 ELSE idle[q]
      BY <1>1, <1>5 DEF PoolTypes
    <2>4. \A q \in Pools : idle'[q] <= idle[q]
      BY <2>2, <2>3
    <2>5. idle[p] - 1 \in 0..Cardinality(Users)
      BY <1>5, <2>1
    <2>. QED BY <1>1, <1>5, <2>4, <2>5 DEF PoolTypes
  <1>7. /\ PoolTypes' /\ OpenBounded'
        /\ \A q \in Pools : /\ idle[q] = 0 => idle'[q] = 0
                          /\ Holders(q)' = Holders(q) /\ Live(q)' \subseteq Live(q)
    BY <1>1, <1>6, ClosingKeeps DEF PoolTypes
  <1>8. \A j \in Kinds : (TornDown(j)' => TornDown(j)) /\ (Behind(j)' => Behind(j))
    BY <1>2 DEF TornDown, Behind
  <1>9. Released'
    BY <1>1, <1>7, <1>8, ReleasedStays
  <1>10. Reported'
    BY <1>1, <1>2, <1>8 DEF Reported, logVars
  <1>. QED BY <1>3, <1>4, <1>7, <1>9, <1>10, Parts, PTL

LEMMA DisposeEngineKeeps ==
  ASSUME IInv, DisposeEngine
  PROVE  IInv'
  <1>1. LogInv /\ PoolTypes /\ LoopTypes /\ Phase /\ OpenBounded /\ Released /\ Reported
    BY Parts
  <1>2. PICK p \in {"postgres"} \X (1..MaxPools) : p = <<"postgres", current["postgres"]>>
    BY <1>1 DEF PoolTypes, Kinds
  <1>3. /\ pc = "closing" /\ Head(left) = "postgres" /\ Advance /\ Log(Info, "postgres")
        /\ idle[p] = 0 /\ held' = [u \in Users |-> IF held[u] = p THEN Gone ELSE held[u]]
        /\ failed' = failed /\ UNCHANGED <<current, idle, cut, stray, late>>
    BY <1>2 DEF DisposeEngine, Closing
  <1>4. InLoop /\ "postgres" \in Kinds
    BY <1>3 DEF InLoop, Kinds
  <1>5. /\ LogInv' /\ Phase' /\ LoopTypes' /\ Reported'
        /\ \A j \in Kinds : j # "postgres" /\ TornDown(j)' => TornDown(j)
        /\ pc' = "closing"
    BY <1>1, <1>3, <1>4, ReturnReported
  <1>6. /\ PoolTypes' /\ OpenBounded' /\ Live(p)' = {}
        /\ \A q \in Pools : q # p => Live(q)' = Live(q)
    BY <1>1, <1>3, LeavingKeeps
  <1>7. Released'
    <2>. SUFFICES ASSUME NEW j \in Kinds \ (failed \cup late), Behind(j)'
                  PROVE  idle'[<<j, current[j]>>] = 0 /\ Live(<<j, current[j]>>)' = {}
      BY <1>3 DEF Released
    <2>1. PICK q \in Pools : q = <<j, current[j]>>
      BY <1>1 DEF PoolTypes, Pools
    <2>2. Live(<<j, current[j]>>)' = Live(q)'
      BY <1>3, <2>1 DEF Holders, Live
    <2>3. CASE j = "postgres"
      <3>1. q = p
        BY <1>2, <2>1, <2>3
      <3>2. Live(q)' = Live(p)'
        BY <3>1
      <3>. QED BY <1>3, <1>6, <2>1, <2>2, <3>1, <3>2
    <2>4. CASE j # "postgres"
      <3>1. q # p
        BY <1>2, <2>1, <2>4
      <3>2. idle[q] = 0 /\ Live(q) = {}
        BY <1>1, <1>5, <2>1, <2>4 DEF Released, Behind
      <3>. QED BY <1>3, <1>6, <2>1, <2>2, <3>1, <3>2
    <2>. QED BY <2>3, <2>4
  <1>. QED BY <1>5, <1>6, <1>7, Parts, PTL

\* From here on nothing of the pool is open that is not opened anew.
LEMMA DisconnectKeeps ==
  ASSUME IInv, Disconnect
  PROVE  IInv'
  <1>1. LogInv /\ PoolTypes /\ LoopTypes /\ Phase /\ OpenBounded /\ Released /\ Reported
    BY Parts
  <1>2. PICK p \in {"redis"} \X (1..MaxPools) : p = <<"redis", current["redis"]>>
    BY <1>1 DEF PoolTypes, Kinds
  <1>3. /\ pc = "closing" /\ Head(left) = "redis" /\ pc' = "disconnecting"
        /\ idle' = [idle EXCEPT ![p] = 0]
        /\ cut' = cut \cup {u \in Users : held[u] = p}
        /\ UNCHANGED <<left, failed>> /\ UNCHANGED logVars
        /\ UNCHANGED <<current, held, stray, late>>
    BY <1>2 DEF Disconnect, Closing
  <1>4. p \in Pools
    BY DEF Pools, Kinds
  <1>5. LogInv'
    <2>1. LogTypeOK' /\ InOrder' /\ Routed' /\ QueuesMounted' /\ Echoes'
      BY <1>1, <1>3, OrderUnchanged DEF logVars, LogInv, LogTypeOK
    <2>. QED BY <2>1 DEF LogInv
  <1>6. left = <<"redis", "logging">>
    BY <1>1, <1>3, Loop DEF Phase, Three, Two, One
  <1>7. LoopTypes'
    BY <1>1, <1>3 DEF LoopTypes
  <1>8. Phase'
    <2>1. Mounted' = Mounted /\ TakenOver' /\ sinks' = Mounted
      BY <1>1, <1>3, SameSettings DEF logVars, Phase, Running, TakenOver
    <2>. QED BY <1>3, <1>6, <2>1 DEF Phase, Running
  <1>9. /\ idle' \in [Pools -> 0..Cardinality(Users)]
        /\ \A q \in Pools : idle'[q] = IF q = p THEN 0 ELSE idle[q]
        /\ \A q \in Pools : idle'[q] <= idle[q]
    <2>1. Cardinality(Users) \in Nat
      BY HoldersFinite
    <2>2. \A q \in Pools : idle[q] \in 0..Cardinality(Users)
      BY <1>1 DEF PoolTypes
    <2>3. \A q \in Pools : idle'[q] = IF q = p THEN 0 ELSE idle[q]
      BY <1>1, <1>3 DEF PoolTypes
    <2>4. \A q \in Pools : idle'[q] <= idle[q]
      BY <2>1, <2>2, <2>3
    <2>5. 0 \in 0..Cardinality(Users) /\ idle \in [Pools -> 0..Cardinality(Users)]
      BY <1>1, <2>1 DEF PoolTypes
    <2>6. idle' \in [Pools -> 0..Cardinality(Users)]
      BY <1>3, <2>5
    <2>. QED BY <2>3, <2>4, <2>6
  <1>10. cut' \subseteq {u \in Users : held[u] \in {"redis"} \X (1..MaxPools)}
    BY <1>1, <1>3 DEF PoolTypes
  <1>11. /\ PoolTypes' /\ OpenBounded'
         /\ \A q \in Pools : /\ idle[q] = 0 => idle'[q] = 0
                           /\ Holders(q)' = Holders(q) /\ Live(q)' \subseteq Live(q)
    BY <1>1, <1>3, <1>9, <1>10, ClosingKeeps
  <1>12. \A j \in Kinds : (TornDown(j)' => TornDown(j)) /\ (j # "redis" /\ Behind(j)' => Behind(j))
    BY <1>3 DEF TornDown, Behind
  <1>13. Released'
    <2>. SUFFICES ASSUME NEW j \in Kinds \ (failed \cup late), Behind(j)'
                  PROVE  idle'[<<j, current[j]>>] = 0 /\ Live(<<j, current[j]>>)' = {}
      BY <1>3 DEF Released
    <2>1. PICK q \in Pools : q = <<j, current[j]>>
      BY <1>1 DEF PoolTypes, Pools
    <2>2. Live(<<j, current[j]>>)' = Live(q)'
      BY <1>3, <2>1 DEF Holders, Live
    <2>3. CASE j = "redis"
      <3>1. q = p
        BY <1>2, <2>1, <2>3
      <3>2. Live(p)' = {}
        BY <1>3 DEF Live, Holders
      <3>3. Live(q)' = Live(p)'
        BY <3>1
      <3>. QED BY <1>9, <2>1, <2>2, <3>1, <3>2, <3>3
    <2>4. CASE j # "redis"
      <3>1. idle[q] = 0 /\ Live(q) = {}
        BY <1>1, <1>12, <2>1, <2>4 DEF Released
      <3>. QED BY <1>11, <2>1, <2>2, <3>1
    <2>. QED BY <2>3, <2>4
  <1>14. Reported'
    BY <1>1, <1>3, <1>12 DEF Reported, logVars
  <1>. QED BY <1>5, <1>7, <1>8, <1>11, <1>13, <1>14, Parts, PTL

LEMMA DisconnectedKeeps ==
  ASSUME IInv, Disconnected
  PROVE  IInv'
  <1>1. LogInv /\ PoolTypes /\ LoopTypes /\ Phase /\ OpenBounded /\ Released /\ Reported
    BY Parts
  <1>2. /\ pc = "disconnecting" /\ Advance /\ Log(Info, "redis") /\ failed' = failed
        /\ UNCHANGED poolVars
    BY DEF Disconnected
  <1>3. Head(left) = "redis" /\ InLoop /\ "redis" \in Kinds
    BY <1>1, <1>2, Loop DEF Phase, InLoop, Kinds, Two
  <1>4. /\ LogInv' /\ Phase' /\ LoopTypes' /\ Reported'
        /\ \A j \in Kinds : j # "redis" /\ TornDown(j)' => TornDown(j)
        /\ pc' = "closing"
    BY <1>1, <1>2, <1>3, ReturnReported
  <1>5. /\ PoolTypes' /\ OpenBounded'
        /\ \A q \in Pools : idle'[q] = idle[q] /\ Live(q)' = Live(q)
    BY <1>1, <1>2, PoolsUnchanged
  <1>6. \A j \in Kinds : Behind(j)' => Behind(j)
    BY <1>2, <1>4 DEF Behind
  <1>7. Released'
    BY <1>1, <1>2, <1>5, <1>6, ReleasedStays DEF poolVars
  <1>. QED BY <1>4, <1>5, <1>7, Parts, PTL

LEMMA ClosesLoggingKeeps ==
  ASSUME IInv, Closing("logging"), Advance, CloseLogging, UNCHANGED <<failed, poolVars>>
  PROVE  IInv'
  <1>1. LogInv /\ PoolTypes /\ LoopTypes /\ Phase /\ OpenBounded /\ Released /\ Reported
    BY Parts
  <1>2. pc = "closing" /\ Head(left) = "logging" /\ failed' = failed /\ UNCHANGED poolVars
    BY DEF Closing
  <1>3. LogInv' /\ sinks' = {}
    BY <1>1, CloseLoggingKeeps
  <1>4. UNCHANGED <<settings, handlers, propagates, records>>
    BY DEF CloseLogging
  <1>5. Range(left) = {"logging"} \cup Range(left') /\ left' = <<>> /\ InLoop
    <2>1. InLoop
      BY <1>2 DEF InLoop
    <2>. QED BY <1>1, <1>2, <2>1, AdvanceKeeps
  <1>6. Phase' /\ LoopTypes' /\ pc' # "disconnecting"
    BY <1>1, <1>2, <1>3, <1>4, <1>5, PhaseAdvances, AdvanceKeeps
  <1>7. /\ PoolTypes' /\ OpenBounded'
        /\ \A q \in Pools : idle'[q] = idle[q] /\ Live(q)' = Live(q)
    BY <1>1, <1>2, PoolsUnchanged
  <1>8. \A j \in Kinds : (TornDown(j)' => TornDown(j)) /\ (Behind(j)' => Behind(j))
    BY <1>2, <1>5, <1>6 DEF TornDown, Behind, Kinds
  <1>9. Released'
    BY <1>1, <1>2, <1>7, <1>8, ReleasedStays DEF poolVars
  <1>10. Reported'
    BY <1>1, <1>2, <1>4, <1>8 DEF Reported
  <1>. QED BY <1>3, <1>6, <1>7, <1>9, <1>10, Parts, PTL

LEMMA TeardownFailsKeeps ==
  ASSUME IInv, TeardownFails
  PROVE  IInv'
  <1>1. LogInv /\ PoolTypes /\ LoopTypes /\ Phase /\ OpenBounded /\ Released /\ Reported
    BY Parts
  <1>2. PICK h : h = Head(left)
    OBVIOUS
  <1>3. /\ InLoop /\ failed' = failed \cup {h} /\ Advance /\ Log(Error, h)
        /\ UNCHANGED poolVars
    BY <1>2 DEF TeardownFails
  <1>4. /\ Range(left) = {h} \cup Range(left') /\ h \notin Range(left')
        /\ h \in Range(Teardowns)
        /\ left' = <<>> => h = "logging"
        /\ pc' # "disconnecting"
    BY <1>1, <1>2, <1>3, AdvanceKeeps
  <1>5. h \in {"postgres", "redis", "logging"} /\ h \notin failed
    BY <1>1, <1>4, Loop DEF LoopTypes
  <1>6. sinks = Mounted /\ Mounted # {} /\ h \in Sources /\ h # "access"
    BY <1>1, <1>3, <1>5 DEF Phase, Sources, Mounted, StdoutSink, InLoop
  <1>7. /\ LogInv'
        /\ records' = Append(records, [level |-> Error, from |-> h, mounted |-> TRUE])
    BY <1>1, <1>3, <1>6, LogKeeps
  <1>8. UNCHANGED <<settings, sinks, handlers, propagates>>
    BY <1>3 DEF Log
  <1>9. Phase' /\ LoopTypes'
    BY <1>1, <1>2, <1>3, <1>5, <1>6, <1>8, PhaseAdvances
  <1>10. /\ PoolTypes' /\ OpenBounded'
         /\ \A q \in Pools : idle'[q] = idle[q] /\ Live(q)' = Live(q)
    BY <1>1, <1>3, PoolsUnchanged
  <1>11. \A j \in Kinds : j # h /\ (TornDown(j) \/ Behind(j))' => TornDown(j)
    BY <1>3, <1>4 DEF TornDown, Behind, InLoop
  <1>12. Released'
    <2>1. \A j \in Kinds \ (failed' \cup late') : Behind(j)' => Behind(j)
      BY <1>3, <1>11 DEF Behind
    <2>. QED BY <1>1, <1>3, <1>10, <2>1, ReleasedStays DEF poolVars
  <1>13. Reported'
    <2>1. /\ \A n \in DOMAIN records : n \in DOMAIN records' /\ records'[n] = records[n]
          /\ \E n \in DOMAIN records' :
               records'[n] = [level |-> Error, from |-> h, mounted |-> TRUE]
      BY <1>1, <1>7, RecordsGrow DEF LogInv
    <2>2. ASSUME NEW j \in Kinds, TornDown(j)'
          PROVE  \E n \in DOMAIN records' :
                   /\ records'[n].from = j /\ records'[n].mounted
                   /\ records'[n].level = IF j \in failed' THEN Error ELSE Info
      <3>1. CASE j = h
        BY <1>3, <2>1, <3>1
      <3>2. CASE j # h
        <4>1. j \in failed <=> j \in failed'
          BY <1>3, <3>2
        <4>. QED BY <1>1, <1>11, <2>1, <2>2, <3>2, <4>1, ReportedStays
      <3>. QED BY <3>1, <3>2
    <2>. QED BY <2>2 DEF Reported
  <1>. QED BY <1>7, <1>9, <1>10, <1>12, <1>13, Parts, PTL

LEMMA CancelKeeps ==
  ASSUME IInv, Cancel
  PROVE  IInv'
  <1>1. LogInv /\ PoolTypes /\ LoopTypes /\ Phase /\ OpenBounded /\ Released /\ Reported
    BY Parts
  <1>2. /\ pc' = "cancelled" /\ UNCHANGED <<left, failed>>
        /\ UNCHANGED logVars /\ UNCHANGED <<current, held, cut, stray, late>>
    BY DEF Cancel
  <1>3. CASE DrainOne
    BY <1>2, <1>3, DrainKeeps
  <1>4. CASE pc = "disconnecting" /\ UNCHANGED idle
    <2>1. LogInv'
      <3>1. LogTypeOK' /\ InOrder' /\ Routed' /\ QueuesMounted' /\ Echoes'
        BY <1>1, <1>2, OrderUnchanged DEF logVars, LogInv, LogTypeOK
      <3>. QED BY <3>1 DEF LogInv
    <2>2. LoopTypes' /\ Phase'
      BY <1>1, <1>2, <1>4, SameSettings DEF logVars, LoopTypes, Phase, Running, TakenOver
    <2>3. /\ PoolTypes' /\ OpenBounded'
          /\ \A q \in Pools : idle'[q] = idle[q] /\ Live(q)' = Live(q)
      BY <1>1, <1>2, <1>4, PoolsUnchanged DEF poolVars
    <2>4. \A j \in Kinds : (TornDown(j)' => TornDown(j)) /\ (Behind(j)' => Behind(j))
      BY <1>2, <1>4 DEF TornDown, Behind
    <2>5. Released'
      BY <1>1, <1>2, <2>3, <2>4, ReleasedStays
    <2>6. Reported'
      BY <1>1, <1>2, <2>4 DEF Reported, logVars
    <2>. QED BY <2>1, <2>2, <2>3, <2>5, <2>6, Parts, PTL
  <1>. QED BY <1>3, <1>4 DEF Cancel

\* What the lifespan has reached stays while others log, or sinks write.
LEMMA RunningStays ==
  ASSUME Phase, LoopTypes, Reported, LogInv, Running,
         UNCHANGED <<pc, left, failed, settings, sinks>>, TakenOver',
         records' = records \/ \E x : records' = Append(records, x)
  PROVE  /\ Phase' /\ LoopTypes' /\ Reported'
         /\ \A k \in Kinds : TornDown(k)' = TornDown(k) /\ Behind(k)' = Behind(k)
  <1>1. Phase' /\ LoopTypes'
    BY SameSettings DEF Phase, LoopTypes, Running
  <1>2. \A k \in Kinds : TornDown(k)' = TornDown(k) /\ Behind(k)' = Behind(k)
    BY DEF TornDown, Behind
  <1>3. \A n \in DOMAIN records : n \in DOMAIN records' /\ records'[n] = records[n]
    BY RecordsGrow DEF LogInv
  <1>4. Reported'
    <2>. SUFFICES ASSUME NEW k \in Kinds, TornDown(k)'
                  PROVE  \E n \in DOMAIN records' :
                           /\ records'[n].from = k /\ records'[n].mounted
                           /\ records'[n].level = IF k \in failed' THEN Error ELSE Info
      BY DEF Reported
    <2>. QED BY <1>2, <1>3, ReportedStays
  <1>. QED BY <1>1, <1>2, <1>4

LEMMA InitPoolKeeps ==
  ASSUME IInv, NEW k \in Kinds, InitPool(k)
  PROVE  IInv'
  <1>1. LogInv /\ PoolTypes /\ LoopTypes /\ Phase /\ OpenBounded /\ Released /\ Reported
    BY Parts
  <1>2. /\ Running /\ current[k] < MaxPools /\ current' = [current EXCEPT ![k] = current[k] + 1]
        /\ UNCHANGED <<pc, left, failed, idle, held, cut, stray, late>>
        /\ Log(Info, "program") \/ \E echo, echoPool \in BOOLEAN : MakeEngine(echo, echoPool)
    BY DEF InitPool
  <1>3. /\ LogInv' /\ TakenOver' /\ UNCHANGED <<settings, sinks>>
        /\ \E x : records' = Append(records, x)
    <2>1. "program" \in Sources /\ "program" # "access" /\ Info \in {Info, Error}
      BY DEF Sources
    <2>2. sinks \in {{}, Mounted} /\ TakenOver
      BY <1>1, <1>2 DEF Phase
    <2>3. CASE Log(Info, "program")
      BY <1>1, <2>1, <2>2, <2>3, LogKeeps DEF Log, TakenOver
    <2>4. CASE \E echo, echoPool \in BOOLEAN : MakeEngine(echo, echoPool)
      BY <1>1, <2>2, <2>4, MakeEngineKeeps
    <2>. QED BY <1>2, <2>3, <2>4
  <1>4. /\ Phase' /\ LoopTypes' /\ Reported'
        /\ \A j \in Kinds : TornDown(j)' = TornDown(j) /\ Behind(j)' = Behind(j)
    BY <1>1, <1>2, <1>3, RunningStays
  <1>5. /\ current[k] \in 1..MaxPools /\ current[k] + 1 \in 1..MaxPools
        /\ current[k] + 1 > current[k] /\ MaxPools \in Nat
    BY <1>1, <1>2, LifecycleAssumption DEF PoolTypes
  <1>6. PoolTypes'
    <2>1. current' \in [Kinds -> 1..MaxPools]
      BY <1>1, <1>2, <1>5 DEF PoolTypes
    <2>2. ASSUME NEW j \in Kinds, NEW g \in 1..MaxPools, g > current'[j]
          PROVE  g > current[j]
      BY <1>1, <1>2, <1>5, <2>2 DEF PoolTypes
    <2>. QED BY <1>1, <1>2, <2>1, <2>2 DEF PoolTypes
  <1>7. OpenBounded'
    BY <1>1, <1>2 DEF OpenBounded, Holders
  <1>8. Released'
    <2>. SUFFICES ASSUME NEW j \in Kinds \ (failed \cup late), Behind(j)
                  PROVE  idle[<<j, current'[j]>>] = 0 /\ Live(<<j, current[j]>>)' = {}
      BY <1>2, <1>4 DEF Released
    <2>1. Live(<<j, current[j]>>)' = {u \in Users : held[u] = <<j, current'[j]>>} \ cut
      BY <1>2 DEF Holders, Live
    <2>2. CASE j = k
      <3>1. current'[j] = current[k] + 1
        BY <1>1, <1>2, <2>2 DEF PoolTypes
      <3>2. idle[<<k, current[k] + 1>>] = 0 /\ \A u \in Users : held[u] # <<k, current[k] + 1>>
        BY <1>1, <1>5 DEF PoolTypes
      <3>. QED BY <2>1, <2>2, <3>1, <3>2
    <2>3. CASE j # k
      <3>1. current'[j] = current[j]
        BY <1>1, <1>2, <2>3 DEF PoolTypes
      <3>2. /\ idle[<<j, current[j]>>] = 0
            /\ {u \in Users : held[u] = <<j, current[j]>>} \ cut = {}
        BY <1>1 DEF Released, Holders, Live
      <3>. QED BY <2>1, <3>1, <3>2
    <2>. QED BY <2>2, <2>3
  <1>. QED BY <1>3, <1>4, <1>6, <1>7, <1>8, Parts, PTL

\* A connection that was closed is open again: it comes late.
LEMMA ReopenKeeps ==
  ASSUME PoolTypes, OpenBounded, NEW u \in Users, Reopen(u)
  PROVE  /\ PoolTypes' /\ OpenBounded'
         /\ Live(<<"postgres", current["postgres"]>>)' = Live(<<"postgres", current["postgres"]>>)
  <1>1. /\ u \in cut /\ cut' = cut \ {u} /\ late' \in {late, late \cup {"redis"}}
        /\ UNCHANGED <<current, idle, held, stray>>
    BY DEF Reopen, NowLate
  <1>2. PoolTypes'
    BY <1>1 DEF PoolTypes, Kinds
  <1>3. OpenBounded'
    BY <1>1 DEF OpenBounded, Holders
  <1>4. held[u] # <<"postgres", current["postgres"]>>
    BY <1>1 DEF PoolTypes
  <1>. QED BY <1>1, <1>2, <1>3, <1>4 DEF Live, Holders

LEMMA UsersKeep ==
  ASSUME IInv, NEW u \in Users, GiveBack(u) \/ Reopen(u) \/ \E k \in Kinds : Take(u, k)
  PROVE  IInv'
  <1>1. LogInv /\ PoolTypes /\ LoopTypes /\ Phase /\ OpenBounded /\ Released /\ Reported
    BY Parts
  <1>2. UNCHANGED logVars /\ UNCHANGED <<pc, left, failed, current>>
    BY DEF GiveBack, Reopen, Take
  <1>3. LogInv' /\ LoopTypes' /\ Phase' /\ Reported'
    <2>1. LogTypeOK' /\ InOrder' /\ Routed' /\ QueuesMounted' /\ Echoes'
      BY <1>1, <1>2, OrderUnchanged DEF logVars, LogInv, LogTypeOK
    <2>2. LoopTypes' /\ Phase'
      BY <1>1, <1>2, SameSettings DEF logVars, LoopTypes, Phase, Running, TakenOver, Quiet
    <2>3. Reported'
      BY <1>1, <1>2 DEF Reported, TornDown, logVars
    <2>. QED BY <2>1, <2>2, <2>3 DEF LogInv
  <1>4. \A j \in Kinds : Behind(j)' = Behind(j)
    BY <1>2 DEF TornDown, Behind
  <1>5. CASE GiveBack(u)
    <2>1. /\ PoolTypes' /\ OpenBounded'
          /\ \A q \in Pools : Live(q) = {} => idle'[q] = idle[q] /\ Live(q)' = {}
      BY <1>1, <1>5, GiveBackKeeps
    <2>2. late' = late
      BY <1>5 DEF GiveBack
    <2>3. Released'
      BY <1>1, <1>2, <1>4, <2>1, <2>2, ReleasedStays
    <2>. QED BY <1>3, <2>1, <2>3, Parts, PTL
  <1>6. ASSUME NEW k \in Kinds, Take(u, k) PROVE IInv'
    <2>1. /\ PoolTypes' /\ OpenBounded'
          /\ \A j \in Kinds : j # k =>
               /\ idle'[<<j, current[j]>>] = idle[<<j, current[j]>>]
               /\ Live(<<j, current[j]>>)' = Live(<<j, current[j]>>)
      BY <1>1, <1>6, TakeKeeps
    <2>2. late' = IF Behind(k) THEN late \cup {k} ELSE late
      BY <1>6 DEF Take, NowLate
    <2>3. Released'
      <3>. SUFFICES ASSUME NEW j \in Kinds \ (failed \cup late'), Behind(j)
                    PROVE  idle'[<<j, current[j]>>] = 0 /\ Live(<<j, current[j]>>)' = {}
        BY <1>2, <1>4 DEF Released
      <3>1. j # k /\ j \notin late
        BY <2>2
      <3>2. idle[<<j, current[j]>>] = 0 /\ Live(<<j, current[j]>>) = {}
        BY <1>1, <3>1 DEF Released
      <3>. QED BY <2>1, <3>1, <3>2
    <2>. QED BY <1>3, <2>1, <2>3, Parts, PTL
  <1>7. CASE Reopen(u)
    <2>1. /\ PoolTypes' /\ OpenBounded'
          /\ Live(<<"postgres", current["postgres"]>>)'
               = Live(<<"postgres", current["postgres"]>>)
      BY <1>1, <1>7, ReopenKeeps
    <2>2. idle' = idle /\ late' = IF Behind("redis") THEN late \cup {"redis"} ELSE late
      BY <1>7 DEF Reopen, NowLate
    <2>3. Released'
      <3>. SUFFICES ASSUME NEW j \in Kinds \ (failed \cup late'), Behind(j)
                    PROVE  idle'[<<j, current[j]>>] = 0 /\ Live(<<j, current[j]>>)' = {}
        BY <1>2, <1>4 DEF Released
      <3>1. j = "postgres" /\ j \notin late
        BY <2>2 DEF Kinds
      <3>2. idle[<<j, current[j]>>] = 0 /\ Live(<<j, current[j]>>) = {}
        BY <1>1, <3>1 DEF Released
      <3>. QED BY <2>1, <2>2, <3>1, <3>2
    <2>. QED BY <1>3, <2>1, <2>3, Parts, PTL
  <1>. QED BY <1>5, <1>6, <1>7

\* Logging by the program, and the writing of the sinks.
LEMMA RecordsKeep ==
  ASSUME IInv, ProgramLogs \/ \E s \in Sinks : SinkWrites(s)
  PROVE  IInv'
  <1>1. LogInv /\ PoolTypes /\ LoopTypes /\ Phase /\ OpenBounded /\ Released /\ Reported
    BY Parts
  <1>2. UNCHANGED <<pc, left, failed>> /\ UNCHANGED poolVars
    BY DEF ProgramLogs, SinkWrites
  <1>3. /\ PoolTypes' /\ OpenBounded'
        /\ \A q \in Pools : idle'[q] = idle[q] /\ Live(q)' = Live(q)
    BY <1>1, <1>2, PoolsUnchanged
  <1>4. SUFFICES LogInv' /\ LoopTypes' /\ Phase' /\ Reported'
    <2>1. \A j \in Kinds : Behind(j)' = Behind(j)
      BY <1>2 DEF TornDown, Behind
    <2>2. Released'
      BY <1>1, <1>2, <1>3, <2>1, ReleasedStays DEF poolVars
    <2>. QED BY <1>3, <1>4, <2>2, Parts, PTL
  <1>5. CASE ProgramLogs
    <2>1. Running /\ TakenOver /\ sinks \in {{}, Mounted}
      BY <1>1, <1>5 DEF ProgramLogs, Phase
    <2>2. ASSUME NEW level \in {Info, Error}, Log(level, "program")
          PROVE  /\ LogInv' /\ UNCHANGED <<settings, sinks, handlers, propagates>>
                 /\ \E x : records' = Append(records, x)
      <3>1. "program" \in Sources /\ "program" # "access"
        BY DEF Sources
      <3>. QED BY <1>1, <2>1, <2>2, <3>1, LogKeeps DEF Log
    <2>3. ASSUME NEW level \in {Info, Error}, NEW l \in Loggers, StandardLog(level, l)
          PROVE  /\ LogInv' /\ UNCHANGED <<settings, sinks, handlers, propagates>>
                 /\ \E x : records' = Append(records, x)
      <3>1. UNCHANGED <<settings, sinks, handlers, propagates>>
        BY <2>3 DEF StandardLog
      <3>. QED BY <1>1, <2>1, <2>3, <3>1, StandardLogKeeps
    <2>4. /\ LogInv' /\ UNCHANGED <<settings, sinks, handlers, propagates>>
          /\ \E x : records' = Append(records, x)
      BY <1>5, <2>2, <2>3 DEF ProgramLogs
    <2>5. TakenOver'
      BY <2>1, <2>4 DEF TakenOver
    <2>. QED BY <1>1, <1>2, <2>1, <2>4, <2>5, RunningStays
  <1>6. ASSUME NEW s \in Sinks, SinkWrites(s)
        PROVE  LogInv' /\ LoopTypes' /\ Phase' /\ Reported'
    <2>1. /\ LogInv' /\ UNCHANGED <<settings, sinks, handlers, propagates, records>>
          /\ queue[s] # <<>>
      BY <1>1, <1>6, WriteKeeps DEF SinkWrites, Write
    <2>2. Running /\ TakenOver
      BY <1>1, <2>1 DEF Phase, Quiet, LoopTypes, Running
    <2>3. TakenOver'
      BY <2>1, <2>2 DEF TakenOver
    <2>. QED BY <1>1, <1>2, <2>1, <2>2, <2>3, RunningStays
  <1>. QED BY <1>5, <1>6

-----------------------------------------------------------------------------
(* The invariant. *)

\* Nothing is logged, nothing is open.
LEMMA InitIInv == Init => IInv
  <1>. SUFFICES ASSUME Init PROVE IInv
    OBVIOUS
  <1>1. LogTypeOK
    <2>1. /\ handlers \in [Loggers -> {"none", "own", "intercept", "null"}]
          /\ sinks \subseteq Sinks /\ propagates \subseteq DOMAIN Parent
          /\ settings \in Settings
      BY DEF Init, LogInit, Sinks
    <2>2. /\ records \in Seq([level : {Info, Error}, from : Sources, mounted : BOOLEAN])
          /\ queue \in [Sinks -> Seq(DOMAIN records)]
          /\ written \in [Outputs -> Seq(DOMAIN records)]
          /\ \A s \in Sinks : queue[s] = <<>>
          /\ printed \in Seq(DOMAIN records)
      BY DEF Init, LogInit
    <2>. QED BY <2>1, <2>2 DEF LogTypeOK
  <1>2. Quiet
    BY DEF Init, LogInit, Quiet
  <1>3. LogInv
    <2>1. settings.mode \in {"text", "json", "both"}
      BY <1>1, SettingsAssumption DEF LogTypeOK
    <2>2. \A o \in Outputs : Feeds(o) \in Sinks
      BY <2>1 DEF Feeds, Outputs, Sinks
    <2>3. InOrder
      BY <1>2, <2>2 DEF InOrder, InTurn, Quiet
    <2>4. Routed /\ QueuesMounted /\ Echoes
      BY <1>2 DEF Routed, QueuesMounted, Quiet, Echoes, Range
    <2>. QED BY <1>1, <2>3, <2>4 DEF LogInv
  <1>4. \A p \in Pools : Holders(p) = {}
    BY LifecycleAssumption DEF Init, Holders, Pools, Kinds
  <1>5. Cardinality(Users) \in Nat
    BY HoldersFinite
  <1>6. PoolTypes
    <2>1. current \in [Kinds -> 1..MaxPools]
      BY LifecycleAssumption DEF Init
    <2>2. idle \in [Pools -> 0..Cardinality(Users)]
      BY <1>5 DEF Init
    <2>3. held \in [Users -> Pools \cup {Nothing, Gone}]
      BY DEF Init
    <2>4. \A k \in Kinds, g \in 1..MaxPools : <<k, g>> \in Pools
      BY DEF Pools
    <2>5. \A k \in Kinds, g \in 1..MaxPools :
            idle[<<k, g>>] = 0 /\ \A u \in Users : held[u] # <<k, g>>
      BY <1>4, <2>4 DEF Init, Holders
    <2>. QED BY <2>1, <2>2, <2>3, <2>5 DEF PoolTypes, Init
  <1>7. LoopTypes
    BY DEF Init, LoopTypes
  <1>8. Phase
    BY <1>2 DEF Init, LogInit, Phase, Running, Loggers, Parent, EchoLoggers, Echoed
  <1>9. OpenBounded
    BY <1>4, <1>5, FS_EmptySet DEF Init, OpenBounded
  <1>10. Released /\ Reported
    BY DEF Init, Released, Reported, TornDown, Behind
  <1>. QED BY <1>3, <1>6, <1>7, <1>8, <1>9, <1>10, Parts

LEMMA StutterKeeps ==
  ASSUME IInv, UNCHANGED vars
  PROVE  IInv'
  <1>1. LogInv /\ PoolTypes /\ LoopTypes /\ Phase /\ OpenBounded /\ Released /\ Reported
    BY Parts
  <1>2. /\ UNCHANGED <<settings, sinks, handlers, propagates, records, queue, written, printed>>
        /\ UNCHANGED <<pc, left, failed>> /\ UNCHANGED poolVars
    BY DEF vars, logVars, poolVars
  <1>3. LogInv'
    <2>1. LogTypeOK'
      BY <1>1, <1>2 DEF LogInv, LogTypeOK
    <2>. QED BY <1>1, <1>2, <2>1, OrderUnchanged DEF LogInv
  <1>4. /\ PoolTypes' /\ OpenBounded'
        /\ \A q \in Pools : idle'[q] = idle[q] /\ Live(q)' = Live(q)
    BY <1>1, <1>2, PoolsUnchanged
  <1>5. LoopTypes' /\ Phase'
    BY <1>1, <1>2 DEF LoopTypes, Phase, Quiet, Running, TakenOver, Mounted, StdoutSink,
                      FileSinks
  <1>6. \A k \in Kinds : TornDown(k)' = TornDown(k) /\ Behind(k)' = Behind(k)
    BY <1>2 DEF TornDown, Behind
  <1>7. Released'
    BY <1>1, <1>2, <1>4, <1>6, ReleasedStays DEF poolVars
  <1>8. Reported'
    BY <1>1, <1>2, <1>6 DEF Reported
  <1>. QED BY <1>3, <1>4, <1>5, <1>7, <1>8, Parts, PTL

LEMMA IInvariant == Spec => []IInv
  <1>1. IInv /\ [Next]_vars => IInv'
    <2>. SUFFICES ASSUME IInv, [Next]_vars PROVE IInv'
      OBVIOUS
    <2>1. CASE Start \/ StartFails \/ Shutdown
      BY <2>1, StartKeeps, StartFailsKeeps, ShutdownKeeps
    <2>2. CASE Close
      <3>1. CASE Drain
        BY <3>1, DrainKeeps DEF Drain, DrainOne, Closing
      <3>2. CASE DisposeEngine \/ Disconnect \/ Disconnected
        BY <3>2, DisposeEngineKeeps, DisconnectKeeps, DisconnectedKeeps
      <3>. QED BY <2>2, <3>1, <3>2, ClosesLoggingKeeps DEF Close
    <2>3. CASE TeardownFails \/ Cancel
      BY <2>3, TeardownFailsKeeps, CancelKeeps
    <2>4. ASSUME NEW k \in Kinds, InitPool(k) PROVE IInv'
      BY <2>4, InitPoolKeeps
    <2>5. ASSUME NEW u \in Users, GiveBack(u) \/ Reopen(u) \/ \E k \in Kinds : Take(u, k)
          PROVE  IInv'
      BY <2>5, UsersKeep
    <2>6. CASE ProgramLogs \/ \E s \in Sinks : SinkWrites(s)
      BY <2>6, RecordsKeep
    <2>7. CASE UNCHANGED vars
      BY <2>7, StutterKeeps
    <2>. QED BY <2>1, <2>2, <2>3, <2>4, <2>5, <2>6, <2>7 DEF Next
  <1>. QED BY InitIInv, <1>1, PTL DEF Spec

-----------------------------------------------------------------------------
\* Every variable keeps its type; no pool keeps more connections for later
\* than there are coroutines that could have given them back.
THEOREM TypeCorrect == Spec => []TypeOK
  <1>1. IInv => TypeOK
    BY DEF IInv
  <1>. QED BY IInvariant, <1>1, PTL

\* Whatever logs, through whichever logger, whatever is mounted and whatever
\* SQLAlchemy echoes, each sink shows once and in turn what the settings ask
\* for, and nothing else; nothing but SQLAlchemy prints beside them.
THEOREM OutputsShowWhatIsAsked == Spec => []ShownAsAsked
  <1>1. IInv => ShownAsAsked
    BY PartsShow, Parts
  <1>. QED BY IInvariant, <1>1, PTL

\* A pool whose teardown did not raise keeps no connection open behind it,
\* unless one was opened after the teardown knew what to close.
THEOREM PoolsAreReleased == Spec => []CurrentReleased
  <1>1. IInv => CurrentReleased
    BY DEF IInv, Released, CurrentReleased, Behind
  <1>. QED BY IInvariant, <1>1, PTL

\* When the loop has ended with the logging closed, every output that the
\* settings ask for shows how each pool's teardown went.
THEOREM OutcomesAreReported == Spec => []TeardownsReported
  <1>1. IInv => TeardownsReported
    <2>. SUFFICES ASSUME IInv, pc = "stopped", "logging" \notin failed, NEW k \in Kinds
                  PROVE  \E n \in DOMAIN records :
                           /\ records[n].from = k
                           /\ records[n].level = IF k \in failed THEN Error ELSE Info
                           /\ \A o \in Asked(records[n].level) : n \in Range(written[o])
      BY DEF TeardownsReported
    <2>1. left = <<>> /\ sinks = {} /\ Reported /\ LogInv
      BY Parts DEF Phase
    <2>2. TornDown(k)
      BY <2>1 DEF TornDown, Range
    <2>3. PICK n \in DOMAIN records :
            /\ records[n].from = k /\ records[n].mounted
            /\ records[n].level = IF k \in failed THEN Error ELSE Info
      BY <2>1, <2>2 DEF Reported
    <2>4. ASSUME NEW o \in Asked(records[n].level)
          PROVE  n \in Range(written[o])
      <3>1. o \in Outputs /\ k # "access"
        BY <2>4 DEF Asked, Kinds
      <3>2. Due(o, n)
        BY <2>3, <2>4, <3>1 DEF Due
      <3>3. Feeds(o) \in Sinks
        BY <2>1, <3>1, Feeding DEF LogInv
      <3>4. queue[Feeds(o)] = <<>>
        BY <2>1, <3>3 DEF LogInv, LogTypeOK
      <3>. QED BY <2>1, <3>1, <3>2, <3>4 DEF LogInv, Routed, Range
    <2>. QED BY <2>3, <2>4
  <1>. QED BY IInvariant, <1>1, PTL
=============================================================================
