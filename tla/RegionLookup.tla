---------------------------- MODULE RegionLookup ----------------------------
(***************************************************************************)
(* backend/common/request/parse.py: the client's address and its region.   *)
(* The middleware looks regions up on the event loop's thread, services on *)
(* those of the pool; they share an LRU cache and, per IP version, one     *)
(* searcher that is loaded from a file behind a lock.                      *)
(*                                                                         *)
(* External: functools.lru_cache looks a key up again after its function   *)
(* ran, keeps what another call stored meanwhile, and runs the function    *)
(* outside any lock.                                                       *)
(***************************************************************************)
EXTENDS Naturals, Sequences

CONSTANTS
  Threads,
  Loop,       \* the event loop's thread
  NoThread,
  Requests,   \* [headers, client]: the configured headers' values, each a
              \* sequence of texts or empty, and the peer of the connection
  Texts,      \* what is given for an address
  Address,    \* Address[x]: the text x normalised, or Malformed
  Malformed,
  Unknown,    \* UNKNOWN_IP
  Inner,      \* private, loopback and unspecified addresses
  Version,    \* Version[a]: 4 or 6
  RegionOf,   \* RegionOf[a]: what the data say of the address a
  InnerLabel, \* the region of inner addresses
  None,       \* no region
  Enabled,    \* IP2REGION_ENABLED
  CacheSize   \* maxsize, 4096

Addresses == {Address[x] : x \in Texts} \ {Malformed}
Regions == {RegionOf[a] : a \in Addresses} \cup {InnerLabel, None}

ASSUME ConstantAssumption ==
  /\ Loop \in Threads /\ NoThread \notin Threads
  /\ Malformed \in Texts /\ Address[Malformed] = Malformed
  /\ Addresses \subseteq Texts /\ \A a \in Addresses : Address[a] = a
  /\ Unknown \in Inner /\ Inner \subseteq Addresses
  /\ Version \in [Addresses -> {4, 6}]
  /\ Enabled \in BOOLEAN
  /\ CacheSize \in Nat \ {0}

VARIABLES
  cache,     \* of lookup_ip_region: its entries, the least recently used first
  searchers, \* searchers[v]: "absent", "ready", or "none" after a failed load
  lock,      \* who holds _searchers_lock
  pc,        \* pc[t]: where t is in lookup_ip_region
  asked,     \* asked[t]: its argument
  found,     \* found[t]: its result
  loads,     \* loads[v]: how often a file was read
  broken     \* addresses a search of which raised

vars == <<cache, searchers, lock, pc, asked, found, loads, broken>>

Entries == [text : Texts, region : Regions]

TypeOK ==
  /\ cache \in Seq(Entries) /\ Len(cache) <= CacheSize
  /\ searchers \in [{4, 6} -> {"absent", "ready", "none"}]
  /\ lock \in Threads \cup {NoThread}
  /\ pc \in [Threads -> {"idle", "missed", "locking", "locked", "loading",
                         "searching", "done"}]
  /\ asked \in [Threads -> Texts]
  /\ found \in [Threads -> Regions]
  /\ loads \in [{4, 6} -> Nat]
  /\ broken \subseteq Addresses

Init ==
  /\ cache = <<>>
  /\ searchers = [v \in {4, 6} |-> "absent"]
  /\ lock = NoThread
  /\ pc = [t \in Threads |-> "idle"]
  /\ asked = [t \in Threads |-> Malformed]
  /\ found = [t \in Threads |-> None]
  /\ loads = [v \in {4, 6} |-> 0]
  /\ broken = {}

-----------------------------------------------------------------------------
(* The client's address. *)

\* The leftmost text of each configured header, then the peer.
Candidates(q) ==
  [i \in 1..Len(q.headers) |->
     IF q.headers[i] = <<>> THEN Malformed ELSE Head(q.headers[i])]
  \o <<q.client>>

\* parse_client_ip answers a: the first of them that is an address.
ParseClientIp(q, a) ==
  LET texts == Candidates(q)
      First(n) == \A i \in 1..(n - 1) : Address[texts[i]] = Malformed
  IN \/ a = Unknown /\ First(Len(texts) + 1)
     \/ \E n \in 1..Len(texts) :
          First(n) /\ Address[texts[n]] # Malformed /\ a = Address[texts[n]]

-----------------------------------------------------------------------------
(* The cache. *)

Cached(x) == \E i \in 1..Len(cache) : cache[i].text = x

\* The i-th entry becomes the most recently used one.
MovedToEnd(i) ==
  [j \in 1..Len(cache) |->
     IF j < i THEN cache[j] ELSE IF j = Len(cache) THEN cache[i] ELSE cache[j + 1]]

\* What needs no searcher: switched off, no address, or an inner one.
Shortcut(x) == ~Enabled \/ Address[x] = Malformed \/ Address[x] \in Inner
Immediate(x) ==
  IF Enabled /\ Address[x] \in Inner THEN InnerLabel ELSE None

\* A call that finds its text in the cache returns at once.
Hit(t, x) ==
  /\ pc[t] = "idle"
  /\ \E i \in 1..Len(cache) : cache[i].text = x /\ cache' = MovedToEnd(i)
  /\ UNCHANGED <<searchers, lock, pc, asked, found, loads, broken>>

Miss(t, x) ==
  /\ pc[t] = "idle" /\ ~Cached(x)
  /\ pc' = [pc EXCEPT ![t] = IF Shortcut(x) THEN "done" ELSE "missed"]
  /\ asked' = [asked EXCEPT ![t] = x]
  /\ found' = [found EXCEPT ![t] = IF Shortcut(x) THEN Immediate(x) ELSE None]
  /\ UNCHANGED <<cache, searchers, lock, loads, broken>>

Lookup(t, x) == Hit(t, x) \/ Miss(t, x)

\* The middleware, which asks only if regions are switched on.
Arrive(q) == Enabled /\ \E a \in Addresses : ParseClientIp(q, a) /\ Lookup(Loop, a)

-----------------------------------------------------------------------------
(* The searcher. *)

VersionAsked(t) == Version[Address[asked[t]]]

\* Bug: while it is loaded the searcher is taken for missing.
BugFirstCheck(t) ==
  /\ pc[t] = "missed"
  /\ pc' = [pc EXCEPT ![t] = IF searchers[VersionAsked(t)] # "absent" \/ lock # NoThread
                             THEN "searching" ELSE "locking"]
  /\ UNCHANGED <<cache, searchers, lock, asked, found, loads, broken>>

FirstCheck(t) ==
  /\ pc[t] = "missed"
  /\ pc' = [pc EXCEPT ![t] = IF searchers[VersionAsked(t)] # "absent"
                             THEN "searching" ELSE "locking"]
  /\ UNCHANGED <<cache, searchers, lock, asked, found, loads, broken>>

Acquire(t) ==
  /\ pc[t] = "locking" /\ lock = NoThread
  /\ lock' = t
  /\ pc' = [pc EXCEPT ![t] = "locked"]
  /\ UNCHANGED <<cache, searchers, asked, found, loads, broken>>

\* Bug: no second check.
BugRecheck(t) ==
  /\ pc[t] = "locked"
  /\ pc' = [pc EXCEPT ![t] = "loading"]
  /\ UNCHANGED <<cache, searchers, lock, asked, found, loads, broken>>

\* The check behind the lock.
Recheck(t) ==
  /\ pc[t] = "locked"
  /\ IF searchers[VersionAsked(t)] = "absent"
       THEN pc' = [pc EXCEPT ![t] = "loading"] /\ UNCHANGED lock
       ELSE pc' = [pc EXCEPT ![t] = "searching"] /\ lock' = NoThread
  /\ UNCHANGED <<cache, searchers, asked, found, loads, broken>>

\* Bug: the lock is given back only after a success.
BugLoad(t) ==
  /\ pc[t] = "loading"
  /\ \E s \in {"ready", "none"} :
       /\ searchers' = [searchers EXCEPT ![VersionAsked(t)] = s]
       /\ lock' = IF s = "ready" THEN NoThread ELSE lock
  /\ loads' = [loads EXCEPT ![VersionAsked(t)] = @ + 1]
  /\ pc' = [pc EXCEPT ![t] = "searching"]
  /\ UNCHANGED <<cache, asked, found, broken>>

\* _load_searcher: there is no file, it cannot be read, or it can.  Whatever
\* comes of it is kept, and the lock is given back.
Load(t) ==
  /\ pc[t] = "loading"
  /\ \E s \in {"ready", "none"} :
       searchers' = [searchers EXCEPT ![VersionAsked(t)] = s]
  /\ loads' = [loads EXCEPT ![VersionAsked(t)] = @ + 1]
  /\ lock' = NoThread
  /\ pc' = [pc EXCEPT ![t] = "searching"]
  /\ UNCHANGED <<cache, asked, found, broken>>

Finds(t, region) ==
  /\ found' = [found EXCEPT ![t] = region]
  /\ pc' = [pc EXCEPT ![t] = "done"]
  /\ UNCHANGED <<cache, searchers, lock, asked, loads>>

Search(t) ==
  /\ pc[t] = "searching"
  /\ Finds(t, IF searchers[VersionAsked(t)] = "ready"
              THEN RegionOf[Address[asked[t]]] ELSE None)
  /\ UNCHANGED broken

\* The searcher raises; that is logged.
SearchFails(t) ==
  /\ pc[t] = "searching" /\ searchers[VersionAsked(t)] = "ready"
  /\ Finds(t, None)
  /\ broken' = broken \cup {Address[asked[t]]}

-----------------------------------------------------------------------------
\* Bug: one entry too many before the oldest is dropped.
BugStore(t) ==
  /\ pc[t] = "done"
  /\ cache' = IF Cached(asked[t]) THEN cache
              ELSE Append(IF Len(cache) <= CacheSize THEN cache ELSE Tail(cache),
                          [text |-> asked[t], region |-> found[t]])
  /\ pc' = [pc EXCEPT ![t] = "idle"]
  /\ asked' = [asked EXCEPT ![t] = Malformed]
  /\ found' = [found EXCEPT ![t] = None]
  /\ UNCHANGED <<searchers, lock, loads, broken>>

\* The call returns what it found; the cache keeps it unless another call has
\* stored something for the same text.
Store(t) ==
  /\ pc[t] = "done"
  /\ cache' = IF Cached(asked[t]) THEN cache
              ELSE Append(IF Len(cache) < CacheSize THEN cache ELSE Tail(cache),
                          [text |-> asked[t], region |-> found[t]])
  /\ pc' = [pc EXCEPT ![t] = "idle"]
  /\ asked' = [asked EXCEPT ![t] = Malformed]
  /\ found' = [found EXCEPT ![t] = None]
  /\ UNCHANGED <<searchers, lock, loads, broken>>

Progress(t) ==
  \/ FirstCheck(t) \/ Acquire(t) \/ Recheck(t) \/ Load(t)
  \/ Search(t) \/ SearchFails(t) \/ Store(t)

Next ==
  \/ \E q \in Requests : Arrive(q)
  \/ \E t \in Threads \ {Loop}, x \in Texts : Lookup(t, x)
  \/ \E t \in Threads : Progress(t)

\* Threads that can run do; the lock is not granted in any order.
Spec == Init /\ [][Next]_vars /\ \A t \in Threads : WF_vars(Progress(t))

-----------------------------------------------------------------------------
(* What it is for. *)

\* However many threads miss the searcher at once, its file is read once.
LoadedOnce == \A v \in {4, 6} : loads[v] <= 1

\* The region of a text is that of its address.  None has a reason: no
\* address, no data, no searcher of its version, or a search that raised.
TrueRegion(x, region) ==
  LET a == Address[x]
  IN IF a \in Inner THEN region = InnerLabel
     ELSE IF region # None THEN a # Malformed /\ region = RegionOf[a]
     ELSE a = Malformed \/ RegionOf[a] = None \/ a \in broken
          \/ searchers[Version[a]] = "none"

\* What calls return, and what the cache answers later, is true of the address
\* asked for; nobody is told None because another thread is still loading.
RegionsAreTrue ==
  Enabled =>
    /\ \A t \in Threads : pc[t] = "done" => TrueRegion(asked[t], found[t])
    /\ \A i \in 1..Len(cache) : TrueRegion(cache[i].text, cache[i].region)

\* No lookup waits for ever for the lock, whatever became of the load.
EveryLookupReturns == \A t \in Threads : pc[t] # "idle" ~> pc[t] = "idle"
=============================================================================
