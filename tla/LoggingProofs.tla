---------------------------- MODULE LoggingProofs ----------------------------
(***************************************************************************)
(* What each operation of Logging keeps, for any settings and any number   *)
(* of records.  LifecycleProofs puts them together.                        *)
(***************************************************************************)
EXTENDS Logging, SequenceTheorems, FiniteSetTheorems, TLAPS

\* What an output shows, and what its sink has still to write, are in turn:
\* ShownAsAsked in parts.
InOrder ==
  /\ \A s \in Sinks : InTurn(queue[s])
  /\ \A o \in Outputs : InTurn(written[o])
  /\ \A o \in Outputs :
       \A i \in 1..Len(written[o]), j \in 1..Len(queue[Feeds(o)]) :
         written[o][i] < queue[Feeds(o)][j]

Routed ==
  \A o \in Outputs, n \in DOMAIN records :
    Due(o, n) <=> \/ n \in Range(written[o])
                  \/ /\ n \in Range(queue[Feeds(o)])
                     /\ o \in Shows(Feeds(o), records[n].level)

\* Only sinks that the settings ask for are ever given a record.
QueuesMounted == \A s \in Sinks : queue[s] # <<>> => s \in Mounted

\* What a library prints is SQLAlchemy's.
Echoes == \A n \in Range(printed) : records[n].from = "sql"

\* The standard library's loggers after setup_logging, which leaves those of
\* SQLAlchemy's engines and pools the handlers they have.
TakenOver ==
  /\ \A l \in Intercepted \cup {"root"} : handlers[l] = "intercept"
  /\ handlers["uvicorn.access"] = "null" /\ handlers["asyncio"] = "none"
  /\ \A l \in EchoLoggers : handlers[l] \in {"none", "own"}
  /\ propagates = {"asyncio"} \cup EchoLoggers

\* Nothing was logged yet.
Quiet ==
  /\ records = <<>>
  /\ \A s \in Sinks : queue[s] = <<>>
  /\ \A o \in Outputs : written[o] = <<>>
  /\ printed = <<>>

LogInv == LogTypeOK /\ InOrder /\ Routed /\ QueuesMounted /\ Echoes

-----------------------------------------------------------------------------
(* Sequences of record numbers. *)

\* A new number goes to the end.
LEMMA AppendTurn ==
  ASSUME NEW n \in Nat, NEW q \in Seq(1..n), InTurn(q)
  PROVE  /\ q \in Seq(1..(n + 1)) /\ Append(q, n + 1) \in Seq(1..(n + 1))
         /\ InTurn(Append(q, n + 1))
         /\ Range(Append(q, n + 1)) = Range(q) \cup {n + 1}
         /\ Range(q) \subseteq 1..n
  <1>1. 1..n \subseteq 1..(n + 1)
    OBVIOUS
  <1>2. q \in Seq(1..(n + 1))
    BY <1>1, SeqMonotonic
  <1>3. PICK m \in Nat : m = Len(q)
    OBVIOUS
  <1>4. \A i \in 1..m : q[i] \in 1..n
    BY <1>3
  <1>5. /\ Append(q, n + 1) \in Seq(1..(n + 1)) /\ Len(Append(q, n + 1)) = m + 1
        /\ \A i \in 1..m : Append(q, n + 1)[i] = q[i]
        /\ Append(q, n + 1)[m + 1] = n + 1
    BY <1>2, <1>3
  <1>6. InTurn(Append(q, n + 1))
    <2>. SUFFICES ASSUME NEW i \in 1..(m + 1), NEW j \in 1..(m + 1), i < j
                  PROVE  Append(q, n + 1)[i] < Append(q, n + 1)[j]
      BY <1>5 DEF InTurn
    <2>1. i \in 1..m /\ (j \in 1..m \/ j = m + 1)
      OBVIOUS
    <2>. QED BY <1>3, <1>4, <1>5, <2>1 DEF InTurn
  <1>7. DOMAIN q = 1..m /\ DOMAIN Append(q, n + 1) = 1..(m + 1)
    BY <1>3, <1>5
  <1>8. Range(Append(q, n + 1)) = Range(q) \cup {n + 1}
    <2>1. \A i \in 1..(m + 1) : i \in 1..m \/ i = m + 1
      OBVIOUS
    <2>2. m + 1 \in 1..(m + 1) /\ 1..m \subseteq 1..(m + 1)
      OBVIOUS
    <2>. QED BY <1>5, <1>7, <2>1, <2>2 DEF Range
  <1>9. Range(q) \subseteq 1..n
    BY <1>4, <1>7 DEF Range
  <1>. QED BY <1>2, <1>5, <1>6, <1>8, <1>9

\* The first of a queue is the lowest.
LEMMA TailTurn ==
  ASSUME NEW n \in Nat, NEW q \in Seq(1..n), q # <<>>, InTurn(q)
  PROVE  /\ Head(q) \in 1..n /\ Tail(q) \in Seq(1..n)
         /\ InTurn(Tail(q))
         /\ Range(q) = {Head(q)} \cup Range(Tail(q))
         /\ \A j \in 1..Len(Tail(q)) :
              /\ Head(q) < Tail(q)[j]
              /\ \E k \in 1..Len(q) : Tail(q)[j] = q[k]
         /\ 1 \in 1..Len(q) /\ Head(q) = q[1]
  <1>1. PICK m \in Nat : m = Len(q) - 1 /\ Len(q) = m + 1
    <2>1. Len(q) \in Nat /\ Len(q) # 0
      OBVIOUS
    <2>2. Len(q) - 1 \in Nat
      BY <2>1
    <2>. QED BY <2>1, <2>2
  <1>2. \A i \in 1..(m + 1) : q[i] \in 1..n
    BY <1>1
  <1>3. Tail(q) \in Seq(1..n)
    OBVIOUS
  <1>4. Len(Tail(q)) = m /\ \A j \in 1..m : Tail(q)[j] = q[j + 1]
    BY <1>1
  <1>5. Head(q) = q[1] /\ 1 \in 1..(m + 1)
    OBVIOUS
  <1>6. \A j \in 1..m : j + 1 \in 1..(m + 1) /\ 1 < j + 1
    OBVIOUS
  <1>7. InTurn(Tail(q))
    <2>. SUFFICES ASSUME NEW i \in 1..m, NEW j \in 1..m, i < j
                  PROVE  Tail(q)[i] < Tail(q)[j]
      BY <1>4 DEF InTurn
    <2>1. i + 1 \in 1..(m + 1) /\ j + 1 \in 1..(m + 1) /\ i + 1 < j + 1
      OBVIOUS
    <2>2. q[i + 1] < q[j + 1]
      BY <1>1, <2>1 DEF InTurn
    <2>. QED BY <1>4, <2>2
  <1>8. \A j \in 1..m :
          Head(q) < Tail(q)[j] /\ \E k \in 1..(m + 1) : Tail(q)[j] = q[k]
    <2>. TAKE j \in 1..m
    <2>1. q[1] < q[j + 1]
      BY <1>1, <1>5, <1>6 DEF InTurn
    <2>. QED BY <1>4, <1>5, <1>6, <2>1
  <1>9. Range(q) = {Head(q)} \cup Range(Tail(q))
    <2>1. DOMAIN q = 1..(m + 1) /\ DOMAIN Tail(q) = 1..m
      BY <1>1, <1>3, <1>4
    <2>2. \A i \in 1..(m + 1) : i = 1 \/ \E j \in 1..m : i = j + 1
      <3>. TAKE i \in 1..(m + 1)
      <3>1. i # 1 => i - 1 \in 1..m /\ i = (i - 1) + 1
        OBVIOUS
      <3>. QED BY <3>1
    <2>3. Range(q) \subseteq {Head(q)} \cup Range(Tail(q))
      <3>. SUFFICES ASSUME NEW i \in 1..(m + 1)
                    PROVE  q[i] \in {Head(q)} \cup Range(Tail(q))
        BY <2>1 DEF Range
      <3>1. CASE i = 1
        BY <1>5, <3>1
      <3>2. CASE \E j \in 1..m : i = j + 1
        BY <1>4, <2>1, <3>2 DEF Range
      <3>. QED BY <2>2, <3>1, <3>2
    <2>4. Head(q) \in Range(q)
      BY <1>5, <2>1 DEF Range
    <2>5. Range(Tail(q)) \subseteq Range(q)
      BY <1>4, <1>6, <2>1 DEF Range
    <2>. QED BY <2>3, <2>4, <2>5
  <1>. QED BY <1>1, <1>2, <1>3, <1>4, <1>5, <1>7, <1>8, <1>9

\* In turn, one behind the other.
LEMMA ConcatTurn ==
  ASSUME NEW n \in Nat, NEW p \in Seq(1..n), NEW q \in Seq(1..n), InTurn(p), InTurn(q),
         \A i \in 1..Len(p), j \in 1..Len(q) : p[i] < q[j]
  PROVE  InTurn(p \o q)
  <1>1. PICK a \in Nat, b \in Nat : a = Len(p) /\ b = Len(q)
    OBVIOUS
  <1>2. /\ Len(p \o q) = a + b
        /\ \A i \in 1..(a + b) : (p \o q)[i] = IF i <= a THEN p[i] ELSE q[i - a]
    BY <1>1
  <1>. SUFFICES ASSUME NEW i \in 1..(a + b), NEW j \in 1..(a + b), i < j
                PROVE  (p \o q)[i] < (p \o q)[j]
    BY <1>2 DEF InTurn
  <1>3. CASE j <= a
    <2>1. i \in 1..a /\ j \in 1..a
      BY <1>3
    <2>. QED BY <1>1, <1>2, <2>1 DEF InTurn
  <1>4. CASE i <= a /\ ~(j <= a)
    <2>1. i \in 1..a /\ j - a \in 1..b
      BY <1>4
    <2>. QED BY <1>1, <1>2, <1>4, <2>1
  <1>5. CASE ~(i <= a)
    <2>1. i - a \in 1..b /\ j - a \in 1..b /\ i - a < j - a /\ ~(j <= a)
      BY <1>5
    <2>. QED BY <1>1, <1>2, <1>5, <2>1 DEF InTurn
  <1>. QED BY <1>3, <1>4, <1>5

-----------------------------------------------------------------------------
(* Sinks and outputs. *)

\* An output is fed by one sink, and shows what the settings ask for.
LEMMA Feeding ==
  ASSUME LogTypeOK
  PROVE  /\ \A o \in Outputs : Feeds(o) \in Sinks
         /\ \A s \in Mounted, level \in {Info, Error} : \A o \in Shows(s, level) :
              o \in Outputs /\ Feeds(o) = s
         /\ \A o \in Outputs, level \in {Info, Error} :
              o \in Asked(level) <=> /\ Feeds(o) \in Mounted
                                     /\ level >= Threshold(Feeds(o))
                                     /\ o \in Shows(Feeds(o), level)
  <1>1. /\ settings.mode \in {"text", "json", "both"} /\ settings.file \in BOOLEAN
        /\ settings.consoleLevel \in {1, 2} /\ settings.jsonLevel \in {1, 2}
        /\ settings.fileLevel \in {1, 2}
    BY SettingsAssumption DEF LogTypeOK, Info, Error
  <1>2. \A o \in Outputs : Feeds(o) \in Sinks
    BY <1>1 DEF Feeds, Outputs, Sinks
  <1>3. Mounted = {settings.mode} \cup IF settings.file THEN {"access", "error"} ELSE {}
    BY DEF Mounted, StdoutSink, FileSinks
  <1>4. ASSUME NEW s \in Mounted, NEW level \in {Info, Error}, NEW o \in Shows(s, level)
        PROVE  o \in Outputs /\ Feeds(o) = s
    <2>1. s \in {"text", "json", "both", "access", "error"}
      BY <1>1, <1>3
    <2>2. CASE s \in {"text", "json", "both"}
      <3>1. s = settings.mode
        BY <1>1, <1>3, <2>2
      <3>2. o \in {"console", "json"}
        BY <2>2 DEF Shows
      <3>. QED BY <3>1, <3>2 DEF Feeds, Outputs
    <2>3. CASE s \in {"access", "error"}
      <3>1. o = s
        BY <2>3 DEF Shows
      <3>. QED BY <2>3, <3>1 DEF Feeds, Outputs
    <2>. QED BY <2>1, <2>2, <2>3
  <1>5. ASSUME NEW o \in Outputs, NEW level \in {Info, Error}
        PROVE  o \in Asked(level) <=> /\ Feeds(o) \in Mounted
                                      /\ level >= Threshold(Feeds(o))
                                      /\ o \in Shows(Feeds(o), level)
    <2>1. level \in {1, 2}
      BY DEF Info, Error
    <2>2. CASE o = "console"
      <3>1. o \in Asked(level) <=> settings.mode # "json" /\ level >= settings.consoleLevel
        BY <2>2 DEF Asked
      <3>2. Feeds(o) = settings.mode /\ Feeds(o) \in Mounted
        BY <1>3, <2>2 DEF Feeds
      <3>3. CASE settings.mode = "text"
        BY <2>1, <2>2, <3>1, <3>2, <3>3 DEF Threshold, Shows
      <3>4. CASE settings.mode = "json"
        BY <2>2, <3>1, <3>2, <3>4 DEF Shows
      <3>5. CASE settings.mode = "both"
        BY <1>1, <2>1, <2>2, <3>1, <3>2, <3>5 DEF Threshold, Shows
      <3>. QED BY <1>1, <3>3, <3>4, <3>5
    <2>3. CASE o = "json"
      <3>1. o \in Asked(level) <=> settings.mode # "text" /\ level >= settings.jsonLevel
        BY <2>3 DEF Asked
      <3>2. Feeds(o) = settings.mode /\ Feeds(o) \in Mounted
        BY <1>3, <2>3 DEF Feeds
      <3>3. CASE settings.mode = "text"
        BY <2>3, <3>1, <3>2, <3>3 DEF Shows
      <3>4. CASE settings.mode = "json"
        BY <2>1, <2>3, <3>1, <3>2, <3>4 DEF Threshold, Shows
      <3>5. CASE settings.mode = "both"
        BY <1>1, <2>1, <2>3, <3>1, <3>2, <3>5 DEF Threshold, Shows
      <3>. QED BY <1>1, <3>3, <3>4, <3>5
    <2>4. CASE o = "access"
      <3>1. o \in Asked(level) <=> settings.file /\ level >= settings.fileLevel
        BY <2>4 DEF Asked
      <3>2. Feeds(o) = "access" /\ (Feeds(o) \in Mounted <=> settings.file)
        BY <1>1, <1>3, <2>4 DEF Feeds
      <3>. QED BY <2>4, <3>1, <3>2 DEF Threshold, Shows
    <2>5. CASE o = "error"
      <3>1. o \in Asked(level) <=> settings.file /\ level = Error
        BY <2>5 DEF Asked
      <3>2. Feeds(o) = "error" /\ (Feeds(o) \in Mounted <=> settings.file)
        BY <1>1, <1>3, <2>5 DEF Feeds
      <3>. QED BY <2>1, <2>5, <3>1, <3>2 DEF Threshold, Shows, Error
    <2>. QED BY <2>2, <2>3, <2>4, <2>5 DEF Outputs
  <1>. QED BY <1>2, <1>4, <1>5

\* The routes depend on the settings only.
LEMMA SameSettings ==
  ASSUME settings' = settings
  PROVE  /\ \A o : Feeds(o)' = Feeds(o)
         /\ Mounted' = Mounted
         /\ \A s, level : Shows(s, level)' = Shows(s, level)
         /\ \A level : Asked(level)' = Asked(level)
  <1>1. \A o : Feeds(o)' = Feeds(o)
    BY DEF Feeds
  <1>2. Mounted' = Mounted
    BY DEF Mounted, StdoutSink, FileSinks
  <1>3. ASSUME NEW s, NEW level
        PROVE  Shows(s, level)' = Shows(s, level)
    BY DEF Shows
  <1>4. ASSUME NEW level
        PROVE  Asked(level)' = Asked(level)
    BY DEF Asked
  <1>. QED BY <1>1, <1>2, <1>3, <1>4

-----------------------------------------------------------------------------
(* The operations. *)

Record == [level : {Info, Error}, from : Sources, mounted : BOOLEAN]

\* The queues have it, in the types of the sequences.
LEMMA LogFacts ==
  ASSUME LogTypeOK
  PROVE  /\ records \in Seq(Record) /\ Len(records) \in Nat
         /\ DOMAIN records = 1..Len(records)
         /\ \A n \in 1..Len(records) :
              /\ records[n].level \in {Info, Error} /\ records[n].mounted \in BOOLEAN
              /\ records[n] \in Record
         /\ \A s \in Sinks : queue[s] \in Seq(1..Len(records))
         /\ \A o \in Outputs : written[o] \in Seq(1..Len(records))
         /\ printed \in Seq(1..Len(records))
  <1>1. records \in Seq(Record) /\ Len(records) \in Nat /\ DOMAIN records = 1..Len(records)
    BY DEF LogTypeOK, Record
  <1>2. \A n \in 1..Len(records) : records[n] \in Record
    BY <1>1
  <1>. QED BY <1>1, <1>2 DEF LogTypeOK, Record

\* The order does not depend on what is mounted.
LEMMA OrderUnchanged ==
  ASSUME UNCHANGED <<settings, records, queue, written, printed>>
  PROVE  /\ InOrder => InOrder'
         /\ Routed => Routed'
         /\ QueuesMounted => QueuesMounted'
         /\ Echoes => Echoes'
  <1>1. InOrder => InOrder'
    BY SameSettings DEF InOrder
  <1>2. Routed => Routed'
    BY SameSettings DEF Routed, Due
  <1>3. QueuesMounted => QueuesMounted'
    BY SameSettings DEF QueuesMounted
  <1>4. Echoes => Echoes'
    BY DEF Echoes
  <1>. QED BY <1>1, <1>2, <1>3, <1>4

\* What is printed is there among the records, with the one that comes last.
LEMMA PrintKeeps ==
  ASSUME LogInv, NEW x \in Record, records' = Append(records, x),
         \/ printed' = printed
         \/ x.from = "sql" /\ printed' = Append(printed, Len(records) + 1)
  PROVE  printed' \in Seq(DOMAIN records') /\ Echoes'
  <1>1. PICK n \in Nat : n = Len(records)
    BY LogFacts DEF LogInv
  <1>2. records \in Seq(Record) /\ printed \in Seq(1..n)
    BY <1>1, LogFacts DEF LogInv
  <1>3. /\ DOMAIN records' = 1..(n + 1) /\ records'[n + 1] = x
        /\ \A k \in 1..n : records'[k] = records[k]
    BY <1>1, <1>2
  <1>4. printed \in Seq(1..(n + 1)) /\ n + 1 \in 1..(n + 1)
    <2>1. 1..n \subseteq 1..(n + 1) /\ n + 1 \in 1..(n + 1)
      OBVIOUS
    <2>. QED BY <1>2, <2>1, SeqMonotonic
  <1>5. Range(printed) \subseteq 1..n
    <2>1. DOMAIN printed = 1..Len(printed) /\ \A i \in 1..Len(printed) : printed[i] \in 1..n
      BY <1>2
    <2>. QED BY <2>1 DEF Range
  <1>6. \A k \in Range(printed) : records'[k].from = "sql"
    BY <1>3, <1>5 DEF LogInv, Echoes
  <1>7. CASE printed' = printed
    BY <1>3, <1>4, <1>6, <1>7 DEF Echoes
  <1>8. CASE x.from = "sql" /\ printed' = Append(printed, Len(records) + 1)
    <2>1. printed' = Append(printed, n + 1) /\ x.from = "sql"
      BY <1>1, <1>8
    <2>2. printed' \in Seq(1..(n + 1))
      BY <1>4, <2>1, AppendProperties
    <2>3. Range(printed') \subseteq Range(printed) \cup {n + 1}
      <3>1. PICK a \in Nat : a = Len(printed)
        BY <1>2
      <3>2. /\ DOMAIN printed' = 1..(a + 1) /\ DOMAIN printed = 1..a
            /\ \A i \in 1..a : printed'[i] = printed[i]
            /\ printed'[a + 1] = n + 1
        BY <1>4, <2>1, <3>1, AppendProperties
      <3>3. \A i \in 1..(a + 1) : i \in 1..a \/ i = a + 1
        OBVIOUS
      <3>. QED BY <3>2, <3>3 DEF Range
    <2>4. Echoes'
      BY <1>3, <1>6, <2>1, <2>3 DEF Echoes
    <2>. QED BY <1>3, <2>2, <2>4
  <1>. QED BY <1>7, <1>8

\* A record is put on the queues of the sinks that take its level, if it is
\* passed on at all; records of the access log are not.
LEMMA DeliverKeeps ==
  ASSUME LogInv, NEW level \in {Info, Error}, NEW from \in Sources, NEW copies \in {0, 1},
         copies = 0 <=> from = "access",
         NEW m, m = {} \/ m = Mounted, \A s \in Sinks : s \notin m => queue[s] = <<>>,
         Deliver(level, from, copies, m), UNCHANGED <<settings, written>>
  PROVE  /\ records' = Append(records, [level |-> level, from |-> from, mounted |-> m # {}])
         /\ records' \in Seq(Record)
         /\ queue' \in [Sinks -> Seq(DOMAIN records')]
         /\ written' \in [Outputs -> Seq(DOMAIN records')]
         /\ \A s \in Sinks : s \notin m => queue'[s] = <<>>
         /\ InOrder' /\ Routed' /\ QueuesMounted'
  <1>. DEFINE new == [level |-> level, from |-> from, mounted |-> m # {}]
  <1>1. PICK n \in Nat : n = Len(records)
    BY LogFacts DEF LogInv
  <1>2. /\ records \in Seq(Record) /\ DOMAIN records = 1..n
        /\ \A k \in 1..n : records[k].level \in {Info, Error} /\ records[k].mounted \in BOOLEAN
        /\ \A s \in Sinks : queue[s] \in Seq(1..n)
        /\ \A o \in Outputs : written[o] \in Seq(1..n)
    BY <1>1, LogFacts DEF LogInv
  <1>3. new \in Record /\ new.level = level /\ new.from = from /\ new.mounted = (m # {})
    BY DEF Record
  <1>4. records' = Append(records, new)
    BY DEF Deliver
  <1>. HIDE DEF new
  <1>5. /\ records' \in Seq(Record) /\ Len(records') = n + 1 /\ DOMAIN records' = 1..(n + 1)
        /\ \A k \in 1..n : records'[k] = records[k]
        /\ records'[n + 1] = new
    BY <1>1, <1>2, <1>3, <1>4
  <1>. DEFINE Given(s) == copies = 1 /\ s \in m /\ level >= Threshold(s)
  <1>6. \A s \in Sinks :
          queue'[s] = IF Given(s) THEN Append(queue[s], n + 1) ELSE queue[s]
    <2>. TAKE s \in Sinks
    <2>1. queue'[s] = IF s \in m /\ level >= Threshold(s)
                      THEN queue[s] \o [i \in 1..copies |-> n + 1] ELSE queue[s]
      BY <1>1 DEF Deliver
    <2>2. queue[s] \in Seq(1..(n + 1))
      <3>1. 1..n \subseteq 1..(n + 1)
        OBVIOUS
      <3>. QED BY <1>2, <3>1, SeqMonotonic
    <2>3. CASE copies = 0
      <3>1. [i \in 1..copies |-> n + 1] = <<>>
        BY <2>3
      <3>2. queue[s] \o <<>> = queue[s]
        BY <2>2, ConcatEmptySeq
      <3>. QED BY <2>1, <2>3, <3>1, <3>2
    <2>4. CASE copies = 1
      <3>1. [i \in 1..copies |-> n + 1] = <<n + 1>>
        BY <2>4
      <3>2. n + 1 \in 1..(n + 1)
        OBVIOUS
      <3>3. queue[s] \o <<n + 1>> = Append(queue[s], n + 1)
        BY <2>2, <3>2, AppendIsConcat
      <3>. QED BY <2>1, <2>4, <3>1, <3>3
    <2>. QED BY <2>3, <2>4
  <1>7. \A s \in Sinks :
          /\ queue[s] \in Seq(1..(n + 1)) /\ Range(queue[s]) \subseteq 1..n
          /\ Append(queue[s], n + 1) \in Seq(1..(n + 1))
          /\ InTurn(Append(queue[s], n + 1))
          /\ Range(Append(queue[s], n + 1)) = Range(queue[s]) \cup {n + 1}
    BY <1>2, AppendTurn DEF LogInv, InOrder
  <1>8. \A o \in Outputs : written[o] \in Seq(1..(n + 1)) /\ Range(written[o]) \subseteq 1..n
    BY <1>2, AppendTurn DEF LogInv, InOrder
  <1>9. queue' = [s \in Sinks |-> queue'[s]] /\ written' = [o \in Outputs |-> written'[o]]
    BY DEF Deliver, LogInv, LogTypeOK
  <1>10. queue' \in [Sinks -> Seq(1..(n + 1))]
    <2>1. \A s \in Sinks : queue'[s] \in Seq(1..(n + 1))
      BY <1>6, <1>7
    <2>. QED BY <1>9, <2>1
  <1>11. written' \in [Outputs -> Seq(1..(n + 1))]
    BY <1>8, <1>9
  <1>12. \A s \in Sinks : s \notin m => queue'[s] = <<>>
    BY <1>6
  <1>13. InOrder'
    <2>1. \A s \in Sinks : InTurn(queue'[s])
      BY <1>6, <1>7 DEF LogInv, InOrder
    <2>2. \A o \in Outputs : InTurn(written'[o])
      BY DEF LogInv, InOrder
    <2>3. ASSUME NEW o \in Outputs, NEW i \in 1..Len(written'[o]),
                 NEW j \in 1..Len(queue'[Feeds(o)])
          PROVE  written'[o][i] < queue'[Feeds(o)][j]
      <3>1. Feeds(o) \in Sinks
        BY Feeding DEF LogInv
      <3>2. PICK q \in Seq(1..n) : q = queue[Feeds(o)]
        BY <1>2, <3>1
      <3>3. written[o][i] \in 1..n /\ i \in 1..Len(written[o])
        BY <1>2
      <3>4. \A l \in 1..Len(q) : written[o][i] < q[l]
        BY <3>2, <3>3 DEF LogInv, InOrder
      <3>5. CASE ~Given(Feeds(o))
        BY <1>6, <3>1, <3>2, <3>4, <3>5
      <3>6. CASE Given(Feeds(o))
        <4>1. queue'[Feeds(o)] = Append(q, n + 1)
          BY <1>6, <3>1, <3>2, <3>6
        <4>. HIDE DEF Given
        <4>2. j \in 1..Len(q) \/ (j = Len(q) + 1 /\ Append(q, n + 1)[j] = n + 1)
          BY <3>2, <4>1
        <4>3. j \in 1..Len(q) => Append(q, n + 1)[j] = q[j]
          BY <3>2
        <4>. QED BY <3>3, <3>4, <4>1, <4>2, <4>3
      <3>. QED BY <3>5, <3>6
    <2>4. \A o \in Outputs : Feeds(o)' = Feeds(o)
      BY SameSettings
    <2>. QED BY <2>1, <2>2, <2>3, <2>4 DEF InOrder
  <1>14. Routed'
    <2>. SUFFICES ASSUME NEW o \in Outputs, NEW k \in 1..(n + 1)
                  PROVE  (Due(o, k) <=> \/ k \in Range(written[o])
                                        \/ /\ k \in Range(queue[Feeds(o)])
                                           /\ o \in Shows(Feeds(o), records[k].level))'
      BY <1>5 DEF Routed
    <2>. DEFINE s == Feeds(o)
    <2>1. s \in Sinks /\ s' = s
      BY Feeding DEF LogInv, Feeds
    <2>. HIDE DEF s, Given
    <2>2. \A l : Shows(s, l)' = Shows(s, l) /\ Asked(l)' = Asked(l)
      BY <2>1, SameSettings
    <2>3. /\ Range(queue'[s]) = IF Given(s) THEN Range(queue[s]) \cup {n + 1}
                                            ELSE Range(queue[s])
          /\ Range(queue[s]) \subseteq 1..n
      BY <1>6, <1>7, <2>1
    <2>4. Range(written'[o]) \subseteq 1..n /\ written'[o] = written[o]
      BY <1>8
    <2>5. CASE k \in 1..n
      <3>1. k # n + 1 /\ records'[k] = records[k]
        BY <1>5, <2>5
      <3>2. Due(o, k)' <=> Due(o, k)
        BY <2>2, <3>1 DEF Due
      <3>3. Due(o, k) <=> \/ k \in Range(written[o])
                          \/ k \in Range(queue[s]) /\ o \in Shows(s, records[k].level)
        BY <1>2, <2>5 DEF LogInv, Routed, s
      <3>4. k \in Range(queue'[s]) <=> k \in Range(queue[s])
        BY <2>3, <3>1
      <3>. QED BY <2>1, <2>2, <2>4, <3>1, <3>2, <3>3, <3>4 DEF s
    <2>6. CASE k = n + 1
      <3>1. records'[k] = new /\ k \notin 1..n
        BY <1>5, <2>6
      <3>2. Due(o, k)' <=> m # {} /\ from # "access" /\ o \in Asked(level)
        BY <1>3, <2>2, <3>1 DEF Due
      <3>3. k \notin Range(written'[o])
        BY <2>4, <3>1
      <3>4. k \in Range(queue'[s]) <=> Given(s)
        BY <2>3, <2>6, <3>1
      <3>5. o \in Asked(level) <=> s \in Mounted /\ level >= Threshold(s) /\ o \in Shows(s, level)
        BY Feeding DEF LogInv, s
      <3>6. Given(s) /\ o \in Shows(s, level) <=> m # {} /\ from # "access" /\ o \in Asked(level)
        BY <3>5 DEF Given
      <3>. QED BY <1>3, <2>1, <2>2, <3>1, <3>2, <3>3, <3>4, <3>6 DEF s
    <2>. QED BY <2>5, <2>6
  <1>15. QueuesMounted'
    <2>1. Mounted' = Mounted
      BY DEF Mounted, StdoutSink, FileSinks
    <2>. QED BY <1>12, <2>1, <1>6 DEF LogInv, QueuesMounted
  <1>. QED BY <1>4, <1>5, <1>10, <1>11, <1>12, <1>13, <1>14, <1>15 DEF new

\* A sink's thread moves the first record of its queue to the outputs that
\* show it, which this sink alone feeds.
LEMMA WriteKeeps ==
  ASSUME LogInv, NEW s \in Sinks, Write(s)
  PROVE  LogInv'
  <1>1. PICK n \in Nat : n = Len(records)
    BY LogFacts DEF LogInv
  <1>2. PICK q \in Seq(1..n) : q = queue[s]
    BY <1>1, LogFacts DEF LogInv
  <1>3. /\ q # <<>> /\ InTurn(q)
        /\ UNCHANGED <<settings, sinks, handlers, propagates, records, printed>>
        /\ queue' = [queue EXCEPT ![s] = Tail(q)]
    BY <1>2 DEF Write, LogInv, InOrder
  <1>. DEFINE first == Head(q)
              shown == Shows(s, records[first].level)
  <1>4. /\ first \in 1..n /\ Tail(q) \in Seq(1..n) /\ InTurn(Tail(q))
        /\ Range(q) = {first} \cup Range(Tail(q))
        /\ \A j \in 1..Len(Tail(q)) :
             first < Tail(q)[j] /\ \E k \in 1..Len(q) : Tail(q)[j] = q[k]
        /\ 1 \in 1..Len(q) /\ first = q[1]
    BY <1>2, <1>3, TailTurn
  <1>5. written' = [o \in Outputs |-> IF o \in shown THEN Append(written[o], first)
                                      ELSE written[o]]
    BY <1>2 DEF Write
  <1>6. \A o \in shown : o \in Outputs /\ Feeds(o) = s
    <2>1. s \in Mounted /\ records[first].level \in {Info, Error}
      BY <1>1, <1>2, <1>3, <1>4, LogFacts DEF LogInv, QueuesMounted
    <2>. QED BY <2>1, Feeding DEF LogInv
  <1>7. \A o \in Outputs : written[o] \in Seq(1..n) /\ Feeds(o) \in Sinks
    BY <1>1, LogFacts, Feeding DEF LogInv
  <1>. HIDE DEF first, shown
  <1>8. \A r \in Sinks : queue'[r] = IF r = s THEN Tail(q) ELSE queue[r]
    BY <1>3 DEF LogInv, LogTypeOK
  <1>9. \A o \in Outputs :
          written'[o] = IF o \in shown THEN Append(written[o], first) ELSE written[o]
    BY <1>5
  <1>10. \A o \in Outputs : o \in shown =>
           /\ Append(written[o], first) \in Seq(1..n)
           /\ Len(Append(written[o], first)) = Len(written[o]) + 1
           /\ \A i \in 1..Len(written[o]) :
                Append(written[o], first)[i] = written[o][i] /\ written[o][i] < first
           /\ Append(written[o], first)[Len(written[o]) + 1] = first
           /\ Range(Append(written[o], first)) = Range(written[o]) \cup {first}
    <2>. SUFFICES ASSUME NEW o \in Outputs, o \in shown
                  PROVE  /\ Append(written[o], first) \in Seq(1..n)
                         /\ Len(Append(written[o], first)) = Len(written[o]) + 1
                         /\ \A i \in 1..Len(written[o]) :
                              /\ Append(written[o], first)[i] = written[o][i]
                              /\ written[o][i] < first
                         /\ Append(written[o], first)[Len(written[o]) + 1] = first
                         /\ Range(Append(written[o], first)) = Range(written[o]) \cup {first}
      OBVIOUS
    <2>1. PICK w \in Seq(1..n) : w = written[o]
      BY <1>7
    <2>2. /\ Append(w, first) \in Seq(1..n) /\ Len(Append(w, first)) = Len(w) + 1
          /\ \A i \in 1..Len(w) : Append(w, first)[i] = w[i]
          /\ Append(w, first)[Len(w) + 1] = first
      BY <1>4, AppendProperties
    <2>3. \A i \in 1..Len(w) : w[i] < first
      BY <1>2, <1>4, <1>6, <2>1 DEF LogInv, InOrder
    <2>4. Range(Append(w, first)) = Range(w) \cup {first}
      <3>1. PICK a \in Nat : a = Len(w)
        OBVIOUS
      <3>2. DOMAIN w = 1..a /\ DOMAIN Append(w, first) = 1..(a + 1)
        BY <2>2, <3>1
      <3>3. \A i \in 1..(a + 1) : i \in 1..a \/ i = a + 1
        OBVIOUS
      <3>4. a + 1 \in 1..(a + 1) /\ 1..a \subseteq 1..(a + 1)
        OBVIOUS
      <3>. QED BY <2>2, <3>1, <3>2, <3>3, <3>4 DEF Range
    <2>. QED BY <2>1, <2>2, <2>3, <2>4
  <1>11. LogTypeOK'
    <2>1. queue' \in [Sinks -> Seq(1..n)]
      <3>1. queue \in [Sinks -> Seq(1..n)]
        BY <1>1, LogFacts DEF LogInv, LogTypeOK
      <3>. QED BY <1>3, <1>4, <3>1
    <2>2. written' \in [Outputs -> Seq(1..n)]
      <3>1. \A o \in Outputs : written'[o] \in Seq(1..n)
        BY <1>7, <1>9, <1>10
      <3>2. written' = [o \in Outputs |-> written'[o]]
        BY <1>5
      <3>. QED BY <3>1, <3>2
    <2>3. s \in sinks
      BY <1>2, <1>3 DEF LogInv, LogTypeOK
    <2>4. \A r \in Sinks \ sinks : queue'[r] = <<>>
      BY <1>8, <2>3 DEF LogInv, LogTypeOK
    <2>5. DOMAIN records = 1..n
      BY <1>1, LogFacts DEF LogInv
    <2>. QED BY <1>3, <2>1, <2>2, <2>4, <2>5 DEF LogInv, LogTypeOK
  <1>12. InOrder'
    <2>1. \A r \in Sinks : InTurn(queue'[r])
      BY <1>4, <1>8 DEF LogInv, InOrder
    <2>2. ASSUME NEW o \in Outputs PROVE InTurn(written'[o])
      <3>1. PICK w \in Seq(1..n) : w = written[o] /\ InTurn(w)
        BY <1>7 DEF LogInv, InOrder
      <3>2. CASE o \in shown
        <4>1. PICK a \in Nat : a = Len(w)
          OBVIOUS
        <4>2. written'[o] = Append(w, first)
          BY <1>9, <3>1, <3>2
        <4>3. /\ Len(Append(w, first)) = a + 1 /\ Append(w, first)[a + 1] = first
              /\ \A i \in 1..a : Append(w, first)[i] = w[i] /\ w[i] < first
          BY <1>10, <3>1, <3>2, <4>1
        <4>4. \A i, j \in 1..(a + 1) : i < j => i \in 1..a /\ (j \in 1..a \/ j = a + 1)
          OBVIOUS
        <4>. QED BY <3>1, <4>1, <4>2, <4>3, <4>4 DEF InTurn
      <3>3. CASE o \notin shown
        BY <1>9, <3>1, <3>3
      <3>. QED BY <3>2, <3>3
    <2>3. ASSUME NEW o \in Outputs, NEW i \in 1..Len(written'[o]),
                 NEW j \in 1..Len(queue'[Feeds(o)])
          PROVE  written'[o][i] < queue'[Feeds(o)][j]
      <3>1. CASE Feeds(o) # s
        <4>1. o \notin shown
          BY <1>6, <3>1
        <4>2. queue'[Feeds(o)] = queue[Feeds(o)] /\ written'[o] = written[o]
          BY <1>7, <1>8, <1>9, <3>1, <4>1
        <4>. QED BY <4>2 DEF LogInv, InOrder
      <3>2. CASE Feeds(o) = s
        <4>1. queue'[s] = Tail(q) /\ j \in 1..Len(Tail(q))
          BY <1>8, <3>2
        <4>2. PICK k \in 1..Len(q) : Tail(q)[j] = q[k]
          BY <1>4, <4>1
        <4>3. \A l \in 1..Len(written[o]) : written[o][l] < q[k]
          BY <1>2, <3>2, <4>2 DEF LogInv, InOrder
        <4>4. CASE o \in shown
          <5>1. PICK a \in Nat : a = Len(written[o])
            BY <1>7
          <5>2. i \in 1..(a + 1)
            BY <1>9, <1>10, <4>4, <5>1
          <5>3. CASE i = a + 1
            <6>1. written'[o][i] = first
              BY <1>9, <1>10, <4>4, <5>1, <5>3
            <6>. QED BY <1>4, <3>2, <4>1, <6>1
          <5>4. CASE i # a + 1
            <6>1. i \in 1..a
              BY <5>2, <5>4
            <6>2. written'[o][i] = written[o][i]
              BY <1>9, <1>10, <4>4, <5>1, <6>1
            <6>. QED BY <3>2, <4>1, <4>2, <4>3, <5>1, <6>1, <6>2
          <5>. QED BY <5>3, <5>4
        <4>5. CASE o \notin shown
          BY <1>9, <3>2, <4>1, <4>2, <4>3, <4>5
        <4>. QED BY <4>4, <4>5
      <3>. QED BY <3>1, <3>2
    <2>. QED BY <1>3, <2>1, <2>2, <2>3, SameSettings DEF InOrder
  <1>13. Routed'
    <2>. SUFFICES ASSUME NEW o \in Outputs, NEW k \in DOMAIN records
                  PROVE  (Due(o, k) <=> \/ k \in Range(written[o])
                                        \/ /\ k \in Range(queue[Feeds(o)])
                                           /\ o \in Shows(Feeds(o), records[k].level))'
      BY <1>3 DEF Routed
    <2>1. Feeds(o)' = Feeds(o) /\ \A r, l : Shows(r, l)' = Shows(r, l)
      BY <1>3, SameSettings
    <2>2. Due(o, k)' <=> Due(o, k)
      BY <1>3, SameSettings DEF Due
    <2>3. Due(o, k) <=> \/ k \in Range(written[o])
                        \/ /\ k \in Range(queue[Feeds(o)])
                           /\ o \in Shows(Feeds(o), records[k].level)
      BY DEF LogInv, Routed
    <2>4. Range(written'[o]) = IF o \in shown THEN Range(written[o]) \cup {first}
                               ELSE Range(written[o])
      BY <1>9, <1>10
    <2>5. CASE Feeds(o) # s
      <3>1. o \notin shown
        BY <1>6, <2>5
      <3>2. queue'[Feeds(o)] = queue[Feeds(o)]
        BY <1>7, <1>8, <2>5
      <3>. QED BY <1>3, <2>1, <2>2, <2>3, <2>4, <3>1, <3>2
    <2>6. CASE Feeds(o) = s
      <3>1. queue'[s] = Tail(q) /\ queue[s] = q
        BY <1>2, <1>8
      <3>2. o \in shown <=> o \in Shows(s, records[first].level)
        BY DEF shown
      <3>3. CASE k = first
        BY <1>3, <1>4, <2>1, <2>2, <2>3, <2>4, <2>6, <3>1, <3>2, <3>3
      <3>4. CASE k # first
        BY <1>3, <1>4, <2>1, <2>2, <2>3, <2>4, <2>6, <3>1, <3>4
      <3>. QED BY <3>3, <3>4
    <2>. QED BY <2>5, <2>6
  <1>14. QueuesMounted'
    <2>1. Mounted' = Mounted
      BY <1>3, SameSettings
    <2>. QED BY <1>2, <1>3, <1>8, <2>1 DEF LogInv, QueuesMounted
  <1>15. Echoes'
    BY <1>3 DEF LogInv, Echoes
  <1>. QED BY <1>11, <1>12, <1>13, <1>14, <1>15 DEF LogInv

\* The program logs: to sinks that the settings ask for, or to none.
LEMMA LogKeeps ==
  ASSUME LogInv, sinks \in {{}, Mounted}, NEW level \in {Info, Error}, NEW from \in Sources,
         from # "access", Log(level, from)
  PROVE  /\ LogInv'
         /\ records' = Append(records, [level |-> level, from |-> from,
                                        mounted |-> sinks # {}])
  <1>1. /\ Deliver(level, from, 1, sinks)
        /\ UNCHANGED <<settings, sinks, handlers, propagates, written, printed>>
    BY DEF Log
  <1>2. \A s \in Sinks : s \notin sinks => queue[s] = <<>>
    BY DEF LogInv, LogTypeOK
  <1>3. sinks = {} \/ sinks = Mounted
    OBVIOUS
  <1>4. 1 \in {0, 1} /\ (1 = 0 <=> from = "access")
    OBVIOUS
  <1>5. /\ records' = Append(records, [level |-> level, from |-> from,
                                       mounted |-> sinks # {}])
        /\ records' \in Seq(Record) /\ queue' \in [Sinks -> Seq(DOMAIN records')]
        /\ written' \in [Outputs -> Seq(DOMAIN records')]
        /\ \A s \in Sinks : s \notin sinks => queue'[s] = <<>>
        /\ InOrder' /\ Routed' /\ QueuesMounted'
    BY <1>1, <1>2, <1>3, <1>4, DeliverKeeps
  <1>6. printed' \in Seq(DOMAIN records') /\ Echoes'
    <2>1. [level |-> level, from |-> from, mounted |-> sinks # {}] \in Record
      BY DEF Record
    <2>. QED BY <1>1, <1>5, <2>1, PrintKeeps
  <1>7. LogTypeOK'
    BY <1>1, <1>5, <1>6 DEF LogInv, LogTypeOK, Record
  <1>. QED BY <1>5, <1>6, <1>7 DEF LogInv

\* An engine is made: only the loggers of SQLAlchemy may get a handler.
LEMMA MakeEngineKeeps ==
  ASSUME LogInv, TakenOver, sinks \in {{}, Mounted}, NEW echo, NEW echoPool,
         MakeEngine(echo, echoPool)
  PROVE  /\ LogInv' /\ TakenOver' /\ UNCHANGED <<settings, sinks>>
         /\ \E x : records' = Append(records, x)
  <1>. DEFINE x == [level |-> Info, from |-> "program", mounted |-> sinks # {}]
  <1>1. /\ Deliver(Info, "program", 1, sinks)
        /\ UNCHANGED <<settings, sinks, propagates, written, printed>>
        /\ handlers' = [l \in Loggers |->
                          IF l \in Echoed(echo, echoPool) THEN "own" ELSE handlers[l]]
    BY DEF MakeEngine
  <1>2. \A s \in Sinks : s \notin sinks => queue[s] = <<>>
    BY DEF LogInv, LogTypeOK
  <1>3. /\ 1 \in {0, 1} /\ (1 = 0 <=> "program" = "access") /\ Info \in {Info, Error}
        /\ "program" \in Sources /\ (sinks = {} \/ sinks = Mounted)
    BY DEF Sources
  <1>4. /\ records' = Append(records, x)
        /\ records' \in Seq(Record) /\ queue' \in [Sinks -> Seq(DOMAIN records')]
        /\ written' \in [Outputs -> Seq(DOMAIN records')]
        /\ \A s \in Sinks : s \notin sinks => queue'[s] = <<>>
        /\ InOrder' /\ Routed' /\ QueuesMounted'
    BY <1>1, <1>2, <1>3, DeliverKeeps
  <1>5. x \in Record
    BY <1>3 DEF Record
  <1>. HIDE DEF x
  <1>6. printed' \in Seq(DOMAIN records') /\ Echoes'
    BY <1>1, <1>4, <1>5, PrintKeeps
  <1>7. handlers' \in [Loggers -> {"none", "own", "intercept", "null"}]
    BY <1>1 DEF LogInv, LogTypeOK
  <1>8. LogTypeOK'
    BY <1>1, <1>4, <1>6, <1>7 DEF LogInv, LogTypeOK, Record
  <1>9. TakenOver'
    <2>1. Echoed(echo, echoPool) \subseteq EchoLoggers
      BY DEF Echoed
    <2>2. /\ (Intercepted \cup {"root", "uvicorn.access", "asyncio"}) \cap EchoLoggers = {}
          /\ Intercepted \cup {"root", "uvicorn.access", "asyncio"} \cup EchoLoggers
                \subseteq Loggers
      BY DEF Intercepted, EchoLoggers, Loggers, Parent
    <2>. QED BY <1>1, <2>1, <2>2 DEF TakenOver
  <1>. QED BY <1>1, <1>4, <1>6, <1>8, <1>9 DEF LogInv

\* No sink is ever taken away from a record that is on its way.
LEMMA CloseLoggingKeeps ==
  ASSUME LogInv, CloseLogging
  PROVE  LogInv' /\ sinks' = {} /\ \A s \in Sinks : queue'[s] = <<>>
  <1>1. /\ sinks' = {}
        /\ UNCHANGED <<settings, handlers, propagates, records, queue, written, printed>>
    BY DEF CloseLogging
  <1>2. \A s \in Sinks : queue[s] = <<>>
    BY DEF CloseLogging, LogInv, LogTypeOK
  <1>3. LogTypeOK'
    BY <1>1, <1>2 DEF LogInv, LogTypeOK
  <1>. QED BY <1>1, <1>2, <1>3, OrderUnchanged DEF LogInv

\* Once the standard library is taken over each of its records is passed on
\* once, but for those of the access log, and printed by no handler but the
\* one that SQLAlchemy gave the logger it was made with.
LEMMA PassedOnOnce ==
  ASSUME TakenOver, NEW l \in Loggers
  PROVE  /\ Cardinality({m \in Reached(l) : handlers[m] = "intercept"})
              = IF l = "uvicorn.access" THEN 0 ELSE 1
         /\ Cardinality({m \in Reached(l) : handlers[m] = "own"})
              = IF l \in EchoLoggers /\ handlers[l] = "own" THEN 1 ELSE 0
  <1>. DEFINE of(kind) == {m \in Reached(l) : handlers[m] = kind}
  <1>1. Loggers = {"fastapi", "sqlalchemy.engine", "uvicorn", "uvicorn.error",
                   "uvicorn.access", "asyncio", "sqlalchemy.engine.Engine",
                   "sqlalchemy.pool", "root"}
    BY DEF Loggers, Parent, EchoLoggers
  <1>2. /\ Parent["asyncio"] = "root" /\ Parent["sqlalchemy.pool"] = "root"
        /\ Parent["sqlalchemy.engine.Engine"] = "sqlalchemy.engine"
    BY DEF Parent, EchoLoggers
  <1>3. propagates = {"asyncio", "sqlalchemy.engine.Engine", "sqlalchemy.pool"}
    BY DEF TakenOver, EchoLoggers
  <1>4. CASE l \in propagates
    <2>1. PICK top : top = Parent[l]
      OBVIOUS
    <2>2. top \in {"root", "sqlalchemy.engine"} /\ top \notin propagates
      BY <1>2, <1>3, <1>4, <2>1
    <2>3. Up({l}) = {l, top} /\ Up({l, top}) = {l, top}
      BY <1>4, <2>1, <2>2 DEF Up
    <2>4. Reached(l) = {l, top}
      BY <2>3 DEF Reached
    <2>5. handlers[top] = "intercept"
      BY <2>2 DEF TakenOver, Intercepted
    <2>6. handlers[l] \in {"none", "own"} /\ (l \notin EchoLoggers => handlers[l] = "none")
      BY <1>3, <1>4 DEF TakenOver, EchoLoggers
    <2>7. of("intercept") = {top} /\ l # "uvicorn.access"
      BY <1>3, <1>4, <2>4, <2>5, <2>6
    <2>8. of("own") = IF l \in EchoLoggers /\ handlers[l] = "own" THEN {l} ELSE {}
      BY <2>4, <2>5, <2>6
    <2>. QED BY <2>7, <2>8, FS_EmptySet, FS_Singleton
  <1>5. CASE l \notin propagates
    <2>1. Reached(l) = {l} /\ l \notin EchoLoggers
      BY <1>3, <1>5 DEF Up, Reached, EchoLoggers
    <2>2. CASE l = "uvicorn.access"
      <3>1. of("intercept") = {} /\ of("own") = {}
        BY <2>1, <2>2 DEF TakenOver
      <3>. QED BY <2>1, <2>2, <3>1, FS_EmptySet
    <2>3. CASE l # "uvicorn.access"
      <3>1. handlers[l] = "intercept"
        BY <1>1, <1>3, <1>5, <2>3 DEF TakenOver, Intercepted
      <3>2. of("intercept") = {l} /\ of("own") = {}
        BY <2>1, <3>1
      <3>. QED BY <2>1, <2>3, <3>2, FS_EmptySet, FS_Singleton
    <2>. QED BY <2>2, <2>3
  <1>. QED BY <1>4, <1>5

LEMMA StandardLogKeeps ==
  ASSUME LogInv, TakenOver, sinks \in {{}, Mounted}, NEW level \in {Info, Error},
         NEW l \in Loggers, StandardLog(level, l)
  PROVE  LogInv' /\ \E x : records' = Append(records, x)
  <1>. DEFINE prints == IF l \in EchoLoggers /\ handlers[l] = "own" THEN 1 ELSE 0
  <1>0. PICK from \in Sources : from = Origin(l)
    BY DEF Origin, Sources
  <1>C. PICK copies \in {0, 1} : copies = IF l = "uvicorn.access" THEN 0 ELSE 1
    OBVIOUS
  <1>. DEFINE x == [level |-> level, from |-> from, mounted |-> sinks # {}]
  <1>1. /\ Deliver(level, from, copies, sinks)
        /\ printed' = printed \o [i \in 1..prints |-> Len(records) + 1]
        /\ UNCHANGED <<settings, sinks, handlers, propagates, written>>
    BY <1>0, <1>C, PassedOnOnce DEF StandardLog
  <1>2. /\ copies = 0 <=> from = "access"
        /\ (prints = 1 => from = "sql") /\ prints \in {0, 1}
    BY <1>0, <1>C DEF Origin, EchoLoggers
  <1>3. \A s \in Sinks : s \notin sinks => queue[s] = <<>>
    BY DEF LogInv, LogTypeOK
  <1>4. sinks = {} \/ sinks = Mounted
    OBVIOUS
  <1>5. x \in Record /\ x.from = from
    BY DEF Record
  <1>. HIDE DEF prints
  <1>6. /\ records' = Append(records, x)
        /\ records' \in Seq(Record) /\ queue' \in [Sinks -> Seq(DOMAIN records')]
        /\ written' \in [Outputs -> Seq(DOMAIN records')]
        /\ \A s \in Sinks : s \notin sinks => queue'[s] = <<>>
        /\ InOrder' /\ Routed' /\ QueuesMounted'
    <2>1. Deliver(level, from, copies, sinks) /\ UNCHANGED <<settings, written>>
      BY <1>1
    <2>2. copies = 0 <=> from = "access"
      BY <1>2
    <2>. QED BY <1>3, <1>4, <2>1, <2>2, DeliverKeeps
  <1>. HIDE DEF x
  <1>7. PICK n \in Nat : n = Len(records)
    BY LogFacts DEF LogInv
  <1>8. printed \in Seq(1..n)
    BY <1>7, LogFacts DEF LogInv
  <1>9. printed' = printed \/ (x.from = "sql" /\ printed' = Append(printed, n + 1))
    <2>1. CASE prints = 0
      <3>1. [i \in 1..prints |-> n + 1] = <<>>
        BY <2>1
      <3>2. printed \o <<>> = printed
        BY <1>8, ConcatEmptySeq
      <3>. QED BY <1>1, <1>7, <3>1, <3>2
    <2>2. CASE prints = 1
      <3>1. [i \in 1..prints |-> n + 1] = <<n + 1>>
        BY <2>2
      <3>2. printed \in Seq(1..(n + 1)) /\ n + 1 \in 1..(n + 1)
        <4>1. 1..n \subseteq 1..(n + 1) /\ n + 1 \in 1..(n + 1)
          OBVIOUS
        <4>. QED BY <1>8, <4>1, SeqMonotonic
      <3>3. printed \o <<n + 1>> = Append(printed, n + 1)
        BY <3>2, AppendIsConcat
      <3>. QED BY <1>1, <1>2, <1>5, <1>7, <2>2, <3>1, <3>3
    <2>. QED BY <1>2, <2>1, <2>2
  <1>10. printed' \in Seq(DOMAIN records') /\ Echoes'
    BY <1>5, <1>6, <1>7, <1>9, PrintKeeps
  <1>11. LogTypeOK'
    BY <1>1, <1>6, <1>10 DEF LogInv, LogTypeOK, Record
  <1>. QED BY <1>6, <1>10, <1>11 DEF LogInv

\* setup_logging mounts what the settings ask for and takes the loggers over,
\* from whatever the server had configured.
LEMMA SetupLoggingKeeps ==
  ASSUME LogInv, Quiet, handlers["asyncio"] = "none",
         \A l \in EchoLoggers : handlers[l] \in {"none", "own"},
         propagates = DOMAIN Parent \ {"uvicorn", "uvicorn.access"},
         SetupLogging("lifespan")
  PROVE  LogInv' /\ TakenOver' /\ sinks' = Mounted'
  <1>1. /\ sinks' = Mounted /\ Deliver(Info, "lifespan", 1, Mounted)
        /\ UNCHANGED <<settings, written, printed>>
        /\ ReplaceHandlers /\ propagates' = propagates \ (Intercepted \cup {"uvicorn.access"})
    BY DEF SetupLogging, TakeOver
  <1>2. \A s \in Sinks : s \notin Mounted => queue[s] = <<>>
    BY DEF Quiet
  <1>3. /\ records' \in Seq(Record) /\ queue' \in [Sinks -> Seq(DOMAIN records')]
        /\ written' \in [Outputs -> Seq(DOMAIN records')]
        /\ \A s \in Sinks : s \notin Mounted => queue'[s] = <<>>
        /\ InOrder' /\ Routed' /\ QueuesMounted'
    <2>1. /\ 1 \in {0, 1} /\ (1 = 0 <=> "lifespan" = "access") /\ "lifespan" \in Sources
          /\ Info \in {Info, Error} /\ (Mounted = {} \/ Mounted = Mounted)
      BY DEF Sources
    <2>. QED BY <1>1, <1>2, <2>1, DeliverKeeps
  <1>4. DOMAIN Parent = {"fastapi", "sqlalchemy.engine", "uvicorn", "uvicorn.error",
                         "uvicorn.access", "asyncio"} \cup EchoLoggers
    BY DEF Parent
  <1>5. TakenOver'
    <2>1. propagates' = {"asyncio"} \cup EchoLoggers
      BY <1>1, <1>4 DEF Intercepted, EchoLoggers
    <2>2. \A l \in Loggers :
            handlers'[l] = CASE l \in Intercepted \cup {"root"} -> "intercept"
                             [] l = "uvicorn.access" -> "null"
                             [] OTHER -> handlers[l]
      BY <1>1 DEF ReplaceHandlers
    <2>3. /\ Intercepted \cup {"root", "uvicorn.access", "asyncio"} \cup EchoLoggers
                \subseteq Loggers
          /\ (Intercepted \cup {"root", "uvicorn.access"}) \cap EchoLoggers = {}
      BY <1>4 DEF Loggers, Intercepted, EchoLoggers
    <2>4. \A l \in EchoLoggers : handlers'[l] \in {"none", "own"}
      BY <2>2, <2>3
    <2>. QED BY <2>1, <2>2, <2>3, <2>4 DEF TakenOver, Intercepted
  <1>6. handlers' \in [Loggers -> {"none", "own", "intercept", "null"}]
    BY <1>1 DEF ReplaceHandlers, LogInv, LogTypeOK
  <1>7. Mounted \subseteq Sinks
    BY SettingsAssumption DEF LogInv, LogTypeOK, Mounted, StdoutSink, FileSinks, Sinks
  <1>8. Mounted' = Mounted
    BY <1>1, SameSettings
  <1>9. propagates' \subseteq DOMAIN Parent
    BY <1>1 DEF LogInv, LogTypeOK
  <1>10. printed' \in Seq(DOMAIN records') /\ Echoes'
    BY <1>1 DEF Quiet, Echoes, Range
  <1>11. LogTypeOK'
    BY <1>1, <1>3, <1>6, <1>7, <1>9, <1>10 DEF LogInv, LogTypeOK, Record
  <1>. QED BY <1>1, <1>3, <1>5, <1>8, <1>10, <1>11 DEF LogInv

\* A setup that fails has logged nothing.
LEMMA SetupFailsKeeps ==
  ASSUME LogInv, Quiet, SetupFails
  PROVE  LogInv' /\ Quiet'
  <1>1. /\ settings.file
        /\ sinks' \in {StdoutSink, StdoutSink \cup {"access"}}
        /\ UNCHANGED <<settings, handlers, propagates, records, queue, written, printed>>
    BY DEF SetupFails
  <1>2. sinks' \subseteq Sinks
    BY <1>1, SettingsAssumption DEF LogInv, LogTypeOK, StdoutSink, Sinks
  <1>3. LogTypeOK' /\ Quiet'
    BY <1>1, <1>2 DEF LogInv, LogTypeOK, Quiet
  <1>. QED BY <1>1, <1>3, OrderUnchanged DEF LogInv

\* The parts give the whole.
LEMMA PartsShow ==
  ASSUME LogInv
  PROVE  ShownAsAsked
  <1>. SUFFICES ASSUME NEW o \in Outputs
                PROVE  InTurn(written[o] \o queue[Feeds(o)])
    BY DEF LogInv, Routed, Echoes, ShownAsAsked
  <1>1. Feeds(o) \in Sinks
    BY Feeding DEF LogInv
  <1>. QED BY <1>1, LogFacts, ConcatTurn DEF LogInv, InOrder
=============================================================================
