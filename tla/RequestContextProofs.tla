------------------------ MODULE RequestContextProofs ------------------------
(***************************************************************************)
(* Proofs about RequestContext for any number of coroutines and blocks:    *)
(* nesting is restored, requests are isolated, and the variable with its   *)
(* tokens implements the scopes of ContextScope.                           *)
(***************************************************************************)
EXTENDS RequestContext, SequenceTheorems, TLAPS

(***************************************************************************)
(* InnermostVisible is not inductive: leaving a block restores what the    *)
(* token remembers, so the tokens of the open blocks must form the chain   *)
(* of the blocks below them, and no manager may be open twice, or the      *)
(* second entry would overwrite the token of the first.                    *)
(***************************************************************************)

\* The k-th block from the bottom of t's stack, the inherited one at 0.
Block(t, k) == IF k = 0 THEN base[t] ELSE frames[t][k]

\* Each open block's token restores the block below it.
TokensChain ==
  \A t \in Tasks : \A i \in 1..Len(frames[t]) :
    token[frames[t][i]] = Block(t, i - 1)

\* A manager is open at one place of one coroutine only.
OpenOnce ==
  \A t, u \in Tasks : \A i \in 1..Len(frames[t]) : \A j \in 1..Len(frames[u]) :
    frames[t][i] = frames[u][j] => t = u /\ i = j

\* A coroutine holds contexts of its own request only.
OwnRequest ==
  \A t \in Tasks :
    /\ base[t] # Unbound => owner[base[t]] = root[t]
    /\ \A i \in 1..Len(frames[t]) : owner[frames[t][i]] = root[t]

\* A coroutine that was not started holds nothing.
NewIsEmpty ==
  \A t \in Tasks : status[t] = "new" => frames[t] = <<>> /\ base[t] = Unbound

IInv ==
  /\ TypeOK
  /\ InnermostVisible
  /\ TokensChain
  /\ OpenOnce
  /\ OwnRequest
  /\ NewIsEmpty

-----------------------------------------------------------------------------
\* The first n elements of a sequence.
LEMMA Prefix ==
  ASSUME NEW S, NEW s \in Seq(S), NEW n \in Nat, n <= Len(s)
  PROVE  /\ SubSeq(s, 1, n) \in Seq(S)
         /\ Len(SubSeq(s, 1, n)) = n
         /\ \A i \in 1..n : SubSeq(s, 1, n)[i] = s[i]
  <1>1. \A i \in 1..n : s[i] \in S
    OBVIOUS
  <1>2. 1 \in Int /\ n \in Int
    OBVIOUS
  <1>3. /\ SubSeq(s, 1, n) \in Seq(S)
        /\ Len(SubSeq(s, 1, n)) = IF 1 <= n THEN n - 1 + 1 ELSE 0
        /\ \A i \in 1..(n - 1 + 1) : SubSeq(s, 1, n)[i] = s[1 + i - 1]
    BY <1>1, <1>2, SubSeqProperties
  <1>4. Len(SubSeq(s, 1, n)) = n /\ n - 1 + 1 = n
    BY <1>3
  <1>5. \A i \in 1..n : 1 + i - 1 = i
    OBVIOUS
  <1>. QED BY <1>3, <1>4, <1>5

\* The position below the k-th is a position too, or the bottom.
LEMMA Below ==
  \A k \in Nat \ {0} :
    \/ k - 1 = 0
    \/ k - 1 \in Nat \ {0} /\ k - 1 \in 1..k /\ k - 1 \in 1..(k - 1)
  OBVIOUS

\* What Pop leaves of a stack: the same blocks, the last one gone.
LEMMA PopBlocks ==
  ASSUME NEW S, NEW s \in Seq(S), s # <<>>
  PROVE  LET r == SubSeq(s, 1, Len(s) - 1)
         IN /\ r \in Seq(S)
            /\ Len(r) = Len(s) - 1
            /\ \A i \in 1..Len(r) : r[i] = s[i]
            /\ Len(s) \in Nat \ {0}
  <1>1. Len(s) \in Nat \ {0}
    OBVIOUS
  <1>2. \A k \in Nat \ {0} : k - 1 \in Nat /\ k - 1 <= k
    OBVIOUS
  <1>3. Len(s) - 1 \in Nat /\ Len(s) - 1 <= Len(s)
    BY <1>1, <1>2
  <1>. QED BY <1>1, <1>3, Prefix

\* What Append adds to a stack: the same blocks, and one more.
LEMMA PushBlocks ==
  ASSUME NEW s \in Seq(Managers), NEW m \in Managers
  PROVE  LET r == Append(s, m)
         IN /\ r \in Seq(Managers)
            /\ r # <<>>
            /\ Len(r) = Len(s) + 1
            /\ \A i \in 1..Len(s) : r[i] = s[i]
            /\ r[Len(s) + 1] = m
            /\ Len(s) \in Nat
  OBVIOUS

\* The coroutine's view is one of its blocks, so it belongs to its request.
LEMMA ViewIsOwn ==
  ASSUME IInv, NEW t \in Tasks, var[t] # Unbound
  PROVE  var[t] \in Managers /\ owner[var[t]] = root[t]
  <1>1. CASE frames[t] = <<>>
    BY <1>1 DEF IInv, TypeOK, Context, InnermostVisible, Innermost, OwnRequest
  <1>2. CASE frames[t] # <<>>
    <2>1. frames[t] \in Seq(Managers) /\ Len(frames[t]) \in 1..Len(frames[t])
      BY <1>2 DEF IInv, TypeOK
    <2>2. var[t] = frames[t][Len(frames[t])]
      BY <1>2 DEF IInv, InnermostVisible, Innermost
    <2>. QED BY <2>1, <2>2 DEF IInv, TypeOK, Context, OwnRequest
  <1>. QED BY <1>1, <1>2

LEMMA InitIInv == Init => IInv
  BY ConstantAssumption
  DEF Init, IInv, TypeOK, Statuses, Context, Contents, InnermostVisible,
      Innermost, TokensChain, OpenOnce, OwnRequest, NewIsEmpty

-----------------------------------------------------------------------------
\* Entering a block of a new manager keeps the chain: its token remembers what
\* was innermost until now, and it was open nowhere.
LEMMA EnterKeepsIInv ==
  ASSUME IInv, NEW t \in Tasks, NEW m \in Managers, NEW c \in Contents,
         Enter(t, m, c)
  PROVE  IInv'
  <1>. USE DEF Enter, Bind
  <1>. DEFINE n == Len(frames[t])
  <1>1. /\ frames[t] \in Seq(Managers) /\ n \in Nat
        /\ frames'[t] \in Seq(Managers)
        /\ frames'[t] # <<>>
        /\ Len(frames'[t]) = n + 1
        /\ \A i \in 1..n : frames'[t][i] = frames[t][i]
        /\ frames'[t][n + 1] = m
    <2>1. frames[t] \in Seq(Managers) /\ frames'[t] = Append(frames[t], m)
      BY DEF IInv, TypeOK
    <2>. HIDE DEF Enter, Bind
    <2>. QED BY <2>1, PushBlocks
  <1>2. \A u \in Tasks \ {t} : frames'[u] = frames[u] /\ var'[u] = var[u]
    BY DEF IInv, TypeOK
  <1>3. \A u \in Tasks : \A i \in 1..Len(frames[u]) : frames[u][i] # m
    BY ConstantAssumption DEF IInv, TypeOK, OwnRequest
  <1>4. \A u \in Tasks : base[u] # m
    <2>1. m # Unbound /\ owner[m] \notin Tasks
      BY ConstantAssumption
    <2>2. \A u \in Tasks : root[u] \in Tasks
      BY DEF IInv, TypeOK
    <2>. QED BY <2>1, <2>2 DEF IInv, OwnRequest
  <1>5. /\ var'[t] = m /\ token'[m] = var[t]
        /\ \A k \in Managers \ {m} : token'[k] = token[k] /\ owner'[k] = owner[k]
        /\ owner'[m] = root[t]
    BY DEF IInv, TypeOK
  <1>6. TypeOK'
    <2>1. frames' \in [Tasks -> Seq(Managers)]
      BY <1>1, <1>2 DEF IInv, TypeOK
    <2>. QED BY <2>1 DEF IInv, TypeOK, Context
  <1>7. InnermostVisible'
    BY <1>1, <1>2, <1>5 DEF IInv, TypeOK, InnermostVisible, Innermost
  <1>8. TokensChain'
    <2>. SUFFICES ASSUME NEW u \in Tasks, NEW i \in 1..Len(frames'[u])
                  PROVE  token'[frames'[u][i]] = Block(u, i - 1)'
      BY DEF TokensChain
    <2>1. CASE u # t
      <3>1. frames'[u] = frames[u] /\ i \in 1..Len(frames[u])
        BY <1>2, <2>1
      <3>2. frames[u][i] \in Managers \ {m}
        BY <3>1, <1>3 DEF IInv, TypeOK
      <3>. QED BY <3>1, <3>2, <1>5 DEF IInv, TokensChain, Block
    <2>2. CASE u = t /\ i = n + 1
      <3>1. token'[frames'[u][i]] = Innermost(t)
        BY <2>2, <1>1, <1>5 DEF IInv, InnermostVisible
      <3>2. n = 0 <=> frames[t] = <<>>
        BY <1>1
      <3>3. Block(u, i - 1)' = IF n = 0 THEN base[t] ELSE frames[t][n]
        BY <2>2, <1>1 DEF Block
      <3>. QED BY <3>1, <3>2, <3>3 DEF Innermost
    <2>3. CASE u = t /\ i \in 1..n
      <3>1. frames'[u][i] = frames[t][i] /\ frames[t][i] \in Managers \ {m}
        BY <2>3, <1>1, <1>3 DEF IInv, TypeOK
      <3>2. token'[frames'[u][i]] = Block(t, i - 1)
        BY <2>3, <3>1, <1>5 DEF IInv, TokensChain
      <3>3. Block(u, i - 1)' = Block(t, i - 1)
        BY <2>3, <1>1 DEF Block
      <3>. QED BY <3>2, <3>3
    <2>. QED BY <1>1, <2>1, <2>2, <2>3
  <1>9. OpenOnce'
    <2>. SUFFICES ASSUME NEW u \in Tasks, NEW w \in Tasks,
                         NEW i \in 1..Len(frames'[u]), NEW j \in 1..Len(frames'[w]),
                         frames'[u][i] = frames'[w][j]
                  PROVE  u = w /\ i = j
      BY DEF OpenOnce
    <2>1. u # t => i \in 1..Len(frames[u]) /\ frames'[u][i] = frames[u][i]
      BY <1>2
    <2>2. w # t => j \in 1..Len(frames[w]) /\ frames'[w][j] = frames[w][j]
      BY <1>2
    <2>3. i # n + 1 /\ u = t => i \in 1..n /\ frames'[u][i] = frames[u][i]
      BY <1>1
    <2>4. j # n + 1 /\ w = t => j \in 1..n /\ frames'[w][j] = frames[w][j]
      BY <1>1
    <2>5. i \in Nat /\ j \in Nat
      BY <1>1, <1>2 DEF IInv, TypeOK
    <2>. QED BY <1>1, <1>3, <2>1, <2>2, <2>3, <2>4, <2>5 DEF IInv, OpenOnce
  <1>10. OwnRequest'
    <2>. SUFFICES ASSUME NEW u \in Tasks
                  PROVE  /\ base[u] # Unbound => owner'[base[u]] = root[u]
                         /\ \A i \in 1..Len(frames'[u]) :
                              owner'[frames'[u][i]] = root[u]
      BY DEF OwnRequest
    <2>1. base[u] # Unbound => owner'[base[u]] = root[u]
      BY <1>4, <1>5 DEF IInv, TypeOK, Context, OwnRequest
    <2>2. ASSUME NEW i \in 1..Len(frames'[u])
          PROVE  owner'[frames'[u][i]] = root[u]
      <3>1. CASE u = t /\ i = n + 1
        BY <3>1, <1>1, <1>5
      <3>2. CASE u = t /\ i \in 1..n
        <4>1. frames'[u][i] = frames[u][i] /\ frames[u][i] \in Managers \ {m}
          BY <3>2, <1>1, <1>3 DEF IInv, TypeOK
        <4>. QED BY <4>1, <3>2, <1>5 DEF IInv, OwnRequest
      <3>3. CASE u # t
        <4>1. i \in 1..Len(frames[u]) /\ frames'[u][i] = frames[u][i]
          BY <3>3, <1>2
        <4>2. frames[u][i] \in Managers \ {m}
          BY <4>1, <1>3 DEF IInv, TypeOK
        <4>. QED BY <4>1, <4>2, <1>5 DEF IInv, OwnRequest
      <3>. QED BY <1>1, <3>1, <3>2, <3>3
    <2>. QED BY <2>1, <2>2
  <1>11. NewIsEmpty'
    BY <1>2 DEF IInv, NewIsEmpty
  <1>. QED BY <1>6, <1>7, <1>8, <1>9, <1>10, <1>11 DEF IInv

\* Leaving the innermost block restores the one below: its token has the block
\* below it, and no other open block loses its token.
LEMMA ExitKeepsIInv ==
  ASSUME IInv, NEW t \in Tasks, Exit(t)
  PROVE  IInv' /\ var'[t] = Block(t, Len(frames[t]) - 1)
  <1>0. frames[t] \in Seq(Managers) /\ Len(frames[t]) \in Nat \ {0}
    BY DEF IInv, TypeOK, Exit, Pop
  <1>1. PICK n \in Nat : n = Len(frames[t]) /\ n > 0
    BY <1>0
  <1>. DEFINE m == frames[t][n]
  <1>2. frames'[t] = SubSeq(frames[t], 1, n - 1)
    BY <1>1 DEF IInv, TypeOK, Exit, Pop
  <1>3. /\ frames'[t] \in Seq(Managers)
        /\ Len(frames'[t]) = n - 1
        /\ \A i \in 1..(n - 1) : frames'[t][i] = frames[t][i]
    BY <1>0, <1>1, <1>2, PopBlocks
  <1>4. m \in Managers /\ n \in 1..n
    BY <1>0, <1>1
  <1>5. token[m] = Block(t, n - 1)
    BY <1>1, <1>4 DEF IInv, TokensChain
  <1>6. n - 1 = 0 \/ (n - 1 \in 1..n /\ n - 1 \in 1..(n - 1))
    <2>1. n \in Nat \ {0}
      BY <1>1
    <2>. QED BY <2>1, Below
  <1>7. Block(t, n - 1) \in Context
    BY <1>0, <1>1, <1>6 DEF IInv, TypeOK, Context, Block
  <1>8. var' = [var EXCEPT ![t] = Block(t, n - 1)]
    BY <1>1, <1>5, <1>7, ConstantAssumption DEF Exit, Context
  <1>9. \A u \in Tasks \ {t} : frames'[u] = frames[u] /\ var'[u] = var[u]
    BY <1>8 DEF IInv, TypeOK, Exit, Pop
  <1>10. /\ \A k \in Managers \ {m} : token'[k] = token[k]
         /\ UNCHANGED <<status, root, base, rc, owner>>
    BY <1>1 DEF IInv, TypeOK, Exit, Pop
  <1>11. \A u \in Tasks : \A i \in 1..Len(frames'[u]) :
           /\ i \in 1..Len(frames[u])
           /\ frames'[u][i] = frames[u][i]
           /\ frames'[u][i] \in Managers \ {m}
    <2>. TAKE u \in Tasks
    <2>. TAKE i \in 1..Len(frames'[u])
    <2>1. i \in 1..Len(frames[u]) /\ frames'[u][i] = frames[u][i]
      <3>1. CASE u = t
        <4>1. i \in 1..(n - 1)
          BY <3>1, <1>3
        <4>2. i \in 1..n
          BY <4>1, <1>1
        <4>. QED BY <3>1, <4>1, <4>2, <1>1, <1>3
      <3>2. CASE u # t
        BY <3>2, <1>9
      <3>. QED BY <3>1, <3>2
    <2>2. u = t => i # n
      BY <1>1, <1>3
    <2>3. frames[u][i] # m
      BY <2>1, <2>2, <1>1, <1>4 DEF IInv, OpenOnce
    <2>4. frames[u][i] \in Managers
      BY <2>1 DEF IInv, TypeOK
    <2>. QED BY <2>1, <2>3, <2>4
  <1>12. TypeOK'
    <2>1. frames' \in [Tasks -> Seq(Managers)]
      BY <1>3, <1>9 DEF IInv, TypeOK, Exit, Pop
    <2>2. var' \in [Tasks -> Context]
      BY <1>7, <1>8 DEF IInv, TypeOK
    <2>3. token' \in [Managers -> Context \cup {NoToken}]
      BY DEF IInv, TypeOK, Exit, Pop
    <2>. QED BY <2>1, <2>2, <2>3, <1>10 DEF IInv, TypeOK
  <1>13. InnermostVisible'
    <2>1. var'[t] = Innermost(t)'
      <3>1. frames'[t] = <<>> <=> n - 1 = 0
        BY <1>3
      <3>2. n - 1 # 0 => n - 1 \in 1..(n - 1)
        BY <1>6
      <3>3. var'[t] = Block(t, n - 1)
        BY <1>8 DEF IInv, TypeOK
      <3>. QED BY <3>1, <3>2, <3>3, <1>3, <1>10 DEF Innermost, Block
    <2>2. \A u \in Tasks \ {t} : var'[u] = Innermost(u)'
      BY <1>9, <1>10 DEF IInv, InnermostVisible, Innermost
    <2>. QED BY <2>1, <2>2 DEF InnermostVisible
  <1>14. TokensChain'
    <2>. SUFFICES ASSUME NEW u \in Tasks, NEW i \in 1..Len(frames'[u])
                  PROVE  token'[frames'[u][i]] = Block(u, i - 1)'
      BY DEF TokensChain
    <2>1. token'[frames'[u][i]] = Block(u, i - 1)
      <3>1. token[frames[u][i]] = Block(u, i - 1)
        BY <1>11 DEF IInv, TokensChain
      <3>. QED BY <3>1, <1>10, <1>11
    <2>2. Len(frames'[u]) \in Nat
      BY <1>12 DEF TypeOK
    <2>3. i - 1 # 0 => i - 1 \in 1..Len(frames'[u])
      BY <2>2
    <2>4. Block(u, i - 1)' = Block(u, i - 1)
      BY <2>3, <1>10, <1>11 DEF Block
    <2>. QED BY <2>1, <2>4
  <1>15. OpenOnce' /\ OwnRequest' /\ NewIsEmpty'
    <2>1. OpenOnce'
      BY <1>11 DEF IInv, OpenOnce
    <2>2. OwnRequest'
      BY <1>10, <1>11 DEF IInv, OwnRequest
    <2>3. NewIsEmpty'
      BY <1>9, <1>10 DEF IInv, NewIsEmpty, Exit, Pop
    <2>. QED BY <2>1, <2>2, <2>3
  <1>. QED BY <1>1, <1>8, <1>12, <1>13, <1>14, <1>15 DEF IInv, TypeOK

\* A child inherits its parent's view: it belongs to the same request.
LEMMA SpawnKeepsIInv ==
  ASSUME IInv, NEW t \in Tasks, NEW c \in Tasks \ {t}, Spawn(t, c)
  PROVE  IInv'
  <1>. USE DEF Spawn
  <1>1. frames[c] = <<>> /\ frames' = frames /\ token' = token /\ owner' = owner
    BY DEF IInv, NewIsEmpty
  <1>2. /\ base'[c] = var[t] /\ var'[c] = var[t] /\ root'[c] = root[t]
        /\ \A u \in Tasks \ {c} : /\ base'[u] = base[u] /\ var'[u] = var[u]
                                  /\ root'[u] = root[u]
    BY DEF IInv, TypeOK
  <1>3. TypeOK'
    BY DEF IInv, TypeOK, Statuses
  <1>4. InnermostVisible'
    BY <1>1, <1>2 DEF IInv, InnermostVisible, Innermost
  <1>5. Len(frames[c]) = 0
    BY <1>1
  <1>6. TokensChain'
    BY <1>1, <1>2, <1>5 DEF IInv, TokensChain, Block
  <1>7. OwnRequest'
    <2>1. base'[c] # Unbound => owner'[base'[c]] = root'[c]
      BY <1>1, <1>2, ViewIsOwn
    <2>. QED BY <1>1, <1>2, <1>5, <2>1 DEF IInv, OwnRequest
  <1>8. OpenOnce' /\ NewIsEmpty'
    BY <1>1, <1>2 DEF IInv, TypeOK, OpenOnce, NewIsEmpty
  <1>. QED BY <1>3, <1>4, <1>6, <1>7, <1>8 DEF IInv

\* The other steps change no context variable and no block.
LEMMA OtherStepsKeepIInv ==
  ASSUME IInv, NEW t \in Tasks,
         \/ Start(t) \/ Finish(t) \/ Refuse(t)
         \/ \E f \in Fields, v \in Values : Set(t, f, v)
         \/ UNCHANGED vars
  PROVE  IInv'
  <1>1. UNCHANGED <<root, base, var, token, frames, owner>>
    BY DEF Start, Finish, Refuse, Set, vars
  <1>2. status' \in [Tasks -> Statuses] /\ \A u \in Tasks : status'[u] = "new" => status[u] = "new"
    BY DEF IInv, TypeOK, Statuses, Start, Finish, Refuse, Set, vars
  <1>3. rc' \in [Managers -> Contents]
    <2>1. CASE UNCHANGED rc
      BY <2>1 DEF IInv, TypeOK
    <2>2. ASSUME NEW f \in Fields, NEW v \in Values, Set(t, f, v)
          PROVE  rc' \in [Managers -> Contents]
      <3>1. var[t] \in Managers
        BY <2>2, ViewIsOwn DEF Set
      <3>2. [rc[var[t]] EXCEPT ![f] = v] \in Contents
        BY <3>1 DEF IInv, TypeOK, Contents
      <3>3. rc' = [rc EXCEPT ![var[t]] = [rc[var[t]] EXCEPT ![f] = v]]
        BY <2>2 DEF Set
      <3>. QED BY <3>1, <3>2, <3>3 DEF IInv, TypeOK
    <2>. QED BY <2>1, <2>2 DEF Start, Finish, Refuse, vars
  <1>. QED BY <1>1, <1>2, <1>3
       DEF IInv, TypeOK, InnermostVisible, Innermost, TokensChain, Block,
           OpenOnce, OwnRequest, NewIsEmpty

LEMMA StepIInv == IInv /\ [Next]_vars => IInv'
  <1>. SUFFICES ASSUME IInv, [Next]_vars PROVE IInv'
    OBVIOUS
  <1>1. CASE UNCHANGED vars
    BY <1>1 DEF IInv, TypeOK, InnermostVisible, Innermost, TokensChain, Block,
                OpenOnce, OwnRequest, NewIsEmpty, vars
  <1>2. CASE Next
    <2>1. PICK t \in Tasks : TaskStep(t)
      BY <1>2 DEF Next
    <2>. QED BY <2>1, EnterKeepsIInv, ExitKeepsIInv, SpawnKeepsIInv,
                OtherStepsKeepIInv DEF TaskStep
  <1>. QED BY <1>1, <1>2

\* In every reachable state IInv holds.
LEMMA Invariance == Spec => []IInv
  BY InitIInv, StepIInv, PTL DEF Spec

\* Every variable keeps to its type, for any number of coroutines and blocks.
THEOREM TypeCorrect == Spec => []TypeOK
  <1>1. IInv => TypeOK
    BY DEF IInv
  <1>. QED BY <1>1, Invariance, PTL

\* Leaving a block always restores the block around it, however coroutines
\* bind, fork and leave in between: bind_context resets to the parent.
THEOREM Nesting == Spec => []InnermostVisible
  <1>1. IInv => InnermostVisible
    BY DEF IInv
  <1>. QED BY <1>1, Invariance, PTL

-----------------------------------------------------------------------------
\* One request's step and another request's coroutine: they share no context.
LEMMA StepIsOwnRequest ==
  ASSUME IInv, NEW t \in Tasks, TaskStep(t),
         NEW u \in Tasks, status[u] = "running", root[u] # root[t],
         NEW f \in Fields
  PROVE  Read(u, f)' = Read(u, f)
  <1>1. u # t
    OBVIOUS
  <1>2. var[u] # Unbound => var[u] \in Managers /\ owner[var[u]] = root[u]
    BY ViewIsOwn
  <1>3. var[t] # Unbound => var[t] \in Managers /\ owner[var[t]] = root[t]
    BY ViewIsOwn
  <1>4. CASE Start(t) \/ Finish(t) \/ Refuse(t) \/ Exit(t)
    <2>1. rc' = rc
      BY <1>4 DEF Start, Finish, Refuse, Exit, Pop
    <2>2. var'[u] = var[u]
      BY <1>1, <1>4 DEF Start, Finish, Refuse, Exit, IInv, TypeOK
    <2>. QED BY <2>1, <2>2 DEF Read
  <1>5. ASSUME NEW c \in Tasks \ {t}, Spawn(t, c)
        PROVE  Read(u, f)' = Read(u, f)
    <2>1. u # c /\ rc' = rc
      BY <1>5 DEF Spawn
    <2>2. var'[u] = var[u]
      BY <1>5, <2>1 DEF Spawn, IInv, TypeOK
    <2>. QED BY <2>1, <2>2 DEF Read
  <1>6. ASSUME NEW m \in Managers, NEW c \in Contents, Enter(t, m, c)
        PROVE  Read(u, f)' = Read(u, f)
    <2>1. var'[u] = var[u]
      BY <1>1, <1>6 DEF Enter, Bind, IInv, TypeOK
    <2>2. root[u] \in Tasks /\ owner[m] \notin Tasks
      BY <1>6, ConstantAssumption DEF Enter, IInv, TypeOK
    <2>3. var[u] # Unbound => var[u] # m
      BY <1>2, <2>2
    <2>4. var[u] # Unbound => rc'[var[u]] = rc[var[u]]
      BY <1>2, <1>6, <2>3 DEF Enter, IInv, TypeOK
    <2>. QED BY <2>1, <2>4 DEF Read
  <1>7. ASSUME NEW g \in Fields, NEW v \in Values, Set(t, g, v)
        PROVE  Read(u, f)' = Read(u, f)
    <2>1. var' = var /\ var[t] # Unbound
      BY <1>7 DEF Set
    <2>2. var[u] # Unbound => rc'[var[u]] = rc[var[u]]
      BY <1>2, <1>3, <1>7, <2>1 DEF Set, IInv, TypeOK
    <2>. QED BY <2>1, <2>2 DEF Read
  <1>. QED BY <1>4, <1>5, <1>6, <1>7 DEF TaskStep

\* No step taken for one request changes what a coroutine of another reads.
THEOREM RequestsAreIsolated == Spec => NoCrossTalk
  <1>1. ASSUME IInv, [Next]_vars, NEW t \in Tasks, NEW u \in Tasks
        PROVE  TaskStep(t) /\ status[u] = "running" /\ root[u] # root[t]
                 => \A f \in Fields : Read(u, f)' = Read(u, f)
    BY <1>1, StepIsOwnRequest
  <1>2. IInv /\ [Next]_vars =>
          [\A t, u \in Tasks :
             TaskStep(t) /\ status[u] = "running" /\ root[u] # root[t]
               => \A f \in Fields : Read(u, f)' = Read(u, f)]_vars
    BY <1>1
  <1>. QED BY <1>2, Invariance, PTL DEF Spec, NoCrossTalk

-----------------------------------------------------------------------------
(* The implementation of ContextScope.  A step maps to the abstract step of  *)
(* the same meaning; Start, Finish and Refuse change no scope and stutter.   *)

\* The abstract stacks.
Stacks == [t \in Tasks |-> <<base[t]>> \o frames[t]]

\* Pushing and popping below an inherited block.
LEMMA PushAbove ==
  ASSUME NEW b \in Context, NEW s \in Seq(Context), NEW m \in Context
  PROVE  <<b>> \o Append(s, m) = Append(<<b>> \o s, m)
  <1>1. <<b>> \in Seq(Context) /\ <<m>> \in Seq(Context)
    OBVIOUS
  <1>2. Append(s, m) = s \o <<m>> /\ <<b>> \o s \in Seq(Context)
    BY <1>1, AppendIsConcat, ConcatProperties
  <1>3. Append(<<b>> \o s, m) = (<<b>> \o s) \o <<m>>
    BY <1>2, AppendIsConcat
  <1>. QED BY <1>1, <1>2, <1>3, ConcatAssociative

LEMMA PopAbove ==
  ASSUME NEW b \in Context, NEW s \in Seq(Context), s # <<>>
  PROVE  /\ Len(<<b>> \o s) = Len(s) + 1
         /\ <<b>> \o SubSeq(s, 1, Len(s) - 1)
              = SubSeq(<<b>> \o s, 1, Len(<<b>> \o s) - 1)
  <1>1. PICK n \in Nat : n = Len(s) /\ n > 0
    OBVIOUS
  <1>2. <<b>> \in Seq(Context) /\ Len(<<b>>) = 1 /\ <<b>>[1] = b
    OBVIOUS
  <1>. DEFINE r == <<b>> \o s
              x == SubSeq(s, 1, n - 1)
  <1>3. r \in Seq(Context) /\ Len(r) = n + 1
        /\ \A i \in 1..(n + 1) : r[i] = IF i = 1 THEN b ELSE s[i - 1]
    <2>1. Len(r) = 1 + n
      BY <1>1, <1>2, ConcatProperties
    <2>. QED BY <2>1, <1>1, <1>2, ConcatProperties
  <1>4. x \in Seq(Context) /\ Len(x) = n - 1 /\ \A i \in 1..(n - 1) : x[i] = s[i]
    BY <1>1, Prefix
  <1>5. /\ <<b>> \o x \in Seq(Context)
        /\ Len(<<b>> \o x) = n
        /\ \A i \in 1..n : (<<b>> \o x)[i] = IF i = 1 THEN b ELSE x[i - 1]
    <2>1. Len(<<b>> \o x) = 1 + (n - 1)
      BY <1>2, <1>4, ConcatProperties
    <2>. QED BY <2>1, <1>1, <1>2, <1>4, ConcatProperties
  <1>6. /\ SubSeq(r, 1, n) \in Seq(Context)
        /\ Len(SubSeq(r, 1, n)) = n
        /\ \A i \in 1..n : SubSeq(r, 1, n)[i] = r[i]
    BY <1>1, <1>3, Prefix
  <1>7. \A i \in 1..n : (<<b>> \o x)[i] = SubSeq(r, 1, n)[i]
    <2>. TAKE i \in 1..n
    <2>1. i \in 1..(n + 1) /\ (i # 1 => i - 1 \in 1..(n - 1))
      OBVIOUS
    <2>. QED BY <2>1, <1>3, <1>4, <1>5, <1>6
  <1>8. <<b>> \o x = SubSeq(r, 1, n)
    <2>1. ASSUME NEW v \in Seq(Context), NEW w \in Seq(Context),
                 Len(v) = n, Len(w) = n, \A i \in 1..n : v[i] = w[i]
          PROVE  v = w
      BY <2>1, SeqEqual
    <2>. QED BY <1>5, <1>6, <1>7, <2>1
  <1>9. n - 1 = Len(s) - 1 /\ Len(r) - 1 = n
    BY <1>1, <1>3
  <1>. QED BY <1>1, <1>3, <1>8, <1>9

LEMMA InitScopes == Init => Scopes!AbsInit
  <1>. SUFFICES ASSUME Init PROVE Scopes!AbsInit
    OBVIOUS
  <1>1. \A t \in Tasks : <<base[t]>> \o frames[t] = <<Unbound>>
    <2>1. <<Unbound>> \in Seq(Context)
      BY DEF Context
    <2>. QED BY <2>1, ConcatEmptySeq DEF Init
  <1>2. {m \in Managers : owner[m] # NoTask} = {}
    BY DEF Init
  <1>. QED BY <1>1, <1>2 DEF Init, Scopes!AbsInit

\* Entering opens a scope that was never opened.
LEMMA EnterOpens ==
  ASSUME IInv, NEW t \in Tasks, NEW m \in Managers, NEW c \in Contents,
         Enter(t, m, c)
  PROVE  Scopes!Open(t, m, c)
  <1>1. /\ base[t] \in Context /\ frames[t] \in Seq(Context) /\ m \in Context
        /\ base' = base /\ frames' = [frames EXCEPT ![t] = Append(@, m)]
        /\ root[t] \in Tasks
    BY DEF IInv, TypeOK, Context, Enter, Bind
  <1>2. <<base[t]>> \o Append(frames[t], m) = Append(<<base[t]>> \o frames[t], m)
    BY <1>1, PushAbove
  <1>3. Stacks' = [Stacks EXCEPT ![t] = Append(@, m)]
    BY <1>1, <1>2 DEF Stacks, IInv, TypeOK
  <1>4. {k \in Managers : owner[k] # NoTask}'
          = {k \in Managers : owner[k] # NoTask} \cup {m}
    BY <1>1, ConstantAssumption DEF Enter, IInv, TypeOK
  <1>. QED BY <1>3, <1>4 DEF Scopes!Open, Stacks, Enter, Bind

\* Leaving closes the innermost scope and uncovers the one below.
LEMMA ExitCloses ==
  ASSUME IInv, NEW t \in Tasks, Exit(t)
  PROVE  Scopes!Close(t)
  <1>1. /\ base[t] \in Context /\ frames[t] \in Seq(Context)
        /\ frames[t] \in Seq(Managers) /\ frames[t] # <<>>
    BY DEF IInv, TypeOK, Context, Exit, Pop
  <1>2. base' = base
        /\ frames' = [frames EXCEPT ![t] = SubSeq(@, 1, Len(@) - 1)]
        /\ rc' = rc /\ owner' = owner
    BY DEF Exit, Pop
  <1>3. PICK n \in Nat : n = Len(frames[t]) /\ n > 0
    BY <1>1
  <1>4. Stacks[t] = <<base[t]>> \o frames[t]
    BY DEF Stacks
  <1>5. Len(Stacks[t]) = n + 1
        /\ <<base[t]>> \o SubSeq(frames[t], 1, n - 1)
             = SubSeq(Stacks[t], 1, Len(Stacks[t]) - 1)
    BY <1>1, <1>3, <1>4, PopAbove
  <1>6. Stacks' = [Stacks EXCEPT ![t] = SubSeq(@, 1, Len(@) - 1)]
    BY <1>2, <1>3, <1>5 DEF Stacks, IInv, TypeOK
  <1>7. Stacks[t][n] = Block(t, n - 1)
    <2>1. /\ Len(<<base[t]>>) = 1 /\ <<base[t]>>[1] = base[t]
          /\ <<base[t]>> \in Seq(Context) /\ n \in 1..(1 + Len(frames[t]))
      BY <1>1, <1>3
    <2>2. Stacks[t][n] = IF n <= 1 THEN <<base[t]>>[n] ELSE frames[t][n - 1]
      BY <2>1, <1>1, <1>4, ConcatProperties
    <2>3. \A k \in Nat : k > 0 => (k <= 1 <=> k = 1) /\ (k = 1 <=> k - 1 = 0)
      OBVIOUS
    <2>4. (n <= 1 <=> n = 1) /\ (n = 1 <=> n - 1 = 0)
      BY <1>3, <2>3
    <2>. QED BY <2>1, <2>2, <2>3, <2>4 DEF Block
  <1>8. var'[t] = Block(t, n - 1) /\ Len(Stacks[t]) - 1 = n
    BY <1>3, <1>5, ExitKeepsIInv
  <1>9. var' = [var EXCEPT ![t] = Stacks[t][Len(Stacks[t]) - 1]]
    BY <1>7, <1>8 DEF Exit, IInv, TypeOK
  <1>10. Len(Stacks[t]) > 1
    BY <1>3, <1>5
  <1>. QED BY <1>2, <1>4, <1>6, <1>9, <1>10 DEF Scopes!Close, Stacks

\* A spawned coroutine is forked from what its parent sees.
LEMMA SpawnForks ==
  ASSUME IInv, NEW t \in Tasks, NEW c \in Tasks \ {t}, Spawn(t, c)
  PROVE  Scopes!Fork(t, c)
  <1>1. frames[c] = <<>> /\ base[c] = Unbound /\ var[t] \in Context
    BY DEF Spawn, IInv, NewIsEmpty, TypeOK
  <1>2. \A x \in Context : <<x>> \o <<>> = <<x>>
    BY ConcatEmptySeq
  <1>3. Stacks[c] = <<Unbound>>
    BY <1>1, <1>2 DEF Stacks, Context
  <1>4. Stacks' = [Stacks EXCEPT ![c] = <<var[t]>>]
    BY <1>1, <1>2 DEF Stacks, Spawn, IInv, TypeOK
  <1>. QED BY <1>3, <1>4 DEF Scopes!Fork, Stacks, Spawn

LEMMA StepScopes == IInv /\ [Next]_vars => [Scopes!AbsNext]_(Scopes!absVars)
  <1>. SUFFICES ASSUME IInv, [Next]_vars
                PROVE  [Scopes!AbsNext]_(Scopes!absVars)
    OBVIOUS
  <1>. USE DEF Scopes!AbsNext
  <1>1. ASSUME NEW t \in Tasks, NEW c \in Tasks \ {t}, Spawn(t, c)
        PROVE  Scopes!AbsNext
    BY <1>1, SpawnForks
  <1>2. ASSUME NEW t \in Tasks, NEW m \in Managers, NEW c \in Contents,
               Enter(t, m, c)
        PROVE  Scopes!AbsNext
    BY <1>2, EnterOpens DEF Contents, Scopes!Contents
  <1>3. ASSUME NEW t \in Tasks, Exit(t)
        PROVE  Scopes!AbsNext
    BY <1>3, ExitCloses
  <1>4. ASSUME NEW t \in Tasks, NEW f \in Fields, NEW v \in Values, Set(t, f, v)
        PROVE  Scopes!AbsNext
    BY <1>4 DEF Set, Scopes!Write
  <1>5. ASSUME NEW t \in Tasks, Start(t) \/ Finish(t) \/ Refuse(t)
        PROVE  UNCHANGED Scopes!absVars
    BY <1>5 DEF Start, Finish, Refuse, Scopes!absVars
  <1>6. CASE UNCHANGED vars
    BY <1>6 DEF vars, Scopes!absVars
  <1>. QED BY <1>1, <1>2, <1>3, <1>4, <1>5, <1>6 DEF Next, TaskStep

\* The one variable per coroutine and its tokens implement nested scopes.
THEOREM ImplementsScopes == Spec => ScopeSpec
  BY InitScopes, StepScopes, Invariance, PTL DEF Spec, ScopeSpec, Scopes!AbsSpec
=============================================================================
