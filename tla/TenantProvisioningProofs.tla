----------------------- MODULE TenantProvisioningProofs -----------------------
(***************************************************************************)
(* Proofs about TenantProvisioning for any number of workers, tenants and  *)
(* schemas: the transactions implement the atomic catalog, and nothing is  *)
(* destroyed but by a drop with cascade.                                   *)
(***************************************************************************)
EXTENDS TenantProvisioning, TLAPS

(***************************************************************************)
(* A commit applies what was decided when the statement was executed.  The *)
(* types do not say that the decision still stands then: that the effect   *)
(* is the one that was asked for, by a call that was accepted, and that a  *)
(* drop without cascade still finds its schema empty.                      *)
(***************************************************************************)

Running(w) == pc[w] \in {"asked", "waiting", "executed"}

\* What runs was accepted; only a create waits.
RunsAccepted ==
  \A w \in Workers : /\ Running(w) => Accepts(call[w])
                     /\ pc[w] = "waiting" => call[w].op = "create"

\* Only an executed statement has an effect, and it is the one asked for.
EffectAsked ==
  \A w \in Workers :
    effect[w] # "none" => pc[w] = "executed" /\ call[w].op = effect[w]

\* Until it commits, a drop keeps others from filling what it may not destroy.
DropMayDrop ==
  \A w \in Workers :
    effect[w] = "drop" => (Schema(w) \in filled => call[w].cascade)

\* A call that is not over has not failed.
ExecutedReads ==
  \A w \in Workers : pc[w] = "executed" => result[w] \in {"none", "yes", "no"}

IInv ==
  /\ TypeOK
  /\ RunsAccepted
  /\ EffectAsked
  /\ DropMayDrop
  /\ ExecutedReads

-----------------------------------------------------------------------------
LEMMA InitIInv == Init => IInv
  BY DEF Init, IInv, TypeOK, Calls, Results, RunsAccepted, EffectAsked, DropMayDrop,
         ExecutedReads, Running

\* A call that was accepted names a schema.
LEMMA AcceptedSchema ==
  ASSUME IInv, NEW w \in Workers, Running(w)
  PROVE  Schema(w) \in Schemas
  <1>1. call[w] \in Calls /\ Accepts(call[w])
    BY DEF IInv, TypeOK, RunsAccepted
  <1>2. call[w].tenant \in Tenants
    BY <1>1 DEF Calls
  <1>. QED BY <1>1, <1>2 DEF Schema, Schemas, Accepts

\* What a commit, or a lost one, leaves of the catalog.
LEMMA AfterIsSchemas ==
  ASSUME IInv, NEW w \in Workers, Running(w)
  PROVE  After(w) \subseteq Schemas /\ (effect[w] = "none" => After(w) = existing)
  BY AcceptedSchema DEF IInv, TypeOK, After

LEMMA CallKeeps ==
  ASSUME IInv, NEW w \in Workers, NEW c \in Calls, Call(w, c) \/ CallRefused(w, c)
  PROVE  IInv'
  <1>. USE DEF Call, CallRefused
  <1>1. effect[w] = "none"
    BY DEF IInv, EffectAsked
  <1>2. TypeOK'
    BY DEF IInv, TypeOK, Results
  <1>3. RunsAccepted'
    BY DEF IInv, TypeOK, RunsAccepted, Running
  <1>4. EffectAsked'
    BY <1>1 DEF IInv, TypeOK, EffectAsked
  <1>5. DropMayDrop'
    BY <1>1 DEF IInv, TypeOK, DropMayDrop, Schema
  <1>6. ExecutedReads'
    BY DEF IInv, TypeOK, ExecutedReads
  <1>. QED BY <1>2, <1>3, <1>4, <1>5, <1>6 DEF IInv

\* A statement's effect is the one its call asked for.
LEMMA ExecuteKeeps ==
  ASSUME IInv, NEW w \in Workers, NEW e \in {"none", "create", "drop"},
         NEW x \in {"none", "yes", "no"}, Executes(w, e, x), Running(w),
         e # "none" => call[w].op = e,
         e = "drop" => (Schema(w) \in filled => call[w].cascade)
  PROVE  IInv'
  <1>. USE DEF Executes
  <1>1. TypeOK'
    BY DEF IInv, TypeOK, Results
  <1>2. RunsAccepted' /\ EffectAsked' /\ ExecutedReads'
    BY DEF IInv, TypeOK, RunsAccepted, EffectAsked, ExecutedReads, Running
  <1>3. DropMayDrop'
    BY DEF IInv, TypeOK, DropMayDrop, Schema
  <1>. QED BY <1>1, <1>2, <1>3 DEF IInv

LEMMA RaiseKeeps ==
  ASSUME IInv, NEW w \in Workers, NEW why \in Results, Raises(w, why)
  PROVE  IInv'
  <1>. USE DEF Raises
  <1>1. TypeOK'
    BY DEF IInv, TypeOK
  <1>2. RunsAccepted' /\ EffectAsked' /\ ExecutedReads'
    BY DEF IInv, TypeOK, RunsAccepted, EffectAsked, ExecutedReads, Running
  <1>3. DropMayDrop'
    BY DEF IInv, TypeOK, DropMayDrop, Schema
  <1>. QED BY <1>1, <1>2, <1>3 DEF IInv

\* A transaction that ends takes nothing from what others rely on: a schema
\* that is gone is not filled.
LEMMA EndKeeps ==
  ASSUME IInv, NEW w \in Workers, Running(w), NEW exists \in {existing, After(w)},
         NEW x \in Results, Ends(w, exists, x)
  PROVE  IInv'
  <1>. USE DEF Ends
  <1>1. exists \subseteq Schemas
    BY AfterIsSchemas DEF IInv, TypeOK
  <1>2. TypeOK'
    BY <1>1 DEF IInv, TypeOK
  <1>3. RunsAccepted' /\ EffectAsked' /\ ExecutedReads'
    BY DEF IInv, TypeOK, RunsAccepted, EffectAsked, ExecutedReads, Running
  <1>4. DropMayDrop'
    BY DEF IInv, TypeOK, DropMayDrop, Schema
  <1>. QED BY <1>2, <1>3, <1>4 DEF IInv

\* Objects are put only where no drop is on its way.
LEMMA FillKeeps ==
  ASSUME IInv, NEW s \in Schemas, Fill(s)
  PROVE  IInv'
  <1>. USE DEF Fill
  <1>1. TypeOK' /\ RunsAccepted' /\ EffectAsked' /\ ExecutedReads'
    BY DEF IInv, TypeOK, RunsAccepted, EffectAsked, ExecutedReads, Running
  <1>2. DropMayDrop'
    BY DEF IInv, DropMayDrop, Schema
  <1>. QED BY <1>1, <1>2 DEF IInv

LEMMA ProgressKeeps ==
  ASSUME IInv, NEW w \in Workers, Progress(w) \/ Lost(w)
  PROVE  IInv'
  <1>. USE DEF Asks, Running
  <1>1. CASE CreateFinds(w) \/ DropFindsNothing(w)
    BY <1>1, ExecuteKeeps DEF CreateFinds, DropFindsNothing
  <1>2. CASE CreateMakes(w)
    <2>1. Running(w) /\ call[w].op = "create" /\ Executes(w, "create", "none")
      BY <1>2 DEF CreateMakes, IInv, RunsAccepted
    <2>. QED BY <2>1, ExecuteKeeps
  <1>3. CASE CreateWaits(w)
    <2>1. TypeOK' /\ RunsAccepted' /\ EffectAsked' /\ ExecutedReads'
      BY <1>3 DEF CreateWaits, IInv, TypeOK, RunsAccepted, EffectAsked, ExecutedReads
    <2>2. DropMayDrop'
      BY <1>3 DEF CreateWaits, IInv, DropMayDrop, Schema
    <2>. QED BY <2>1, <2>2 DEF IInv
  <1>4. CASE CreateCollides(w) \/ DropRestricted(w)
    BY <1>4, RaiseKeeps DEF CreateCollides, DropRestricted, Results
  <1>5. CASE Check(w)
    BY <1>5, ExecuteKeeps DEF Check
  <1>6. CASE DropMakes(w)
    BY <1>6, ExecuteKeeps DEF DropMakes, DropReady
  <1>7. CASE Return(w)
    <2>1. Answer(w) \in Results
      BY DEF Answer, IInv, TypeOK, Results
    <2>. QED BY <1>7, <2>1, EndKeeps DEF Return
  <1>8. CASE Lost(w)
    BY <1>8, EndKeeps DEF Lost, Results
  <1>. QED BY <1>1, <1>2, <1>3, <1>4, <1>5, <1>6, <1>7, <1>8 DEF Progress

LEMMA IInvariant == Spec => []IInv
  <1>1. IInv /\ [Next]_vars => IInv'
    <2>. SUFFICES ASSUME IInv, [Next]_vars PROVE IInv'
      OBVIOUS
    <2>1. CASE UNCHANGED vars
      BY <2>1 DEF vars, IInv, TypeOK, RunsAccepted, EffectAsked, DropMayDrop,
                  ExecutedReads, Running, Schema
    <2>2. CASE Next
      BY <2>2, CallKeeps, ProgressKeeps, FillKeeps DEF Next
    <2>. QED BY <2>1, <2>2
  <1>. QED BY InitIInv, <1>1, PTL DEF Spec

\* Every variable keeps its type: only schemas of tenants exist, and only what
\* exists contains something.
THEOREM TypeCorrect == Spec => []TypeOK
  <1>1. IInv => TypeOK
    BY DEF IInv
  <1>. QED BY IInvariant, <1>1, PTL

-----------------------------------------------------------------------------
(* Only a commit removes, and only what was asked to be removed. *)

\* A tenant's objects are destroyed by a drop with cascade only.
THEOREM NothingDestroyedUnasked == Spec => DestroyedOnPurpose
  <1>. DEFINE OnPurpose(s) ==
         \E w \in Workers : /\ effect[w] = "drop" /\ effect'[w] = "none"
                            /\ call[w].cascade /\ Schema(w) = s
  <1>1. IInv /\ [Next]_vars =>
          [\A s \in filled : s \notin filled' => OnPurpose(s)]_vars
    <2>. SUFFICES ASSUME IInv, Next, NEW s \in filled, s \notin filled'
                  PROVE  OnPurpose(s)
      OBVIOUS
    <2>1. ASSUME NEW w \in Workers, NEW exists \in {existing, After(w)},
                 NEW x \in Results, Ends(w, exists, x)
          PROVE  OnPurpose(s)
      <3>1. s \in existing /\ s \notin exists
        BY <2>1 DEF Ends, IInv, TypeOK
      <3>2. effect[w] = "drop" /\ s = Schema(w)
        BY <2>1, <3>1 DEF After, IInv, TypeOK
      <3>3. call[w].cascade
        BY <3>2 DEF IInv, DropMayDrop
      <3>4. effect'[w] = "none"
        BY <2>1 DEF Ends, IInv, TypeOK
      <3>. QED BY <3>2, <3>3, <3>4
    <2>2. ASSUME NEW w \in Workers, Return(w) \/ Lost(w)
          PROVE  OnPurpose(s)
      <3>1. Answer(w) \in Results /\ "lost" \in Results
        BY DEF Answer, IInv, TypeOK, Results
      <3>. QED BY <2>1, <2>2, <3>1 DEF Return, Lost
    <2>3. ASSUME NEW w \in Workers, Progress(w), ~Return(w)
          PROVE  filled' = filled
      BY <2>3 DEF Progress, CreateFinds, CreateMakes, CreateWaits, CreateCollides,
                  Check, DropFindsNothing, DropRestricted, DropMakes, Executes, Raises
    <2>4. ASSUME NEW w \in Workers, NEW c \in Calls, Call(w, c) \/ CallRefused(w, c)
          PROVE  filled' = filled
      BY <2>4 DEF Call, CallRefused
    <2>5. ASSUME NEW t \in Schemas, Fill(t)
          PROVE  s \in filled'
      BY <2>5 DEF Fill
    <2>. QED BY <2>2, <2>3, <2>4, <2>5 DEF Next
  <1>. QED BY IInvariant, <1>1, PTL DEF Spec, DestroyedOnPurpose

-----------------------------------------------------------------------------
(* The implementation of TenantCatalog.  A call happens when its statement   *)
(* is executed if that changes nothing, and when it commits otherwise.       *)

\* How far w is, seen from the catalog.
LEMMA StageIs ==
  \A w \in Workers :
    Stage[w] = IF pc[w] \in {"idle", "returned"} THEN "idle"
               ELSE IF pc[w] = "executed" /\ effect[w] = "none" THEN "settled"
               ELSE "asked"
  BY DEF Stage

LEMMA AnsweredIs ==
  \A w \in Workers :
    Answered[w] =
      IF Stage[w] = "asked" THEN "none"
      ELSE IF Stage[w] = "settled" THEN Answer(w)
      ELSE IF result[w] \in {"none", "ok", "yes", "no"} THEN result[w] ELSE "error"
  BY DEF Answered

\* A step of w is a step of w's only, seen from the catalog.
LEMMA MapStep ==
  ASSUME NEW w \in Workers,
         \A v \in Workers : v # w =>
           /\ pc'[v] = pc[v] /\ effect'[v] = effect[v]
           /\ result'[v] = result[v] /\ call'[v] = call[v]
  PROVE  /\ Stage' = [Stage EXCEPT ![w] = Stage'[w]]
         /\ Answered' = [Answered EXCEPT ![w] = Answered'[w]]
         /\ Asked' = [Asked EXCEPT ![w] = Request(call'[w])]
  <1>1. \A v \in Workers : v # w => Stage'[v] = Stage[v]
    BY DEF Stage
  <1>2. \A v \in Workers : v # w => Answered'[v] = Answered[v]
    BY <1>1 DEF Answered, Answer
  <1>3. \A v \in Workers : v # w => Asked'[v] = Asked[v]
    BY DEF Asked
  <1>4. DOMAIN Stage = Workers /\ DOMAIN Stage' = Workers
        /\ Stage = [v \in Workers |-> Stage[v]] /\ Stage' = [v \in Workers |-> Stage'[v]]
    BY DEF Stage
  <1>5. Answered = [v \in Workers |-> Answered[v]]
        /\ Answered' = [v \in Workers |-> Answered'[v]]
    BY DEF Answered
  <1>6. Asked = [v \in Workers |-> Asked[v]] /\ Asked' = [v \in Workers |-> Asked'[v]]
        /\ Asked'[w] = Request(call'[w])
    BY DEF Asked
  <1>. QED BY <1>1, <1>2, <1>3, <1>4, <1>5, <1>6

LEMMA InitCatalog == Init => Catalog!Init
  <1>. SUFFICES ASSUME Init PROVE Catalog!Init
    OBVIOUS
  <1>1. Stage = [w \in Workers |-> "idle"]
    BY DEF Init, Stage
  <1>2. Answered = [w \in Workers |-> "none"]
    BY <1>1 DEF Init, Answered
  <1>3. Asked \in [Workers -> {Request(c) : c \in Calls}]
    BY DEF Init, Asked
  <1>. QED BY <1>1, <1>2, <1>3 DEF Init, Catalog!Init

\* A statement that changes nothing happens when it is executed.
LEMMA ExecuteHappens ==
  ASSUME IInv, NEW w \in Workers, pc[w] = "asked", NEW x \in {"none", "yes", "no"},
         Executes(w, "none", x)
  PROVE  /\ Catalog!Happens(w, IF call[w].op = "check" THEN x ELSE "ok")
         /\ existing' = existing /\ filled' = filled /\ Asked[w] = Request(call[w])
  <1>. DEFINE y == IF call[w].op = "check" THEN x ELSE "ok"
  <1>1. \A v \in Workers : v # w =>
          /\ pc'[v] = pc[v] /\ effect'[v] = effect[v]
          /\ result'[v] = result[v] /\ call'[v] = call[v]
    BY DEF Executes, IInv, TypeOK
  <1>2. pc'[w] = "executed" /\ effect'[w] = "none" /\ result'[w] = x /\ call' = call
    BY DEF Executes, IInv, TypeOK
  <1>3. Stage[w] = "asked" /\ Stage'[w] = "settled"
    BY <1>2, StageIs DEF Stage
  <1>4. Answered'[w] = y
    BY <1>2, <1>3 DEF Answered, Answer
  <1>5. Stage' = [Stage EXCEPT ![w] = "settled"] /\ Answered' = [Answered EXCEPT ![w] = y]
    BY <1>1, <1>3, <1>4, MapStep
  <1>6. Asked' = Asked /\ Asked[w] = Request(call[w])
    BY <1>2 DEF Asked
  <1>. QED BY <1>3, <1>5, <1>6 DEF Catalog!Happens, Executes

\* One that changes something has not happened yet.
LEMMA ExecuteHides ==
  ASSUME IInv, NEW w \in Workers, pc[w] \in {"asked", "waiting"},
         NEW e \in {"create", "drop"}, Executes(w, e, "none")
  PROVE  UNCHANGED Catalog!vars
  <1>1. \A v \in Workers : v # w =>
          /\ pc'[v] = pc[v] /\ effect'[v] = effect[v]
          /\ result'[v] = result[v] /\ call'[v] = call[v]
    BY DEF Executes, IInv, TypeOK
  <1>2. pc'[w] = "executed" /\ effect'[w] = e /\ call' = call
    BY DEF Executes, IInv, TypeOK
  <1>3. Stage[w] = "asked" /\ Stage'[w] = "asked"
    BY <1>2, StageIs DEF Stage
  <1>4. Answered[w] = "none" /\ Answered'[w] = "none"
    BY <1>3 DEF Answered
  <1>5. \A v \in Workers : Stage'[v] = Stage[v] /\ Answered'[v] = Answered[v]
    BY <1>1, <1>3, <1>4 DEF Stage, Answered, Answer
  <1>6. Stage' = Stage /\ Answered' = Answered /\ Asked' = Asked
    BY <1>2, <1>5 DEF Stage, Answered, Asked
  <1>. QED BY <1>6 DEF Catalog!vars, Executes

\* An error ends the call without an effect.
LEMMA RaiseFails ==
  ASSUME IInv, NEW w \in Workers, pc[w] \in {"asked", "waiting"},
         NEW why \in {"duplicate", "restrict"}, Raises(w, why)
  PROVE  Catalog!Fail(w)
  <1>1. \A v \in Workers : v # w =>
          /\ pc'[v] = pc[v] /\ effect'[v] = effect[v]
          /\ result'[v] = result[v] /\ call'[v] = call[v]
    BY DEF Raises, IInv, TypeOK
  <1>2. pc'[w] = "returned" /\ result'[w] = why /\ call' = call
    BY DEF Raises, IInv, TypeOK
  <1>3. Stage[w] = "asked" /\ Stage'[w] = "idle"
    BY <1>2, StageIs DEF Stage
  <1>4. Answered'[w] = "error"
    BY <1>2, <1>3 DEF Answered
  <1>5. Stage' = [Stage EXCEPT ![w] = "idle"] /\ Answered' = [Answered EXCEPT ![w] = "error"]
    BY <1>1, <1>3, <1>4, MapStep
  <1>6. Asked' = Asked
    BY <1>2 DEF Asked
  <1>. QED BY <1>3, <1>5, <1>6 DEF Catalog!Fail, Raises

\* The end of a transaction: with its effect or, when it is lost, without.
LEMMA EndMaps ==
  ASSUME IInv, NEW w \in Workers, Running(w), NEW exists \in {existing, After(w)},
         NEW x \in Results, Ends(w, exists, x)
  PROVE  /\ Stage[w] \in {"asked", "settled"}
         /\ Stage[w] = "asked" \/ (effect[w] = "none" /\ pc[w] = "executed")
         /\ Stage' = [Stage EXCEPT ![w] = "idle"] /\ Asked' = Asked
         /\ Answered' = [Answered EXCEPT ![w] =
               IF x \in {"none", "ok", "yes", "no"} THEN x ELSE "error"]
         /\ existing' = exists /\ filled' = filled \cap exists
         /\ Asked[w] = Request(call[w])
  <1>1. \A v \in Workers : v # w =>
          /\ pc'[v] = pc[v] /\ effect'[v] = effect[v]
          /\ result'[v] = result[v] /\ call'[v] = call[v]
    BY DEF Ends, IInv, TypeOK
  <1>2. /\ pc'[w] = "returned" /\ result'[w] = x /\ call' = call
        /\ existing' = exists /\ filled' = filled \cap exists
    BY DEF Ends, IInv, TypeOK
  <1>3. /\ Stage[w] \in {"asked", "settled"} /\ Stage'[w] = "idle"
        /\ Stage[w] = "asked" \/ (effect[w] = "none" /\ pc[w] = "executed")
    BY <1>2, StageIs DEF Stage, Running
  <1>4. Answered'[w] = IF x \in {"none", "ok", "yes", "no"} THEN x ELSE "error"
    BY <1>2, <1>3 DEF Answered
  <1>. QED BY <1>1, <1>2, <1>3, <1>4, MapStep DEF Asked

\* What the effect of a transaction is to the catalog.
LEMMA EffectIs ==
  ASSUME IInv, NEW w \in Workers, Running(w)
  PROVE  /\ effect[w] = "none" =>
              After(w) = existing /\ filled \cap After(w) = filled
         /\ effect[w] = "create" =>
              /\ call[w].op = "create" /\ After(w) = existing \cup {Schema(w)}
              /\ filled \cap After(w) = filled
         /\ effect[w] = "drop" =>
              /\ call[w].op = "drop" /\ After(w) = existing \ {Schema(w)}
              /\ filled \cap After(w) = filled \ {Schema(w)}
              /\ Schema(w) \in filled => call[w].cascade
  BY DEF IInv, TypeOK, EffectAsked, DropMayDrop, After

\* What is asked of the catalog is what w's call names.
LEMMA AskedIs ==
  ASSUME NEW w \in Workers
  PROVE  /\ Asked[w].op = call[w].op /\ Asked[w].schema = Schema(w)
         /\ Asked[w].cascade = call[w].cascade
  BY DEF Asked, Request, Schema

\* A transaction that commits replies what stood, or happens and replies.
LEMMA ReturnCommits ==
  ASSUME IInv, NEW w \in Workers, Return(w)
  PROVE  Catalog!Reply(w) \/ Catalog!Create(w) \/ Catalog!Drop(w)
  <1>1. Running(w) /\ pc[w] = "executed" /\ Ends(w, After(w), Answer(w))
    BY DEF Return, Running
  <1>2. Answer(w) \in {"none", "ok", "yes", "no"} /\ Answer(w) \in Results
    BY <1>1 DEF Answer, IInv, ExecutedReads, Results
  <1>3. /\ Stage' = [Stage EXCEPT ![w] = "idle"] /\ Asked' = Asked
        /\ Answered' = [Answered EXCEPT ![w] = Answer(w)]
        /\ existing' = After(w) /\ filled' = filled \cap After(w)
    BY <1>1, <1>2, EndMaps
  <1>4. CASE effect[w] = "none"
    <2>1. Stage[w] = "settled" /\ Answered[w] = Answer(w)
      BY <1>1, <1>4 DEF Stage, Answered
    <2>2. Answered = [Answered EXCEPT ![w] = Answered[w]]
      BY DEF Answered
    <2>3. Answered' = Answered
      BY <1>3, <2>1, <2>2
    <2>. QED BY <1>1, <1>3, <1>4, <2>1, <2>3, EffectIs DEF Catalog!Reply
  <1>5. CASE effect[w] # "none"
    <2>1. Stage[w] = "asked" /\ call[w].op = effect[w] /\ Answer(w) = "ok"
      BY <1>1, <1>5 DEF Stage, IInv, EffectAsked, TypeOK, Answer
    <2>2. Catalog!Happens(w, "ok")
      BY <1>3, <2>1 DEF Catalog!Happens
    <2>3. CASE effect[w] = "create"
      BY <1>1, <1>3, <2>1, <2>2, <2>3, EffectIs, AskedIs DEF Catalog!Create
    <2>4. CASE effect[w] = "drop"
      BY <1>1, <1>3, <2>1, <2>2, <2>4, EffectIs, AskedIs DEF Catalog!Drop, Catalog!Loses
    <2>. QED BY <1>5, <2>3, <2>4 DEF IInv, TypeOK
  <1>. QED BY <1>4, <1>5

\* One that is lost fails, and may have had its effect.
LEMMA LostFails ==
  ASSUME IInv, NEW w \in Workers, Lost(w)
  PROVE  Catalog!Fail(w)
  <1>1. PICK exists \in {existing, After(w)} : Running(w) /\ Ends(w, exists, "lost")
    BY DEF Lost, Running
  <1>2. /\ Stage[w] # "idle" /\ Stage' = [Stage EXCEPT ![w] = "idle"]
        /\ Stage[w] = "asked" \/ effect[w] = "none"
        /\ Asked' = Asked /\ Answered' = [Answered EXCEPT ![w] = "error"]
        /\ existing' = exists /\ filled' = filled \cap exists
    BY <1>1, EndMaps DEF Results
  <1>3. CASE exists = existing
    <2>1. existing' = existing /\ filled' = filled
      BY <1>2, <1>3 DEF IInv, TypeOK
    <2>. QED BY <1>2, <2>1 DEF Catalog!Fail
  <1>4. CASE exists = After(w) /\ effect[w] = "none"
    BY <1>1, <1>2, <1>4, EffectIs DEF Catalog!Fail
  <1>5. CASE exists = After(w) /\ effect[w] = "create"
    BY <1>1, <1>2, <1>5, EffectIs, AskedIs DEF Catalog!Fail
  <1>6. CASE exists = After(w) /\ effect[w] = "drop"
    BY <1>1, <1>2, <1>6, EffectIs, AskedIs DEF Catalog!Fail, Catalog!Loses
  <1>. QED BY <1>1, <1>3, <1>4, <1>5, <1>6 DEF IInv, TypeOK

LEMMA CallAsks ==
  ASSUME IInv, NEW w \in Workers, NEW c \in Calls, Call(w, c)
  PROVE  Catalog!Ask(w, Request(c))
  <1>1. \A v \in Workers : v # w =>
          /\ pc'[v] = pc[v] /\ effect'[v] = effect[v]
          /\ result'[v] = result[v] /\ call'[v] = call[v]
    BY DEF Call, IInv, TypeOK
  <1>2. pc'[w] = "asked" /\ call'[w] = c
    BY DEF Call, IInv, TypeOK
  <1>3. Stage[w] = "idle" /\ Stage'[w] = "asked"
    BY <1>2, StageIs DEF Stage, Call
  <1>4. Answered'[w] = "none"
    BY <1>3 DEF Answered
  <1>. QED BY <1>1, <1>2, <1>3, <1>4, MapStep DEF Catalog!Ask, Call

LEMMA CallRefusedRefuses ==
  ASSUME IInv, NEW w \in Workers, NEW c \in Calls, CallRefused(w, c)
  PROVE  Catalog!Refuse(w)
  <1>1. \A v \in Workers : v # w =>
          /\ pc'[v] = pc[v] /\ effect'[v] = effect[v]
          /\ result'[v] = result[v] /\ call'[v] = call[v]
    BY DEF CallRefused, IInv, TypeOK
  <1>2. pc'[w] = "returned" /\ result'[w] = "refused" /\ call' = call
    BY DEF CallRefused, IInv, TypeOK
  <1>3. Stage[w] = "idle" /\ Stage'[w] = "idle"
    BY <1>2, StageIs DEF Stage, CallRefused
  <1>4. Answered'[w] = "error"
    BY <1>2, <1>3 DEF Answered
  <1>5. Stage = [Stage EXCEPT ![w] = "idle"]
    BY <1>3 DEF Stage
  <1>6. Stage' = [Stage EXCEPT ![w] = "idle"] /\ Answered' = [Answered EXCEPT ![w] = "error"]
    BY <1>1, <1>3, <1>4, MapStep
  <1>7. Asked' = Asked
    BY <1>2 DEF Asked
  <1>. QED BY <1>3, <1>5, <1>6, <1>7 DEF Catalog!Refuse, CallRefused

LEMMA ProgressMaps ==
  ASSUME IInv, NEW w \in Workers, Progress(w)
  PROVE  \/ Catalog!Create(w) \/ Catalog!Check(w) \/ Catalog!Drop(w)
         \/ Catalog!Reply(w) \/ Catalog!Fail(w) \/ UNCHANGED Catalog!vars
  <1>1. CASE CreateFinds(w)
    <2>1. /\ pc[w] = "asked" /\ call[w].op = "create" /\ Schema(w) \in existing
          /\ Executes(w, "none", "none")
      BY <1>1 DEF CreateFinds, Asks
    <2>. QED BY <2>1, ExecuteHappens, AskedIs DEF Catalog!Create
  <1>2. CASE Check(w)
    <2>1. /\ pc[w] = "asked" /\ call[w].op = "check"
          /\ Executes(w, "none", IF Schema(w) \in existing THEN "yes" ELSE "no")
      BY <1>2 DEF Check, Asks
    <2>. QED BY <2>1, ExecuteHappens, AskedIs DEF Catalog!Check
  <1>3. CASE DropFindsNothing(w)
    <2>1. /\ pc[w] = "asked" /\ call[w].op = "drop" /\ Schema(w) \notin existing
          /\ Executes(w, "none", "none")
      BY <1>3 DEF DropFindsNothing, Asks
    <2>2. Schema(w) \notin filled
      BY <2>1 DEF IInv, TypeOK
    <2>. QED BY <2>1, <2>2, ExecuteHappens, AskedIs DEF Catalog!Drop, Catalog!Loses
  <1>4. CASE CreateMakes(w)
    BY <1>4, ExecuteHides DEF CreateMakes, Asks
  <1>5. CASE DropMakes(w)
    BY <1>5, ExecuteHides DEF DropMakes, DropReady, Asks
  <1>6. CASE CreateCollides(w) \/ DropRestricted(w)
    BY <1>6, RaiseFails DEF CreateCollides, DropRestricted, DropReady, Asks
  <1>7. CASE CreateWaits(w)
    <2>1. /\ pc[w] = "asked" /\ pc' = [pc EXCEPT ![w] = "waiting"]
          /\ UNCHANGED <<existing, filled, call, effect, result>>
      BY <1>7 DEF CreateWaits, Asks
    <2>2. \A v \in Workers : Stage'[v] = Stage[v]
      BY <2>1 DEF Stage, IInv, TypeOK
    <2>3. Stage' = Stage
      BY <2>2 DEF Stage
    <2>4. Answered' = Answered /\ Asked' = Asked
      BY <2>1, <2>3 DEF Answered, Answer, Asked
    <2>. QED BY <2>1, <2>3, <2>4 DEF Catalog!vars
  <1>8. CASE Return(w)
    BY <1>8, ReturnCommits
  <1>. QED BY <1>1, <1>2, <1>3, <1>4, <1>5, <1>6, <1>7, <1>8 DEF Progress

LEMMA StepCatalog == IInv /\ [Next]_vars => [Catalog!Next]_(Catalog!vars)
  <1>. SUFFICES ASSUME IInv, [Next]_vars
                PROVE  [Catalog!Next]_(Catalog!vars)
    OBVIOUS
  <1>1. ASSUME NEW w \in Workers, NEW c \in Calls, Call(w, c)
        PROVE  Catalog!Next
    BY <1>1, CallAsks DEF Catalog!Next
  <1>2. ASSUME NEW w \in Workers, NEW c \in Calls, CallRefused(w, c)
        PROVE  Catalog!Next
    BY <1>2, CallRefusedRefuses DEF Catalog!Next
  <1>3. ASSUME NEW w \in Workers, Progress(w)
        PROVE  [Catalog!Next]_(Catalog!vars)
    BY <1>3, ProgressMaps DEF Catalog!Next
  <1>4. ASSUME NEW w \in Workers, Lost(w)
        PROVE  Catalog!Next
    BY <1>4, LostFails DEF Catalog!Next
  <1>5. ASSUME NEW s \in Schemas, Fill(s)
        PROVE  Catalog!Next
    <2>1. UNCHANGED <<Stage, Asked, Answered>>
      BY <1>5 DEF Fill, Stage, Asked, Answered, Answer
    <2>. QED BY <1>5, <2>1 DEF Fill, Catalog!Fill, Catalog!Next
  <1>6. CASE UNCHANGED vars
    BY <1>6 DEF vars, Catalog!vars, Stage, Asked, Answered, Answer
  <1>. QED BY <1>1, <1>2, <1>3, <1>4, <1>5, <1>6 DEF Next

\* Every call looks as if it had happened at one moment: the transactions
\* implement the atomic catalog.
THEOREM ImplementsCatalog == Spec => CatalogSpec
  BY InitCatalog, StepCatalog, IInvariant, PTL DEF Spec, CatalogSpec, Catalog!Spec
=============================================================================
