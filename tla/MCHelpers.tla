----------------------------- MODULE MCHelpers -----------------------------
(***************************************************************************)
(* The parts of the system that call nobody, each on its own inputs:       *)
(* TenantNaming on every pair of short strings, typed one character at a   *)
(* time, and longer ones alone; Masking on every heap of three objects and *)
(* every form of the sensitive_keys argument; Departments on every tree of *)
(* a few ids; DataRules on every rule over a few texts; OrmInstance on     *)
(* every life of an instance.  A behaviour is about one, its subject.      *)
(***************************************************************************)
EXTENDS TenantNaming, Masking, Departments, DataRules, OrmInstance, TLC

CONSTANTS
  Subjects,  \* the parts to look at
  MaxTyped   \* bound: the characters of a pair; x alone gets one more than a
             \* name has

VARIABLE subject

vars == <<subject, prefix, x, y, masking, parent, ancestors, rules, orm>>

-----------------------------------------------------------------------------
(* Inputs. *)

OneCapital == [c \in Capitals |-> "a"]
\* Without a prefix, an ordinary one, and two no name of the pattern has.
SomePrefixes == {<<>>, <<"a", "_">>, <<"1">>, <<"a", "A">>}

ThreeNodes == 1..3
OneOrTwo == {{}, {"first"}, {"first", "second"}}
TokenGiven == {{"token"}, {"Token"}}
TokenOnly == [k \in Keys \cup LowKeys |-> IF k = "Token" THEN "token" ELSE k]

\* 1, 2, 11, 12, 21, 112: ids whose digits overlap.
SixDepts == {<<1>>, <<2>>, <<1, 1>>, <<1, 2>>, <<2, 1>>, <<1, 1, 2>>}

SomeParts ==
  ("" :> <<"">>) @@ (" " :> <<" ">>) @@ ("," :> <<"", "">>) @@
  ("1" :> <<"1">>) @@ (" 1" :> <<" 1">>) @@ ("2" :> <<"2">>) @@
  ("2, 1" :> <<"2", " 1">>) @@ ("1,,2," :> <<"1", "", "2", "">>) @@
  ("yes" :> <<"yes">>) @@ ("1,yes" :> <<"1", "yes">>) @@ ("%" :> <<"%">>)
SomeTexts == DOMAIN SomeParts
SomeStripped == [t \in SomeTexts |-> CASE t = " " -> "" [] t = " 1" -> "1" [] OTHER -> t]
OneTwo == ("1" :> 1) @@ ("2" :> 2)
SomePosition ==
  ("" :> 0) @@ (" " :> 1) @@ (" 1" :> 2) @@ ("%" :> 3) @@ ("," :> 4) @@ ("1" :> 5) @@
  ("1,,2," :> 6) @@ ("1,yes" :> 7) @@ ("2" :> 8) @@ ("2, 1" :> 9) @@ ("yes" :> 10)
SomeLike == [t \in SomeTexts |-> IF t = "%" THEN 0..10 ELSE {SomePosition[t]}]

-----------------------------------------------------------------------------
(* The subjects. *)

\* A part that is not the subject has the first of its initial states.
Init ==
  /\ subject \in Subjects
  /\ prefix \in Prefixes /\ (subject # "naming" => prefix = <<>>)
  /\ x = <<>> /\ y = <<>>
  /\ MaskInit /\ (subject # "masking" => keys.form = "default")
  /\ DeptInit
  /\ RuleInit /\ (subject = "rules" <=> rules # {})
  /\ OrmInit

TypeX(c) ==
  /\ Len(x) < MaxTyped \/ (y = <<>> /\ Len(x) <= MaxName)
  /\ x' = Append(x, c) /\ y' = y
TypeY(c) ==
  /\ Len(x) <= MaxTyped /\ Len(y) < MaxTyped
  /\ y' = Append(y, c) /\ x' = x

NamingNext ==
  /\ subject = "naming"
  /\ \E c \in Chars : TypeX(c) \/ TypeY(c)
  /\ UNCHANGED <<subject, prefix, masking, parent, ancestors, rules, orm>>

MaskingNext ==
  /\ subject = "masking" /\ MaskNext
  /\ UNCHANGED <<subject, prefix, x, y, parent, ancestors, rules, orm>>

DepartmentsNext ==
  /\ subject = "departments" /\ DeptNext
  /\ UNCHANGED <<subject, prefix, x, y, masking, rules, orm>>

InstanceNext ==
  /\ subject = "orm" /\ OrmNext
  /\ UNCHANGED <<subject, prefix, x, y, masking, parent, ancestors, rules>>

Next ==
  NamingNext \/ MaskingNext \/ DepartmentsNext \/ InstanceNext

Spec == Init /\ [][Next]_vars

=============================================================================
