--------------------------- MODULE UpdateJobProofs ---------------------------
(***************************************************************************)
(* Proofs about UpdateJob for every set of resources and every way they    *)
(* lead to each other, and any number of runs and faults.                  *)
(***************************************************************************)
EXTENDS UpdateJob, FiniteSetTheorems, TLAPS

(* ----- What walk() does to its stack. *)

LEMMA HeadAndTail ==
  ASSUME NEW S, NEW s \in Seq(S), s # <<>>
  PROVE  Head(s) \in S /\ Tail(s) \in Seq(S)
OBVIOUS

LEMMA RangeOfPop ==
  ASSUME NEW S, NEW s \in Seq(S), s # <<>>
  PROVE  RangeOf(s) = {Head(s)} \cup RangeOf(Tail(s))
<1>1. Len(Tail(s)) = Len(s) - 1 /\ Len(s) >= 1 /\ Head(s) = s[1]
  OBVIOUS
<1>2. \A n \in 1..Len(Tail(s)) : Tail(s)[n] = s[n + 1]
  OBVIOUS
<1>3. ASSUME NEW n \in 1..Len(s) PROVE s[n] \in {Head(s)} \cup RangeOf(Tail(s))
  <2>1. CASE n = 1
    BY <1>1, <2>1
  <2>2. CASE n # 1
    <3>1. n - 1 \in 1..Len(Tail(s)) /\ Tail(s)[n - 1] = s[n]
      BY <1>1, <1>2, <2>2
    <3> QED  BY <3>1 DEF RangeOf
  <2> QED  BY <2>1, <2>2
<1>4. Head(s) \in RangeOf(s)
  BY <1>1 DEF RangeOf
<1>5. ASSUME NEW n \in 1..Len(Tail(s)) PROVE Tail(s)[n] \in RangeOf(s)
  <2>1. n + 1 \in 1..Len(s) /\ Tail(s)[n] = s[n + 1]
    BY <1>1, <1>2
  <2> QED  BY <2>1 DEF RangeOf
<1> QED  BY <1>3, <1>4, <1>5 DEF RangeOf

LEMMA RangeOfConcat ==
  ASSUME NEW S, NEW s \in Seq(S), NEW t \in Seq(S)
  PROVE  RangeOf(s \o t) = RangeOf(s) \cup RangeOf(t)
<1>1. Len(s \o t) = Len(s) + Len(t) /\ Len(s) \in Nat /\ Len(t) \in Nat
  OBVIOUS
<1>2. ASSUME NEW n \in 1..Len(s) PROVE s[n] \in RangeOf(s \o t)
  <2>1. n \in 1..Len(s \o t) /\ (s \o t)[n] = s[n]
    BY <1>1
  <2> QED  BY <2>1 DEF RangeOf
<1>3. ASSUME NEW n \in 1..Len(t) PROVE t[n] \in RangeOf(s \o t)
  <2>1. Len(s) + n \in 1..Len(s \o t) /\ (s \o t)[Len(s) + n] = t[n]
    BY <1>1
  <2> QED  BY <2>1 DEF RangeOf
<1>4. ASSUME NEW n \in 1..Len(s \o t) PROVE (s \o t)[n] \in RangeOf(s) \cup RangeOf(t)
  <2>1. CASE n <= Len(s)
    <3>1. n \in 1..Len(s) /\ (s \o t)[n] = s[n]
      BY <1>1, <2>1
    <3> QED  BY <3>1 DEF RangeOf
  <2>2. CASE n > Len(s)
    <3>1. n - Len(s) \in 1..Len(t) /\ (s \o t)[n] = t[n - Len(s)]
      BY <1>1, <2>2
    <3> QED  BY <3>1 DEF RangeOf
  <2> QED  BY <1>1, <2>1, <2>2
<1> QED  BY <1>2, <1>3, <1>4 DEF RangeOf

(* Visiting a resource and going on below it covers it and its children. *)
LEMMA Descended ==
  ASSUME TypeOK, stack # <<>>, Descend
  PROVE  /\ Here \in Resources /\ stack' \in Seq(Resources)
         /\ RangeOf(stack) \subseteq {Here} \cup RangeOf(stack')
         /\ RangeOf(Children[Here]) \subseteq RangeOf(stack')
<1>1. stack \in Seq(Resources)
  BY DEF TypeOK
<1>2. Here \in Resources /\ Tail(stack) \in Seq(Resources)
  BY <1>1, HeadAndTail DEF Here
<1>3. Children[Here] \in Seq(Resources)
  BY <1>2, UpdateAssumption
<1>4. stack' \in Seq(Resources) /\ stack' = Children[Here] \o Tail(stack)
  BY <1>2, <1>3 DEF Descend
<1>5. RangeOf(stack) = {Here} \cup RangeOf(Tail(stack))
  BY <1>1, RangeOfPop DEF Here
<1> DEFINE children == Children[Here]
           rest == Tail(stack)
<1> HIDE DEF children, rest
<1>6. RangeOf(stack') = RangeOf(children) \cup RangeOf(rest)
  <2>1. children \in Seq(Resources) /\ rest \in Seq(Resources) /\ stack' = children \o rest
    BY <1>2, <1>3, <1>4 DEF children, rest
  <2> QED BY <2>1, RangeOfConcat
<1> QED  BY <1>2, <1>4, <1>5, <1>6 DEF children, rest

-----------------------------------------------------------------------------
(* Every step keeps the types. *)
LEMMA TypeStep == TypeOK /\ [Next]_vars => TypeOK'
<1> SUFFICES ASSUME TypeOK, [Next]_vars PROVE TypeOK'
  OBVIOUS
<1> USE DEF Nothing
<1>0. MaxRuns \in Nat /\ MaxFaults \in Nat /\ Uris \subseteq Resources
  BY UpdateAssumption
<1> USE <1>0
<1>1. CASE Start
  <2>1. runs' \in 0..MaxRuns
    BY <1>1 DEF Start, TypeOK
  <2>2. stack' \in Seq(Resources) /\ left' \subseteq Uris
    BY <1>1 DEF Start
  <2> QED  BY <1>1, <2>1, <2>2 DEF Start, TypeOK
<1>2. CASE Enter
  BY <1>2 DEF Enter, Fault, Abort, TypeOK
<1>3. CASE NotFound
  <2>1. Here \in Resources /\ Tail(stack) \in Seq(Resources)
    BY <1>3 DEF NotFound, TypeOK, Here
  <2> QED  BY <1>3, <2>1 DEF NotFound, Fault, TypeOK
<1>4. CASE Pass
  BY <1>4, Descended DEF Pass, TypeOK
<1>5. CASE Visit
  <2>1. Here \in Resources
    BY <1>5 DEF Visit, TypeOK, Here
  <2> QED  BY <1>5, <2>1 DEF Visit, TypeOK
<1>6. CASE ReadFails
  BY <1>6 DEF ReadFails, Fault, Abort, walk, TypeOK
<1>7. CASE Patch
  <2>1. Here \in Resources /\ stack # <<>>
    BY <1>7 DEF Patch, TypeOK, Here
  <2>2. Once(applied) \in [Resources -> Nat] /\ Once(pending) \in [Resources -> Nat]
    BY <2>1 DEF Once, TypeOK
  <2>3. UNCHANGED <<opts, completed, left, seen, skipped, runs>>
    BY <1>7 DEF Patch
  <2>4. CASE /\ pc' = "log" /\ UNCHANGED <<stack, bad, outcome, faults>>
             /\ applied' \in {applied, Once(applied)} /\ pending' \in {pending, Once(pending)}
    BY <2>1, <2>2, <2>3, <2>4 DEF TypeOK
  <2>5. CASE /\ pc' = "walk" /\ Fault /\ bad' = TRUE /\ Descend
             /\ UNCHANGED <<applied, pending, outcome>>
    BY <2>1, <2>3, <2>5, Descended DEF Fault, TypeOK
  <2>6. CASE /\ Fault /\ Abort /\ UNCHANGED <<stack, bad>>
             /\ applied' \in {applied, Once(applied)}
    <3>1. applied' \in [Resources -> Nat]
      BY <2>2, <2>6 DEF TypeOK
    <3>2. /\ faults' \in 0..MaxFaults /\ pc' = "idle" /\ outcome' = "aborted"
          /\ UNCHANGED <<stack, bad>> /\ pending' = Nothing
      BY <2>6 DEF Fault, Abort, TypeOK
    <3> QED BY <2>3, <3>1, <3>2 DEF Nothing, TypeOK
  <2> QED  BY <1>7, <2>4, <2>5, <2>6 DEF Patch
<1>8. CASE Record
  <2>1. Here \in Resources /\ stack' \in Seq(Resources)
    BY <1>8, Descended DEF Record, TypeOK
  <2> QED  BY <1>8, <2>1 DEF Record, TypeOK
<1>9. CASE Leave
  <2>1. applied' \in [Resources -> Nat] /\ pending' \in [Resources -> Nat]
    BY <1>9 DEF Leave, CommitPending, Abort, TypeOK
  <2> QED  BY <1>9, <2>1 DEF Leave, Fault, Abort, walk, TypeOK
<1>10. CASE Finish
  BY <1>10 DEF Finish, walk, TypeOK
<1>11. CASE Crash
  BY <1>11 DEF Crash, Fault, Abort, walk, TypeOK
<1>12. CASE UNCHANGED vars
  BY <1>12 DEF vars, walk, TypeOK
<1> QED
  BY <1>1, <1>2, <1>3, <1>4, <1>5, <1>6, <1>7, <1>8, <1>9, <1>10, <1>11, <1>12
  DEF Next, Step

-----------------------------------------------------------------------------
(* What a step does to the counts: sent to the transaction or the          *)
(* repository, moved from one to the other, or lost with a fault.          *)

LEMMA PatchCases ==
  ASSUME TypeOK, Patch
  PROVE  /\ pc = "patch" /\ Here \in Resources
         /\ UNCHANGED <<opts, completed, left, seen, skipped>>
         /\ \/ /\ pc' = "log" /\ UNCHANGED <<stack, bad, outcome, faults>>
               /\ \/ opts.tx /\ pending' = Once(pending) /\ applied' = applied
                  \/ ~opts.tx /\ applied' = Once(applied) /\ pending' = pending
            \/ /\ pc' = "walk" /\ faults' = faults + 1 /\ bad' = TRUE /\ Descend
               /\ UNCHANGED <<applied, pending, outcome>>
            \/ /\ pc' = "idle" /\ outcome' = "aborted" /\ pending' = Nothing
               /\ faults' = faults + 1 /\ UNCHANGED <<stack, bad>>
               /\ \/ applied' = applied
                  \/ ~opts.tx /\ applied' = Once(applied)
<1>1. Here \in Resources /\ pc = "patch"
  BY DEF Patch, TypeOK, Here
<1> QED  BY <1>1 DEF Patch, Fault, Abort

LEMMA PatchCounts ==
  ASSUME TypeOK, PendingOnlyInside, Patch
  PROVE  \A r \in Resources :
           LET before == applied[r] + pending[r]
               after == applied'[r] + pending'[r] IN
           /\ r # Here => after <= before
           /\ r = Here => after <= before + 1
           /\ pc' = "walk" => after = before
           /\ pc' = "log" => after >= before /\ (r = Here => after = before + 1)
           /\ ~opts.tx => after >= before
<1>1. applied \in [Resources -> Nat] /\ pending \in [Resources -> Nat] /\ Here \in Resources
  BY PatchCases DEF TypeOK
<1>2. SUFFICES ASSUME NEW r \in Resources
      PROVE  LET before == applied[r] + pending[r]
                 after == applied'[r] + pending'[r] IN
             /\ r # Here => after <= before
             /\ r = Here => after <= before + 1
             /\ pc' = "walk" => after = before
             /\ pc' = "log" => after >= before /\ (r = Here => after = before + 1)
             /\ ~opts.tx => after >= before
  OBVIOUS
<1>3. /\ applied[r] \in Nat /\ pending[r] \in Nat
      /\ Once(applied)[r] = IF r = Here THEN applied[r] + 1 ELSE applied[r]
      /\ Once(pending)[r] = IF r = Here THEN pending[r] + 1 ELSE pending[r]
  BY <1>1 DEF Once
<1>4. ~opts.tx => pending[r] = 0
  BY DEF PendingOnlyInside, InTransaction
<1>5. CASE pc' = "log"
  <2>1. \/ pending' = Once(pending) /\ applied' = applied
        \/ applied' = Once(applied) /\ pending' = pending
    BY <1>5, PatchCases
  <2> QED  BY <1>3, <1>5, <2>1
<1>6. CASE pc' = "walk"
  <2>1. applied' = applied /\ pending' = pending
    BY <1>6, PatchCases
  <2> QED  BY <1>3, <1>6, <2>1
<1>7. CASE pc' = "idle"
  <2>1. pending' = Nothing /\ (applied' = applied \/ (~opts.tx /\ applied' = Once(applied)))
    BY <1>7, PatchCases
  <2>2. pending'[r] = 0
    BY <2>1 DEF Nothing
  <2> QED  BY <1>3, <1>4, <1>7, <2>1, <2>2
<1> QED  BY <1>5, <1>6, <1>7, PatchCases

LEMMA LeaveCases ==
  ASSUME TypeOK, Leave
  PROVE  /\ pc = "walk" /\ stack = <<>> /\ UNCHANGED <<opts, completed, walk, bad>>
         /\ \/ /\ pc' = "next" /\ UNCHANGED <<outcome, faults>>
               /\ IF InTransaction
                  THEN /\ \A r \in Resources : applied'[r] = applied[r] + pending[r]
                       /\ \A r \in Resources : pending'[r] = 0
                  ELSE UNCHANGED <<applied, pending>>
            \/ /\ pc' = "idle" /\ outcome' = "aborted" /\ faults' = faults + 1 /\ InTransaction
               /\ \A r \in Resources : pending'[r] = 0
               /\ \/ applied' = applied
                  \/ \A r \in Resources : applied'[r] = applied[r] + pending[r]
BY DEF Leave, CommitPending, Abort, Fault, Nothing, TypeOK

LEMMA NextCases ==
  ASSUME TypeOK, [Next]_vars
  PROVE  \/ Start \/ Enter \/ NotFound \/ Pass \/ Visit \/ ReadFails \/ Patch \/ Record
         \/ Leave \/ Finish \/ Crash \/ UNCHANGED vars
BY DEF Next, Step

LEMMA PendingStep == TypeOK /\ PendingOnlyInside /\ [Next]_vars => PendingOnlyInside'
<1> SUFFICES ASSUME TypeOK, PendingOnlyInside, [Next]_vars PROVE PendingOnlyInside'
  OBVIOUS
<1> USE DEF PendingOnlyInside, InTransaction, Nothing
<1>1. CASE Start
  BY <1>1 DEF Start
<1>2. CASE Enter
  BY <1>2 DEF Enter, Abort
<1>3. CASE NotFound
  BY <1>3 DEF NotFound
<1>4. CASE Pass
  BY <1>4 DEF Pass
<1>5. CASE Visit
  BY <1>5 DEF Visit
<1>6. CASE ReadFails \/ Crash
  BY <1>6 DEF ReadFails, Crash, Abort
<1>7. CASE Patch
  BY <1>7, PatchCases
<1>8. CASE Record
  BY <1>8 DEF Record
<1>9. CASE Leave
  BY <1>9, LeaveCases
<1>10. CASE Finish
  BY <1>10 DEF Finish
<1>11. CASE UNCHANGED vars
  BY <1>11 DEF vars
<1> QED
  BY <1>1, <1>2, <1>3, <1>4, <1>5, <1>6, <1>7, <1>8, <1>9, <1>10, <1>11, NextCases

-----------------------------------------------------------------------------
(* What is below a URI, and what a lost transaction can take with it. *)

LEMMA BelowItself == ASSUME NEW u \in Uris PROVE u \in Below[u]
BY UpdateAssumption DEF Below

LEMMA BelowGoesOn ==
  ASSUME NEW u \in Uris, NEW r \in Below[u]
  PROVE  r \in Resources /\ RangeOf(Children[r]) \subseteq Below[u]
<1>1. Below[u] = {q \in Resources :
        \A S \in SUBSET Resources :
          u \in S /\ (\A p \in S : RangeOf(Children[p]) \subseteq S) => q \in S}
  BY DEF Below
<1>2. r \in Resources /\ Children[r] \in Seq(Resources)
  BY <1>1, UpdateAssumption
<1>3. RangeOf(Children[r]) \subseteq Resources
  BY <1>2 DEF RangeOf
<1>4. ASSUME NEW q \in RangeOf(Children[r]), NEW S \in SUBSET Resources,
             u \in S, \A p \in S : RangeOf(Children[p]) \subseteq S
      PROVE  q \in S
  BY <1>1, <1>4
<1> QED  BY <1>1, <1>2, <1>3, <1>4

(* A step that takes no update back leaves the log as true as it was. *)
LEMMA LogKept ==
  ASSUME TypeOK, LogIsTrueUnlessLost, opts' = opts, faults' \in {faults, faults + 1},
         NEW D, \A r \in D : Sent(r)', completed' \subseteq completed \cup D,
         \A r \in completed : Sent(r) => Sent(r)'
  PROVE  LogIsTrueUnlessLost'
<1>1. PICK L \in LostUris :
        \A r \in completed : Sent(r) \/ (opts.tx /\ \E u \in L : r \in Below[u])
  BY DEF LogIsTrueUnlessLost
<1>2. L \in SUBSET Uris /\ IsFiniteSet(L) /\ Cardinality(L) \in Nat /\ Cardinality(L) <= faults
  BY FS_CardinalityType DEF LostUris
<1>3. faults \in Nat
  BY UpdateAssumption DEF TypeOK
<1>4. L \in LostUris'
  BY <1>2, <1>3 DEF LostUris
<1>5. \A r \in completed' : Sent(r)' \/ (opts'.tx /\ \E u \in L : r \in Below[u])
  BY <1>1
<1> QED  BY <1>4, <1>5 DEF LogIsTrueUnlessLost

(* A fault that takes back updates below one URI adds that URI. *)
LEMMA LogLosesOne ==
  ASSUME TypeOK, LogIsTrueUnlessLost, opts' = opts, opts.tx, faults' = faults + 1,
         completed' = completed, NEW u \in Uris,
         \A r \in completed : Sent(r) => Sent(r)' \/ r \in Below[u]
  PROVE  LogIsTrueUnlessLost'
<1>1. PICK L \in LostUris :
        \A r \in completed : Sent(r) \/ (opts.tx /\ \E q \in L : r \in Below[q])
  BY DEF LogIsTrueUnlessLost
<1>2. L \in SUBSET Uris /\ IsFiniteSet(L) /\ Cardinality(L) \in Nat /\ Cardinality(L) <= faults
  BY FS_CardinalityType DEF LostUris
<1>3. faults \in Nat
  BY UpdateAssumption DEF TypeOK
<1>4. IsFiniteSet(L \cup {u}) /\ Cardinality(L \cup {u}) <= Cardinality(L) + 1
  <2>1. IsFiniteSet(L \cup {u})
        /\ Cardinality(L \cup {u}) = IF u \in L THEN Cardinality(L) ELSE Cardinality(L) + 1
    BY <1>2, FS_AddElement
  <2> QED  BY <1>2, <2>1
<1>5. L \cup {u} \in LostUris'
  <2>1. Cardinality(L \cup {u}) \in Nat
    BY <1>4, FS_CardinalityType
  <2>2. Cardinality(L \cup {u}) <= faults'
    BY <1>2, <1>3, <1>4, <2>1
  <2> QED  BY <1>2, <1>4, <2>2 DEF LostUris
<1>6. \A r \in completed' :
        Sent(r)' \/ (opts'.tx /\ \E q \in L \cup {u} : r \in Below[q])
  BY <1>1
<1> QED  BY <1>5, <1>6 DEF LogIsTrueUnlessLost

(* When a run is left, what was pending is gone: nothing of the log that   *)
(* was not below the URI in hand becomes untrue.                           *)
LEMMA LogAfterAbort ==
  ASSUME TypeOK, PendingOnlyInside, OneUri, LogIsTrueUnlessLost,
         opts' = opts, completed' = completed, faults' = faults + 1,
         \A r \in Resources : applied'[r] \in Nat /\ applied'[r] >= applied[r],
         \A r \in Resources : pending'[r] = 0
  PROVE  LogIsTrueUnlessLost'
<1>0. /\ completed \subseteq Resources
      /\ \A r \in Resources : applied[r] \in Nat /\ pending[r] \in Nat
  BY DEF TypeOK
<1>1. CASE \A r \in Resources : pending[r] = 0
  <2>1. \A r \in completed : Sent(r) => Sent(r)'
    BY <1>0, <1>1 DEF Sent
  <2> DEFINE D == {}
  <2>2. \A r \in D : Sent(r)'
    OBVIOUS
  <2> HIDE DEF D
  <2>3. completed' \subseteq completed \cup D /\ faults' \in {faults, faults + 1}
    OBVIOUS
  <2> QED  BY <2>1, <2>2, <2>3, LogKept
<1>2. CASE ~ \A r \in Resources : pending[r] = 0
  <2>1. pc \notin {"idle", "next"} /\ opts.tx
    BY <1>2 DEF PendingOnlyInside, InTransaction
  <2>2. PICK u \in Uris : \A r \in Resources : pending[r] > 0 => r \in Below[u]
    BY <2>1 DEF OneUri
  <2>3. \A r \in completed : Sent(r) => Sent(r)' \/ r \in Below[u]
    BY <1>0, <2>2 DEF Sent
  <2> QED  BY <2>1, <2>3, LogLosesOne
<1> QED  BY <1>1, <1>2

LEMMA OneUriStep ==
  TypeOK /\ PendingOnlyInside /\ OneUri /\ [Next]_vars => OneUri'
<1> SUFFICES ASSUME TypeOK, PendingOnlyInside, OneUri, [Next]_vars,
                    pc' \notin {"idle", "next"}
             PROVE  OneUri'
  BY DEF OneUri
<1>a. /\ \A r \in Resources : pending[r] \in Nat
      /\ stack \in Seq(Resources)
  BY DEF TypeOK
<1>b. ASSUME pc \notin {"idle", "next"}, stack # <<>>, Descend,
             pending' = pending
      PROVE  OneUri'
  <2>1. PICK u \in Uris : /\ RangeOf(stack) \subseteq Below[u]
                          /\ \A r \in Resources : pending[r] > 0 => r \in Below[u]
    BY <1>b DEF OneUri
  <2>2. RangeOf(stack') \subseteq RangeOf(Children[Here]) \cup RangeOf(stack)
    <3>1. /\ Here \in Resources /\ Tail(stack) \in Seq(Resources)
          /\ stack' = Children[Here] \o Tail(stack)
      BY <1>a, <1>b, HeadAndTail DEF Here, Descend
    <3>2. Children[Here] \in Seq(Resources)
      BY <3>1, UpdateAssumption
    <3> DEFINE children == Children[Here]
               rest == Tail(stack)
    <3> HIDE DEF children, rest
    <3>3. RangeOf(stack') = RangeOf(children) \cup RangeOf(rest)
      <4>1. children \in Seq(Resources) /\ rest \in Seq(Resources)
            /\ stack' = children \o rest
        BY <3>1, <3>2 DEF children, rest
      <4> QED  BY <4>1, RangeOfConcat
    <3>4. RangeOf(rest) \subseteq RangeOf(stack)
      BY <1>a, <1>b, RangeOfPop DEF rest
    <3> QED  BY <3>3, <3>4 DEF children
  <2>3. Here \in Below[u]
    BY <1>a, <1>b, <2>1, RangeOfPop DEF Here
  <2>4. RangeOf(stack') \subseteq Below[u]
    BY <2>1, <2>2, <2>3, BelowGoesOn
  <2> QED  BY <1>b, <2>1, <2>4 DEF OneUri
<1>c. ASSUME pc \notin {"idle", "next"}, stack' = stack, pending' = pending
      PROVE  OneUri'
  BY <1>c DEF OneUri
<1>1. CASE Start \/ ReadFails \/ Leave \/ Finish \/ Crash
  BY <1>1, LeaveCases DEF Start, ReadFails, Finish, Crash, Abort
<1>2. CASE Enter
  <2>1. PICK u \in left : stack' = <<u>>
    BY <1>2 DEF Enter
  <2>2. u \in Uris /\ RangeOf(stack') = {u}
    BY <2>1 DEF TypeOK, RangeOf
  <2>3. \A r \in Resources : pending'[r] = 0
    BY <1>2 DEF Enter, Abort, PendingOnlyInside
  <2> QED  BY <2>2, <2>3, BelowItself DEF OneUri
<1>3. CASE NotFound
  <2>1. PICK u \in Uris : /\ RangeOf(stack) \subseteq Below[u]
                          /\ \A r \in Resources : pending[r] > 0 => r \in Below[u]
    BY <1>3 DEF NotFound, OneUri
  <2>2. RangeOf(stack') \subseteq RangeOf(stack) /\ pending' = pending
    BY <1>a, <1>3, RangeOfPop DEF NotFound
  <2> QED  BY <2>1, <2>2 DEF OneUri
<1>4. CASE Pass
  BY <1>4, <1>b DEF Pass
<1>5. CASE Visit
  BY <1>5, <1>c DEF Visit
<1>6. CASE Patch
  <2>1. CASE pc' = "log"
    <3>1. pc = "patch" /\ stack # <<>> /\ stack' = stack /\ Here \in Resources
          /\ pending' \in {pending, Once(pending)}
      BY <1>6, <2>1, PatchCases DEF TypeOK
    <3>2. PICK u \in Uris : /\ RangeOf(stack) \subseteq Below[u]
                            /\ \A r \in Resources : pending[r] > 0 => r \in Below[u]
      BY <3>1 DEF OneUri
    <3>3. Here \in Below[u]
      BY <1>a, <3>1, <3>2, RangeOfPop DEF Here
    <3>4. \A r \in Resources : pending'[r] > 0 => r \in Below[u]
      <4>1. \A r \in Resources : r # Here => pending'[r] = pending[r]
        BY <3>1 DEF Once, TypeOK
      <4> QED  BY <3>2, <3>3, <4>1
    <3> QED  BY <3>1, <3>2, <3>4 DEF OneUri
  <2>2. CASE pc' = "walk"
    BY <1>6, <1>b, <2>2, PatchCases DEF TypeOK
  <2> QED  BY <1>6, <2>1, <2>2, PatchCases
<1>7. CASE Record
  BY <1>7, <1>b DEF Record, TypeOK
<1>8. CASE UNCHANGED vars
  BY <1>8, <1>c DEF vars, walk
<1> QED
  BY <1>1, <1>2, <1>3, <1>4, <1>5, <1>6, <1>7, <1>8, NextCases

LEMMA SentStep ==
  TypeOK /\ PendingOnlyInside /\ OneUri /\ SentBeforeLogged /\ [Next]_vars => SentBeforeLogged'
<1> SUFFICES ASSUME TypeOK, PendingOnlyInside, OneUri, SentBeforeLogged, [Next]_vars
             PROVE  LogIsTrueUnlessLost' /\ (pc' = "log" => Sent(Here)')
  BY DEF SentBeforeLogged
<1>0. /\ faults \in Nat /\ completed \subseteq Resources
      /\ \A r \in Resources : applied[r] \in Nat /\ pending[r] \in Nat
      /\ LogIsTrueUnlessLost
  BY UpdateAssumption DEF TypeOK, SentBeforeLogged
<1>k. ASSUME opts' = opts, faults' \in {faults, faults + 1}, completed' = completed,
             \A r \in Resources : applied[r] + pending[r] > 0 => applied'[r] + pending'[r] > 0
      PROVE  LogIsTrueUnlessLost'
  <2>1. \A r \in completed : Sent(r) => Sent(r)'
    BY <1>0, <1>k DEF Sent
  <2> DEFINE D == {}
  <2>2. \A r \in D : Sent(r)'
    OBVIOUS
  <2> HIDE DEF D
  <2>3. completed' \subseteq completed \cup D
    BY <1>k
  <2> QED  BY <1>0, <1>k, <2>1, <2>2, <2>3, LogKept
<1>a. ASSUME opts' = opts, faults' = faults + 1, completed' = completed, Abort,
             applied' = applied
      PROVE  LogIsTrueUnlessLost'
  <2>1. /\ \A r \in Resources : pending'[r] = 0
        /\ \A r \in Resources : applied'[r] \in Nat /\ applied'[r] >= applied[r]
    BY <1>0, <1>a DEF Abort, Nothing
  <2> QED  BY <1>0, <1>a, <2>1, LogAfterAbort
<1>1. CASE Start
  BY <1>1, <1>k DEF Start
<1>2. CASE Enter
  <2>1. CASE UNCHANGED pending
    BY <1>2, <1>k, <2>1 DEF Enter, Abort, Fault
  <2>2. CASE Fault /\ Abort
    BY <1>2, <1>a, <2>2 DEF Enter, Abort, Fault
  <2> QED  BY <1>2, <2>1, <2>2 DEF Enter, Abort
<1>3. CASE NotFound
  BY <1>3, <1>k DEF NotFound, Fault
<1>4. CASE Pass
  BY <1>4, <1>k DEF Pass
<1>5. CASE Visit
  BY <1>5, <1>k DEF Visit
<1>6. CASE ReadFails \/ Crash
  BY <1>6, <1>a DEF ReadFails, Crash, Abort, Fault
<1>7. CASE Patch
  <2>1. Here' = Here \/ pc' # "log"
    BY <1>7, PatchCases DEF Here
  <2>2. /\ completed' = completed /\ opts' = opts /\ Here \in Resources
        /\ pc' \in {"log", "walk", "idle"}
        /\ faults' \in {faults, faults + 1} /\ (pc' = "idle" => faults' = faults + 1)
    BY <1>7, PatchCases
  <2>3. \A r \in Resources : applied'[r] \in Nat /\ pending'[r] \in Nat
    <3>1. TypeOK'
      BY TypeStep
    <3>2. applied' \in [Resources -> Nat] /\ pending' \in [Resources -> Nat]
      BY <3>1 DEF TypeOK
    <3> QED  BY <3>2
  <2>4. CASE pc' \in {"log", "walk"}
    <3>1. \A r \in Resources : applied'[r] + pending'[r] >= applied[r] + pending[r]
      <4> SUFFICES ASSUME NEW r \in Resources
                   PROVE  applied'[r] + pending'[r] >= applied[r] + pending[r]
        OBVIOUS
      <4>1. pc' = "walk" => applied'[r] + pending'[r] = applied[r] + pending[r]
        BY <1>7, PatchCounts
      <4>2. pc' = "log" => applied'[r] + pending'[r] >= applied[r] + pending[r]
        BY <1>7, PatchCounts
      <4> QED  BY <1>0, <2>3, <2>4, <4>1, <4>2
    <3>2. LogIsTrueUnlessLost'
      BY <1>0, <1>k, <2>2, <2>3, <3>1
    <3>3. pc' = "log" => applied'[Here] + pending'[Here] = applied[Here] + pending[Here] + 1
      BY <1>7, <2>2, PatchCounts
    <3>4. pc' = "log" => applied'[Here] + pending'[Here] > 0
      BY <1>0, <2>2, <3>3
    <3> QED  BY <2>1, <3>2, <3>4 DEF Sent
  <2>5. CASE pc' = "idle"
    <3>1. /\ pending' = Nothing
          /\ applied' = applied \/ (~opts.tx /\ applied' = Once(applied))
      BY <1>7, <2>5, PatchCases
    <3>2. \A r \in Resources : pending'[r] = 0
      BY <3>1 DEF Nothing
    <3>3. \A r \in Resources :
            Once(applied)[r] = IF r = Here THEN applied[r] + 1 ELSE applied[r]
      BY DEF Once, TypeOK
    <3>4. \A r \in Resources : applied'[r] \in Nat /\ applied'[r] >= applied[r]
      BY <1>0, <2>3, <3>1, <3>3
    <3>5. LogIsTrueUnlessLost'
      BY <1>0, <2>2, <2>5, <3>2, <3>4, LogAfterAbort
    <3> QED  BY <2>5, <3>5
  <2> QED  BY <2>2, <2>4, <2>5
<1>8. CASE Record
  <2>1. /\ opts' = opts /\ faults' = faults /\ pc' = "walk" /\ Sent(Here)
        /\ applied' = applied /\ pending' = pending
        /\ completed' \subseteq completed \cup {Here}
    BY <1>8 DEF Record, SentBeforeLogged
  <2> DEFINE D == {Here}
  <2>2. \A r \in D : Sent(r)'
    BY <2>1 DEF Sent
  <2>3. \A r \in completed : Sent(r) => Sent(r)'
    BY <2>1 DEF Sent
  <2> HIDE DEF D
  <2>4. completed' \subseteq completed \cup D
    BY <2>1 DEF D
  <2> QED  BY <1>0, <2>1, <2>2, <2>3, <2>4, LogKept
<1>9. CASE Leave
  <2>1. completed' = completed /\ opts' = opts /\ pc' # "log"
    BY <1>9, LeaveCases
  <2>2. CASE pc' = "next"
    <3>1. faults' = faults
      BY <1>9, <2>2, LeaveCases
    <3>2. \A r \in Resources : applied'[r] + pending'[r] = applied[r] + pending[r]
      <4>1. CASE InTransaction
        BY <1>0, <1>9, <2>2, <4>1, LeaveCases
      <4>2. CASE ~InTransaction
        BY <1>9, <2>2, <4>2, LeaveCases
      <4> QED  BY <4>1, <4>2
    <3> QED  BY <1>k, <2>1, <3>1, <3>2
  <2>3. CASE pc' = "idle"
    <3>1. /\ faults' = faults + 1 /\ \A r \in Resources : pending'[r] = 0
          /\ \/ applied' = applied
             \/ \A r \in Resources : applied'[r] = applied[r] + pending[r]
      BY <1>9, <2>3, LeaveCases
    <3>2. \A r \in Resources : applied'[r] \in Nat /\ applied'[r] >= applied[r]
      BY <1>0, <3>1
    <3> QED  BY <1>0, <2>1, <3>1, <3>2, LogAfterAbort
  <2> QED  BY <1>9, <2>1, <2>2, <2>3, LeaveCases
<1>10. CASE Finish
  BY <1>10, <1>k DEF Finish
<1>11. CASE UNCHANGED vars
  BY <1>11, <1>k DEF vars, walk, Here, Sent, SentBeforeLogged
<1> QED
  BY <1>1, <1>2, <1>3, <1>4, <1>5, <1>6, <1>7, <1>8, <1>9, <1>10, <1>11, NextCases

LEMMA PaidStep ==
  TypeOK /\ PendingOnlyInside /\ UpdatesPaid /\ [Next]_vars => UpdatesPaid'
<1> SUFFICES ASSUME TypeOK, PendingOnlyInside, UpdatesPaid, [Next]_vars, opts'.log
             PROVE  UpdatesPaid'
  BY DEF UpdatesPaid
<1>0. /\ faults \in Nat /\ completed \subseteq Resources
      /\ \A r \in Resources : applied[r] \in Nat /\ pending[r] \in Nat
  BY UpdateAssumption DEF TypeOK
<1> USE <1>0 DEF UpdatesPaid
<1>1. CASE Start
  BY <1>1 DEF Start
<1>2. CASE Enter
  BY <1>2 DEF Enter, Abort, Fault, Nothing
<1>3. CASE NotFound
  BY <1>3 DEF NotFound, Fault
<1>4. CASE Pass
  BY <1>4 DEF Pass
<1>5. CASE Visit
  BY <1>5 DEF Visit, Logged, Here
<1>6. CASE ReadFails \/ Crash
  BY <1>6 DEF ReadFails, Crash, Abort, Fault, Nothing
<1>7. CASE Patch
  <2>1. Here' = Here \/ pc' # "log"
    BY <1>7, PatchCases DEF Here
  <2>2. \A r \in Resources : applied'[r] + pending'[r] \in Nat
    <3>1. TypeOK'
      BY TypeStep
    <3>2. applied' \in [Resources -> Nat] /\ pending' \in [Resources -> Nat]
      BY <3>1 DEF TypeOK
    <3>3. \A r \in Resources : applied'[r] \in Nat /\ pending'[r] \in Nat
      BY <3>2
    <3> QED  BY <3>3
  <2>3. /\ UNCHANGED <<opts, completed>> /\ pc = "patch" /\ Here \in Resources
        /\ pc' \in {"log", "walk", "idle"} /\ faults' \in {faults, faults + 1}
        /\ pc' # "log" => faults' = faults + 1
    BY <1>7, PatchCases
  <2>4. ASSUME NEW r \in Resources, r # Here
        PROVE  /\ applied'[r] + pending'[r] <= 1 + faults'
               /\ r \notin completed => applied'[r] + pending'[r] <= faults'
    <3>1. applied[r] + pending[r] <= 1 + faults
          /\ (r \notin completed => applied[r] + pending[r] <= faults)
      BY <2>3
    <3>2. applied'[r] + pending'[r] <= applied[r] + pending[r]
      BY <1>7, <2>4, PatchCounts
    <3> QED  BY <2>2, <2>3, <3>1, <3>2
  <2>5. applied[Here] + pending[Here] <= faults
    BY <2>3
  <2>6. /\ applied'[Here] + pending'[Here] <= 1 + faults'
        /\ pc' # "log" => applied'[Here] + pending'[Here] <= faults'
    <3>1. applied'[Here] + pending'[Here] <= applied[Here] + pending[Here] + 1
      BY <1>7, <2>3, PatchCounts
    <3> QED  BY <2>2, <2>3, <2>5, <3>1
  <2> QED  BY <2>1, <2>3, <2>4, <2>6
<1>8. CASE Record
  BY <1>8 DEF Record
<1>9. CASE Leave
  <2>1. ASSUME NEW r \in Resources
        PROVE  applied'[r] + pending'[r] <= applied[r] + pending[r]
    BY <1>9, LeaveCases
  <2>2. completed' = completed /\ opts' = opts /\ pc = "walk" /\ pc' \in {"next", "idle"}
        /\ faults' \in {faults, faults + 1}
    BY <1>9, LeaveCases
  <2>3. \A r \in Resources : applied'[r] + pending'[r] \in Int
    BY TypeStep DEF TypeOK
  <2> QED  BY <2>1, <2>2, <2>3
<1>10. CASE Finish
  BY <1>10 DEF Finish
<1>11. CASE UNCHANGED vars
  BY <1>11 DEF vars, walk, Here
<1> QED
  BY <1>1, <1>2, <1>3, <1>4, <1>5, <1>6, <1>7, <1>8, <1>9, <1>10, <1>11, NextCases

LEMMA ShapeStep == TypeOK /\ RunShape /\ [Next]_vars => RunShape'
<1> SUFFICES ASSUME TypeOK, RunShape, [Next]_vars PROVE RunShape'
  OBVIOUS
<1> USE DEF RunShape
<1>1. CASE Start
  BY <1>1 DEF Start
<1>2. CASE Enter
  BY <1>2 DEF Enter, Abort
<1>3. CASE NotFound
  BY <1>3 DEF NotFound
<1>4. CASE Pass
  BY <1>4 DEF Pass
<1>5. CASE Visit
  BY <1>5 DEF Visit, Here
<1>6. CASE ReadFails \/ Crash
  BY <1>6 DEF ReadFails, Crash, Abort, walk
<1>7. CASE Patch
  BY <1>7, PatchCases DEF Here
<1>8. CASE Record
  BY <1>8 DEF Record
<1>9. CASE Leave
  BY <1>9, LeaveCases DEF walk
<1>10. CASE Finish
  BY <1>10 DEF Finish, walk
<1>11. CASE UNCHANGED vars
  BY <1>11 DEF vars, walk, Here
<1> QED
  BY <1>1, <1>2, <1>3, <1>4, <1>5, <1>6, <1>7, <1>8, <1>9, <1>10, <1>11, NextCases

(* The three parts of WalkCovers. *)
Owed == Uris \subseteq seen \cup left \cup RangeOf(stack)
ChildrenCovered ==
  \A r \in seen \ skipped : RangeOf(Children[r]) \subseteq seen \cup RangeOf(stack) \/ InHand(r)
AllSettled == ~bad /\ ~opts.dry => \A r \in seen \ skipped : Settled(r) \/ InHand(r)

(* A visited resource leaves the stack and its children come onto it. *)
LEMMA DescendCovers ==
  ASSUME TypeOK, Owed, ChildrenCovered, stack # <<>>, Descend,
         seen' = seen \cup {Here}, UNCHANGED <<left, skipped>>, pc' = "walk"
  PROVE  Owed' /\ ChildrenCovered'
<1>1. Owed'
  BY Descended DEF Owed
<1>2. ASSUME NEW r \in seen' \ skipped'
      PROVE  RangeOf(Children[r]) \subseteq seen' \cup RangeOf(stack')
  <2>1. CASE r = Here
    BY <2>1, Descended
  <2>2. CASE r # Here
    <3>1. RangeOf(Children[r]) \subseteq seen \cup RangeOf(stack)
      BY <1>2, <2>2 DEF ChildrenCovered, InHand
    <3> QED  BY <3>1, Descended
  <2> QED  BY <2>1, <2>2
<1> QED  BY <1>1, <1>2 DEF ChildrenCovered

LEMMA CoverStep ==
  UpdateInv /\ [Next]_vars => WalkCovers'
<1> SUFFICES ASSUME UpdateInv, [Next]_vars, outcome' \in {"running", "update_complete"}
             PROVE  Owed' /\ ChildrenCovered' /\ AllSettled'
  BY DEF WalkCovers, Owed, ChildrenCovered, AllSettled
<1>0. /\ TypeOK /\ PendingOnlyInside /\ SentBeforeLogged /\ RunShape
      /\ outcome \in {"running", "update_complete"} => Owed /\ ChildrenCovered /\ AllSettled
  BY DEF UpdateInv, WalkCovers, Owed, ChildrenCovered, AllSettled
<1> USE <1>0
<1>1. CASE Start
  BY <1>1 DEF Start, Owed, ChildrenCovered, AllSettled
<1>2. CASE Enter
  <2>1. PICK u \in left : left' = left \ {u} /\ stack' = <<u>>
    BY <1>2 DEF Enter
  <2>2. RangeOf(stack') = {u} /\ RangeOf(stack) = {}
    BY <1>2, <2>1 DEF Enter, RunShape, RangeOf
  <2>3. /\ pc = "next" /\ pc' = "walk" /\ outcome = "running"
        /\ UNCHANGED <<opts, applied, pending, completed, seen, skipped, bad>>
    BY <1>2 DEF Enter, Abort, RunShape
  <2> QED  BY <2>1, <2>2, <2>3 DEF Owed, ChildrenCovered, AllSettled, InHand, Settled, Sent
<1>3. CASE NotFound
  <2>1. RangeOf(stack) = {Here} \cup RangeOf(stack')
    BY <1>3, RangeOfPop DEF NotFound, TypeOK, Here
  <2>2. /\ pc = "walk" /\ pc' = "walk" /\ outcome = "running"
        /\ seen' = seen \cup {Here} /\ skipped' = skipped \cup {Here}
        /\ UNCHANGED <<opts, applied, pending, completed, left, bad>>
    BY <1>3 DEF NotFound, RunShape
  <2> QED  BY <2>1, <2>2 DEF Owed, ChildrenCovered, AllSettled, InHand, Settled, Sent
<1>4. CASE Pass
  <2>1. /\ pc = "walk" /\ pc' = "walk" /\ outcome = "running" /\ stack # <<>> /\ Descend
        /\ seen' = seen \cup {Here}
        /\ UNCHANGED <<opts, applied, pending, completed, left, skipped>>
    BY <1>4 DEF Pass, RunShape
  <2>2. Owed' /\ ChildrenCovered'
    BY <2>1, DescendCovers
  <2>3. ~bad' /\ ~opts'.dry => ~bad /\ ~opts.dry /\ opts.log /\ Here \in completed
    BY <1>4 DEF Pass, Logged
  <2>4. opts.log /\ Here \in completed => Settled(Here)
    <3>1. Here \in completed => Sent(Here) \/ opts.tx
      BY <1>0 DEF SentBeforeLogged, LogIsTrueUnlessLost
    <3> QED  BY <3>1 DEF Settled
  <2>5. ~bad' /\ ~opts'.dry => \A r \in seen' \ skipped' : Settled(r)
    BY <2>1, <2>3, <2>4 DEF AllSettled, InHand
  <2>6. AllSettled'
    BY <2>1, <2>5 DEF AllSettled, Settled, Sent
  <2> QED  BY <2>2, <2>6
<1>5. CASE Visit
  <2>1. /\ pc = "walk" /\ pc' = "patch" /\ outcome = "running"
        /\ seen' = seen \cup {Here} /\ Here' = Here
        /\ UNCHANGED <<opts, applied, pending, completed, left, stack, skipped, bad>>
    BY <1>5 DEF Visit, RunShape, Here
  <2> QED  BY <2>1 DEF Owed, ChildrenCovered, AllSettled, InHand, Settled, Sent
<1>6. CASE ReadFails \/ Crash
  BY <1>6 DEF ReadFails, Crash, Abort
<1>7. CASE Patch
  <2>1. pc = "patch" /\ outcome = "running" /\ UNCHANGED <<opts, completed, left, seen, skipped>>
    BY <1>7, PatchCases DEF RunShape
  <2>2. CASE pc' = "log"
    <3>1. UNCHANGED <<stack, bad>> /\ Here' = Here
      BY <1>7, <2>2, PatchCases DEF Here
    <3>2. Owed' /\ ChildrenCovered'
      BY <2>1, <2>2, <3>1 DEF Owed, ChildrenCovered, InHand
    <3>3. ASSUME NEW r \in Resources, Sent(r) PROVE Sent(r)'
      <4>1. applied'[r] + pending'[r] >= applied[r] + pending[r]
        BY <1>7, <2>2, PatchCounts
      <4>2. applied \in [Resources -> Nat] /\ pending \in [Resources -> Nat]
            /\ applied' \in [Resources -> Nat] /\ pending' \in [Resources -> Nat]
        BY TypeStep DEF TypeOK
      <4>3. applied[r] \in Nat /\ pending[r] \in Nat /\ applied'[r] \in Nat /\ pending'[r] \in Nat
        BY <4>2
      <4> QED  BY <3>3, <4>1, <4>3 DEF Sent
    <3>4. seen \subseteq Resources
      BY DEF TypeOK
    <3>5. \A r \in seen : Settled(r) => Settled(r)'
      BY <2>1, <3>3, <3>4 DEF Settled
    <3>6. \A r : InHand(r) <=> InHand(r)'
      BY <2>1, <2>2, <3>1 DEF InHand
    <3>7. AllSettled'
      BY <2>1, <3>1, <3>5, <3>6 DEF AllSettled
    <3> QED  BY <3>2, <3>7
  <2>3. CASE pc' = "walk"
    <3>1. Descend /\ bad' = TRUE /\ stack # <<>>
      BY <1>7, <2>1, <2>3, PatchCases DEF TypeOK
    <3>2. ASSUME NEW r \in seen \ skipped
          PROVE  RangeOf(Children[r]) \subseteq seen \cup RangeOf(stack')
      <4>1. RangeOf(Children[r]) \subseteq seen \cup RangeOf(stack) \/ r = Here
        BY <2>1, <3>2 DEF ChildrenCovered, InHand
      <4>2. /\ RangeOf(stack) \subseteq {Here} \cup RangeOf(stack')
            /\ RangeOf(Children[Here]) \subseteq RangeOf(stack')
        BY <3>1, Descended
      <4>3. Here \in seen
        BY <2>1 DEF RunShape
      <4> QED  BY <4>1, <4>2, <4>3
    <3>3. Owed'
      BY <2>1, <3>1, Descended DEF Owed, RunShape
    <3> QED  BY <2>1, <3>1, <3>2, <3>3 DEF ChildrenCovered, AllSettled
  <2>4. CASE pc' = "idle"
    BY <1>7, <2>1, <2>4, PatchCases
  <2> QED  BY <1>7, <2>2, <2>3, <2>4, PatchCases
<1>8. CASE Record
  <2>1. /\ pc = "log" /\ pc' = "walk" /\ outcome = "running" /\ Descend /\ stack # <<>>
        /\ Here \in seen /\ completed \subseteq completed' /\ (opts.log => Here \in completed')
        /\ UNCHANGED <<opts, applied, pending, left, seen, skipped, bad>>
    BY <1>8 DEF Record, RunShape, TypeOK
  <2>2. seen' = seen \cup {Here}
    BY <2>1
  <2>3. Owed' /\ ChildrenCovered'
    BY <2>1, <2>2, DescendCovers
  <2>4. Sent(Here)
    BY <2>1 DEF SentBeforeLogged
  <2>5. ~bad /\ ~opts.dry => \A r \in seen \ skipped : Settled(r)
    BY <2>1, <2>4 DEF AllSettled, InHand, Settled
  <2>6. AllSettled'
    BY <2>1, <2>5 DEF AllSettled, Settled, Sent
  <2> QED  BY <2>3, <2>6
<1>9. CASE Leave
  <2>1. /\ pc = "walk" /\ pc' = "next" /\ outcome = "running"
        /\ UNCHANGED <<opts, completed, left, stack, seen, skipped, bad>>
    BY <1>9, LeaveCases DEF walk, RunShape
  <2>2. ASSUME NEW r \in Resources, Sent(r) PROVE Sent(r)'
    <3>1. applied[r] \in Nat /\ pending[r] \in Nat
      BY DEF TypeOK
    <3>2. applied'[r] + pending'[r] = applied[r] + pending[r]
      BY <1>9, <2>1, <3>1, LeaveCases
    <3> QED  BY <2>2, <3>2 DEF Sent
  <2>3. seen \subseteq Resources
    BY DEF TypeOK
  <2>4. Owed' /\ ChildrenCovered'
    BY <2>1 DEF Owed, ChildrenCovered, InHand
  <2>5. \A r \in seen : Settled(r) => Settled(r)'
    BY <2>1, <2>2, <2>3 DEF Settled
  <2>6. AllSettled'
    BY <2>1, <2>5 DEF AllSettled, InHand
  <2> QED  BY <2>4, <2>6
<1>10. CASE Finish
  BY <1>10 DEF Finish, walk, RunShape, Owed, ChildrenCovered, AllSettled, InHand, Settled, Sent
<1>11. CASE UNCHANGED vars
  BY <1>11 DEF vars, walk, Here, Owed, ChildrenCovered, AllSettled, InHand, Settled, Sent
<1> QED
  BY <1>1, <1>2, <1>3, <1>4, <1>5, <1>6, <1>7, <1>8, <1>9, <1>10, <1>11, NextCases

(* The invariant holds in every reachable state. *)
THEOREM UpdateCorrect == Spec => []UpdateInv
<1>1. Init => UpdateInv
  <2> SUFFICES ASSUME Init PROVE UpdateInv
    OBVIOUS
  <2>1. TypeOK
    <3>1. applied \in [Resources -> Nat] /\ pending \in [Resources -> Nat]
      BY DEF Init, Nothing
    <3>2. stack \in Seq(Resources)
      BY DEF Init
    <3>3. runs \in 0..MaxRuns /\ faults \in 0..MaxFaults
      BY UpdateAssumption DEF Init
    <3> QED  BY <3>1, <3>2, <3>3 DEF Init, TypeOK
  <2>2. \A r \in Resources : applied[r] = 0 /\ pending[r] = 0
    BY DEF Init, Nothing
  <2>3. PendingOnlyInside /\ OneUri
    BY <2>2 DEF Init, PendingOnlyInside, OneUri
  <2>6. SentBeforeLogged
    <3>1. {} \in LostUris
      BY FS_EmptySet DEF Init, LostUris
    <3> QED  BY <3>1 DEF Init, SentBeforeLogged, LogIsTrueUnlessLost
  <2>4. UpdatesPaid
    BY <2>2 DEF Init, UpdatesPaid
  <2>5. WalkCovers /\ RunShape
    BY DEF Init, WalkCovers, RunShape
  <2> QED  BY <2>1, <2>3, <2>4, <2>5, <2>6 DEF UpdateInv
<1>2. UpdateInv /\ [Next]_vars => UpdateInv'
  BY TypeStep, PendingStep, OneUriStep, SentStep, PaidStep, CoverStep, ShapeStep DEF UpdateInv
<1> QED  BY <1>1, <1>2, PTL DEF Spec

(* All state variables keep their types; no PATCH is sent without a        *)
(* resource in hand.                                                       *)
THEOREM UpdateTypes == Spec => []TypeOK
<1>1. UpdateInv => TypeOK
  BY DEF UpdateInv
<1> QED  BY <1>1, UpdateCorrect, PTL

(* Whatever the log lists has been updated or is in the transaction that   *)
(* is still open, but for what is below the URIs whose transactions were   *)
(* lost: at most one for each fault, and none without transactions.        *)
THEOREM LogTrue == Spec => []LogIsTrueUnlessLost
<1>1. UpdateInv => LogIsTrueUnlessLost
  BY DEF UpdateInv, SentBeforeLogged
<1> QED  BY <1>1, UpdateCorrect, PTL

(* With a log an update is applied to a resource at most once more than    *)
(* there were faults, over all URIs and all runs of the command.           *)
THEOREM UpdatesNeedFaults == Spec => []AppliedOnce
<1>1. UpdateInv => AppliedOnce
  BY DEF UpdateInv, UpdatesPaid, AppliedOnce
<1> QED  BY <1>1, UpdateCorrect, PTL

(* A run that reports update_complete has walked everything below its URIs *)
(* that was found, and all of that is updated or believed from the log.    *)
THEOREM UpdateCompleteIsComplete == Spec => []CompleteMeansUpdated
<1>1. ASSUME UpdateInv PROVE CompleteMeansUpdated
  <2> SUFFICES ASSUME outcome = "update_complete", ~opts.dry
      PROVE /\ Uris \subseteq seen
            /\ \A r \in seen \ skipped :
                 /\ RangeOf(Children[r]) \subseteq seen
                 /\ r \in Updated \/ (opts.log /\ opts.tx /\ r \in completed)
    BY DEF CompleteMeansUpdated
  <2>1. pc = "idle" /\ left = {} /\ stack = <<>> /\ ~bad
    BY <1>1 DEF UpdateInv, RunShape, TypeOK
  <2>2. RangeOf(stack) = {}
    BY <2>1 DEF RangeOf
  <2>3. Owed /\ ChildrenCovered /\ AllSettled
    BY <1>1 DEF UpdateInv, WalkCovers, Owed, ChildrenCovered, AllSettled
  <2>4. \A r \in Resources : Sent(r) => r \in Updated
    BY <1>1, <2>1 DEF UpdateInv, PendingOnlyInside, Sent, Updated, TypeOK
  <2>5. seen \subseteq Resources
    BY <1>1 DEF UpdateInv, TypeOK
  <2> QED  BY <2>1, <2>2, <2>3, <2>4, <2>5
           DEF Owed, ChildrenCovered, AllSettled, InHand, Settled
<1> QED  BY <1>1, UpdateCorrect, PTL

(* The log and the number of updates agree up to the faults, for every     *)
(* tree of resources and every number of runs.                             *)
THEOREM LogAndUpdatesAgree == Spec => []LogMatchesUpdates
<1>1. LogIsTrueUnlessLost /\ AppliedOnce => LogMatchesUpdates
  BY DEF LogMatchesUpdates
<1> QED  BY <1>1, LogTrue, UpdatesNeedFaults, PTL
=============================================================================
