---------------------------- MODULE ImportJobProofs ----------------------------
(***************************************************************************)
(* Proofs about ImportJob for all CSV files and options, and any number of *)
(* runs, crashes and lost answers.                                         *)
(***************************************************************************)
EXTENDS ImportJob, FiniteSetTheorems, TLAPS

(* The item of the current row is one of the identifiers.                  *)
LEMMA ItemIsId ==
  ASSUME TypeOK, pc \in OnRow
  PROVE  source \in Seq(Ids) /\ Item \in Ids
<1>1. source \in Files /\ row \in 1..Len(source)
  BY ImportAssumption DEF TypeOK, RowOK, OnRow
<1> QED  BY <1>1, ImportAssumption DEF Item

(* Whatever the percentage, only items of the file are selected.           *)
LEMMA SelectedIds ==
  ASSUME source \in Seq(Ids), NEW p PROVE Selected(p) \subseteq Ids
<1>1. \A k \in 1..Total : source[k] \in Ids
  BY DEF Total
<1> QED  BY <1>1 DEF Selected, Listed, Strided, Remaining

(* Every step keeps the types: a run only works on rows of the file.       *)
LEMMA TypeStep == TypeOK /\ [Next]_vars => TypeOK'
<1> SUFFICES ASSUME TypeOK, [Next]_vars PROVE TypeOK'
  OBVIOUS
<1> USE DEF TypeOK, job, repo, drops, run
<1>1. ASSUME NEW o \in Options, NEW f \in Files \cup {Empty}, NewJob(o, f) PROVE TypeOK'
  <2>1. JobOK'  BY <1>1 DEF NewJob, Begin, JobOK
  <2>2. RepoOK'  BY <1>1 DEF NewJob, Begin, RepoOK
  <2>3. RunOK'  BY <1>1, ImportAssumption DEF NewJob, Begin, RunOK, RowOK, Outcomes
  <2>4. RowOK'  BY <1>1 DEF NewJob, Begin, RowOK, Stages, OnRow
  <2> QED  BY <2>1, <2>2, <2>3, <2>4
<1>2. ASSUME NEW o \in Options, NEW f \in Files \cup {Empty}, Resume(o, f) PROVE TypeOK'
  <2>1. JobOK'  BY <1>2 DEF Resume, Begin, JobOK
  <2>2. RepoOK'  BY <1>2 DEF Resume, Begin, RepoOK
  <2>3. RunOK'  BY <1>2, ImportAssumption DEF Resume, Begin, RunOK, RowOK, Outcomes
  <2>4. RowOK'  BY <1>2 DEF Resume, Begin, RowOK, Stages, OnRow
  <2> QED  BY <2>1, <2>2, <2>3, <2>4
<1>3. CASE SaveConfig
  <2>1. JobOK'  BY <1>3 DEF SaveConfig, JobOK
  <2>2. RepoOK'  BY <1>3 DEF SaveConfig, RepoOK
  <2>3. RunOK'  BY <1>3, ImportAssumption DEF SaveConfig, RunOK, RowOK, Outcomes
  <2>4. RowOK'  BY <1>3 DEF SaveConfig, RowOK, Stages, OnRow
  <2> QED  BY <2>1, <2>2, <2>3, <2>4
<1>4. CASE StoreOpen
  <2>1. JobOK'  BY <1>4 DEF StoreOpen, JobOK
  <2>2. RepoOK'  BY <1>4 DEF StoreOpen, RepoOK
  <2>3. RunOK'  BY <1>4, ImportAssumption DEF StoreOpen, RunOK, RowOK, Outcomes
  <2>4. RowOK'  BY <1>4 DEF StoreOpen, RowOK, Stages, OnRow
  <2> QED  BY <2>1, <2>2, <2>3, <2>4
<1>5. CASE StoreWrite
  <2>1. JobOK'  BY <1>5 DEF StoreWrite, JobOK, RunOK
  <2>2. RepoOK'  BY <1>5 DEF StoreWrite, RepoOK
  <2>3. RunOK'  BY <1>5, ImportAssumption DEF StoreWrite, RunOK, RowOK, Outcomes
  <2>4. RowOK'  BY <1>5 DEF StoreWrite, RowOK, Stages, OnRow
  <2> QED  BY <2>1, <2>2, <2>3, <2>4
<1>6. CASE OpenSource
  <2>1. JobOK'  BY <1>6 DEF OpenSource, Abort, JobOK
  <2>2. RepoOK'  BY <1>6 DEF OpenSource, Abort, RepoOK
  <2>3. RunOK'
    <3>1. selected' \subseteq Ids
      BY <1>6, SelectedIds, ImportAssumption DEF OpenSource, Unreadable, JobOK, RunOK
    <3>2. outcome' \in Outcomes /\ UNCHANGED <<opts, input, failed, invalid, runs, faults>>
      BY <1>6 DEF OpenSource, Abort, RunOK, Outcomes
    <3> QED  BY <3>1, <3>2 DEF RunOK
  <2>4. RowOK'  BY <1>6 DEF OpenSource, Abort, Unreadable, JobOK, RowOK, Stages, OnRow
  <2> QED  BY <2>1, <2>2, <2>3, <2>4
<1>7. CASE TakeRow
  <2>1. JobOK'  BY <1>7 DEF TakeRow, NextRow, DropInvalid, Goto, JobOK
  <2>2. RepoOK'  BY <1>7 DEF TakeRow, NextRow, DropInvalid, Goto, RepoOK
  <2>3. RunOK'  BY <1>7, ImportAssumption
                   DEF TakeRow, NextRow, DropInvalid, Goto, RunOK, RowOK, Outcomes
  <2>4. RowOK'  BY <1>7, ImportAssumption
                   DEF TakeRow, NextRow, DropInvalid, Goto, RowOK, AtRow, Total, Stages,
                       OnRow
  <2> QED  BY <2>1, <2>2, <2>3, <2>4
<1>8. CASE ReadItem
  <2>1. JobOK'  BY <1>8 DEF ReadItem, Goto, Abort, JobOK
  <2>2. RepoOK'  BY <1>8 DEF ReadItem, Goto, Abort, RepoOK
  <2>3. RunOK'  BY <1>8, ImportAssumption DEF ReadItem, Goto, Abort, RunOK, RowOK, Outcomes
  <2>4. RowOK'  BY <1>8 DEF ReadItem, Goto, Abort, RowOK, Stages, OnRow
  <2> QED  BY <2>1, <2>2, <2>3, <2>4
<1>9. CASE Validate
  <2>1. JobOK'  BY <1>9 DEF Validate, DropFailed, DropInvalid, NextRow, Goto, JobOK
  <2>2. RepoOK'  BY <1>9 DEF Validate, DropFailed, DropInvalid, NextRow, Goto, RepoOK
  <2>3. RunOK'  BY <1>9, ImportAssumption
                   DEF Validate, DropFailed, DropInvalid, NextRow, Goto, RunOK, RowOK,
                       Outcomes
  <2>4. RowOK'  BY <1>9
                   DEF Validate, DropFailed, DropInvalid, NextRow, Goto, RowOK, Stages,
                       OnRow
  <2> QED  BY <2>1, <2>2, <2>3, <2>4
<1>10. CASE CreateItem
  <2>1. JobOK'  BY <1>10, ItemIsId
                   DEF CreateItem, Goto, Abort, Fault, DropFailed, NextRow, JobOK, OnRow
  <2>2. RepoOK'  BY <1>10, ItemIsId
                    DEF CreateItem, Goto, Abort, Fault, DropFailed, NextRow, RepoOK,
                        Created, OnRow
  <2>3. RunOK'
    <3>1. failed' \subseteq Nat /\ invalid' = invalid
      BY <1>10 DEF CreateItem, Goto, Abort, DropFailed, RunOK, RowOK
    <3>2. outcome' \in Outcomes
      BY <1>10 DEF CreateItem, Goto, Abort, DropFailed, RunOK, Outcomes
    <3>3. faults' \in 0..MaxFaults
      BY <1>10, ImportAssumption DEF CreateItem, Fault, RunOK
    <3>4. UNCHANGED <<opts, input, selected, runs>>
      BY <1>10 DEF CreateItem
    <3> QED  BY <3>1, <3>2, <3>3, <3>4 DEF RunOK
  <2>4. RowOK'  BY <1>10
                   DEF CreateItem, Goto, Abort, Fault, DropFailed, NextRow, RowOK, Stages,
                       OnRow
  <2> QED  BY <2>1, <2>2, <2>3, <2>4
<1>11. CASE UpdateItem
  <2>1. JobOK'  BY <1>11 DEF UpdateItem, Goto, Abort, Fault, DropFailed, NextRow, JobOK
  <2>2. RepoOK'  BY <1>11 DEF UpdateItem, Goto, Abort, Fault, DropFailed, NextRow, RepoOK
  <2>3. RunOK'
    <3>1. failed' \subseteq Nat /\ invalid' = invalid
      BY <1>11 DEF UpdateItem, Goto, Abort, DropFailed, RunOK, RowOK
    <3>2. outcome' \in Outcomes
      BY <1>11 DEF UpdateItem, Goto, Abort, DropFailed, RunOK, Outcomes
    <3>3. faults' \in 0..MaxFaults
      BY <1>11, ImportAssumption DEF UpdateItem, Fault, RunOK
    <3>4. UNCHANGED <<opts, input, selected, runs>>
      BY <1>11 DEF UpdateItem
    <3> QED  BY <3>1, <3>2, <3>3, <3>4 DEF RunOK
  <2>4. RowOK'  BY <1>11
                   DEF UpdateItem, Goto, Abort, Fault, DropFailed, NextRow, RowOK, Stages,
                       OnRow
  <2> QED  BY <2>1, <2>2, <2>3, <2>4
<1>12. CASE PublishItem
  <2>1. JobOK'  BY <1>12, ItemIsId
                   DEF PublishItem, Goto, Abort, Fault, DropFailed, NextRow, JobOK, OnRow
  <2>2. RepoOK'  BY <1>12, ItemIsId
                    DEF PublishItem, Goto, Abort, Fault, DropFailed, NextRow, RepoOK, OnRow
  <2>3. RunOK'
    <3>1. failed' \subseteq Nat /\ invalid' = invalid
      BY <1>12 DEF PublishItem, Goto, Abort, DropFailed, RunOK, RowOK
    <3>2. outcome' \in Outcomes
      BY <1>12 DEF PublishItem, Goto, Abort, DropFailed, RunOK, Outcomes
    <3>3. faults' \in 0..MaxFaults
      BY <1>12, ImportAssumption DEF PublishItem, Fault, RunOK
    <3>4. UNCHANGED <<opts, input, selected, runs>>
      BY <1>12 DEF PublishItem
    <3> QED  BY <3>1, <3>2, <3>3, <3>4 DEF RunOK
  <2>4. RowOK'  BY <1>12
                   DEF PublishItem, Goto, Abort, Fault, DropFailed, NextRow, RowOK, Stages,
                       OnRow
  <2> QED  BY <2>1, <2>2, <2>3, <2>4
<1>13. CASE SkipUnchanged
  <2>1. JobOK'  BY <1>13 DEF SkipUnchanged, Goto, JobOK
  <2>2. RepoOK'  BY <1>13 DEF SkipUnchanged, Goto, RepoOK
  <2>3. RunOK'  BY <1>13, ImportAssumption DEF SkipUnchanged, Goto, RunOK, RowOK, Outcomes
  <2>4. RowOK'  BY <1>13 DEF SkipUnchanged, Goto, RowOK, Stages, OnRow
  <2> QED  BY <2>1, <2>2, <2>3, <2>4
<1>14. CASE LogCompleted
  <2>1. JobOK'  BY <1>14, ItemIsId DEF LogCompleted, NextRow, JobOK, OnRow
  <2>2. RepoOK'  BY <1>14, ItemIsId DEF LogCompleted, NextRow, RepoOK, OnRow
  <2>3. RunOK'  BY <1>14, ImportAssumption DEF LogCompleted, NextRow, RunOK, RowOK, Outcomes
  <2>4. RowOK'  BY <1>14 DEF LogCompleted, NextRow, RowOK, Stages, OnRow
  <2> QED  BY <2>1, <2>2, <2>3, <2>4
<1>15. CASE Finish
  <2>1. JobOK'  BY <1>15 DEF Finish, JobOK
  <2>2. RepoOK'  BY <1>15 DEF Finish, RepoOK
  <2>3. RunOK'  BY <1>15 DEF Finish, RunOK, FinalState, Outcomes
  <2>4. RowOK'  BY <1>15 DEF Finish, RowOK, Stages, OnRow
  <2> QED  BY <2>1, <2>2, <2>3, <2>4
<1>16. CASE Crash
  <2>1. JobOK'  BY <1>16 DEF Crash, Fault, JobOK
  <2>2. RepoOK'  BY <1>16 DEF Crash, Fault, RepoOK
  <2>3. RunOK'  BY <1>16, ImportAssumption DEF Crash, Fault, RunOK, RowOK, Outcomes
  <2>4. RowOK'  BY <1>16 DEF Crash, Fault, RowOK, Stages, OnRow
  <2> QED  BY <2>1, <2>2, <2>3, <2>4
<1>17. CASE UNCHANGED vars
  BY <1>17 DEF vars, JobOK, RepoOK, RunOK, RowOK
<1> QED
  BY <1>1, <1>2, <1>3, <1>4, <1>5, <1>6, <1>7, <1>8, <1>9, <1>10, <1>11, <1>12, <1>13,
        <1>14, <1>15, <1>16, <1>17
     DEF Next, Step

-----------------------------------------------------------------------------
(* The inductive invariant: the completed log and the repository agree.    *)
LEMMA ImportStep == ImportInv /\ [Next]_vars => ImportInv'
<1> SUFFICES ASSUME ImportInv, [Next]_vars PROVE ImportInv'
  OBVIOUS
<1> USE DEF ImportInv, job, repo, drops, run
<1>0. TypeOK'
  BY TypeStep
<1>1. ASSUME NEW o \in Options, NEW f \in Files \cup {Empty}, NewJob(o, f) PROVE ImportInv'
  <2>1. CompletedIsLoaded'
    BY <1>1 DEF NewJob, Begin, CompletedIsLoaded, Loaded, RowInHand, TypeOK, RepoOK
  <2>2. RowInHand'
    BY <1>1 DEF NewJob, Begin, RowInHand, Loaded, OnRow, Item
  <2>3. CopiesPaid'
    BY <1>1 DEF NewJob, Begin, CopiesPaid, RowInHand, Item, TypeOK, RepoOK, RunOK, RowOK
  <2> QED  BY <1>0, <2>1, <2>2, <2>3
<1>2. ASSUME NEW o \in Options, NEW f \in Files \cup {Empty}, Resume(o, f) PROVE ImportInv'
  <2>1. CompletedIsLoaded'
    BY <1>2 DEF Resume, Begin, CompletedIsLoaded, Loaded, RowInHand, TypeOK, RepoOK
  <2>2. RowInHand'
    BY <1>2 DEF Resume, Begin, RowInHand, Loaded, OnRow, Item
  <2>3. CopiesPaid'
    BY <1>2 DEF Resume, Begin, CopiesPaid, RowInHand, Item, TypeOK, RepoOK, RunOK, RowOK
  <2> QED  BY <1>0, <2>1, <2>2, <2>3
<1>3. CASE SaveConfig
  <2>1. CompletedIsLoaded'
    BY <1>3 DEF SaveConfig, CompletedIsLoaded, Loaded, RowInHand, TypeOK, RepoOK
  <2>2. RowInHand'
    BY <1>3 DEF SaveConfig, RowInHand, Loaded, OnRow, Item
  <2>3. CopiesPaid'
    BY <1>3 DEF SaveConfig, CopiesPaid, RowInHand, Item, TypeOK, RepoOK, RunOK, RowOK
  <2> QED  BY <1>0, <2>1, <2>2, <2>3
<1>4. CASE StoreOpen
  <2>1. CompletedIsLoaded'
    BY <1>4 DEF StoreOpen, CompletedIsLoaded, Loaded, RowInHand, TypeOK, RepoOK
  <2>2. RowInHand'
    BY <1>4 DEF StoreOpen, RowInHand, Loaded, OnRow, Item
  <2>3. CopiesPaid'
    BY <1>4 DEF StoreOpen, CopiesPaid, RowInHand, Item, TypeOK, RepoOK, RunOK, RowOK
  <2> QED  BY <1>0, <2>1, <2>2, <2>3
<1>5. CASE StoreWrite
  <2>1. CompletedIsLoaded'
    BY <1>5 DEF StoreWrite, CompletedIsLoaded, Loaded, RowInHand, TypeOK, RepoOK
  <2>2. RowInHand'
    BY <1>5 DEF StoreWrite, RowInHand, Loaded, OnRow, Item
  <2>3. CopiesPaid'
    BY <1>5 DEF StoreWrite, CopiesPaid, RowInHand, Item, TypeOK, RepoOK, RunOK, RowOK
  <2> QED  BY <1>0, <2>1, <2>2, <2>3
<1>6. CASE OpenSource
  <2>1. CompletedIsLoaded'
    BY <1>6 DEF OpenSource, Abort, CompletedIsLoaded, Loaded, RowInHand, TypeOK, RepoOK
  <2>2. RowInHand'
    BY <1>6 DEF OpenSource, Abort, RowInHand, Loaded, OnRow, Item
  <2>3. CopiesPaid'
    BY <1>6 DEF OpenSource, Abort, CopiesPaid, RowInHand, Item, TypeOK, RepoOK, RunOK, RowOK
  <2> QED  BY <1>0, <2>1, <2>2, <2>3
<1>7. CASE TakeRow
  <2>1. CompletedIsLoaded'
    BY <1>7 DEF TakeRow, NextRow, DropInvalid, Goto, CompletedIsLoaded, Loaded, RowInHand,
       TypeOK, RepoOK
  <2>2. RowInHand'
    BY <1>7 DEF TakeRow, NextRow, DropInvalid, Goto, RowInHand, Loaded, OnRow, Item
  <2>3. CopiesPaid'
    <3>1. pc = "row" /\ pc' \in {"row", "read"} /\ UNCHANGED <<copies, completed, faults>>
      BY <1>7 DEF TakeRow, AtRow, NextRow, DropInvalid, Goto
    <3> QED  BY <3>1 DEF CopiesPaid
  <2> QED  BY <1>0, <2>1, <2>2, <2>3
<1>8. CASE ReadItem
  <2>1. CompletedIsLoaded'
    BY <1>8 DEF ReadItem, Goto, Abort, CompletedIsLoaded, Loaded, RowInHand, TypeOK, RepoOK
  <2>2. RowInHand'
    BY <1>8 DEF ReadItem, Goto, Abort, RowInHand, Loaded, OnRow, Item
  <2>3. CopiesPaid'
    BY <1>8 DEF ReadItem, Goto, Abort, CopiesPaid, RowInHand, Item, TypeOK, RepoOK, RunOK,
       RowOK
  <2> QED  BY <1>0, <2>1, <2>2, <2>3
<1>9. CASE Validate
  <2>1. CompletedIsLoaded'
    BY <1>9 DEF Validate, DropFailed, DropInvalid, NextRow, Goto, CompletedIsLoaded, Loaded,
       RowInHand, TypeOK, RepoOK
  <2>2. RowInHand'
    BY <1>9 DEF Validate, DropFailed, DropInvalid, NextRow, Goto, RowInHand, Loaded, OnRow,
       Item
  <2>3. CopiesPaid'
    BY <1>9 DEF Validate, DropFailed, DropInvalid, NextRow, Goto, CopiesPaid, RowInHand,
       Item, TypeOK, RepoOK, RunOK, RowOK
  <2> QED  BY <1>0, <2>1, <2>2, <2>3
<1>10. CASE CreateItem
  <2>1. Item \in Ids \ HasUri /\ Item \notin completed /\ UNCHANGED <<completed, dirty>>
    BY <1>10, ItemIsId DEF CreateItem, Created, RowInHand, OnRow, repo
  <2>2. \A i \in Ids \ HasUri : copies[i] <= faults + IF i \in completed THEN 1 ELSE 0
    BY <1>10 DEF CreateItem, CopiesPaid
  <2>3. CASE Created /\ Goto("log") /\ UNCHANGED faults
    <3>1. Item' = Item
      BY <1>10, <2>3 DEF CreateItem, Goto, Item
    <3>2. CompletedIsLoaded'
      BY <2>1, <2>3 DEF Created, CompletedIsLoaded, Loaded, TypeOK, JobOK, RepoOK
    <3>3. RowInHand'
      BY <2>1, <2>3, <3>1 DEF Created, Goto, RowInHand, Loaded, TypeOK, RepoOK
    <3>4. CopiesPaid'
      BY <2>1, <2>2, <2>3, <3>1 DEF Created, Goto, CopiesPaid, TypeOK, RepoOK, RunOK
    <3> QED  BY <1>0, <3>2, <3>3, <3>4
  <2>4. CASE Created /\ Abort /\ Fault
    <3>1. CompletedIsLoaded'
      BY <2>1, <2>4 DEF Created, CompletedIsLoaded, Loaded, TypeOK, JobOK, RepoOK
    <3>2. RowInHand'
      BY <2>4 DEF Abort, RowInHand, OnRow
    <3>3. CopiesPaid'
      BY <2>1, <2>2, <2>4 DEF Created, Abort, Fault, CopiesPaid, TypeOK, RepoOK, RunOK
    <3> QED  BY <1>0, <3>1, <3>2, <3>3
  <2>5. CASE (DropFailed \/ Abort) /\ UNCHANGED <<repo, faults>>
    <3>1. pc' \in {"row", "idle"}
      BY <2>5 DEF DropFailed, NextRow, Abort
    <3> QED  BY <1>0, <2>1, <2>2, <2>5, <3>1
                DEF CompletedIsLoaded, Loaded, RowInHand, CopiesPaid, OnRow
  <2> QED  BY <1>10, <2>3, <2>4, <2>5 DEF CreateItem
<1>11. CASE UpdateItem
  <2>1. Item \in HasUri /\ Item \notin completed /\ UNCHANGED <<completed, copies, source>>
    BY <1>11, ItemIsId DEF UpdateItem, RowInHand, OnRow, TypeOK, RepoOK
  <2>2. dirty' \subseteq dirty
    BY <1>11 DEF UpdateItem
  <2>3. CompletedIsLoaded'
    BY <2>1, <2>2 DEF CompletedIsLoaded, Loaded
  <2>4. RowInHand'
    <3>1. CASE pc' \in {"publish", "log"}
      <4>1. row' = row /\ dirty' = dirty \ {Item}
        BY <1>11, <3>1 DEF UpdateItem, Goto, Abort, DropFailed, NextRow
      <4> QED  BY <2>1, <4>1 DEF RowInHand, Loaded, Item
    <3>2. CASE pc' \in {"row", "idle"}
      BY <3>2 DEF RowInHand, OnRow
    <3> QED  BY <1>11, <3>1, <3>2 DEF UpdateItem, Goto, Abort, DropFailed, NextRow
  <2>5. CopiesPaid'
    <3>1. faults' \in Nat /\ faults' >= faults
      BY <1>11 DEF UpdateItem, Fault, TypeOK, RunOK
    <3>2. \A i \in Ids \ HasUri : copies[i] <= faults + IF i \in completed THEN 1 ELSE 0
      BY <1>11 DEF UpdateItem, CopiesPaid
    <3> QED  BY <2>1, <3>1, <3>2 DEF CopiesPaid, TypeOK, RepoOK, RunOK
  <2> QED  BY <1>0, <2>3, <2>4, <2>5
<1>12. CASE PublishItem
  <2>1. Item \in HasUri /\ UNCHANGED <<completed, copies, dirty, source>>
    BY <1>12 DEF PublishItem, RowInHand
  <2>2. CompletedIsLoaded'
    BY <2>1 DEF CompletedIsLoaded, Loaded
  <2>3. RowInHand'
    BY <1>12, <2>1 DEF PublishItem, Goto, Abort, DropFailed, NextRow, RowInHand, Loaded,
       OnRow, Item
  <2>4. CopiesPaid'
    <3>1. faults' \in Nat /\ faults' >= faults
      BY <1>12 DEF PublishItem, Fault, TypeOK, RunOK
    <3>2. \A i \in Ids \ HasUri : copies[i] <= faults + IF i \in completed THEN 1 ELSE 0
      BY <1>12 DEF PublishItem, CopiesPaid
    <3> QED  BY <2>1, <3>1, <3>2 DEF CopiesPaid, TypeOK, RepoOK, RunOK
  <2> QED  BY <1>0, <2>2, <2>3, <2>4
<1>13. CASE SkipUnchanged
  <2>1. Item \in HasUri \ dirty /\ Item' = Item
    BY <1>13 DEF SkipUnchanged, Goto, Item, job
  <2>2. CompletedIsLoaded'
    BY <1>13 DEF SkipUnchanged, CompletedIsLoaded, Loaded
  <2>3. RowInHand'
    BY <1>13, <2>1 DEF SkipUnchanged, Goto, RowInHand, Loaded, OnRow
  <2>4. CopiesPaid'
    BY <1>13, <2>1 DEF SkipUnchanged, Goto, CopiesPaid
  <2> QED  BY <1>0, <2>2, <2>3, <2>4
<1>14. CASE LogCompleted
  <2>0. Item \in Ids
    BY <1>14, ItemIsId DEF LogCompleted, OnRow
  <2>1. CompletedIsLoaded'
    BY <1>14, <2>0 DEF LogCompleted, NextRow, CompletedIsLoaded, Loaded, RowInHand, TypeOK,
       RepoOK
  <2>2. RowInHand'
    BY <1>14, <2>0 DEF LogCompleted, NextRow, RowInHand, Loaded, OnRow, Item
  <2>3. CopiesPaid'
    BY <1>14, <2>0 DEF LogCompleted, NextRow, CopiesPaid, RowInHand, Item, TypeOK, RepoOK,
       RunOK, RowOK
  <2> QED  BY <1>0, <2>1, <2>2, <2>3
<1>15. CASE Finish
  <2>1. CompletedIsLoaded'
    BY <1>15 DEF Finish, CompletedIsLoaded, Loaded, RowInHand, TypeOK, RepoOK
  <2>2. RowInHand'
    BY <1>15 DEF Finish, RowInHand, Loaded, OnRow, Item
  <2>3. CopiesPaid'
    BY <1>15 DEF Finish, CopiesPaid, RowInHand, Item, TypeOK, RepoOK, RunOK, RowOK
  <2> QED  BY <1>0, <2>1, <2>2, <2>3
<1>16. CASE Crash
  <2>1. CompletedIsLoaded'
    BY <1>16 DEF Crash, Fault, CompletedIsLoaded, Loaded, RowInHand, TypeOK, RepoOK
  <2>2. RowInHand'
    BY <1>16 DEF Crash, Fault, RowInHand, Loaded, OnRow, Item
  <2>3. CopiesPaid'
    BY <1>16 DEF Crash, Fault, CopiesPaid, RowInHand, Item, TypeOK, RepoOK, RunOK, RowOK
  <2> QED  BY <1>0, <2>1, <2>2, <2>3
<1>17. CASE UNCHANGED vars
  BY <1>0, <1>17 DEF vars, CompletedIsLoaded, Loaded, RowInHand, CopiesPaid, Item
<1> QED
  BY <1>1, <1>2, <1>3, <1>4, <1>5, <1>6, <1>7, <1>8, <1>9, <1>10, <1>11, <1>12, <1>13,
        <1>14, <1>15, <1>16, <1>17
     DEF Next, Step

LEMMA ImportInit == Init => ImportInv
<1> SUFFICES ASSUME Init PROVE ImportInv
  OBVIOUS
<1>1. JobOK /\ RepoOK
  BY DEF Init, JobOK, RepoOK
<1>2. RunOK /\ RowOK
  BY ImportAssumption DEF Init, RunOK, RowOK, Outcomes, Stages, OnRow
<1>3. CompletedIsLoaded /\ RowInHand /\ CopiesPaid
  BY DEF Init, CompletedIsLoaded, RowInHand, CopiesPaid, OnRow
<1> QED  BY <1>1, <1>2, <1>3 DEF ImportInv, TypeOK

(* The invariant holds in every reachable state. *)
THEOREM ImportCorrect == Spec => []ImportInv
  BY ImportInit, ImportStep, PTL DEF Spec

(* TypeOK holds in every reachable state; in particular no run works on a  *)
(* row beyond the end of source.csv.                                       *)
THEOREM ImportTypes == Spec => []TypeOK
<1>1. ImportInv => TypeOK
  BY DEF ImportInv
<1> QED  BY <1>1, ImportCorrect, PTL

(* An item in the completed log has been loaded, whatever happened to the  *)
(* run that logged it and to the runs after it.                            *)
THEOREM CompletedLogIsTrue == Spec => []CompletedIsLoaded
<1>1. ImportInv => CompletedIsLoaded
  BY DEF ImportInv
<1> QED  BY <1>1, ImportCorrect, PTL

(* Over all runs of a job, each duplicate of a new item costs a fault. *)
THEOREM DuplicatesNeedFaults == Spec => []DuplicatesBounded
<1>1. ImportInv => DuplicatesBounded
  BY DEF ImportInv, CopiesPaid, DuplicatesBounded, TypeOK, RepoOK, RunOK
<1> QED  BY <1>1, ImportCorrect, PTL

(* No later run creates a completed item again. *)
THEOREM CompletedStaysFinal == Spec => CompletedIsFinal
<1> DEFINE Final == \A i \in completed \ HasUri : copies'[i] = copies[i]
<1>1. ImportInv /\ [Next]_vars => [Final]_vars
  <2> SUFFICES ASSUME ImportInv, Next PROVE Final
    OBVIOUS
  <2>1. CASE CreateItem
    BY <2>1, ItemIsId DEF CreateItem, Created, ImportInv, RowInHand, OnRow, TypeOK, JobOK,
       RepoOK, repo
  <2>2. CASE ~CreateItem
    <3>1. UNCHANGED copies
      BY <2>2 DEF Next, Step, NewJob, Resume, Begin, SaveConfig, StoreOpen, StoreWrite,
         OpenSource, TakeRow, ReadItem, Validate, UpdateItem, PublishItem, SkipUnchanged,
         LogCompleted, Finish, Crash, repo
    <3> QED  BY <3>1
  <2> QED  BY <2>1, <2>2
<1> QED  BY <1>1, ImportCorrect, PTL DEF Spec, CompletedIsFinal

-----------------------------------------------------------------------------
(* What a run reports: rows that have been dealt with stay so. *)
LEMMA StillBehind ==
  ASSUME RowsBehind, row \in Nat, pc \in OnRow \cup {"row"},
         UNCHANGED <<source, opts, selected>>, completed \subseteq completed',
         failed \subseteq failed', invalid \subseteq invalid',
         \/ row' = row
         \/ row' = row + 1 /\ \A r \in Rows : r = row /\ ~opts.validate => DealtWith(r)'
  PROVE  RowsBehind'
<1> SUFFICES ASSUME ~opts.validate, NEW r \in Rows, r < row' PROVE DealtWith(r)'
  BY DEF RowsBehind, Rows, Total
<1>1. r \in Int
  BY DEF Rows
<1>2. CASE r < row
  BY <1>2 DEF RowsBehind, DealtWith
<1>3. CASE r = row
  BY <1>3, <1>1
<1> QED  BY <1>1, <1>2, <1>3

LEMMA RunStep == RunInv /\ [Next]_vars => RunInv'
<1> SUFFICES ASSUME RunInv, [Next]_vars PROVE RunInv'
  OBVIOUS
<1> USE DEF RunInv, job, repo, drops, run
<1>0. TypeOK'
  BY TypeStep
<1>1. ASSUME NEW o \in Options, NEW f \in Files \cup {Empty}, NewJob(o, f) PROVE RunInv'
  BY <1>0, <1>1 DEF NewJob, Begin, RowsBehind, LoadsIfAsked, Verdict, Ended, OnRow
<1>2. ASSUME NEW o \in Options, NEW f \in Files \cup {Empty}, Resume(o, f) PROVE RunInv'
  BY <1>0, <1>2 DEF Resume, Begin, RowsBehind, LoadsIfAsked, Verdict, Ended, OnRow
<1>3. CASE SaveConfig
  BY <1>0, <1>3 DEF SaveConfig, RowsBehind, LoadsIfAsked, Verdict, Ended, OnRow
<1>4. CASE StoreOpen
  BY <1>0, <1>4 DEF StoreOpen, RowsBehind, LoadsIfAsked, Verdict, Ended, OnRow
<1>5. CASE StoreWrite
  BY <1>0, <1>5 DEF StoreWrite, RowsBehind, LoadsIfAsked, Verdict, Ended, OnRow
<1>6. CASE OpenSource
  <2>1. RowsBehind'
    BY <1>6 DEF OpenSource, Abort, RowsBehind, Rows, OnRow, Total
  <2>2. LoadsIfAsked' /\ Verdict'
    BY <1>6 DEF OpenSource, Abort, LoadsIfAsked, Verdict, Ended
  <2> QED  BY <1>0, <2>1, <2>2
<1>7. CASE TakeRow
  <2>1. LoadsIfAsked' /\ Verdict'
    BY <1>7 DEF TakeRow, AtRow, DropInvalid, NextRow, Goto, LoadsIfAsked, Verdict, Ended
  <2>2. RowsBehind'
    <3>1. \/ pc' = "idle"
          \/ row' = row
          \/ row' = row + 1 /\ \A r \in Rows : r = row /\ ~opts.validate => DealtWith(r)'
      BY <1>7 DEF TakeRow, DropFailed, DropInvalid, NextRow, Goto, Abort, DealtWith, AtRow,
         Item, Rows
    <3>2. CASE pc' = "idle"
      BY <3>2 DEF RowsBehind, OnRow
    <3>3. CASE pc' # "idle"
      <4>1. pc \in OnRow \cup {"row"} /\ row \in Nat
        BY <1>7 DEF TakeRow, AtRow, OnRow, TypeOK, RowOK
      <4>2. /\ UNCHANGED <<source, opts, selected>> /\ completed \subseteq completed'
            /\ failed \subseteq failed' /\ invalid \subseteq invalid'
        BY <1>7 DEF TakeRow, DropFailed, DropInvalid, NextRow, Goto, Abort
      <4> QED  BY <3>1, <3>3, <4>1, <4>2, StillBehind
    <3> QED  BY <3>2, <3>3
  <2> QED  BY <1>0, <2>1, <2>2
<1>8. CASE ReadItem
  <2>1. LoadsIfAsked' /\ Verdict'
    BY <1>8 DEF ReadItem, DropFailed, DropInvalid, NextRow, Goto, Abort, LoadsIfAsked,
       Verdict, Ended
  <2>2. RowsBehind'
    <3>1. \/ pc' = "idle"
          \/ row' = row
          \/ row' = row + 1 /\ \A r \in Rows : r = row /\ ~opts.validate => DealtWith(r)'
      BY <1>8 DEF ReadItem, DropFailed, DropInvalid, NextRow, Goto, Abort, DealtWith
    <3>2. CASE pc' = "idle"
      BY <3>2 DEF RowsBehind, OnRow
    <3>3. CASE pc' # "idle"
      <4>1. pc \in OnRow \cup {"row"} /\ row \in Nat
        BY <1>8 DEF ReadItem, AtRow, OnRow, TypeOK, RowOK
      <4>2. /\ UNCHANGED <<source, opts, selected>> /\ completed \subseteq completed'
            /\ failed \subseteq failed' /\ invalid \subseteq invalid'
        BY <1>8 DEF ReadItem, DropFailed, DropInvalid, NextRow, Goto, Abort
      <4> QED  BY <3>1, <3>3, <4>1, <4>2, StillBehind
    <3> QED  BY <3>2, <3>3
  <2> QED  BY <1>0, <2>1, <2>2
<1>9. CASE Validate
  <2>1. LoadsIfAsked' /\ Verdict'
    BY <1>9 DEF Validate, DropFailed, DropInvalid, NextRow, Goto, Abort, LoadsIfAsked,
       Verdict, Ended
  <2>2. RowsBehind'
    <3>1. \/ pc' = "idle"
          \/ row' = row
          \/ row' = row + 1 /\ \A r \in Rows : r = row /\ ~opts.validate => DealtWith(r)'
      BY <1>9 DEF Validate, DropFailed, DropInvalid, NextRow, Goto, Abort, DealtWith
    <3>2. CASE pc' = "idle"
      BY <3>2 DEF RowsBehind, OnRow
    <3>3. CASE pc' # "idle"
      <4>1. pc \in OnRow \cup {"row"} /\ row \in Nat
        BY <1>9 DEF Validate, AtRow, OnRow, TypeOK, RowOK
      <4>2. /\ UNCHANGED <<source, opts, selected>> /\ completed \subseteq completed'
            /\ failed \subseteq failed' /\ invalid \subseteq invalid'
        BY <1>9 DEF Validate, DropFailed, DropInvalid, NextRow, Goto, Abort
      <4> QED  BY <3>1, <3>3, <4>1, <4>2, StillBehind
    <3> QED  BY <3>2, <3>3
  <2> QED  BY <1>0, <2>1, <2>2
<1>10. CASE CreateItem
  <2>1. LoadsIfAsked' /\ Verdict'
    BY <1>10 DEF CreateItem, DropFailed, DropInvalid, NextRow, Goto, Abort, LoadsIfAsked,
       Verdict, Ended
  <2>2. RowsBehind'
    <3>1. \/ pc' = "idle"
          \/ row' = row
          \/ row' = row + 1 /\ \A r \in Rows : r = row /\ ~opts.validate => DealtWith(r)'
      BY <1>10 DEF CreateItem, DropFailed, DropInvalid, NextRow, Goto, Abort, DealtWith
    <3>2. CASE pc' = "idle"
      BY <3>2 DEF RowsBehind, OnRow
    <3>3. CASE pc' # "idle"
      <4>1. pc \in OnRow \cup {"row"} /\ row \in Nat
        BY <1>10 DEF CreateItem, AtRow, OnRow, TypeOK, RowOK
      <4>2. /\ UNCHANGED <<source, opts, selected>> /\ completed \subseteq completed'
            /\ failed \subseteq failed' /\ invalid \subseteq invalid'
        BY <1>10 DEF CreateItem, DropFailed, DropInvalid, NextRow, Goto, Abort
      <4> QED  BY <3>1, <3>3, <4>1, <4>2, StillBehind
    <3> QED  BY <3>2, <3>3
  <2> QED  BY <1>0, <2>1, <2>2
<1>11. CASE UpdateItem
  <2>1. LoadsIfAsked' /\ Verdict'
    BY <1>11 DEF UpdateItem, DropFailed, DropInvalid, NextRow, Goto, Abort, LoadsIfAsked,
       Verdict, Ended
  <2>2. RowsBehind'
    <3>1. \/ pc' = "idle"
          \/ row' = row
          \/ row' = row + 1 /\ \A r \in Rows : r = row /\ ~opts.validate => DealtWith(r)'
      BY <1>11 DEF UpdateItem, DropFailed, DropInvalid, NextRow, Goto, Abort, DealtWith
    <3>2. CASE pc' = "idle"
      BY <3>2 DEF RowsBehind, OnRow
    <3>3. CASE pc' # "idle"
      <4>1. pc \in OnRow \cup {"row"} /\ row \in Nat
        BY <1>11 DEF UpdateItem, AtRow, OnRow, TypeOK, RowOK
      <4>2. /\ UNCHANGED <<source, opts, selected>> /\ completed \subseteq completed'
            /\ failed \subseteq failed' /\ invalid \subseteq invalid'
        BY <1>11 DEF UpdateItem, DropFailed, DropInvalid, NextRow, Goto, Abort
      <4> QED  BY <3>1, <3>3, <4>1, <4>2, StillBehind
    <3> QED  BY <3>2, <3>3
  <2> QED  BY <1>0, <2>1, <2>2
<1>12. CASE PublishItem
  <2>1. LoadsIfAsked' /\ Verdict'
    BY <1>12 DEF PublishItem, DropFailed, DropInvalid, NextRow, Goto, Abort, LoadsIfAsked,
       Verdict, Ended
  <2>2. RowsBehind'
    <3>1. \/ pc' = "idle"
          \/ row' = row
          \/ row' = row + 1 /\ \A r \in Rows : r = row /\ ~opts.validate => DealtWith(r)'
      BY <1>12 DEF PublishItem, DropFailed, DropInvalid, NextRow, Goto, Abort, DealtWith
    <3>2. CASE pc' = "idle"
      BY <3>2 DEF RowsBehind, OnRow
    <3>3. CASE pc' # "idle"
      <4>1. pc \in OnRow \cup {"row"} /\ row \in Nat
        BY <1>12 DEF PublishItem, AtRow, OnRow, TypeOK, RowOK
      <4>2. /\ UNCHANGED <<source, opts, selected>> /\ completed \subseteq completed'
            /\ failed \subseteq failed' /\ invalid \subseteq invalid'
        BY <1>12 DEF PublishItem, DropFailed, DropInvalid, NextRow, Goto, Abort
      <4> QED  BY <3>1, <3>3, <4>1, <4>2, StillBehind
    <3> QED  BY <3>2, <3>3
  <2> QED  BY <1>0, <2>1, <2>2
<1>13. CASE SkipUnchanged
  <2>1. LoadsIfAsked' /\ Verdict'
    BY <1>13 DEF SkipUnchanged, DropFailed, DropInvalid, NextRow, Goto, Abort, LoadsIfAsked,
       Verdict, Ended
  <2>2. RowsBehind'
    <3>1. \/ pc' = "idle"
          \/ row' = row
          \/ row' = row + 1 /\ \A r \in Rows : r = row /\ ~opts.validate => DealtWith(r)'
      BY <1>13 DEF SkipUnchanged, DropFailed, DropInvalid, NextRow, Goto, Abort, DealtWith
    <3>2. CASE pc' = "idle"
      BY <3>2 DEF RowsBehind, OnRow
    <3>3. CASE pc' # "idle"
      <4>1. pc \in OnRow \cup {"row"} /\ row \in Nat
        BY <1>13 DEF SkipUnchanged, AtRow, OnRow, TypeOK, RowOK
      <4>2. /\ UNCHANGED <<source, opts, selected>> /\ completed \subseteq completed'
            /\ failed \subseteq failed' /\ invalid \subseteq invalid'
        BY <1>13 DEF SkipUnchanged, DropFailed, DropInvalid, NextRow, Goto, Abort
      <4> QED  BY <3>1, <3>3, <4>1, <4>2, StillBehind
    <3> QED  BY <3>2, <3>3
  <2> QED  BY <1>0, <2>1, <2>2
<1>14. CASE LogCompleted
  <2>1. LoadsIfAsked' /\ Verdict'
    BY <1>14 DEF LogCompleted, DropFailed, DropInvalid, NextRow, Goto, Abort, LoadsIfAsked,
       Verdict, Ended
  <2>2. RowsBehind'
    <3>1. \/ pc' = "idle"
          \/ row' = row
          \/ row' = row + 1 /\ \A r \in Rows : r = row /\ ~opts.validate => DealtWith(r)'
      BY <1>14 DEF LogCompleted, DropFailed, DropInvalid, NextRow, Goto, Abort, DealtWith,
         Item
    <3>2. CASE pc' = "idle"
      BY <3>2 DEF RowsBehind, OnRow
    <3>3. CASE pc' # "idle"
      <4>1. pc \in OnRow \cup {"row"} /\ row \in Nat
        BY <1>14 DEF LogCompleted, AtRow, OnRow, TypeOK, RowOK
      <4>2. /\ UNCHANGED <<source, opts, selected>> /\ completed \subseteq completed'
            /\ failed \subseteq failed' /\ invalid \subseteq invalid'
        BY <1>14 DEF LogCompleted, DropFailed, DropInvalid, NextRow, Goto, Abort
      <4> QED  BY <3>1, <3>3, <4>1, <4>2, StillBehind
    <3> QED  BY <3>2, <3>3
  <2> QED  BY <1>0, <2>1, <2>2
<1>15. CASE Finish
  <2>1. RowsBehind' /\ LoadsIfAsked'
    BY <1>15 DEF Finish, RowsBehind, LoadsIfAsked, OnRow
  <2>2. Verdict'
    <3>1. SUFFICES ASSUME Ended' PROVE Verdict'
      BY DEF Verdict
    <3>2. ~opts.validate
      BY <1>15, <3>1 DEF Finish, FinalState, Ended
    <3>3. \A r \in Rows : r < row
      <4>1. source \in Files /\ row \in Nat
        BY <1>15 DEF Finish, TypeOK, RowOK
      <4>2. Total \in Nat
        BY <4>1, ImportAssumption DEF Total
      <4>3. opts.limit \in Nat
        BY ImportAssumption DEF TypeOK, RunOK, Options
      <4> QED  BY <1>15, <4>1, <4>2, <4>3 DEF Finish, AtRow, Rows
    <3>4. EndedRunAccounts'
      BY <1>15, <3>2, <3>3 DEF Finish, RowsBehind, EndedRunAccounts, Rows, Total, DealtWith
    <3>5. outcome' = "import_complete" => (Cardinality(completed) = Total)'
      BY <1>15, <3>2 DEF Finish, FinalState, Total
    <3>6. source' \in Files
      BY <1>15 DEF Finish, TypeOK, RowOK
    <3> QED  BY <1>15, <3>4, <3>5, <3>6 DEF Finish, Verdict
  <2> QED  BY <1>0, <2>1, <2>2
<1>16. CASE Crash
  BY <1>0, <1>16 DEF Crash, RowsBehind, LoadsIfAsked, Verdict, Ended, OnRow
<1>17. CASE UNCHANGED vars
  BY <1>0, <1>17 DEF vars, RowsBehind, LoadsIfAsked, Verdict, Ended, Rows, Total, DealtWith,
     EndedRunAccounts
<1> QED
  BY <1>1, <1>2, <1>3, <1>4, <1>5, <1>6, <1>7, <1>8, <1>9, <1>10, <1>11, <1>12, <1>13,
     <1>14, <1>15, <1>16, <1>17 DEF Next, Step

LEMMA RunCorrect == Spec => []RunInv
<1>1. Init => RunInv
  BY ImportInit DEF Init, ImportInv, RunInv, RowsBehind, LoadsIfAsked, Verdict, Ended, OnRow
<1> QED  BY <1>1, RunStep, PTL DEF Spec

(* A run that reports import_complete or import_incomplete has dealt with  *)
(* each row it selected.                                                   *)
THEOREM NoRowForgotten == Spec => []EndedRunAccounts
<1>1. RunInv => EndedRunAccounts
  BY DEF RunInv, Verdict, Ended, EndedRunAccounts
<1> QED  BY <1>1, RunCorrect, PTL

(* The number of items in a file is at most the number of its rows. *)
LEMMA ListedIsSmall ==
  ASSUME source \in Seq(Ids)
  PROVE  IsFiniteSet(Listed) /\ Cardinality(Listed) <= Total
<1>1. IsFiniteSet(1..Total) /\ Cardinality(1..Total) = Total
  <2>1. Total \in Nat
    BY DEF Total
  <2> QED  BY <2>1, FS_Interval
<1> DEFINE f == [k \in 1..Total |-> source[k]]
<1>2. f \in Surjection(1..Total, Listed)
  BY DEF Surjection, Listed
<1> HIDE DEF f
<1> QED  BY <1>1, <1>2, FS_Surjection

(* The comparison of two numbers is enough: import_complete means that all *)
(* items of the file are in the completed log.                             *)
THEOREM CompleteIsComplete == Spec => []CompleteMeansAll
<1>1. RunInv => CompleteMeansAll
  <2> SUFFICES ASSUME RunInv, outcome = "import_complete", completed \subseteq Listed
               PROVE  Listed \subseteq completed
    BY DEF CompleteMeansAll
  <2>1. Cardinality(completed) = Total
    BY DEF RunInv, Verdict, Ended
  <2>2. source \in Seq(Ids)
    BY ImportAssumption DEF RunInv, Verdict, Ended
  <2>3. IsFiniteSet(Listed) /\ Cardinality(Listed) <= Total /\ Total \in Nat
    BY <2>2, ListedIsSmall DEF Total
  <2>4. completed = Listed
    BY <2>1, <2>3, FS_Subset, FS_CardinalityType
  <2> QED  BY <2>4
<1> QED  BY <1>1, RunCorrect, PTL

(* Validating never changes the repository or the completed log. *)
THEOREM ValidationWritesNothing == Spec => ValidationIsReadOnly
<1> DEFINE ReadOnly == opts.validate /\ pc # "idle" => UNCHANGED <<repo, completed>>
<1>1. RunInv /\ [Next]_vars => [ReadOnly]_vars
  <2> SUFFICES ASSUME RunInv, Next, opts.validate, pc # "idle"
               PROVE  UNCHANGED <<repo, completed>>
    OBVIOUS
  <2>1. pc \notin {"load", "publish", "log"}
    BY DEF RunInv, LoadsIfAsked
  <2> QED
    BY <2>1 DEF Next, Step, NewJob, Resume, Begin, SaveConfig, StoreOpen, StoreWrite,
       OpenSource, TakeRow, ReadItem, Validate, CreateItem, UpdateItem, PublishItem,
       SkipUnchanged, LogCompleted, Finish, Crash, job
<1> QED  BY <1>1, RunCorrect, PTL DEF Spec, ValidationIsReadOnly

(* The completed log lists only what was loaded, and nothing was loaded    *)
(* more often than the faults explain.                                     *)
THEOREM LogAndRepositoryAgree == Spec => []LogMatchesRepository
<1>1. CompletedIsLoaded /\ DuplicatesBounded => LogMatchesRepository
  BY DEF LogMatchesRepository
<1> QED  BY <1>1, CompletedLogIsTrue, DuplicatesNeedFaults, PTL

(* What a run reports of itself by comparing two counts is true, for every *)
(* file and every history of earlier runs of the job.                      *)
THEOREM VerdictHolds == Spec => []VerdictIsTrue
<1>1. EndedRunAccounts /\ CompleteMeansAll => VerdictIsTrue
  BY DEF VerdictIsTrue
<1> QED  BY <1>1, NoRowForgotten, CompleteIsComplete, PTL
=============================================================================
