-------------------------- MODULE PublicationProofs --------------------------
(***************************************************************************)
(* Proofs about Publication, for any items, jobs, handles and lists.       *)
(***************************************************************************)
EXTENDS Publication, TLAPS

(* The other jobs do not move. *)
Frame(j) ==
  \A k \in Jobs \ {j} :
    /\ pc'[k] = pc[k] /\ pos'[k] = pos[k] /\ base'[k] = base[k] /\ hdl'[k] = hdl[k]
    /\ done'[k] = done[k] /\ outcome'[k] = outcome[k] /\ ask'[k] = ask[k]

(* What a step may do to the progress of the jobs, whatever it is. *)
ProgressTypes ==
  /\ pc \in [Jobs -> Stages] /\ pos \in [Jobs -> Nat]
  /\ base \in [Jobs -> Descriptions] /\ hdl \in [Jobs -> Handles \cup {NoHandle}]
  /\ done \in [Jobs -> Nat] /\ outcome \in [Jobs -> Outcomes]

(* Job j has ended or goes to its next item. *)
Over(j) == Fails(j) \/ Aborts(j) \/ Counts(j)

(* The item of a job that reads or is busy is one of the items. *)
LEMMA ItemType ==
  ASSUME TypeOK, NEW j \in Jobs, pc[j] # "idle", pos[j] <= Len(ListOf[j])
  PROVE  Item(j) \in Items /\ pos[j] \in 1..Len(ListOf[j])
<1>1. pos[j] \in Nat /\ pos[j] >= 1
  BY DEF TypeOK
<1>2. ListOf[j] \in Seq(Items)
  BY PublicationAssumption
<1> QED  BY <1>1, <1>2 DEF Item

(* A busy job has an item. *)
LEMMA BusyItem ==
  ASSUME TypeOK, NEW j \in Jobs, pc[j] \notin {"idle", "read"}
  PROVE  Item(j) \in Items /\ pos[j] \in 1..Len(ListOf[j])
BY ItemType DEF TypeOK

(* Going on with an item. *)
LEMMA Moved ==
  ASSUME TypeOK, NEW j \in Jobs, NEW s \in Stages, Goto(j, s), UNCHANGED <<base, ask>>,
         hdl' \in [Jobs -> Handles \cup {NoHandle}],
         \A k \in Jobs \ {j} : hdl'[k] = hdl[k]
  PROVE  /\ ProgressTypes' /\ Frame(j)
         /\ pc'[j] = s /\ pos'[j] = pos[j] /\ done'[j] = done[j] /\ outcome'[j] = outcome[j]
BY DEF Goto, TypeOK, ProgressTypes, Frame

(* Leaving an item: job j holds no item then, and the place in its list    *)
(* moves up, if it moves, by one.                                          *)
LEMMA Left ==
  ASSUME TypeOK, NEW j \in Jobs, Over(j), UNCHANGED ask
  PROVE  /\ ProgressTypes' /\ Frame(j)
         /\ pc'[j] \in {"idle", "read"} /\ (pc'[j] = "read" => pos'[j] = pos[j] + 1)
         /\ Aborts(j) => pc'[j] = "idle"
         /\ Fails(j) \/ Aborts(j) => done'[j] = done[j]
         /\ Counts(j) => done'[j] = done[j] + 1
         /\ outcome'[j] \in {outcome[j], "failed", "aborted"}
<1>a. Aborts(j) => pc'[j] = "idle"
  BY DEF Aborts, TypeOK
<1>b. Fails(j) \/ Aborts(j) => done'[j] = done[j]
  BY DEF Fails, Aborts
<1>0. pc \in [Jobs -> Stages] /\ pos \in [Jobs -> Nat] /\ done \in [Jobs -> Nat]
      /\ outcome \in [Jobs -> Outcomes]
  BY DEF TypeOK
<1>1. /\ base' \in [Jobs -> Descriptions] /\ hdl' \in [Jobs -> Handles \cup {NoHandle}]
      /\ \A k \in Jobs \ {j} : base'[k] = base[k] /\ hdl'[k] = hdl[k]
  <2>1. Forget(j)
    BY DEF Over, Fails, Aborts, Counts
  <2>2. Unread \in Descriptions
    BY DEF Unread, Descriptions
  <2>3. base \in [Jobs -> Descriptions] /\ hdl \in [Jobs -> Handles \cup {NoHandle}]
    BY DEF TypeOK
  <2> QED  BY <2>1, <2>2, <2>3 DEF Forget
<1>2. CASE Fails(j)
  BY <1>a, <1>b, <1>0, <1>1, <1>2 DEF Fails, Counts, ProgressTypes, Frame, Stages, Outcomes
<1>3. CASE Aborts(j)
  BY <1>a, <1>b, <1>0, <1>1, <1>3 DEF Aborts, Counts, ProgressTypes, Frame, Stages, Outcomes
<1>4. CASE Counts(j)
  BY <1>a, <1>b, <1>0, <1>1, <1>4 DEF Counts, ProgressTypes, Frame, Stages, Outcomes
<1> QED  BY <1>2, <1>3, <1>4 DEF Over

(* The end of a list: the job ends and holds no item. *)
LEMMA Finished ==
  ASSUME TypeOK, NEW j \in Jobs, Finish(j)
  PROVE  /\ ProgressTypes' /\ Frame(j) /\ pc'[j] = "idle" /\ UNCHANGED <<ask, done>>
         /\ outcome'[j] \in {"incomplete", "complete"}
         /\ outcome'[j] = "complete" => done[j] >= Len(ListOf[j])
<1>1. pc \in [Jobs -> Stages] /\ outcome \in [Jobs -> Outcomes] /\ done[j] \in Nat
      /\ Len(ListOf[j]) \in Nat
  BY PublicationAssumption DEF TypeOK
<1>2. outcome'[j] = IF done[j] < Len(ListOf[j]) THEN "incomplete" ELSE "complete"
  BY <1>1 DEF Finish
<1>3. ProgressTypes'
  BY <1>1 DEF Finish, TypeOK, ProgressTypes, Stages, Outcomes
<1> QED  BY <1>1, <1>2, <1>3 DEF Finish, Frame

(* The start of a run. *)
LEMMA Begun ==
  ASSUME TypeOK, NEW j \in Jobs, NEW a \in Asks, Begin(j, a)
  PROVE  /\ ProgressTypes' /\ Frame(j) /\ pc'[j] = "read" /\ pos'[j] = 1 /\ done'[j] = 0
         /\ outcome'[j] = "running" /\ ask'[j] = a /\ ask' \in [Jobs -> Asks]
BY DEF Begin, TypeOK, ProgressTypes, Frame, Stages, Outcomes

(* Every step is a step of one job. *)
LEMMA NextCases ==
  ASSUME [Next]_vars
  PROVE  \/ UNCHANGED vars
         \/ \E j \in Jobs :
              \/ \E a \in Asks : Begin(j, a)
              \/ Read(j) \/ ReadFails(j) \/ Info(j) \/ Retarget(j) \/ Find(j) \/ Mint(j)
              \/ Patch(j) \/ Finish(j) \/ Crash(j)
BY DEF Next, Step

(* What the steps with an item in hand do to the progress of the jobs:     *)
(* they leave the item, or go to a stage in which they still hold it.      *)
LEMMA ReadMoves ==
  ASSUME TypeOK, NEW j \in Jobs, Read(j)
  PROVE  LET i == Item(j) IN
         /\ ProgressTypes' /\ Frame(j)
         /\ pc[j] = "read" /\ pos[j] <= Len(ListOf[j]) /\ pos'[j] = pos[j]
         /\ done'[j] = done[j] /\ outcome'[j] = outcome[j]
         /\ base'[j] = [types |-> types[i], handles |-> handles[i]]
         /\ \/ pc'[j] = "patch" /\ ask[j].action = "unpublish" /\ hdl'[j] = NoHandle
            \/ pc'[j] = "info" /\ hdl'[j] \in handles[i]
            \/ pc'[j] = "find" /\ hdl'[j] = NoHandle
<1> DEFINE i == Item(j)
<1>1. pc[j] = "read" /\ pos[j] <= Len(ListOf[j])
  BY DEF Read
<1>2. i \in Items
  BY <1>1, ItemType
<1>3. types[i] \in SUBSET Classes /\ handles[i] \in SUBSET Handles
  BY <1>2 DEF TypeOK
<1>4. /\ base' = [base EXCEPT ![j] = [types |-> types[i], handles |-> handles[i]]]
      /\ base \in [Jobs -> Descriptions] /\ hdl \in [Jobs -> Handles \cup {NoHandle}]
      /\ UNCHANGED ask
  BY DEF Read, TypeOK
<1>5. /\ base' \in [Jobs -> Descriptions]
      /\ base'[j] = [types |-> types[i], handles |-> handles[i]]
      /\ \A k \in Jobs \ {j} : base'[k] = base[k]
  BY <1>3, <1>4 DEF Descriptions
<1>6. PICK s \in {"patch", "info", "find"}, h \in Handles \cup {NoHandle} :
        /\ Goto(j, s) /\ hdl' = [hdl EXCEPT ![j] = h]
        /\ \/ s = "patch" /\ ask[j].action = "unpublish" /\ h = NoHandle
           \/ s = "info" /\ h \in handles[i]
           \/ s = "find" /\ h = NoHandle
  <2>1. CASE ask[j].action = "unpublish" /\ Goto(j, "patch") /\ hdl' = [hdl EXCEPT ![j] = NoHandle]
    BY <2>1
  <2>2. CASE /\ \E h \in handles[i] : hdl' = [hdl EXCEPT ![j] = h]
             /\ Goto(j, "info")
    BY <1>3, <2>2
  <2>3. CASE Goto(j, "find") /\ hdl' = [hdl EXCEPT ![j] = NoHandle]
    BY <2>3
  <2> QED  BY <2>1, <2>2, <2>3 DEF Read
<1>7. hdl' \in [Jobs -> Handles \cup {NoHandle}] /\ hdl'[j] = h
      /\ \A k \in Jobs \ {j} : hdl'[k] = hdl[k]
  BY <1>4, <1>6
<1>8. pc' = [pc EXCEPT ![j] = s] /\ UNCHANGED <<pos, done, outcome>>
      /\ pc \in [Jobs -> Stages] /\ s \in Stages
  BY <1>6 DEF Goto, TypeOK, Stages
<1>9. ProgressTypes' /\ Frame(j) /\ pc'[j] = s
  BY <1>4, <1>5, <1>7, <1>8 DEF ProgressTypes, Frame, TypeOK
<1> QED  BY <1>1, <1>5, <1>6, <1>7, <1>8, <1>9

(* Job j stays with its item, in stage s and with handle h. *)
Stays(j, s, h) ==
  /\ pc[j] \notin {"idle", "read"} /\ pc'[j] = s /\ pos'[j] = pos[j] /\ base'[j] = base[j]
  /\ hdl'[j] = h /\ done'[j] = done[j] /\ outcome'[j] = outcome[j]

LEMMA InfoMoves ==
  ASSUME TypeOK, NEW j \in Jobs, Info(j)
  PROVE  /\ ProgressTypes' /\ Frame(j) /\ UNCHANGED <<repo, service, ask>>
         /\ \/ Fails(j) \/ Aborts(j)
            \/ hdl[j] # NoHandle /\ \E s \in {"patch", "retarget"} : Stays(j, s, hdl[j])
<1>1. pc[j] = "info" /\ UNCHANGED <<repo, service, ask>> /\ hdl[j] # NoHandle
  BY DEF Info, TypeOK
<1>2. CASE Fails(j) \/ Aborts(j)
  BY <1>1, <1>2, Left DEF Over
<1>3. ASSUME NEW s \in {"patch", "retarget"}, Keep, Goto(j, s)
      PROVE  ProgressTypes' /\ Frame(j) /\ Stays(j, s, hdl[j])
  <2>1. hdl \in [Jobs -> Handles \cup {NoHandle}] /\ UNCHANGED <<base, hdl, ask>>
    BY <1>1, <1>3 DEF TypeOK, Keep
  <2>2. s \in Stages
    BY DEF Stages
  <2> QED  BY <1>1, <1>3, <2>1, <2>2, Moved DEF Stays
<1>4. \/ Fails(j) \/ Aborts(j)
      \/ Keep /\ \E s \in {"patch", "retarget"} : Goto(j, s)
  BY DEF Info
<1> QED  BY <1>1, <1>2, <1>3, <1>4

LEMMA RetargetMoves ==
  ASSUME TypeOK, NEW j \in Jobs, Retarget(j)
  PROVE  /\ ProgressTypes' /\ Frame(j) /\ UNCHANGED <<repo, issued, minter, ask>>
         /\ Aborts(j) \/ (hdl[j] # NoHandle /\ Stays(j, "patch", hdl[j]))
         /\ pc[j] = "retarget" /\ hdl[j] \in Handles
         /\ Register(hdl[j], Item(j)) \/ UNCHANGED <<entry, current>>
<1>1. pc[j] = "retarget" /\ UNCHANGED <<repo, issued, minter, ask>> /\ hdl[j] # NoHandle
      /\ hdl[j] \in Handles
  BY DEF Retarget, TypeOK
<1>2. CASE Aborts(j)
  BY <1>1, <1>2, Left DEF Over, Retarget
<1>3. CASE Keep /\ Goto(j, "patch")
  <2>1. hdl \in [Jobs -> Handles \cup {NoHandle}] /\ UNCHANGED <<base, hdl, ask>>
    BY <1>1, <1>3 DEF TypeOK, Keep
  <2>2. "patch" \in Stages
    BY DEF Stages
  <2>3. ProgressTypes' /\ Frame(j) /\ Stays(j, "patch", hdl[j])
    BY <1>1, <1>3, <2>1, <2>2, Moved DEF Stays
  <2> QED  BY <1>1, <2>3 DEF Retarget
<1> QED  BY <1>2, <1>3 DEF Retarget

LEMMA FindMoves ==
  ASSUME TypeOK, NEW j \in Jobs, Find(j)
  PROVE  /\ ProgressTypes' /\ Frame(j) /\ UNCHANGED <<repo, service, ask>>
         /\ \/ Aborts(j)
            \/ \E h \in Handles : entry[h] = Item(j) /\ Stays(j, "patch", h)
            \/ (\A h \in Handles : entry[h] # Item(j)) /\ Stays(j, "mint", hdl[j])
<1>1. pc[j] = "find" /\ UNCHANGED <<repo, service, ask>>
      /\ hdl \in [Jobs -> Handles \cup {NoHandle}]
  BY DEF Find, TypeOK
<1>2. CASE Aborts(j)
  BY <1>1, <1>2, Left DEF Over
<1>3. ASSUME NEW h \in Handles, entry[h] = Item(j), hdl' = [hdl EXCEPT ![j] = h],
             Goto(j, "patch"), UNCHANGED base
      PROVE  ProgressTypes' /\ Frame(j) /\ Stays(j, "patch", h)
  <2>1. hdl' \in [Jobs -> Handles \cup {NoHandle}] /\ hdl'[j] = h
        /\ \A k \in Jobs \ {j} : hdl'[k] = hdl[k]
    BY <1>1, <1>3
  <2>2. "patch" \in Stages
    BY DEF Stages
  <2> QED  BY <1>1, <1>3, <2>1, <2>2, Moved DEF Stays
<1>4. ASSUME Goto(j, "mint"), Keep
      PROVE  ProgressTypes' /\ Frame(j) /\ Stays(j, "mint", hdl[j])
  <2>1. UNCHANGED <<base, hdl, ask>> /\ "mint" \in Stages
    BY <1>1, <1>4 DEF Keep, Stages
  <2> QED  BY <1>1, <1>4, <2>1, Moved DEF Stays
<1> QED  BY <1>1, <1>2, <1>3, <1>4 DEF Find

LEMMA MintMoves ==
  ASSUME TypeOK, NEW j \in Jobs, Mint(j)
  PROVE  /\ ProgressTypes' /\ Frame(j) /\ UNCHANGED <<repo, ask>> /\ pc[j] = "mint"
         /\ \/ (Fails(j) \/ Aborts(j)) /\ UNCHANGED service
            \/ \E h \in Handles : Issue(j, h) /\ (Aborts(j) \/ Stays(j, "patch", h))
<1>1. pc[j] = "mint" /\ UNCHANGED <<repo, ask>> /\ hdl \in [Jobs -> Handles \cup {NoHandle}]
  BY DEF Mint, TypeOK
<1>2. CASE (Fails(j) \/ Aborts(j)) /\ UNCHANGED service
  BY <1>1, <1>2, Left DEF Over
<1>3. ASSUME NEW h \in Handles, Issue(j, h), Aborts(j)
      PROVE  ProgressTypes' /\ Frame(j)
  BY <1>1, <1>3, Left DEF Over
<1>4. ASSUME NEW h \in Handles, Issue(j, h), hdl' = [hdl EXCEPT ![j] = h],
             Goto(j, "patch"), UNCHANGED base
      PROVE  ProgressTypes' /\ Frame(j) /\ Stays(j, "patch", h)
  <2>1. hdl' \in [Jobs -> Handles \cup {NoHandle}] /\ hdl'[j] = h
        /\ \A k \in Jobs \ {j} : hdl'[k] = hdl[k]
    BY <1>1, <1>4
  <2>2. "patch" \in Stages
    BY DEF Stages
  <2> QED  BY <1>1, <1>4, <2>1, <2>2, Moved DEF Stays
<1> QED  BY <1>1, <1>2, <1>3, <1>4 DEF Mint

LEMMA PatchMoves ==
  ASSUME TypeOK, NEW j \in Jobs, Patch(j)
  PROVE  /\ ProgressTypes' /\ Frame(j) /\ UNCHANGED <<service, ask>> /\ pc[j] = "patch"
         /\ \/ Counts(j) /\ Apply(j)
            \/ (Fails(j) \/ Aborts(j)) /\ (Apply(j) \/ UNCHANGED repo)
<1>1. pc[j] = "patch" /\ UNCHANGED <<service, ask>> /\ Over(j)
  BY DEF Patch, Over
<1>2. ProgressTypes' /\ Frame(j)
  BY <1>1, Left
<1> QED  BY <1>1, <1>2 DEF Patch

LEMMA StopMoves ==
  ASSUME TypeOK, NEW j \in Jobs, ReadFails(j) \/ Crash(j)
  PROVE  /\ ProgressTypes' /\ Frame(j) /\ UNCHANGED <<repo, service, ask>>
         /\ Fails(j) \/ Aborts(j)
<1>1. UNCHANGED <<repo, service, ask>> /\ (Fails(j) \/ Aborts(j))
  BY DEF ReadFails, Crash
<1> QED  BY <1>1, Left DEF Over

-----------------------------------------------------------------------------
(* What a PATCH does to the description of the item, and to no other. *)
LEMMA Applied ==
  ASSUME TypeOK, NEW j \in Jobs, pc[j] = "patch", Apply(j)
  PROVE  LET i == Item(j) IN
         /\ i \in Items
         /\ types' \in [Items -> SUBSET Classes] /\ handles' \in [Items -> SUBSET Handles]
         /\ \A k \in Items \ {i} : types'[k] = types[k] /\ handles'[k] = handles[k]
         /\ types'[i] = Patched(types[i], base[j].types, WantedTypes(j))
         /\ handles'[i] = Patched(handles[i], base[j].handles, WantedHandles(j))
<1> DEFINE i == Item(j)
<1>1. i \in Items
  BY BusyItem
<1>2. base[j].types \subseteq Classes /\ base[j].handles \subseteq Handles
  BY DEF TypeOK, Descriptions
<1>3. hdl[j] \in Handles \/ ask[j].action # "publish"
  BY DEF TypeOK
<1>4. WantedTypes(j) \subseteq Classes
  BY <1>2 DEF WantedTypes, Forced, Classes
<1>5. WantedHandles(j) \subseteq Handles
  BY <1>2, <1>3 DEF WantedHandles
<1>6. types[i] \subseteq Classes /\ handles[i] \subseteq Handles
      /\ types \in [Items -> SUBSET Classes] /\ handles \in [Items -> SUBSET Handles]
  BY <1>1 DEF TypeOK
<1>7. /\ Patched(types[i], base[j].types, WantedTypes(j)) \in SUBSET Classes
      /\ Patched(handles[i], base[j].handles, WantedHandles(j)) \in SUBSET Handles
  BY <1>4, <1>5, <1>6 DEF Patched
<1> QED  BY <1>1, <1>6, <1>7 DEF Apply

(* The part of the type invariant that ties a job's stage to its place and *)
(* its handle.                                                             *)
PlaceOK(j) ==
  /\ pc[j] # "idle" => pos[j] >= 1
  /\ pc[j] \notin {"idle", "read"} => pos[j] <= Len(ListOf[j])
  /\ pc[j] = "patch" /\ ask[j].action = "publish" => hdl[j] # NoHandle
  /\ pc[j] \in {"info", "retarget"} => hdl[j] # NoHandle

LEMMA PlacesKept ==
  ASSUME TypeOK, NEW j \in Jobs, Frame(j), PlaceOK(j)'
  PROVE  \A k \in Jobs : PlaceOK(k)'
<1>1. ASSUME NEW k \in Jobs, k # j PROVE PlaceOK(k)'
  <2>1. PlaceOK(k)
    BY DEF TypeOK, PlaceOK
  <2>2. /\ pc'[k] = pc[k] /\ pos'[k] = pos[k] /\ hdl'[k] = hdl[k] /\ ask'[k] = ask[k]
    BY <1>1 DEF Frame
  <2> QED  BY <2>1, <2>2 DEF PlaceOK
<1> QED  BY <1>1

LEMMA LeftPlace ==
  ASSUME TypeOK, NEW j \in Jobs, Over(j), UNCHANGED ask
  PROVE  PlaceOK(j)'
<1>1. pos[j] \in Nat /\ pc'[j] \in {"idle", "read"} /\ (pc'[j] = "read" => pos'[j] = pos[j] + 1)
  BY Left DEF TypeOK
<1> QED  BY <1>1 DEF PlaceOK

LEMMA StaysPlace ==
  ASSUME TypeOK, NEW j \in Jobs, NEW s, NEW h, Stays(j, s, h), UNCHANGED ask,
         h # NoHandle \/ s \notin {"patch", "info", "retarget"}
  PROVE  PlaceOK(j)'
<1>1. pos[j] >= 1 /\ pos[j] <= Len(ListOf[j])
  BY DEF TypeOK, Stays
<1> QED  BY <1>1 DEF Stays, PlaceOK

(* The handle service after a registration. *)
LEMMA Registered ==
  ASSUME TypeOK, NEW h \in Handles, NEW i \in Items, Register(h, i)
  PROVE  /\ entry' \in [Handles -> Items \cup {NoItem, Elsewhere}] /\ current' \subseteq Handles
         /\ entry'[h] = i /\ \A g \in Handles \ {h} : entry'[g] = entry[g]
BY DEF TypeOK, Register

(* A handle of the handle service that is issued to job j for its item. *)
LEMMA Issued ==
  ASSUME TypeOK, NEW j \in Jobs, NEW h \in Handles, pc[j] = "mint", Issue(j, h)
  PROVE  /\ entry' \in [Handles -> Items \cup {NoItem, Elsewhere}] /\ current' \subseteq Handles
         /\ entry'[h] = Item(j) /\ \A g \in Handles \ {h} : entry'[g] = entry[g]
         /\ minter' \in [Handles -> Jobs \cup {NoHandle}]
         /\ minter'[h] = j /\ \A g \in Handles \ {h} : minter'[g] = minter[g]
         /\ h \notin issued /\ issued' = issued \cup {h}
<1>1. Item(j) \in Items
  BY BusyItem
<1>2. Register(h, Item(j))
  BY DEF Issue
<1>3. minter \in [Handles -> Jobs \cup {NoHandle}]
  BY DEF TypeOK
<1> QED  BY <1>1, <1>2, <1>3, Registered DEF Issue

(* The types of what the jobs share, and of the counters. *)
SharedTypes ==
  /\ types \in [Items -> SUBSET Classes] /\ handles \in [Items -> SUBSET Handles]
  /\ entry \in [Handles -> Items \cup {NoItem, Elsewhere}]
  /\ current \subseteq Handles /\ issued \subseteq Handles
  /\ minter \in [Handles -> Jobs \cup {NoHandle}]
  /\ ask \in [Jobs -> Asks]

Counters == runs \in 0..MaxRuns /\ asked \subseteq Actions /\ faults \in 0..MaxFaults

LEMMA CountersStep == TypeOK /\ [Next]_vars => Counters'
<1> SUFFICES ASSUME TypeOK, [Next]_vars PROVE Counters'
  OBVIOUS
<1>0. /\ runs \in 0..MaxRuns /\ asked \subseteq Actions /\ faults \in 0..MaxFaults
      /\ MaxRuns \in Nat /\ MaxFaults \in Nat /\ \A a \in Asks : a.action \in Actions
  BY PublicationAssumption DEF TypeOK
<1>1. Fault => faults' \in 0..MaxFaults
  BY <1>0 DEF Fault
<1>2. CASE UNCHANGED vars
  BY <1>0, <1>2 DEF vars, Counters
<1>3. ASSUME NEW j \in Jobs, NEW a \in Asks, Begin(j, a) PROVE Counters'
  BY <1>0, <1>3 DEF Begin, Counters
<1>4. ASSUME NEW j \in Jobs,
             \/ Read(j) \/ ReadFails(j) \/ Info(j) \/ Retarget(j) \/ Find(j) \/ Mint(j)
             \/ Patch(j) \/ Finish(j) \/ Crash(j)
      PROVE  UNCHANGED <<runs, asked>> /\ (UNCHANGED faults \/ Fault)
  BY <1>4 DEF Read, ReadFails, Info, Retarget, Find, Mint, Patch, Finish, Crash
<1> QED  BY <1>0, <1>1, <1>2, <1>3, <1>4, NextCases DEF Counters

(* Every step keeps the types. *)
LEMMA TypeStep == TypeOK /\ [Next]_vars => TypeOK'
<1> SUFFICES ASSUME TypeOK, [Next]_vars PROVE TypeOK'
  OBVIOUS
<1>0. SharedTypes
  BY DEF TypeOK, SharedTypes
<1>1. CASE UNCHANGED vars
  BY <1>1 DEF vars, repo, service, progress, TypeOK
<1>2. ASSUME NEW j \in Jobs,
             \/ \E a \in Asks : Begin(j, a)
             \/ Read(j) \/ ReadFails(j) \/ Info(j) \/ Retarget(j) \/ Find(j) \/ Mint(j)
             \/ Patch(j) \/ Finish(j) \/ Crash(j)
      PROVE  SharedTypes' /\ ProgressTypes' /\ Frame(j) /\ PlaceOK(j)'
  <2>1. ASSUME NEW a \in Asks, Begin(j, a)
        PROVE  SharedTypes' /\ ProgressTypes' /\ Frame(j) /\ PlaceOK(j)'
    <3>1. UNCHANGED <<repo, service>>
      BY <2>1 DEF Begin
    <3> QED  BY <1>0, <2>1, <3>1, Begun DEF SharedTypes, repo, service, PlaceOK
  <2>2. CASE Read(j)
    <3>1. UNCHANGED <<repo, service, ask>> /\ pos[j] >= 1 /\ NoHandle \notin handles[Item(j)]
      <4>1. Item(j) \in Items
        BY <2>2, ItemType DEF Read
      <4> QED  BY <2>2, <4>1, PublicationAssumption DEF Read, TypeOK
    <3>2. SharedTypes'
      BY <1>0, <3>1 DEF SharedTypes, repo, service
    <3>3. ProgressTypes' /\ Frame(j)
      BY <2>2, ReadMoves
    <3>4. PlaceOK(j)'
      BY <2>2, <3>1, ReadMoves DEF PlaceOK
    <3> QED  BY <3>2, <3>3, <3>4
  <2>3. CASE ReadFails(j) \/ Crash(j)
    <3>1. UNCHANGED <<repo, service, ask>> /\ Over(j) /\ ProgressTypes' /\ Frame(j)
      BY <2>3, StopMoves DEF Over
    <3> QED  BY <1>0, <3>1, LeftPlace DEF SharedTypes, repo, service
  <2>4. CASE Info(j)
    <3>1. UNCHANGED <<repo, service, ask>> /\ ProgressTypes' /\ Frame(j)
      BY <2>4, InfoMoves
    <3>2. PlaceOK(j)'
      BY <2>4, <3>1, InfoMoves, LeftPlace, StaysPlace DEF Over
    <3> QED  BY <1>0, <3>1, <3>2 DEF SharedTypes, repo, service
  <2>5. CASE Retarget(j)
    <3>1. UNCHANGED <<repo, issued, minter, ask>> /\ ProgressTypes' /\ Frame(j)
      BY <2>5, RetargetMoves
    <3>2. Item(j) \in Items /\ hdl[j] \in Handles
      BY <2>5, BusyItem, RetargetMoves
    <3>3. entry' \in [Handles -> Items \cup {NoItem, Elsewhere}] /\ current' \subseteq Handles
      BY <1>0, <2>5, <3>2, Registered, RetargetMoves DEF SharedTypes
    <3>4. PlaceOK(j)'
      BY <2>5, <3>1, RetargetMoves, LeftPlace, StaysPlace DEF Over
    <3> QED  BY <1>0, <3>1, <3>3, <3>4 DEF SharedTypes, repo
  <2>6. CASE Find(j)
    <3>1. UNCHANGED <<repo, service, ask>> /\ ProgressTypes' /\ Frame(j)
      BY <2>6, FindMoves
    <3>2. PlaceOK(j)'
      <4>1. NoHandle \notin Handles
        BY PublicationAssumption
      <4> QED  BY <2>6, <3>1, <4>1, FindMoves, LeftPlace, StaysPlace DEF Over
    <3> QED  BY <1>0, <3>1, <3>2 DEF SharedTypes, repo, service
  <2>7. CASE Mint(j)
    <3>1. UNCHANGED <<repo, ask>> /\ ProgressTypes' /\ Frame(j) /\ pc[j] = "mint"
      BY <2>7, MintMoves
    <3>2. /\ entry' \in [Handles -> Items \cup {NoItem, Elsewhere}] /\ current' \subseteq Handles
          /\ minter' \in [Handles -> Jobs \cup {NoHandle}] /\ issued' \subseteq Handles
      BY <1>0, <2>7, <3>1, MintMoves, Issued DEF SharedTypes, service
    <3>3. PlaceOK(j)'
      <4>1. NoHandle \notin Handles
        BY PublicationAssumption
      <4> QED  BY <2>7, <3>1, <4>1, MintMoves, LeftPlace, StaysPlace DEF Over
    <3> QED  BY <1>0, <3>1, <3>2, <3>3 DEF SharedTypes, repo
  <2>8. CASE Patch(j)
    <3>1. UNCHANGED <<service, ask>> /\ ProgressTypes' /\ Frame(j) /\ pc[j] = "patch" /\ Over(j)
      BY <2>8, PatchMoves DEF Over
    <3>2. types' \in [Items -> SUBSET Classes] /\ handles' \in [Items -> SUBSET Handles]
      BY <1>0, <2>8, <3>1, PatchMoves, Applied DEF SharedTypes, repo
    <3> QED  BY <1>0, <3>1, <3>2, LeftPlace DEF SharedTypes, service
  <2>9. CASE Finish(j)
    <3>1. UNCHANGED <<repo, service, ask>> /\ ProgressTypes' /\ Frame(j) /\ pc'[j] = "idle"
      BY <2>9, Finished DEF Finish
    <3> QED  BY <1>0, <3>1 DEF SharedTypes, repo, service, PlaceOK
  <2> QED  BY <1>2, <2>1, <2>2, <2>3, <2>4, <2>5, <2>6, <2>7, <2>8, <2>9
<1>3. ASSUME NEW j \in Jobs, SharedTypes', ProgressTypes', Frame(j), PlaceOK(j)'
      PROVE  TypeOK'
  <2>1. \A k \in Jobs : PlaceOK(k)'
    BY <1>3, PlacesKept
  <2>2. Counters'
    BY CountersStep
  <2> QED  BY <1>3, <2>1, <2>2 DEF TypeOK, SharedTypes, ProgressTypes, PlaceOK, Counters
<1> QED  BY <1>1, <1>2, <1>3, NextCases

-----------------------------------------------------------------------------
(* Claims grow only when a handle is minted.  A step of job j adds no      *)
(* claim on h and i unless it adds it to a description, to the handle      *)
(* service or to what j holds.                                             *)
LEMMA ClaimsKept ==
  ASSUME NEW j \in Jobs, Frame(j), NEW h \in Handles, NEW i \in Items,
         h \in handles'[i] => Claimed(h, i),
         entry'[h] = i => Claimed(h, i),
         Busy(j, i)' /\ (h \in base'[j].handles \/ hdl'[j] = h) => Claimed(h, i)
  PROVE  Claimed(h, i)' => Claimed(h, i)
<1>1. ASSUME NEW k \in Jobs, k # j, Busy(k, i)', h \in base'[k].handles \/ hdl'[k] = h
      PROVE  Claimed(h, i)
  BY <1>1 DEF Frame, Busy, Item, Claimed
<1> QED  BY <1>1 DEF Claimed

(* A job that leaves its item claims nothing any more. *)
LEMMA LeftClaims ==
  ASSUME TypeOK, NEW j \in Jobs, Over(j), UNCHANGED <<ask, repo>>, UNCHANGED entry
  PROVE  \A h \in Handles : \A i \in Items : Claimed(h, i)' => Claimed(h, i)
<1> SUFFICES ASSUME NEW h \in Handles, NEW i \in Items
             PROVE  Claimed(h, i)' => Claimed(h, i)
  OBVIOUS
<1>1. Frame(j) /\ ~Busy(j, i)'
  BY Left DEF Busy
<1>2. handles'[i] = handles[i] /\ entry' = entry
  BY DEF repo
<1> QED  BY <1>1, <1>2, ClaimsKept DEF Claimed

(* A job that stays with its item claims nothing new, if its handle was    *)
(* claimed before.                                                         *)
LEMMA StaysClaims ==
  ASSUME TypeOK, NEW j \in Jobs, Frame(j), NEW s, NEW g, Stays(j, s, g),
         NEW h \in Handles, NEW i \in Items,
         h \in handles'[i] => Claimed(h, i), entry'[h] = i => Claimed(h, i),
         h = g /\ i = Item(j) => Claimed(h, i)
  PROVE  Claimed(h, i)' => Claimed(h, i)
<1>1. ASSUME Busy(j, i)', h \in base'[j].handles \/ hdl'[j] = h PROVE Claimed(h, i)
  <2>1. Item(j) = i /\ Busy(j, i)
    BY <1>1 DEF Busy, Item, Stays
  <2>2. CASE h \in base'[j].handles
    BY <2>1, <2>2 DEF Stays, Claimed
  <2>3. CASE hdl'[j] = h
    BY <2>1, <2>3 DEF Stays
  <2> QED  BY <1>1, <2>2, <2>3
<1> QED  BY <1>1, ClaimsKept

(* The handle a busy job holds is claimed by its item. *)
LEMMA HeldIsClaimed ==
  ASSUME NEW j \in Jobs, pc[j] \notin {"idle", "read"}
  PROVE  Claimed(hdl[j], Item(j)) /\ \A h \in base[j].handles : Claimed(h, Item(j))
BY DEF Claimed, Busy

(* No step but minting makes a claim. *)
LEMMA NoNewClaims ==
  ASSUME TypeOK, NEW j \in Jobs,
         \/ \E a \in Asks : Begin(j, a)
         \/ Read(j) \/ ReadFails(j) \/ Info(j) \/ Retarget(j) \/ Find(j)
         \/ Patch(j) \/ Finish(j) \/ Crash(j)
  PROVE  \A h \in Handles : \A i \in Items : Claimed(h, i)' => Claimed(h, i)
<1> SUFFICES ASSUME NEW h \in Handles, NEW i \in Items
             PROVE  Claimed(h, i)' => Claimed(h, i)
  OBVIOUS
<1>1. ASSUME NEW a \in Asks, Begin(j, a) PROVE Claimed(h, i)' => Claimed(h, i)
  <2>1. Frame(j) /\ ~Busy(j, i)' /\ handles' = handles /\ entry' = entry
    BY <1>1, Begun DEF Busy, Begin, repo, service
  <2> QED  BY <2>1, ClaimsKept DEF Claimed
<1>2. CASE Read(j)
  <2>1. Frame(j) /\ handles' = handles /\ entry' = entry /\ NoHandle \notin Handles
    BY <1>2, ReadMoves, PublicationAssumption DEF Read, repo, service
  <2>2. pos'[j] = pos[j] /\ base'[j].handles = handles[Item(j)]
    <3>1. pos'[j] = pos[j]
      BY <1>2, ReadMoves
    <3>2. base'[j] = [types |-> types[Item(j)], handles |-> handles[Item(j)]]
      BY <1>2, ReadMoves
    <3> QED  BY <3>1, <3>2
  <2>3. hdl'[j] = NoHandle \/ hdl'[j] \in handles[Item(j)]
    BY <1>2, ReadMoves
  <2>4. ASSUME Busy(j, i)', h \in base'[j].handles \/ hdl'[j] = h PROVE Claimed(h, i)
    BY <2>1, <2>2, <2>3, <2>4 DEF Busy, Item, Claimed
  <2> QED  BY <2>1, <2>4, ClaimsKept DEF Claimed
<1>3. CASE ReadFails(j) \/ Crash(j)
  BY <1>3, StopMoves, LeftClaims DEF Over, service
<1>4. CASE Info(j)
  <2>1. Frame(j) /\ handles' = handles /\ entry' = entry /\ UNCHANGED <<ask, repo>>
    BY <1>4, InfoMoves DEF repo, service
  <2>2. CASE Fails(j) \/ Aborts(j)
    BY <2>1, <2>2, LeftClaims DEF Over
  <2>3. ASSUME NEW s \in {"patch", "retarget"}, Stays(j, s, hdl[j])
        PROVE  Claimed(h, i)' => Claimed(h, i)
    <3>1. h = hdl[j] /\ i = Item(j) => Claimed(h, i)
      BY <2>3, HeldIsClaimed DEF Stays
    <3> QED  BY <2>1, <2>3, <3>1, StaysClaims DEF Claimed
  <2> QED  BY <1>4, <2>2, <2>3, InfoMoves
<1>5. CASE Retarget(j)
  <2>1. Frame(j) /\ handles' = handles /\ UNCHANGED <<ask, repo>> /\ pc[j] = "retarget"
        /\ hdl[j] \in Handles /\ Item(j) \in Items
    BY <1>5, RetargetMoves, BusyItem DEF repo
  <2>2. Claimed(hdl[j], Item(j))
    BY <2>1, HeldIsClaimed
  <2>3. entry'[h] = i => Claimed(h, i)
    BY <1>5, <2>1, <2>2, RetargetMoves, Registered DEF Claimed
  <2>4. CASE Aborts(j)
    <3>1. ~Busy(j, i)'
      BY <2>1, <2>4, Left DEF Over, Busy
    <3> QED  BY <2>1, <2>3, <3>1, ClaimsKept DEF Claimed
  <2>5. CASE Stays(j, "patch", hdl[j])
    BY <2>1, <2>2, <2>3, <2>5, StaysClaims DEF Claimed
  <2> QED  BY <1>5, <2>4, <2>5, RetargetMoves
<1>6. CASE Find(j)
  <2>1. Frame(j) /\ handles' = handles /\ entry' = entry /\ UNCHANGED <<ask, repo>>
    BY <1>6, FindMoves DEF repo, service
  <2>2. CASE Aborts(j)
    BY <2>1, <2>2, LeftClaims DEF Over
  <2>3. ASSUME NEW g \in Handles, entry[g] = Item(j), Stays(j, "patch", g)
        PROVE  Claimed(h, i)' => Claimed(h, i)
    BY <2>1, <2>3, StaysClaims DEF Claimed
  <2>4. CASE Stays(j, "mint", hdl[j])
    <3>1. h = hdl[j] /\ i = Item(j) => Claimed(h, i)
      BY <2>4, HeldIsClaimed DEF Stays
    <3> QED  BY <2>1, <2>4, <3>1, StaysClaims DEF Claimed
  <2> QED  BY <1>6, <2>2, <2>3, <2>4, FindMoves
<1>7. CASE Patch(j)
  <2>1. Frame(j) /\ entry' = entry /\ UNCHANGED ask /\ pc[j] = "patch" /\ Over(j) /\ ~Busy(j, i)'
    BY <1>7, PatchMoves, Left DEF service, Over, Busy
  <2>2. h \in handles'[i] => Claimed(h, i)
    <3>1. CASE Apply(j) /\ i = Item(j)
      <4>1. handles'[i] \subseteq handles[i] \cup WantedHandles(j)
        BY <2>1, <3>1, Applied DEF Patched
      <4>2. WantedHandles(j) \subseteq {hdl[j]} \cup base[j].handles
        BY DEF WantedHandles
      <4> QED  BY <2>1, <3>1, <4>1, <4>2, HeldIsClaimed DEF Claimed
    <3>2. CASE Apply(j) /\ i # Item(j)
      BY <2>1, <3>2, Applied DEF Claimed
    <3>3. CASE UNCHANGED repo
      BY <3>3 DEF repo, Claimed
    <3> QED  BY <1>7, <3>1, <3>2, <3>3, PatchMoves
  <2> QED  BY <2>1, <2>2, ClaimsKept DEF Claimed
<1>8. CASE Finish(j)
  <2>1. Frame(j) /\ ~Busy(j, i)' /\ handles' = handles /\ entry' = entry
    BY <1>8, Finished DEF Busy, Finish, repo, service
  <2> QED  BY <2>1, ClaimsKept DEF Claimed
<1> QED  BY <1>1, <1>2, <1>3, <1>4, <1>5, <1>6, <1>7, <1>8

(* A minted handle is claimed for the item it is minted for, and by none   *)
(* other; nothing else is claimed anew.                                    *)
LEMMA MintClaims ==
  ASSUME TypeOK, ClaimsAreUnique, NEW j \in Jobs, Mint(j)
  PROVE  \A h \in Handles : \A i \in Items : Claimed(h, i)' =>
           Claimed(h, i) \/ (h \notin issued /\ h \in issued' /\ i = Item(j))
<1> SUFFICES ASSUME NEW h \in Handles, NEW i \in Items, Claimed(h, i)', ~Claimed(h, i)
             PROVE  h \notin issued /\ h \in issued' /\ i = Item(j)
  OBVIOUS
<1>1. Frame(j) /\ handles' = handles /\ UNCHANGED <<ask, repo>> /\ pc[j] = "mint"
  BY MintMoves DEF repo
<1>2. ~ ((Fails(j) \/ Aborts(j)) /\ UNCHANGED service)
  BY <1>1, LeftClaims DEF Over, service
<1>3. PICK g \in Handles : Issue(j, g) /\ (Aborts(j) \/ Stays(j, "patch", g))
  BY <1>2, MintMoves
<1>4. /\ entry'[g] = Item(j) /\ \A e \in Handles \ {g} : entry'[e] = entry[e]
      /\ g \notin issued /\ issued' = issued \cup {g}
  BY <1>1, <1>3, Issued
<1>5. h = g /\ i = Item(j)
  <2>1. SUFFICES ASSUME ~(h = g /\ i = Item(j)) PROVE FALSE
    OBVIOUS
  <2>2. entry'[h] = i => Claimed(h, i)
    BY <1>4, <2>1 DEF Claimed
  <2>3. h \in handles'[i] => Claimed(h, i)
    BY <1>1 DEF Claimed
  <2>4. CASE Aborts(j)
    <3>1. ~Busy(j, i)'
      BY <1>1, <2>4, Left DEF Over, Busy
    <3> QED  BY <1>1, <2>2, <2>3, <3>1, ClaimsKept
  <2>5. CASE Stays(j, "patch", g)
    <3>1. h = g /\ i = Item(j) => Claimed(h, i)
      BY <2>1
    <3> QED  BY <1>1, <2>2, <2>3, <2>5, <3>1, StaysClaims
  <2> QED  BY <1>3, <2>4, <2>5
<1> QED  BY <1>4, <1>5

(* What is issued stays issued. *)
LEMMA IssuedGrows == TypeOK /\ [Next]_vars => issued \subseteq issued'
<1> SUFFICES ASSUME TypeOK, [Next]_vars PROVE issued \subseteq issued'
  OBVIOUS
<1>1. CASE UNCHANGED vars
  BY <1>1 DEF vars, service
<1>2. ASSUME NEW j \in Jobs, Mint(j) PROVE issued \subseteq issued'
  BY <1>2 DEF Mint, Issue, service
<1>3. ASSUME NEW j \in Jobs,
             \/ \E a \in Asks : Begin(j, a)
             \/ Read(j) \/ ReadFails(j) \/ Info(j) \/ Retarget(j) \/ Find(j)
             \/ Patch(j) \/ Finish(j) \/ Crash(j)
      PROVE  issued' = issued
  BY <1>3 DEF Begin, Read, ReadFails, Info, Retarget, Find, Patch, Finish, Crash, service
<1> QED  BY <1>1, <1>2, <1>3, NextCases

LEMMA ClaimsStep == TypeOK /\ ClaimsAreUnique /\ [Next]_vars => ClaimsAreUnique'
<1> SUFFICES ASSUME TypeOK, ClaimsAreUnique, [Next]_vars PROVE ClaimsAreUnique'
  OBVIOUS
<1>1. issued \subseteq issued'
  BY IssuedGrows
<1>2. CASE UNCHANGED vars
  BY <1>2 DEF vars, repo, service, progress, ClaimsAreUnique, Claimed, Busy, Item
<1>3. ASSUME \A h \in Handles : \A i \in Items : Claimed(h, i)' => Claimed(h, i)
      PROVE  ClaimsAreUnique'
  BY <1>1, <1>3 DEF ClaimsAreUnique
<1>4. ASSUME NEW j \in Jobs, Mint(j) PROVE ClaimsAreUnique'
  <2>1. ASSUME NEW h \in Handles, NEW i \in Items, Claimed(h, i)'
        PROVE  Claimed(h, i) \/ (h \notin issued /\ h \in issued' /\ i = Item(j))
    BY <1>4, <2>1, MintClaims
  <2>2. ASSUME NEW h \in Handles, NEW i \in Items, Claimed(h, i)',
               NEW k \in Items, Claimed(h, k)'
        PROVE  h \in issued' /\ k = i
    <3>1. CASE h \in issued
      BY <1>1, <2>1, <2>2, <3>1 DEF ClaimsAreUnique
    <3>2. CASE h \notin issued
      <4>1. ~Claimed(h, i) /\ ~Claimed(h, k)
        BY <3>2 DEF ClaimsAreUnique
      <4> QED  BY <2>1, <2>2, <4>1
    <3> QED  BY <3>1, <3>2
  <2> QED  BY <2>2 DEF ClaimsAreUnique
<1> QED  BY <1>2, <1>3, <1>4, NextCases, NoNewClaims

-----------------------------------------------------------------------------
(* A job is about to mint only if it was, or has just found no handle. *)
LEMMA MintStage ==
  ASSUME TypeOK, [Next]_vars, NEW m \in Jobs, pc'[m] = "mint"
  PROVE  /\ pos'[m] = pos[m]
         /\ \/ pc[m] = "mint"
            \/ UNCHANGED service /\ \A h \in Handles : entry[h] # Item(m)
<1>1. CASE UNCHANGED vars
  BY <1>1 DEF vars, progress
<1>2. ASSUME NEW j \in Jobs, j # m, Frame(j)
      PROVE  pos'[m] = pos[m] /\ pc[m] = "mint"
  BY <1>2 DEF Frame
<1>3. ASSUME NEW j \in Jobs,
             \/ \E a \in Asks : Begin(j, a)
             \/ Read(j) \/ ReadFails(j) \/ Info(j) \/ Retarget(j) \/ Mint(j)
             \/ Patch(j) \/ Finish(j) \/ Crash(j)
      PROVE  Frame(j) /\ pc'[j] # "mint"
  <2>1. Over(j) /\ UNCHANGED ask => pc'[j] # "mint"
    BY Left
  <2>2. CASE \E a \in Asks : Begin(j, a)
    BY <2>2, Begun
  <2>3. CASE Read(j) \/ Finish(j)
    BY <2>3, ReadMoves, Finished
  <2>4. CASE ReadFails(j) \/ Crash(j)
    BY <2>1, <2>4, StopMoves DEF Over
  <2>5. CASE Info(j)
    BY <2>1, <2>5, InfoMoves DEF Over, Stays
  <2>6. CASE Retarget(j)
    BY <2>1, <2>6, RetargetMoves DEF Over, Stays
  <2>7. CASE Mint(j)
    BY <2>1, <2>7, MintMoves DEF Over, Stays
  <2>8. CASE Patch(j)
    BY <2>1, <2>8, PatchMoves DEF Over
  <2> QED  BY <1>3, <2>2, <2>3, <2>4, <2>5, <2>6, <2>7, <2>8
<1>4. CASE Find(m)
  <2>1. Aborts(m) => pc'[m] # "mint"
    BY <1>4, Left, FindMoves DEF Over
  <2>2. (\A h \in Handles : entry[h] # Item(m)) /\ Stays(m, "mint", hdl[m])
    BY <1>4, <2>1, FindMoves DEF Stays
  <2> QED  BY <1>4, <2>2, FindMoves DEF Stays
<1>5. ASSUME NEW j \in Jobs, j # m, Find(j) PROVE pos'[m] = pos[m] /\ pc[m] = "mint"
  BY <1>2, <1>5, FindMoves
<1> QED  BY <1>1, <1>2, <1>3, <1>4, <1>5, NextCases

(* The registration of a minted handle does not change any more, since it  *)
(* is corrected only for the item it is registered for.                    *)
LEMMA MintedKept ==
  ASSUME TypeOK, ClaimsAreUnique, MintsAreSettled, [Next]_vars,
         NEW h \in Handles, minter[h] # NoHandle
  PROVE  entry'[h] = entry[h] /\ minter'[h] = minter[h]
<1>1. h \in issued /\ entry[h] \in Items
  BY DEF MintsAreSettled
<1>2. CASE UNCHANGED vars
  BY <1>2 DEF vars, service
<1>3. ASSUME NEW j \in Jobs, Retarget(j) PROVE entry'[h] = entry[h] /\ minter'[h] = minter[h]
  <2>1. minter' = minter /\ pc[j] = "retarget" /\ hdl[j] \in Handles /\ Item(j) \in Items
    BY <1>3, RetargetMoves, BusyItem
  <2>2. CASE Register(hdl[j], Item(j)) /\ hdl[j] = h
    <3>1. Claimed(h, entry[h]) /\ Claimed(h, Item(j))
      BY <2>1, <2>2, HeldIsClaimed DEF Claimed
    <3>2. entry[h] = Item(j)
      BY <1>1, <2>1, <3>1 DEF ClaimsAreUnique
    <3> QED  BY <2>1, <2>2, <3>2, Registered
  <2>3. CASE Register(hdl[j], Item(j)) /\ hdl[j] # h
    BY <2>1, <2>3, Registered
  <2> QED  BY <1>3, <2>1, <2>2, <2>3, RetargetMoves
<1>4. ASSUME NEW j \in Jobs, Mint(j) PROVE entry'[h] = entry[h] /\ minter'[h] = minter[h]
  BY <1>1, <1>4, MintMoves, Issued DEF service
<1>5. ASSUME NEW j \in Jobs,
             \/ \E a \in Asks : Begin(j, a)
             \/ Read(j) \/ ReadFails(j) \/ Info(j) \/ Find(j)
             \/ Patch(j) \/ Finish(j) \/ Crash(j)
      PROVE  UNCHANGED service
  BY <1>5 DEF Begin, Read, ReadFails, Info, Find, Patch, Finish, Crash
<1> QED  BY <1>2, <1>3, <1>4, <1>5, NextCases DEF service

(* A handle that a step adds to the minted ones. *)
LEMMA NewlyMinted ==
  ASSUME TypeOK, [Next]_vars, NEW h \in Handles, minter[h] = NoHandle, minter'[h] # NoHandle
  PROVE  \E j \in Jobs :
           /\ pc[j] = "mint" /\ pc'[j] # "mint" /\ minter'[h] = j
           /\ entry'[h] = Item(j) /\ Item(j) \in Items /\ h \in issued'
           /\ \A g \in Handles \ {h} : minter'[g] = minter[g]
<1>1. ASSUME NEW j \in Jobs,
             \/ \E a \in Asks : Begin(j, a)
             \/ Read(j) \/ ReadFails(j) \/ Info(j) \/ Find(j) \/ Retarget(j)
             \/ Patch(j) \/ Finish(j) \/ Crash(j)
      PROVE  minter' = minter
  BY <1>1 DEF Begin, Read, ReadFails, Info, Retarget, Find, Patch, Finish, Crash, service
<1>2. PICK j \in Jobs : Mint(j)
  BY <1>1, NextCases DEF vars, service
<1>3. pc[j] = "mint" /\ Item(j) \in Items /\ UNCHANGED ask
  BY <1>2, MintMoves, BusyItem
<1>4. PICK g \in Handles : Issue(j, g) /\ (Aborts(j) \/ Stays(j, "patch", g))
  BY <1>2, MintMoves DEF service
<1>5. g = h
  BY <1>3, <1>4, Issued
<1>6. pc'[j] # "mint"
  BY <1>3, <1>4, Left DEF Over, Stays
<1> QED  BY <1>3, <1>4, <1>5, <1>6, Issued

LEMMA MintsStep ==
  TypeOK /\ ClaimsAreUnique /\ MintsAreSettled /\ OneMintPerJob /\ [Next]_vars
  => MintsAreSettled' /\ OneMintPerJob'
<1> SUFFICES ASSUME TypeOK, ClaimsAreUnique, MintsAreSettled, OneMintPerJob, [Next]_vars
             PROVE  MintsAreSettled' /\ OneMintPerJob'
  OBVIOUS
<1>0. minter \in [Handles -> Jobs \cup {NoHandle}] /\ NoHandle \notin Jobs
  BY PublicationAssumption DEF TypeOK
<1>1. ASSUME NEW h \in Handles, minter'[h] # NoHandle
      PROVE  /\ h \in issued' /\ entry'[h] \in Items
             /\ (pc[minter[h]] = "mint" => entry[h] # Item(minter[h]))'
  <2>1. CASE minter[h] = NoHandle
    BY <1>1, <2>1, NewlyMinted
  <2>2. CASE minter[h] # NoHandle
    <3>1. h \in issued /\ entry[h] \in Items /\ issued \subseteq issued'
      BY <2>2, IssuedGrows DEF MintsAreSettled
    <3>2. entry'[h] = entry[h] /\ minter'[h] = minter[h] /\ minter[h] \in Jobs
      BY <1>0, <2>2, MintedKept
    <3>3. ASSUME pc'[minter[h]] = "mint" PROVE entry[h] # (Item(minter[h]))'
      <4>1. pos'[minter[h]] = pos[minter[h]]
        BY <3>2, <3>3, MintStage
      <4>2. entry[h] # Item(minter[h])
        BY <2>2, <3>2, <3>3, MintStage DEF MintsAreSettled
      <4> QED  BY <3>2, <4>1, <4>2 DEF Item
    <3> QED  BY <3>1, <3>2, <3>3
  <2> QED  BY <2>1, <2>2
<1>2. ASSUME NEW g \in Handles, NEW h \in Handles, minter[h] = NoHandle,
             minter'[g] = minter'[h], minter'[h] # NoHandle, entry'[g] = entry'[h]
      PROVE  g = h
  <2>1. PICK j \in Jobs : /\ pc[j] = "mint" /\ minter'[h] = j /\ entry'[h] = Item(j)
                          /\ \A e \in Handles \ {h} : minter'[e] = minter[e]
    BY <1>2, NewlyMinted
  <2>2. SUFFICES ASSUME g # h PROVE FALSE
    OBVIOUS
  <2>3. minter[g] = j /\ minter[g] # NoHandle
    BY <1>0, <1>2, <2>1, <2>2
  <2>4. entry[g] = Item(j)
    BY <1>2, <2>1, <2>3, MintedKept
  <2> QED  BY <2>1, <2>3, <2>4 DEF MintsAreSettled
<1>3. ASSUME NEW g \in Handles, NEW h \in Handles,
             minter[g] # NoHandle, minter[h] # NoHandle,
             minter'[g] = minter'[h], entry'[g] = entry'[h]
      PROVE  g = h
  BY <1>3, MintedKept DEF OneMintPerJob
<1>4. OneMintPerJob'
  BY <1>2, <1>3 DEF OneMintPerJob
<1> QED  BY <1>1, <1>4 DEF MintsAreSettled

-----------------------------------------------------------------------------
(* The steps that leave the descriptions alone and are no reading. *)
Quiet(j) ==
  \/ ReadFails(j) \/ Crash(j) \/ Info(j) \/ Retarget(j) \/ Find(j) \/ Mint(j)

LEMMA QuietMoves ==
  ASSUME TypeOK, NEW j \in Jobs, Quiet(j)
  PROVE  /\ ProgressTypes' /\ Frame(j) /\ UNCHANGED <<types, handles, ask, asked>>
         /\ \/ Aborts(j)
            \/ Fails(j) /\ pos[j] <= Len(ListOf[j])
            \/ \E s \in {"patch", "retarget", "mint"} : \E h : Stays(j, s, h)
<1>0. UNCHANGED asked
  BY DEF Quiet, ReadFails, Crash, Info, Retarget, Find, Mint
<1>1. CASE ReadFails(j)
  BY <1>0, <1>1, StopMoves DEF ReadFails, repo
<1>2. CASE Crash(j)
  BY <1>0, <1>2, StopMoves DEF Crash, repo
<1>3. CASE Info(j)
  <2>1. pos[j] <= Len(ListOf[j])
    BY <1>3 DEF Info, TypeOK
  <2> QED  BY <1>0, <1>3, <2>1, InfoMoves DEF repo
<1>4. CASE Retarget(j)
  BY <1>0, <1>4, RetargetMoves DEF repo
<1>5. CASE Find(j)
  BY <1>0, <1>5, FindMoves DEF repo
<1>6. CASE Mint(j)
  <2>1. pos[j] <= Len(ListOf[j])
    BY <1>6 DEF Mint, TypeOK
  <2> QED  BY <1>0, <1>6, <2>1, MintMoves DEF repo
<1> QED  BY <1>1, <1>2, <1>3, <1>4, <1>5, <1>6 DEF Quiet

LEMMA StepCases ==
  ASSUME [Next]_vars
  PROVE  \/ UNCHANGED vars
         \/ \E j \in Jobs : (\E a \in Asks : Begin(j, a)) \/ Read(j) \/ Quiet(j) \/ Patch(j)
                            \/ Finish(j)
BY NextCases DEF Quiet

(* What a run has counted, for one job. *)
CountOK(j) ==
  pc[j] # "idle" => /\ ask[j].action \in asked
                    /\ pos[j] <= Len(ListOf[j]) + 1 /\ done[j] < pos[j]

LEMMA CountStep == TypeOK /\ CountIsPlace /\ [Next]_vars => CountIsPlace'
<1> SUFFICES ASSUME TypeOK, CountIsPlace, [Next]_vars PROVE CountIsPlace'
  OBVIOUS
<1>0. \A j \in Jobs : /\ CountOK(j) /\ pos[j] \in Nat /\ done[j] \in Nat
                      /\ Len(ListOf[j]) \in Nat
  BY PublicationAssumption DEF TypeOK, CountIsPlace, CountOK
<1>1. CASE UNCHANGED vars
  BY <1>1 DEF vars, progress, CountIsPlace
<1>2. ASSUME NEW j \in Jobs, Frame(j), CountOK(j)', asked \subseteq asked' PROVE CountIsPlace'
  <2>1. ASSUME NEW k \in Jobs, k # j PROVE CountOK(k)'
    <3>1. /\ pc'[k] = pc[k] /\ pos'[k] = pos[k] /\ done'[k] = done[k] /\ ask'[k] = ask[k]
      BY <1>2, <2>1 DEF Frame
    <3> QED  BY <1>0, <1>2, <3>1 DEF CountOK
  <2> QED  BY <1>2, <2>1 DEF CountIsPlace, CountOK
<1>3. ASSUME NEW j \in Jobs, NEW a \in Asks, Begin(j, a)
      PROVE  Frame(j) /\ CountOK(j)' /\ asked \subseteq asked'
  <2>1. asked' = asked \cup {a.action}
    BY <1>3 DEF Begin
  <2> QED  BY <1>0, <1>3, <2>1, Begun DEF CountOK
<1>4. ASSUME NEW j \in Jobs, Read(j)
      PROVE  Frame(j) /\ CountOK(j)' /\ asked \subseteq asked'
  <2>1. UNCHANGED <<asked, ask>>
    BY <1>4 DEF Read
  <2> QED  BY <1>0, <1>4, <2>1, ReadMoves DEF CountOK
<1>5. ASSUME NEW j \in Jobs, Over(j), UNCHANGED <<ask, asked>>, pc[j] # "idle",
             pos[j] <= Len(ListOf[j]) \/ Aborts(j)
      PROVE  Frame(j) /\ CountOK(j)' /\ asked \subseteq asked'
  <2>1. Frame(j) /\ pc'[j] \in {"idle", "read"} /\ (Aborts(j) => pc'[j] = "idle")
    BY <1>5, Left
  <2>2. pc'[j] = "read" => pos'[j] = pos[j] + 1 /\ done'[j] \in {done[j], done[j] + 1}
    BY <1>5, Left DEF Over
  <2> QED  BY <1>0, <1>5, <2>1, <2>2 DEF CountOK
<1>6. ASSUME NEW j \in Jobs, Quiet(j)
      PROVE  Frame(j) /\ CountOK(j)' /\ asked \subseteq asked'
  <2>1. Frame(j) /\ UNCHANGED <<ask, asked>> /\ pc[j] # "idle"
    BY <1>6, QuietMoves DEF Quiet, ReadFails, Crash, Info, Retarget, Find, Mint
  <2>2. CASE \E s \in {"patch", "retarget", "mint"} : \E h : Stays(j, s, h)
    BY <1>0, <2>1, <2>2 DEF Stays, CountOK
  <2> QED  BY <1>5, <1>6, <2>1, <2>2, QuietMoves DEF Over
<1>7. ASSUME NEW j \in Jobs, Patch(j)
      PROVE  Frame(j) /\ CountOK(j)' /\ asked \subseteq asked'
  <2>1. UNCHANGED <<ask, asked>> /\ Over(j) /\ pc[j] = "patch"
    BY <1>7 DEF Patch, Over
  <2>2. pos[j] <= Len(ListOf[j])
    BY <2>1 DEF TypeOK
  <2> QED  BY <1>5, <2>1, <2>2
<1>8. ASSUME NEW j \in Jobs, Finish(j)
      PROVE  Frame(j) /\ CountOK(j)' /\ asked \subseteq asked'
  BY <1>8, Finished DEF Finish, CountOK
<1> QED  BY <1>1, <1>2, <1>3, <1>4, <1>6, <1>7, <1>8, StepCases

-----------------------------------------------------------------------------
(* A job that publishes wants its item to be published. *)
LEMMA WantsPublished ==
  ASSUME NEW j \in Jobs, ask[j].action = "publish"
  PROVE  "Published" \in WantedTypes(j)
<1>1. "Published" \in base[j].types \cup {"Published"}
  OBVIOUS
<1>2. \A ts, f : "Published" \in ts => "Published" \in Forced(ts, f)
  BY DEF Forced
<1> QED  BY <1>1, <1>2 DEF WantedTypes

(* If no job has been asked to unpublish anything, what is published       *)
(* stays so, and what a job counts is published.                           *)
LEMMA PatchPublishes ==
  ASSUME TypeOK, CountIsPlace, PublishedSoFar, PublishOnly,
         NEW j \in Jobs, pc[j] = "patch", Apply(j)
  PROVE  "Published" \in types'[Item(j)] /\ \A i \in Items : IsPublished(i) => IsPublished(i)'
<1>1. ask[j].action = "publish"
  <2>1. ask[j].action \in asked /\ ask[j].action \in Actions
    BY PublicationAssumption DEF CountIsPlace, TypeOK
  <2> QED  BY <2>1 DEF PublishOnly, Actions
<1>2. "Published" \in WantedTypes(j)
  BY <1>1, WantsPublished
<1>3. types'[Item(j)] = Patched(types[Item(j)], base[j].types, WantedTypes(j))
      /\ \A k \in Items \ {Item(j)} : types'[k] = types[k]
  BY Applied
<1>4. "Published" \in types[Item(j)] \/ "Published" \notin base[j].types
  BY DEF PublishedSoFar, IsPublished
<1>5. "Published" \in types'[Item(j)]
  BY <1>2, <1>3, <1>4 DEF Patched
<1> QED  BY <1>3, <1>5 DEF IsPublished

(* What the invariant says of one job, if nobody unpublishes. *)
PublishedBy(j) ==
  /\ pc[j] # "idle" /\ done[j] = pos[j] - 1 =>
       \A n \in 1..Len(ListOf[j]) : n < pos[j] => IsPublished(ListOf[j][n])
  /\ pc[j] \notin {"idle", "read"} /\ "Published" \in base[j].types => IsPublished(Item(j))
  /\ outcome[j] = "complete" => \A n \in 1..Len(ListOf[j]) : IsPublished(ListOf[j][n])

StaysPublished == \A i \in Items : IsPublished(i) => IsPublished(i)'

LEMMA OthersPublished ==
  ASSUME TypeOK, NEW j \in Jobs, Frame(j), StaysPublished,
         \A k \in Jobs : PublishedBy(k), PublishedBy(j)'
  PROVE  \A k \in Jobs : PublishedBy(k)'
<1>1. ASSUME NEW k \in Jobs, k # j PROVE PublishedBy(k)'
  <2>1. /\ pc'[k] = pc[k] /\ pos'[k] = pos[k] /\ done'[k] = done[k]
        /\ base'[k] = base[k] /\ outcome'[k] = outcome[k]
    BY <1>1 DEF Frame
  <2>2. \A n \in 1..Len(ListOf[k]) : ListOf[k][n] \in Items
    BY PublicationAssumption
  <2>3. pc[k] \notin {"idle", "read"} => Item(k) \in Items /\ Item(k)' = Item(k)
    BY <2>1, BusyItem DEF Item
  <2>4. \A n \in 1..Len(ListOf[k]) : IsPublished(ListOf[k][n]) => IsPublished(ListOf[k][n])'
    BY <2>2 DEF StaysPublished
  <2>5. pc'[k] # "idle" /\ done'[k] = pos'[k] - 1 =>
          \A n \in 1..Len(ListOf[k]) : n < pos'[k] => IsPublished(ListOf[k][n])'
    BY <2>1, <2>4 DEF PublishedBy
  <2>6. pc'[k] \notin {"idle", "read"} /\ "Published" \in base'[k].types => IsPublished(Item(k))'
    BY <2>1, <2>3 DEF PublishedBy, StaysPublished, IsPublished
  <2>7. outcome'[k] = "complete" =>
          \A n \in 1..Len(ListOf[k]) : IsPublished(ListOf[k][n])'
    BY <2>1, <2>4 DEF PublishedBy
  <2> QED  BY <2>5, <2>6, <2>7 DEF PublishedBy
<1> QED  BY <1>1

(* A job that leaves its item, and if it counts it, has published it. *)
LEMMA LeftPublished ==
  ASSUME TypeOK, CountIsPlace, NEW j \in Jobs, Over(j), UNCHANGED ask, pc[j] # "idle",
         PublishedBy(j), StaysPublished,
         Fails(j) \/ Aborts(j)
         \/ (pos[j] \in 1..Len(ListOf[j]) /\ "Published" \in types'[Item(j)])
  PROVE  PublishedBy(j)'
<1>0. /\ pos[j] \in Nat /\ done[j] \in Nat /\ done[j] < pos[j]
      /\ Len(ListOf[j]) \in Nat /\ \A n \in 1..Len(ListOf[j]) : ListOf[j][n] \in Items
  BY PublicationAssumption DEF TypeOK, CountIsPlace
<1>1. /\ pc'[j] \in {"idle", "read"} /\ (pc'[j] = "read" => pos'[j] = pos[j] + 1)
      /\ Fails(j) \/ Aborts(j) => done'[j] = done[j]
      /\ Counts(j) => done'[j] = done[j] + 1
      /\ outcome'[j] \in {outcome[j], "failed", "aborted"}
  BY Left
<1>2. \A n \in 1..Len(ListOf[j]) : IsPublished(ListOf[j][n]) => IsPublished(ListOf[j][n])'
  BY <1>0 DEF StaysPublished
<1>3. outcome'[j] = "complete" => \A n \in 1..Len(ListOf[j]) : IsPublished(ListOf[j][n])'
  BY <1>1, <1>2 DEF PublishedBy
<1>4. ASSUME pc'[j] = "read", done'[j] = pos'[j] - 1,
             NEW n \in 1..Len(ListOf[j]), n < pos'[j]
      PROVE  IsPublished(ListOf[j][n])'
  <2>1. ~(Fails(j) \/ Aborts(j)) /\ Counts(j) /\ done[j] = pos[j] - 1
    BY <1>0, <1>1, <1>4 DEF Over
  <2>2. "Published" \in types'[ListOf[j][pos[j]]]
    BY <2>1 DEF Item
  <2>3. CASE n = pos[j]
    BY <2>2, <2>3 DEF IsPublished
  <2>4. CASE n # pos[j]
    <3>1. n < pos[j]
      BY <1>0, <1>1, <1>4, <2>4
    <3>2. IsPublished(ListOf[j][n])
      BY <2>1, <3>1 DEF PublishedBy
    <3> QED  BY <1>2, <3>2
  <2> QED  BY <2>3, <2>4
<1> QED  BY <1>1, <1>3, <1>4 DEF PublishedBy

LEMMA PublishedStep ==
  TypeOK /\ CountIsPlace /\ PublishedSoFar /\ [Next]_vars => PublishedSoFar'
<1> SUFFICES ASSUME TypeOK, CountIsPlace, PublishedSoFar, [Next]_vars, PublishOnly'
             PROVE  \A k \in Jobs : PublishedBy(k)'
  BY DEF PublishedSoFar, PublishedBy
<1>0. PublishOnly
  <2>1. asked \subseteq asked'
    BY NextCases DEF vars, Begin, Read, ReadFails, Info, Retarget, Find, Mint, Patch, Finish, Crash
  <2> QED  BY <2>1 DEF PublishOnly
<1>1. \A k \in Jobs : PublishedBy(k)
  BY <1>0 DEF PublishedSoFar, PublishedBy
<1>2. CASE UNCHANGED vars
  BY <1>1, <1>2 DEF vars, repo, progress, PublishedBy, IsPublished, Item
<1>3. ASSUME NEW j \in Jobs, NEW a \in Asks, Begin(j, a) PROVE \A k \in Jobs : PublishedBy(k)'
  <2>1. Frame(j) /\ pc'[j] = "read" /\ pos'[j] = 1 /\ outcome'[j] = "running" /\ types' = types
    BY <1>3, Begun DEF Begin, repo
  <2>2. PublishedBy(j)'
    BY <2>1 DEF PublishedBy
  <2>3. StaysPublished
    BY <2>1 DEF StaysPublished, IsPublished
  <2> QED  BY <1>1, <2>1, <2>2, <2>3, OthersPublished
<1>4. ASSUME NEW j \in Jobs, Read(j) PROVE \A k \in Jobs : PublishedBy(k)'
  <2>1. Frame(j) /\ types' = types /\ pos'[j] = pos[j] /\ done'[j] = done[j]
        /\ outcome'[j] = outcome[j] /\ pc[j] = "read" /\ pc'[j] \notin {"idle", "read"}
    BY <1>4, ReadMoves DEF Read, repo
  <2>2. base'[j].types = types[Item(j)]
    <3>1. base'[j] = [types |-> types[Item(j)], handles |-> handles[Item(j)]]
      BY <1>4, ReadMoves
    <3> QED  BY <3>1
  <2>3. StaysPublished /\ PublishedBy(j)
    BY <1>1, <2>1 DEF StaysPublished, IsPublished
  <2>4. PublishedBy(j)'
    BY <2>1, <2>2, <2>3 DEF PublishedBy, IsPublished, Item
  <2> QED  BY <1>1, <2>1, <2>3, <2>4, OthersPublished
<1>5. ASSUME NEW j \in Jobs, Quiet(j) PROVE \A k \in Jobs : PublishedBy(k)'
  <2>1. Frame(j) /\ UNCHANGED <<types, ask>> /\ pc[j] # "idle"
    BY <1>5, QuietMoves DEF Quiet, ReadFails, Crash, Info, Retarget, Find, Mint
  <2>2. StaysPublished /\ PublishedBy(j)
    BY <1>1, <2>1 DEF StaysPublished, IsPublished
  <2>3. CASE Fails(j) \/ Aborts(j)
    <3>1. PublishedBy(j)'
      BY <2>1, <2>2, <2>3, LeftPublished DEF Over
    <3> QED  BY <1>1, <2>1, <2>2, <3>1, OthersPublished
  <2>4. CASE \E s \in {"patch", "retarget", "mint"} : \E h : Stays(j, s, h)
    <3>1. PublishedBy(j)'
      BY <2>1, <2>2, <2>4 DEF PublishedBy, Stays, IsPublished, Item
    <3> QED  BY <1>1, <2>1, <2>2, <3>1, OthersPublished
  <2> QED  BY <1>5, <2>3, <2>4, QuietMoves
<1>6. ASSUME NEW j \in Jobs, Patch(j) PROVE \A k \in Jobs : PublishedBy(k)'
  <2>1. Frame(j) /\ UNCHANGED ask /\ pc[j] = "patch" /\ Over(j) /\ Item(j) \in Items
        /\ pos[j] \in 1..Len(ListOf[j])
    BY <1>6, PatchMoves, BusyItem DEF Over
  <2>2. CASE Apply(j)
    <3>1. "Published" \in types'[Item(j)] /\ StaysPublished
      BY <1>0, <2>1, <2>2, PatchPublishes DEF StaysPublished
    <3>2. PublishedBy(j)'
      BY <1>1, <2>1, <3>1, LeftPublished
    <3> QED  BY <1>1, <2>1, <3>1, <3>2, OthersPublished
  <2>3. CASE (Fails(j) \/ Aborts(j)) /\ UNCHANGED repo
    <3>1. StaysPublished
      BY <2>3 DEF StaysPublished, IsPublished, repo
    <3>2. PublishedBy(j)'
      BY <1>1, <2>1, <2>3, <3>1, LeftPublished
    <3> QED  BY <1>1, <2>1, <3>1, <3>2, OthersPublished
  <2> QED  BY <1>6, <2>2, <2>3, PatchMoves
<1>7. ASSUME NEW j \in Jobs, Finish(j) PROVE \A k \in Jobs : PublishedBy(k)'
  <2>1. Frame(j) /\ pc'[j] = "idle" /\ types' = types /\ pc[j] = "read"
        /\ pos[j] > Len(ListOf[j]) /\ (outcome'[j] = "complete" => done[j] >= Len(ListOf[j]))
    BY <1>7, Finished DEF Finish, repo
  <2>2. /\ Len(ListOf[j]) \in Nat /\ pos[j] \in Nat /\ done[j] \in Nat
        /\ pos[j] <= Len(ListOf[j]) + 1 /\ done[j] < pos[j]
    BY <2>1, PublicationAssumption DEF CountIsPlace, TypeOK
  <2>3. ASSUME outcome'[j] = "complete", NEW n \in 1..Len(ListOf[j])
        PROVE  IsPublished(ListOf[j][n])'
    <3>1. done[j] = pos[j] - 1 /\ n < pos[j]
      BY <2>1, <2>2, <2>3
    <3>2. IsPublished(ListOf[j][n])
      BY <1>1, <2>1, <2>3, <3>1 DEF PublishedBy
    <3> QED  BY <2>1, <3>2 DEF IsPublished
  <2>4. PublishedBy(j)'
    BY <2>1, <2>3 DEF PublishedBy
  <2>5. StaysPublished
    BY <2>1 DEF StaysPublished, IsPublished
  <2> QED  BY <1>1, <2>1, <2>4, <2>5, OthersPublished
<1> QED  BY <1>2, <1>3, <1>4, <1>5, <1>6, <1>7, StepCases

-----------------------------------------------------------------------------
LEMMA PublicationInit == Init => PublicationInv
<1> SUFFICES ASSUME Init PROVE PublicationInv
  OBVIOUS
<1>0. /\ Before \subseteq SUBSET Classes /\ Old \subseteq Handles
      /\ NoHandle \notin Handles \cup Jobs /\ NoItem \notin Items /\ Elsewhere \notin Items
      /\ MaxRuns \in Nat /\ MaxFaults \in Nat
  BY PublicationAssumption
<1>1. \A j \in Jobs : pc[j] = "idle" /\ outcome[j] = "none" /\ ~ (pc[j] \notin {"idle", "read"})
  BY DEF Init
<1>2. TypeOK
  <2>1. ProgressTypes
    BY DEF Init, ProgressTypes, Stages, Outcomes, Descriptions, Unread
  <2>2. SharedTypes
    BY <1>0 DEF Init, SharedTypes
  <2>3. Counters /\ \A j \in Jobs : PlaceOK(j)
    BY <1>0, <1>1 DEF Init, Counters, PlaceOK
  <2> QED  BY <2>1, <2>2, <2>3 DEF TypeOK, ProgressTypes, SharedTypes, Counters, PlaceOK
<1>3. ClaimsAreUnique
  <2>1. ASSUME NEW h \in Handles, NEW i \in Items, Claimed(h, i)
        PROVE  h \in Old /\ (h \in handles[i] \/ entry[h] = i)
    <3>1. ~ \E j \in Jobs : Busy(j, i)
      BY <1>1 DEF Busy
    <3>2. h \in handles[i] \/ entry[h] = i
      BY <2>1, <3>1 DEF Claimed
    <3>3. handles[i] \subseteq Old
      BY DEF Init
    <3>4. h \notin Old => entry[h] # i
      BY <1>0 DEF Init
    <3> QED  BY <3>2, <3>3, <3>4
  <2>2. ASSUME NEW h \in Old, NEW i \in Items, h \in handles[i]
        PROVE  entry[h] \in {i, NoItem, Elsewhere} /\ \A k \in Items : h \in handles[k] => k = i
    BY <2>2 DEF Init
  <2>3. ASSUME NEW h \in Handles, NEW i \in Items, Claimed(h, i),
               NEW k \in Items, Claimed(h, k)
        PROVE  h \in issued /\ k = i
    <3>1. h \in Old /\ (h \in handles[i] \/ entry[h] = i) /\ (h \in handles[k] \/ entry[h] = k)
      BY <2>1, <2>3
    <3>2. issued = Old
      BY DEF Init
    <3> QED  BY <1>0, <2>2, <3>1, <3>2
  <2> QED  BY <2>3 DEF ClaimsAreUnique
<1>4. \A h \in Handles : minter[h] = NoHandle
  BY DEF Init
<1>5. MintsAreSettled /\ OneMintPerJob
  BY <1>4 DEF MintsAreSettled, OneMintPerJob
<1>6. CountIsPlace /\ PublishedSoFar
  BY <1>1 DEF CountIsPlace, PublishedSoFar
<1> QED  BY <1>2, <1>3, <1>5, <1>6 DEF PublicationInv

(* The invariant holds in every reachable state. *)
THEOREM PublicationCorrect == Spec => []PublicationInv
<1>1. PublicationInv /\ [Next]_vars => PublicationInv'
  BY TypeStep, ClaimsStep, MintsStep, CountStep, PublishedStep DEF PublicationInv
<1> QED  BY <1>1, PublicationInit, PTL DEF Spec

(* All state variables keep their types, and a job at work on an item has  *)
(* a place in its list and the handle its next request needs.              *)
THEOREM PublicationTypes == Spec => []TypeOK
<1>1. PublicationInv => TypeOK
  BY DEF PublicationInv
<1> QED  BY <1>1, PublicationCorrect, PTL

(* For any number of concurrent jobs, items and faults, two items never    *)
(* share a handle, if they did not before.                                 *)
THEOREM HandlesNotShared == Spec => []NoSharedHandle
<1>1. ASSUME PublicationInv PROVE NoSharedHandle
  <2> SUFFICES ASSUME NEW i \in Items, NEW k \in Items, NEW h, h \in handles[i], h \in handles[k]
               PROVE  i = k
    BY DEF NoSharedHandle
  <2>1. TypeOK /\ ClaimsAreUnique
    BY <1>1 DEF PublicationInv
  <2>2. h \in Handles
    BY <2>1 DEF TypeOK
  <2>3. Claimed(h, i) /\ Claimed(h, k)
    BY DEF Claimed
  <2> QED  BY <2>1, <2>2, <2>3 DEF ClaimsAreUnique
<1> QED  BY <1>1, PublicationCorrect, PTL

(* A job has at most one handle minted per item, however often it fails    *)
(* and is run again.                                                       *)
THEOREM MintsOnce == Spec => []OneMintPerJob
<1>1. PublicationInv => OneMintPerJob
  BY DEF PublicationInv
<1> QED  BY <1>1, PublicationCorrect, PTL

(* publish_complete means that every item of the list is published, unless *)
(* some job has been asked to unpublish.                                   *)
THEOREM PublishCompleteIsComplete == Spec => []CompleteMeansPublished
<1>1. PublicationInv => CompleteMeansPublished
  BY DEF PublicationInv, PublishedSoFar, PublishOnly, IsPublished, CompleteMeansPublished
<1> QED  BY <1>1, PublicationCorrect, PTL

(* A PATCH changes only the access classes that its job was asked to       *)
(* change, whatever has become of the description since it was read.       *)
LEMMA PatchedAsAsked ==
  ASSUME TypeOK, NEW j \in Jobs, pc[j] = "patch", Apply(j), NEW i \in Items
  PROVE  /\ "Hidden" \in types'[i] \ types[i] => Item(j) = i /\ ask[j].force = "hidden"
         /\ "Hidden" \in types[i] \ types'[i] => Item(j) = i /\ ask[j].force = "visible"
         /\ "Published" \in types[i] \ types'[i] => Item(j) = i /\ ask[j].action = "unpublish"
<1>1. i # Item(j) => types'[i] = types[i]
  BY Applied
<1>2. types'[Item(j)] = Patched(types[Item(j)], base[j].types, WantedTypes(j))
  BY Applied
<1>3. ask[j].action \in {"publish", "unpublish"}
      /\ ask[j].force \in {"none", "hidden", "visible"}
  BY PublicationAssumption DEF TypeOK, Actions
<1>4. /\ "Hidden" \in WantedTypes(j) \ base[j].types => ask[j].force = "hidden"
      /\ "Hidden" \in base[j].types \ WantedTypes(j) => ask[j].force = "visible"
      /\ "Published" \in base[j].types \ WantedTypes(j) => ask[j].action = "unpublish"
  BY <1>3 DEF WantedTypes, Forced
<1> QED  BY <1>1, <1>2, <1>4 DEF Patched

(* No job changes an access class that no job at work on the item was      *)
(* asked to change.                                                        *)
THEOREM ChangesAreAsked == Spec => OnlyAskedChanges
<1> DEFINE Asked == \A i \in Items :
             /\ "Hidden" \in types'[i] \ types[i] => Asking(i, "any", "hidden")
             /\ "Hidden" \in types[i] \ types'[i] => Asking(i, "any", "visible")
             /\ "Published" \in types[i] \ types'[i] => Asking(i, "unpublish", "any")
<1>1. TypeOK /\ [Next]_vars => Asked
  <2> SUFFICES ASSUME TypeOK, [Next]_vars PROVE Asked
    OBVIOUS
  <2>1. types' = types => Asked
    OBVIOUS
  <2>2. CASE UNCHANGED vars
    BY <2>1, <2>2 DEF vars, repo
  <2>3. ASSUME NEW j \in Jobs, (\E a \in Asks : Begin(j, a)) \/ Read(j) \/ Quiet(j) \/ Finish(j)
        PROVE  types' = types
    BY <2>3, QuietMoves DEF Begin, Read, Finish, repo
  <2>4. ASSUME NEW j \in Jobs, Patch(j) PROVE Asked
    <3>1. CASE UNCHANGED repo
      BY <2>1, <3>1 DEF repo
    <3>2. CASE Apply(j)
      BY <2>4, <3>2, PatchMoves, PatchedAsAsked DEF Asking
    <3> QED  BY <2>4, <3>1, <3>2, PatchMoves
  <2> QED  BY <2>1, <2>2, <2>3, <2>4, StepCases
<1>2. [][Asked]_vars => OnlyAskedChanges
  BY DEF OnlyAskedChanges
<1>3. TypeOK /\ [Next]_vars => [Asked]_vars
  BY <1>1
<1> QED  BY <1>2, <1>3, PublicationTypes, PTL DEF Spec

(* Handles are neither shared between items nor minted in vain, for any    *)
(* number of jobs, items and handles.                                      *)
THEOREM HandlesAreSound == Spec => []HandlesSound
<1>1. NoSharedHandle /\ OneMintPerJob => HandlesSound
  BY DEF HandlesSound
<1> QED  BY <1>1, HandlesNotShared, MintsOnce, PTL
=============================================================================
