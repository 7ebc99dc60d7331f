----------------------------- MODULE Publication -----------------------------
(***************************************************************************)
(* Publishing and unpublishing items: jobs, command line commands and web  *)
(* requests that each go through a list of items, read an item, find or    *)
(* mint its handle at the handle service and PATCH the difference between  *)
(* the description they read and the one they want.  They run concurrently *)
(* and share the items' descriptions and the handle service.               *)
(*                                                                         *)
(* Of a description only what publishing touches is kept: the access       *)
(* classes among its types and its handles.                                *)
(***************************************************************************)
EXTENDS Integers, Sequences

CONSTANTS Items, Handles, Jobs,
          ListOf,     \* the items each job goes through
          WebJobs,    \* those that stop at the first error
          Asks,       \* what a job may be asked to do
          Old,        \* handles that existed before
          Before,     \* access classes an item may have before
          NoHandle, NoItem, Elsewhere,
          MaxRuns,    \* bound on the runs of all jobs
          MaxFaults   \* bound on errors of the network and the servers

Classes == {"Published", "Hidden"}
Actions == {"publish", "unpublish"}

ASSUME PublicationAssumption ==
  /\ ListOf \in [Jobs -> Seq(Items)]
  /\ WebJobs \subseteq Jobs
  /\ Asks \subseteq [action : Actions, force : {"none", "hidden", "visible"}]
  /\ Old \subseteq Handles
  /\ Before \subseteq SUBSET Classes
  /\ NoHandle \notin Handles \cup Jobs /\ NoItem \notin Items /\ Elsewhere \notin Items
  /\ NoItem # Elsewhere
  /\ MaxRuns \in Nat /\ MaxFaults \in Nat

VARIABLES
  types, handles,  \* per item: access classes and handles in its description
  entry,           \* the handle service: the item each handle is registered for
  current,         \* the handles whose target is the item's public URL
  issued,          \* the handles ever issued
  minter,          \* per handle: the job that had it minted, if any
  pc, pos, ask,    \* per job: its next step, its place in the list, its task
  base,            \* the description it read
  hdl,             \* the handle it has chosen for the item
  done, outcome,   \* its count of items done, how its latest run ended
  runs, asked, faults

repo == <<types, handles>>
service == <<entry, current, issued, minter>>
progress == <<pc, pos, done, outcome>>
vars == <<repo, service, progress, ask, base, hdl, runs, asked, faults>>

Descriptions == [types : SUBSET Classes, handles : SUBSET Handles]
Unread == [types |-> {}, handles |-> {}]
Stages == {"idle", "read", "info", "retarget", "find", "mint", "patch"}
Outcomes == {"none", "running", "aborted", "failed", "complete", "incomplete"}

TypeOK ==
  /\ types \in [Items -> SUBSET Classes]
  /\ handles \in [Items -> SUBSET Handles]
  /\ entry \in [Handles -> Items \cup {NoItem, Elsewhere}]
  /\ current \subseteq Handles /\ issued \subseteq Handles
  /\ minter \in [Handles -> Jobs \cup {NoHandle}]
  /\ pc \in [Jobs -> Stages]
  /\ pos \in [Jobs -> Nat]
  /\ ask \in [Jobs -> Asks]
  /\ base \in [Jobs -> Descriptions]
  /\ hdl \in [Jobs -> Handles \cup {NoHandle}]
  /\ done \in [Jobs -> Nat]
  /\ outcome \in [Jobs -> Outcomes]
  /\ runs \in 0..MaxRuns
  /\ asked \subseteq Actions
  /\ faults \in 0..MaxFaults
  /\ \A j \in Jobs : /\ pc[j] # "idle" => pos[j] >= 1
                     /\ pc[j] \notin {"idle", "read"} => pos[j] <= Len(ListOf[j])
                     /\ pc[j] = "patch" /\ ask[j].action = "publish" => hdl[j] # NoHandle
                     /\ pc[j] \in {"info", "retarget"} => hdl[j] # NoHandle

(* Any state of the descriptions and the service in which no handle stands *)
(* in two descriptions or in that of another item than it is registered    *)
(* for.  Handles may be stale: registered under an address from before a   *)
(* migration, unknown to the service, or with a target that has changed.   *)
Init ==
  /\ types \in [Items -> Before]
  /\ handles \in [Items -> SUBSET Old]
  /\ entry \in {e \in [Handles -> Items \cup {NoItem, Elsewhere}] :
                  \A h \in Handles \ Old : e[h] = NoItem}
  /\ current \in SUBSET Old
  /\ \A h \in Old : \A i \in Items : h \in handles[i] =>
       entry[h] \in {i, NoItem, Elsewhere} /\ \A k \in Items : h \in handles[k] => k = i
  /\ issued = Old
  /\ minter = [h \in Handles |-> NoHandle]
  /\ pc = [j \in Jobs |-> "idle"] /\ pos = [j \in Jobs |-> 0]
  /\ \E a \in Asks : ask = [j \in Jobs |-> a]
  /\ base = [j \in Jobs |-> Unread]
  /\ hdl = [j \in Jobs |-> NoHandle]
  /\ done = [j \in Jobs |-> 0] /\ outcome = [j \in Jobs |-> "none"]
  /\ runs = 0 /\ asked = {} /\ faults = 0

Item(j) == ListOf[j][pos[j]]
Fault == faults < MaxFaults /\ faults' = faults + 1

-----------------------------------------------------------------------------
(* How a step of job j goes on. *)

Goto(j, s) == pc' = [pc EXCEPT ![j] = s] /\ UNCHANGED <<pos, done, outcome>>

(* The resource object and its handle go out of scope. *)
Forget(j) ==
  /\ base' = [base EXCEPT ![j] = Unread]
  /\ hdl' = [hdl EXCEPT ![j] = NoHandle]

Keep == UNCHANGED <<base, hdl>>

FailureCounted(j) ==
  /\ Forget(j)
  /\ pc' = [pc EXCEPT ![j] = "read"]
  /\ pos' = [pos EXCEPT ![j] = @ + 1] /\ done' = [done EXCEPT ![j] = @ + 1]
  /\ UNCHANGED outcome

(* RepositoryError: a job counts it and goes on with the next item, a web  *)
(* request ends with status 500.                                           *)
Fails(j) ==
  /\ Forget(j)
  /\ IF j \in WebJobs
     THEN /\ pc' = [pc EXCEPT ![j] = "idle"]
          /\ outcome' = [outcome EXCEPT ![j] = "failed"]
          /\ UNCHANGED pos
     ELSE /\ pc' = [pc EXCEPT ![j] = "read"]
          /\ pos' = [pos EXCEPT ![j] = @ + 1]
          /\ UNCHANGED outcome
  /\ UNCHANGED done

(* Any other exception ends the job: a connection error, or an error of    *)
(* the handle service other than in create_handle.                         *)
Aborts(j) ==
  /\ Forget(j)
  /\ pc' = [pc EXCEPT ![j] = "idle"]
  /\ outcome' = [outcome EXCEPT ![j] = "aborted"]
  /\ UNCHANGED <<pos, done>>

-----------------------------------------------------------------------------
Begin(j, a) ==
  /\ pc[j] = "idle" /\ runs < MaxRuns
  /\ pc' = [pc EXCEPT ![j] = "read"] /\ pos' = [pos EXCEPT ![j] = 1]
  /\ done' = [done EXCEPT ![j] = 0] /\ outcome' = [outcome EXCEPT ![j] = "running"]
  /\ ask' = [ask EXCEPT ![j] = a] /\ asked' = asked \cup {a.action}
  /\ runs' = runs + 1
  /\ UNCHANGED <<repo, service, base, hdl, faults>>

MintUnseen(j) ==
  /\ pc[j] = "read" /\ pos[j] <= Len(ListOf[j]) /\ ask[j].action = "publish"
  /\ base' = [base EXCEPT ![j] = [types |-> types[Item(j)], handles |-> handles[Item(j)]]]
  /\ IF handles[Item(j)] = {} THEN Goto(j, "mint") ELSE Goto(j, "find")
  /\ UNCHANGED <<repo, service, ask, hdl, runs, asked, faults>>

(* HEAD and GET of the item.  A description with one handle is believed,   *)
(* one with none or with several (handle is not repeatable) is not.        *)
Read(j) ==
  /\ pc[j] = "read" /\ pos[j] <= Len(ListOf[j])
  /\ LET i == Item(j) IN
     /\ base' = [base EXCEPT ![j] = [types |-> types[i], handles |-> handles[i]]]
     /\ \/ /\ ask[j].action = "unpublish" /\ Goto(j, "patch")
           /\ hdl' = [hdl EXCEPT ![j] = NoHandle]
        \/ /\ ask[j].action = "publish"
           /\ \E h \in handles[i] : handles[i] = {h} /\ hdl' = [hdl EXCEPT ![j] = h]
           /\ Goto(j, "info")
        \/ /\ ask[j].action = "publish"
           /\ ~ \E h \in handles[i] : handles[i] = {h}
           /\ hdl' = [hdl EXCEPT ![j] = NoHandle]
           /\ Goto(j, "find")
  /\ UNCHANGED <<repo, service, ask, runs, asked, faults>>

ReadFails(j) ==
  /\ pc[j] = "read" /\ pos[j] <= Len(ListOf[j])
  /\ Fault /\ (Fails(j) \/ Aborts(j))
  /\ UNCHANGED <<repo, service, ask, runs, asked>>

(* get_info: the handle of the description must exist; its registration is *)
(* corrected if it does not lead to this item.                             *)
Info(j) ==
  /\ pc[j] = "info"
  /\ \/ entry[hdl[j]] = NoItem /\ Fails(j) /\ UNCHANGED faults
     \/ /\ entry[hdl[j]] # NoItem /\ Keep /\ UNCHANGED faults
        /\ Goto(j, IF entry[hdl[j]] = Item(j) /\ hdl[j] \in current
                   THEN "patch" ELSE "retarget")
     \/ Fault /\ Aborts(j)
  /\ UNCHANGED <<repo, service, ask, runs, asked>>

Register(h, i) ==
  /\ entry' = [entry EXCEPT ![h] = i]
  /\ current' = current \cup {h}

(* update_handle, done or interrupted before or after the service did it. *)
Retarget(j) ==
  /\ pc[j] = "retarget"
  /\ \/ Register(hdl[j], Item(j)) /\ Goto(j, "patch") /\ Keep /\ UNCHANGED faults
     \/ Register(hdl[j], Item(j)) /\ Fault /\ Aborts(j)
     \/ UNCHANGED <<entry, current>> /\ Fault /\ Aborts(j)
  /\ UNCHANGED <<repo, issued, minter, ask, runs, asked>>

FoundNothing(j) ==
  /\ pc[j] = "find" /\ Goto(j, "patch")
  /\ UNCHANGED <<repo, service, ask, base, hdl, runs, asked, faults>>

(* find_handle answers with some handle that is registered for the item. *)
Find(j) ==
  /\ pc[j] = "find"
  /\ \/ \E h \in Handles : /\ entry[h] = Item(j)
                           /\ hdl' = [hdl EXCEPT ![j] = h]
                           /\ Goto(j, "patch") /\ UNCHANGED <<base, faults>>
     \/ /\ \A h \in Handles : entry[h] # Item(j)
        /\ Goto(j, "mint") /\ Keep /\ UNCHANGED faults
     \/ Fault /\ Aborts(j)
  /\ UNCHANGED <<repo, service, ask, runs, asked>>

(* The service registers a new handle; an error status is turned into a    *)
(* RepositoryError, a connection error is not.                             *)
Issue(j, h) ==
  /\ h \notin issued /\ issued' = issued \cup {h}
  /\ minter' = [minter EXCEPT ![h] = j]
  /\ Register(h, Item(j))

Mint(j) ==
  /\ pc[j] = "mint"
  /\ \/ \E h \in Handles : /\ Issue(j, h)
                           /\ \/ /\ hdl' = [hdl EXCEPT ![j] = h]
                                 /\ Goto(j, "patch") /\ UNCHANGED <<base, faults>>
                              \/ Fault /\ Aborts(j)
     \/ UNCHANGED service /\ Fault /\ (Fails(j) \/ Aborts(j))
  /\ UNCHANGED <<repo, ask, runs, asked>>

-----------------------------------------------------------------------------
(* The description a job wants: the graph it read, changed in memory. *)

Forced(ts, f) ==
  IF f = "hidden" THEN ts \cup {"Hidden"}
  ELSE IF f = "visible" THEN ts \ {"Hidden"} ELSE ts

WantedTypes(j) ==
  Forced(IF ask[j].action = "publish" THEN base[j].types \cup {"Published"}
                                      ELSE base[j].types \ {"Published"},
         ask[j].force)

WantedHandles(j) ==
  IF ask[j].action = "publish" THEN {hdl[j]} ELSE base[j].handles

(* A SPARQL Update with the deletes and inserts of the tracked graph. *)
Patched(now, old, new) == (now \ (old \ new)) \cup (new \ old)

PutWhole(j) ==
  /\ types' = [types EXCEPT ![Item(j)] = WantedTypes(j)]
  /\ handles' = [handles EXCEPT ![Item(j)] = WantedHandles(j)]

Apply(j) ==
  LET i == Item(j) IN
  /\ types' = [types EXCEPT ![i] = Patched(@, base[j].types, WantedTypes(j))]
  /\ handles' = [handles EXCEPT ![i] = Patched(@, base[j].handles, WantedHandles(j))]

HasChanges(j) == <<WantedTypes(j), WantedHandles(j)>> # <<base[j].types, base[j].handles>>

Counts(j) ==
  /\ Forget(j)
  /\ pc' = [pc EXCEPT ![j] = "read"]
  /\ pos' = [pos EXCEPT ![j] = @ + 1] /\ done' = [done EXCEPT ![j] = @ + 1]
  /\ UNCHANGED outcome

(* update(): nothing is sent when there are no changes. *)
Patch(j) ==
  /\ pc[j] = "patch"
  /\ \/ Apply(j) /\ Counts(j) /\ UNCHANGED faults
     \/ HasChanges(j) /\ Apply(j) /\ Fault /\ Aborts(j)
     \/ HasChanges(j) /\ UNCHANGED repo /\ Fault /\ (Fails(j) \/ Aborts(j))
  /\ UNCHANGED <<service, ask, runs, asked>>

(* get_final_state compares the count of items done with the total. *)
Finish(j) ==
  /\ pc[j] = "read" /\ pos[j] > Len(ListOf[j])
  /\ pc' = [pc EXCEPT ![j] = "idle"]
  /\ outcome' = [outcome EXCEPT ![j] =
       IF done[j] < Len(ListOf[j]) THEN "incomplete" ELSE "complete"]
  /\ UNCHANGED <<repo, service, pos, done, ask, base, hdl, runs, asked, faults>>

(* The process is killed. *)
Crash(j) ==
  /\ pc[j] # "idle" /\ Fault /\ Aborts(j)
  /\ UNCHANGED <<repo, service, ask, runs, asked>>

Step(j) ==
  \/ Read(j) \/ ReadFails(j) \/ Info(j) \/ Retarget(j) \/ Find(j) \/ Mint(j) \/ Patch(j)
  \/ Finish(j)

Next == \E j \in Jobs : (\E a \in Asks : Begin(j, a)) \/ Step(j) \/ Crash(j)

Spec == Init /\ [][Next]_vars

-----------------------------------------------------------------------------
(* Properties. *)

(* Two items never share a handle, although jobs find, mint and write them *)
(* at the same time and from descriptions that are out of date.            *)
NoSharedHandle ==
  \A i, k \in Items : i # k => handles[i] \cap handles[k] = {}

(* However often a job fails and is run again, it has at most one handle   *)
(* minted for an item: a handle whose answer or PATCH was lost is found.   *)
OneMintPerJob ==
  \A g, h \in Handles :
    minter[g] = minter[h] /\ minter[g] # NoHandle /\ entry[g] = entry[h] => g = h

(* Handles are neither shared nor minted in vain.                          *)
HandlesSound == NoSharedHandle /\ OneMintPerJob

(* A job changes only what it was asked to, also when another job changed  *)
(* the item after it was read: an item is hidden or shown only by a job    *)
(* that forces it, and loses Published only to one that unpublishes.       *)
Asking(i, a, f) ==
  \E j \in Jobs : pc[j] = "patch" /\ Item(j) = i /\ a \in {"any", ask[j].action}
                  /\ f \in {"any", ask[j].force}

OnlyAskedChanges == [][\A i \in Items :
  /\ "Hidden" \in types'[i] \ types[i] => Asking(i, "any", "hidden")
  /\ "Hidden" \in types[i] \ types'[i] => Asking(i, "any", "visible")
  /\ "Published" \in types[i] \ types'[i] => Asking(i, "unpublish", "any")]_vars

(* A job that reports publish_complete has published every item of its     *)
(* list, if nothing was unpublished in the meantime.                       *)
CompleteMeansPublished ==
  \A j \in Jobs : outcome[j] = "complete" /\ asked = {"publish"} =>
    \A n \in 1..Len(ListOf[j]) : "Published" \in types[ListOf[j][n]]

(* ----- The inductive invariant behind the three state properties. *)

(* Job j is busy with item i: it has read it and chosen a handle for it. *)
Busy(j, i) == pc[j] \notin {"idle", "read"} /\ Item(j) = i

(* Handle h is item i's: it is in its description, registered for it, or   *)
(* about to be written there by a job that may have read it long ago.      *)
Claimed(h, i) ==
  \/ h \in handles[i]
  \/ entry[h] = i
  \/ \E j \in Jobs : Busy(j, i) /\ (h \in base[j].handles \/ hdl[j] = h)

ClaimsAreUnique ==
  \A h \in Handles : \A i \in Items : Claimed(h, i) =>
    h \in issued /\ \A k \in Items : Claimed(h, k) => k = i

(* A minted handle stays registered, and a job that is about to mint one   *)
(* for an item has not minted one for it before.                           *)
MintsAreSettled ==
  \A h \in Handles : minter[h] # NoHandle =>
    /\ h \in issued /\ entry[h] \in Items
    /\ pc[minter[h]] = "mint" => entry[h] # Item(minter[h])

(* What a run has counted; the places before its own are done, or it has   *)
(* counted fewer than it has passed.                                       *)
CountIsPlace ==
  \A j \in Jobs : pc[j] # "idle" =>
    /\ ask[j].action \in asked
    /\ pos[j] <= Len(ListOf[j]) + 1 /\ done[j] < pos[j]

PublishOnly == "unpublish" \notin asked
IsPublished(i) == "Published" \in types[i]

PublishedSoFar ==
  PublishOnly => \A j \in Jobs :
    /\ pc[j] # "idle" /\ done[j] = pos[j] - 1 =>
         \A n \in 1..Len(ListOf[j]) : n < pos[j] => IsPublished(ListOf[j][n])
    /\ pc[j] \notin {"idle", "read"} /\ "Published" \in base[j].types => IsPublished(Item(j))
    /\ outcome[j] = "complete" => \A n \in 1..Len(ListOf[j]) : IsPublished(ListOf[j][n])

PublicationInv ==
  /\ TypeOK /\ ClaimsAreUnique /\ MintsAreSettled /\ OneMintPerJob
  /\ CountIsPlace /\ PublishedSoFar
=============================================================================
