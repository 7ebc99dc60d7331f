--------------------- MODULE TransactionsAndPagesProofs ---------------------
(***************************************************************************)
(* Proofs about Transactions, for bodies of every size and any number of   *)
(* errors, with the keep-alive thread interleaved at every step; and about *)
(* PageSequence, the item whose pages are created in such a transaction,   *)
(* for items of any size, any number of fixers and any number of faults.   *)
(***************************************************************************)
EXTENDS Transactions, PageSequence, FiniteSetTheorems, SequenceTheorems, WellFoundedInduction, TLAPS

-----------------------------------------------------------------------------
(* Transactions.                                                           *)

(* Every step of the two threads and of the server keeps the invariant.    *)
LEMMA TxStep == TxInv /\ [TxNext]_txVars => TxInv'
<1> SUFFICES ASSUME TxInv, [TxNext]_txVars PROVE TxInv'
  OBVIOUS
<1> USE TxAssumption DEF TxInv, TxTypeOK, mainVars, Exceptions
<1>1. CASE CreateTransaction
  <2>1. TxTypeOK'
    <3>1. main' \in MainStages /\ UNCHANGED <<op, inner, sent, stopped, failed>>
      BY <1>1 DEF CreateTransaction, Goto, MainStages
    <3>2. exc' \in Exceptions \cup {"none"}
      BY <1>1 DEF CreateTransaction, Goto
    <3>3. server' \in ServerStates /\ active' \in BOOLEAN /\ ka' \in KeepAliveStages
      BY <1>1 DEF CreateTransaction, ServerStates, KeepAliveStages
    <3>4. errors' \in 0..MaxErrors
      BY <1>1 DEF CreateTransaction, Error
    <3> QED  BY <3>1, <3>2, <3>3, <3>4
  <2>2. CommitIsWhole'
    BY <1>1 DEF CreateTransaction, Error, Goto, CommitIsWhole, Ending
  <2>3. RollbackForClientError'
    BY <1>1 DEF CreateTransaction, Error, Goto, RollbackForClientError, Ending
  <2>4. LeftAsEnded'
    BY <1>1 DEF CreateTransaction, Error, Goto, CommitIsWhole, RollbackForClientError, LeftAsEnded,
       Ending
  <2> QED  BY <2>1, <2>2, <2>3, <2>4
<1>2. CASE BodyRequest
  <2>1. TxTypeOK'
    BY <1>2 DEF BodyRequest
  <2>2. CommitIsWhole'
    BY <1>2 DEF BodyRequest, CommitIsWhole, Ending
  <2>3. RollbackForClientError'
    BY <1>2 DEF BodyRequest, RollbackForClientError, Ending
  <2>4. LeftAsEnded'
    BY <1>2 DEF BodyRequest, CommitIsWhole, RollbackForClientError, LeftAsEnded, Ending
  <2> QED  BY <2>1, <2>2, <2>3, <2>4
<1>3. CASE RequestFails
  <2>1. TxTypeOK'
    BY <1>3 DEF RequestFails, Error, End, MainStages
  <2>2. CommitIsWhole'
    BY <1>3 DEF RequestFails, Error, End, CommitIsWhole, Ending
  <2>3. RollbackForClientError'
    BY <1>3 DEF RequestFails, Error, End, RollbackForClientError, Ending
  <2>4. LeftAsEnded'
    BY <1>3 DEF RequestFails, Error, End, CommitIsWhole, RollbackForClientError,
       LeftAsEnded, Ending
  <2> QED  BY <2>1, <2>2, <2>3, <2>4
<1>4. CASE BodyRaises
  <2>1. TxTypeOK'
    BY <1>4 DEF BodyRaises, Raise, Error, MainStages
  <2>2. CommitIsWhole'
    BY <1>4 DEF BodyRaises, Raise, Error, CommitIsWhole, Ending
  <2>3. RollbackForClientError'
    BY <1>4 DEF BodyRaises, Raise, Error, RollbackForClientError, Ending
  <2>4. LeftAsEnded'
    BY <1>4 DEF BodyRaises, Raise, Error, CommitIsWhole, RollbackForClientError,
       LeftAsEnded, Ending
  <2> QED  BY <2>1, <2>2, <2>3, <2>4
<1>5. CASE BodyEnds
  <2>1. TxTypeOK'
    BY <1>5 DEF BodyEnds, End, MainStages
  <2>2. CommitIsWhole'
    BY <1>5 DEF BodyEnds, End, CommitIsWhole, Ending
  <2>3. RollbackForClientError'
    BY <1>5 DEF BodyEnds, End, RollbackForClientError, Ending
  <2>4. LeftAsEnded'
    BY <1>5 DEF BodyEnds, End, CommitIsWhole, RollbackForClientError, LeftAsEnded, Ending
  <2> QED  BY <2>1, <2>2, <2>3, <2>4
<1>6. CASE CheckActive
  <2>1. TxTypeOK'
    BY <1>6 DEF CheckActive, Goto, Raise, MainStages
  <2>2. CommitIsWhole'
    BY <1>6 DEF CheckActive, Goto, Raise, CommitIsWhole, Ending
  <2>3. RollbackForClientError'
    BY <1>6 DEF CheckActive, Goto, Raise, RollbackForClientError, Ending
  <2>4. LeftAsEnded'
    BY <1>6 DEF CheckActive, Goto, Raise, CommitIsWhole, RollbackForClientError,
       LeftAsEnded, Ending
  <2> QED  BY <2>1, <2>2, <2>3, <2>4
<1>7. CASE StopKeepAlive
  <2>1. TxTypeOK'
    BY <1>7 DEF StopKeepAlive, Goto, MainStages
  <2>2. CommitIsWhole'
    BY <1>7 DEF StopKeepAlive, Goto, CommitIsWhole, Ending
  <2>3. RollbackForClientError'
    BY <1>7 DEF StopKeepAlive, Goto, RollbackForClientError, Ending
  <2>4. LeftAsEnded'
    BY <1>7 DEF StopKeepAlive, Goto, CommitIsWhole, RollbackForClientError, LeftAsEnded,
       Ending
  <2> QED  BY <2>1, <2>2, <2>3, <2>4
<1>8. CASE Deactivate
  <2>1. TxTypeOK'
    BY <1>8 DEF Deactivate, Goto, MainStages
  <2>2. CommitIsWhole'
    BY <1>8 DEF Deactivate, Goto, CommitIsWhole, Ending
  <2>3. RollbackForClientError'
    BY <1>8 DEF Deactivate, Goto, RollbackForClientError, Ending
  <2>4. LeftAsEnded'
    BY <1>8 DEF Deactivate, Goto, CommitIsWhole, RollbackForClientError, LeftAsEnded, Ending
  <2> QED  BY <2>1, <2>2, <2>3, <2>4
<1>9. CASE Post
  <2>1. TxTypeOK'
    BY <1>9 DEF Post, Goto, Raise, MainStages
  <2>2. CommitIsWhole'
    BY <1>9 DEF Post, Goto, Raise, CommitIsWhole, Ending
  <2>3. RollbackForClientError'
    BY <1>9 DEF Post, Goto, Raise, RollbackForClientError, Ending
  <2>4. LeftAsEnded'
    BY <1>9 DEF Post, Goto, Raise, CommitIsWhole, RollbackForClientError, LeftAsEnded,
       Ending
  <2> QED  BY <2>1, <2>2, <2>3, <2>4
<1>10. CASE Wire
  <2>1. TxTypeOK'
    <3>1. main' \in MainStages /\ op' \in {"none", "commit",
    "rollback"} /\ inner' \in BOOLEAN
      BY <1>10 DEF Wire, Resume, Goto, Raise, MainStages
    <3>2. sent' = sent /\ exc' \in Exceptions \cup {"none"}
      BY <1>10 DEF Wire, Resume, Goto, Raise
    <3>3. server' \in ServerStates
      BY <1>10 DEF Wire, Closed, ServerStates
    <3>4. errors' \in 0..MaxErrors
      BY <1>10 DEF Wire, Error
    <3>5. UNCHANGED <<ka, stopped, failed, active>>
      BY <1>10 DEF Wire
    <3> QED  BY <3>1, <3>2, <3>3, <3>4, <3>5
  <2>2. CommitIsWhole'
    BY <1>10 DEF Wire, Closed, Resume, Goto, Raise, Error, CommitIsWhole, Ending
  <2>3. RollbackForClientError'
    BY <1>10 DEF Wire, Closed, Resume, Goto, Raise, Error, RollbackForClientError, Ending
  <2>4. LeftAsEnded'
    BY <1>10 DEF Wire, Closed, Resume, Goto, Raise, Error, CommitIsWhole,
       RollbackForClientError, LeftAsEnded, Ending
  <2> QED  BY <2>1, <2>2, <2>3, <2>4
<1>11. CASE Finally
  <2>1. TxTypeOK'
    BY <1>11 DEF Finally, Goto, MainStages
  <2>2. CommitIsWhole'
    BY <1>11 DEF Finally, Goto, CommitIsWhole, Ending
  <2>3. RollbackForClientError'
    BY <1>11 DEF Finally, Goto, RollbackForClientError, Ending
  <2>4. LeftAsEnded'
    BY <1>11 DEF Finally, Goto, CommitIsWhole, RollbackForClientError, LeftAsEnded, Ending
  <2> QED  BY <2>1, <2>2, <2>3, <2>4
<1>12. CASE Wake
  <2>1. TxTypeOK'
    BY <1>12 DEF Wake, KeepAliveStages
  <2>2. CommitIsWhole'
    BY <1>12 DEF Wake, CommitIsWhole, Ending
  <2>3. RollbackForClientError'
    BY <1>12 DEF Wake, RollbackForClientError, Ending
  <2>4. LeftAsEnded'
    BY <1>12 DEF Wake, CommitIsWhole, RollbackForClientError, LeftAsEnded, Ending
  <2> QED  BY <2>1, <2>2, <2>3, <2>4
<1>13. CASE Maintain
  <2>1. TxTypeOK'
    BY <1>13 DEF Maintain, KeepAliveStages
  <2>2. CommitIsWhole'
    BY <1>13 DEF Maintain, CommitIsWhole, Ending
  <2>3. RollbackForClientError'
    BY <1>13 DEF Maintain, RollbackForClientError, Ending
  <2>4. LeftAsEnded'
    BY <1>13 DEF Maintain, CommitIsWhole, RollbackForClientError, LeftAsEnded, Ending
  <2> QED  BY <2>1, <2>2, <2>3, <2>4
<1>14. CASE MaintainPost
  <2>1. TxTypeOK'
    BY <1>14 DEF MaintainPost, Error, KeepAliveStages
  <2>2. CommitIsWhole'
    BY <1>14 DEF MaintainPost, Error, CommitIsWhole, Ending
  <2>3. RollbackForClientError'
    BY <1>14 DEF MaintainPost, Error, RollbackForClientError, Ending
  <2>4. LeftAsEnded'
    BY <1>14 DEF MaintainPost, Error, CommitIsWhole, RollbackForClientError, LeftAsEnded,
       Ending
  <2> QED  BY <2>1, <2>2, <2>3, <2>4
<1>15. CASE StopFailed
  <2>1. TxTypeOK'
    BY <1>15 DEF StopFailed, KeepAliveStages
  <2>2. CommitIsWhole'
    BY <1>15 DEF StopFailed, CommitIsWhole, Ending
  <2>3. RollbackForClientError'
    BY <1>15 DEF StopFailed, RollbackForClientError, Ending
  <2>4. LeftAsEnded'
    BY <1>15 DEF StopFailed, CommitIsWhole, RollbackForClientError, LeftAsEnded, Ending
  <2> QED  BY <2>1, <2>2, <2>3, <2>4
<1>16. CASE SetFailed
  <2>1. TxTypeOK'
    BY <1>16 DEF SetFailed, KeepAliveStages
  <2>2. CommitIsWhole'
    BY <1>16 DEF SetFailed, CommitIsWhole, Ending
  <2>3. RollbackForClientError'
    BY <1>16 DEF SetFailed, RollbackForClientError, Ending
  <2>4. LeftAsEnded'
    BY <1>16 DEF SetFailed, CommitIsWhole, RollbackForClientError, LeftAsEnded, Ending
  <2> QED  BY <2>1, <2>2, <2>3, <2>4
<1>17. CASE Expire
  <2>1. TxTypeOK'
    BY <1>17 DEF Expire, Error, ServerStates
  <2>2. CommitIsWhole'
    BY <1>17 DEF Expire, Error, CommitIsWhole, Ending
  <2>3. RollbackForClientError'
    BY <1>17 DEF Expire, Error, RollbackForClientError, Ending
  <2>4. LeftAsEnded'
    BY <1>17 DEF Expire, Error, CommitIsWhole, RollbackForClientError, LeftAsEnded, Ending
  <2> QED  BY <2>1, <2>2, <2>3, <2>4
<1>18. CASE UNCHANGED txVars  
  BY <1>18 DEF txVars, CommitIsWhole, RollbackForClientError, LeftAsEnded, Ending
<1> QED
  BY <1>1, <1>2, <1>3, <1>4, <1>5, <1>6, <1>7, <1>8, <1>9, <1>10, <1>11, <1>12, <1>13,
        <1>14,
     <1>15, <1>16, <1>17, <1>18 DEF TxNext, Main, KeepAlive

(* The invariant holds in every reachable state.                           *)
THEOREM TxCorrect == TxSpec => []TxInv
<1>1. TxInit => TxTypeOK
  <2> SUFFICES ASSUME TxInit PROVE TxTypeOK
    OBVIOUS
  <2>1. main \in MainStages /\ op \in {"none", "commit",
  "rollback"} /\ exc \in Exceptions \cup {"none"}
    BY DEF TxInit, MainStages
  <2>2. ka \in KeepAliveStages /\ server \in ServerStates
    BY DEF TxInit, KeepAliveStages, ServerStates
  <2>3. inner \in BOOLEAN /\ stopped \in BOOLEAN /\ failed \in BOOLEAN /\ active \in BOOLEAN
    BY DEF TxInit
  <2>4. sent \in 0..BodySize /\ errors \in 0..MaxErrors
    BY TxAssumption DEF TxInit
  <2> QED  BY <2>1, <2>2, <2>3, <2>4 DEF TxTypeOK
<1>2. TxInit => CommitIsWhole /\ RollbackForClientError /\ LeftAsEnded
  BY DEF TxInit, CommitIsWhole, Ending, RollbackForClientError, LeftAsEnded
<1>3. TxInit => TxInv
  BY <1>1, <1>2 DEF TxInv
<1> QED  BY <1>3, TxStep, PTL DEF TxSpec

(* All state variables keep their types; no body is sent twice.            *)
THEOREM TxTypeCorrect == TxSpec => []TxTypeOK
<1>1. TxInv => TxTypeOK
  BY DEF TxInv
<1> QED  BY <1>1, TxCorrect, PTL

(* A half-done body is never committed, even if the body itself commits or *)
(* rolls back, as the batch load does.                                     *)
THEOREM NoPartialCommit == TxSpec => []OnlyWholeBodiesCommitted
<1>1. TxInv => OnlyWholeBodiesCommitted
  BY DEF TxInv, LeftAsEnded, OnlyWholeBodiesCommitted
<1> QED  BY <1>1, TxCorrect, PTL

(* Leaving the with statement normally means that everything is committed, *)
(* leaving it with a ClientError that everything was rolled back.          *)
THEOREM ExceptionsTellTheTruth == TxSpec => [](SuccessMeansCommitted /\ ClientErrorMeansRolledBack)
<1>1. TxInv => SuccessMeansCommitted /\ ClientErrorMeansRolledBack
  BY DEF TxInv, LeftAsEnded, SuccessMeansCommitted, ClientErrorMeansRolledBack
<1> QED  BY <1>1, TxCorrect, PTL

(* When only transaction() commits, an exception other than a lost answer  *)
(* means that nothing was committed.                                       *)
THEOREM FailureIsReal == ASSUME ~CommitsItself PROVE TxSpec => []FailureMeansNotCommitted
<1>1. TxInv => FailureMeansNotCommitted
  BY DEF TxInv, LeftAsEnded, FailureMeansNotCommitted
<1> QED  BY <1>1, TxCorrect, PTL

(* How the with statement is left tells what the server did, for bodies of *)
(* every size and any number of errors.                                    *)
THEOREM EndIsTrue == ASSUME ~CommitsItself PROVE TxSpec => []EndTellsTheTruth
<1>1. OnlyWholeBodiesCommitted /\ (SuccessMeansCommitted /\ ClientErrorMeansRolledBack)
        /\ FailureMeansNotCommitted => EndTellsTheTruth
  BY DEF EndTellsTheTruth
<1> QED  BY <1>1, NoPartialCommit, ExceptionsTellTheTruth, FailureIsReal, PTL

-----------------------------------------------------------------------------
(* PageSequence.  Facts about naturals, finite sets and lists of links.    *)

(* A non-empty set of naturals has a least one, one within bounds a        *)
(* greatest.                                                               *)
LEMMA Least ==
  ASSUME NEW S, S \subseteq Nat, S # {}
  PROVE  \E m \in S : \A j \in S : m <= j
<1>1. PICK m \in S : \A j \in S : <<j, m>> \notin OpToRel(<, Nat)
  BY NatLessThanWellFounded, WFMin
<1>2. \A j \in S : ~ (j < m)
  BY <1>1 DEF OpToRel
<1> QED BY <1>2

LEMMA Greatest ==
  ASSUME NEW N \in Nat, NEW S, \A k \in S : k \in 1..N, S # {}
  PROVE  \E m \in S : \A j \in S : j <= m
<1> DEFINE T == {N - k : k \in S}
<1>1. \A k \in S : k \in Nat /\ N - k \in T /\ N - k \in Nat
  OBVIOUS
<1>2. T \subseteq Nat /\ T # {}
  BY <1>1
<1>3. PICK x \in T : \A y \in T : x <= y
  <2> HIDE DEF T
  <2> QED BY <1>2, Least
<1>4. PICK m \in S : x = N - m
  OBVIOUS
<1>5. \A j \in S : N - m <= N - j
  BY <1>1, <1>3, <1>4
<1> QED BY <1>1, <1>5

-----------------------------------------------------------------------------
(* What fixpageorder looks up in the list it has read.                     *)
LEMMA PlacesOf ==
  ASSUME NEW got \in Seq(Links), NEW m \in Numbers(got)
  PROVE  \E k \in DOMAIN got : NumberAt(got, k) = m /\ proxy_by_page(got, m) = got[k]
<1> DEFINE S == {k \in DOMAIN got : NumberAt(got, k) = m}
<1>1. S # {} /\ \A k \in S : k \in 1..Len(got)
  BY DEF Numbers
<1>2. PICK k \in S : \A j \in S : j <= k
  <2> HIDE DEF S
  <2> QED BY <1>1, Greatest
<1>3. \E i \in DOMAIN got :
        NumberAt(got, i) = m /\ \A j \in DOMAIN got : NumberAt(got, j) = m => j <= i
  BY <1>2
<1> QED BY <1>3 DEF proxy_by_page

LEMMA NumbersFinite ==
  ASSUME NEW got \in Seq(Links)
  PROVE  /\ IsFiniteSet(Numbers(got)) /\ Cardinality(Numbers(got)) \in Nat
         /\ got # <<>> => Cardinality(Numbers(got)) >= 1
<1> DEFINE f == [k \in DOMAIN got |-> NumberAt(got, k)]
<1>1. IsFiniteSet(DOMAIN got)
  <2>1. DOMAIN got = 1..Len(got) /\ Len(got) \in Nat
    OBVIOUS
  <2> QED BY <2>1, FS_Interval
<1>2. f \in Surjection(DOMAIN got, Numbers(got))
  BY DEF Surjection, Numbers
<1>3. IsFiniteSet(Numbers(got))
  <2> HIDE DEF f
  <2> QED BY <1>1, <1>2, FS_Surjection
<1>4. Cardinality(Numbers(got)) \in Nat
  BY <1>3, FS_CardinalityType
<1>5. ASSUME got # <<>> PROVE Cardinality(Numbers(got)) >= 1
  <2>1. NumberAt(got, 1) \in Numbers(got)
    BY <1>5 DEF Numbers
  <2>2. Cardinality(Numbers(got)) # 0
    BY <1>3, <2>1, FS_EmptySet
  <2> QED BY <1>4, <2>2
<1> QED BY <1>3, <1>4, <1>5

(* Every rank below the size of a finite set of naturals is that of one of *)
(* its elements: ranks differ, and there are as many as elements.          *)
LEMMA RankExists ==
  ASSUME NEW S, S \subseteq Nat, IsFiniteSet(S), NEW k \in 1..Cardinality(S)
  PROVE  \E m \in S : Cardinality({b \in S : b < m}) = k - 1
<1> DEFINE Below(m) == {b \in S : b < m}
           r == [m \in S |-> Cardinality(Below(m))]
           T == 0..(Cardinality(S) - 1)
<1>1. Cardinality(S) \in Nat
  BY FS_CardinalityType
<1>2. \A m \in S : IsFiniteSet(Below(m)) /\ Cardinality(Below(m)) \in Nat
                   /\ Cardinality(Below(m)) < Cardinality(S)
  <2> TAKE m \in S
  <2>1. Below(m) \in SUBSET S /\ m \notin Below(m)
    OBVIOUS
  <2> HIDE DEF Below
  <2>2. /\ IsFiniteSet(Below(m)) /\ Cardinality(Below(m)) <= Cardinality(S)
        /\ Cardinality(S) = Cardinality(Below(m)) => S = Below(m)
    BY <2>1, FS_Subset
  <2>3. Cardinality(Below(m)) \in Nat
    BY <2>2, FS_CardinalityType
  <2> QED BY <1>1, <2>1, <2>2, <2>3
<1>3. \A m, j \in S : m < j => Cardinality(Below(m)) # Cardinality(Below(j))
  <2> TAKE m, j \in S
  <2> HAVE m < j
  <2>0. j \in Nat /\ \A b \in S : b \in Nat
    OBVIOUS
  <2>1. Below(m) \in SUBSET Below(j) /\ m \in Below(j) /\ m \notin Below(m)
    <3>1. \A b \in S : b < m => b < j
      BY <2>0
    <3>2. ~ (m < m)
      BY <2>0
    <3> QED BY <3>1, <3>2, Zenon
  <2> HIDE DEF Below
  <2> QED BY <1>2, <2>1, FS_Subset
<1>4. r \in Injection(S, T)
  <2>1. r \in [S -> T]
    <3> HIDE DEF Below
    <3> QED BY <1>1, <1>2
  <2>2. \A m, j \in S : m < j \/ j < m \/ m = j
    OBVIOUS
  <2>3. \A m, j \in S : r[m] = r[j] => m = j
    <3> HIDE DEF Below
    <3> QED BY <1>3, <2>2
  <2> HIDE DEF r, T
  <2> QED BY <2>1, <2>3 DEF Injection, IsInjective
<1>5. IsFiniteSet(T) /\ Cardinality(T) = Cardinality(S)
  <2> DEFINE top == Cardinality(S) - 1
  <2>1. top \in Int /\ top - 0 + 1 = Cardinality(S) /\ ~ (0 > top)
    BY <1>1
  <2> HIDE DEF top
  <2>2. IsFiniteSet(0..top) /\ Cardinality(0..top) = Cardinality(S)
    BY <2>1, FS_Interval
  <2> QED BY <2>2 DEF top
<1>6. r \in Surjection(S, T)
  <2> HIDE DEF r, T
  <2> QED BY <1>4, <1>5, FS_Injection
<1>7. k - 1 \in T
  BY <1>1
<1>8. PICK m \in S : r[m] = k - 1
  <2> HIDE DEF r, T
  <2> QED BY <1>6, <1>7 DEF Surjection
<1> QED BY <1>8

LEMMA RowTypes ==
  ASSUME row \in Rows
  PROVE  /\ Len(row) \in Nat \ {0} /\ 1 \in Pages /\ Len(row) \in Pages
         /\ Pages = 1..Len(row) /\ DOMAIN row = Pages
         /\ \A p \in Pages : /\ p \in Nat \ {0} /\ p <= Len(row)
                             /\ Number(p) \in Nat /\ row[p].files \in Seq(Files)
                             /\ FilesOf(p) \subseteq Files
<1>1. row \in Seq([numbered : BOOLEAN, number : Nat, files : Seq(Files)]) /\ row # <<>>
  BY PageAssumption
<1>2. Len(row) \in Nat \ {0} /\ DOMAIN row = 1..Len(row)
  BY <1>1
<1>3. \A p \in 1..Len(row) : row[p] \in [numbered : BOOLEAN, number : Nat, files : Seq(Files)]
  BY <1>1, ElementOfSeq
<1>4. \A p \in Pages : Number(p) \in Nat /\ row[p].files \in Seq(Files)
  BY <1>3 DEF Number, Pages
<1> QED BY <1>2, <1>4 DEF Pages, FilesOf

LEMMA LinksRead ==
  ASSUME NEW got \in Seq(Links)
  PROVE  \A k \in DOMAIN got :
           /\ got[k] \in Links /\ got[k].proxy \in Pages
           /\ got[k].prev \subseteq Pages /\ got[k].next \subseteq Pages
<1>1. \A k \in DOMAIN got : got[k] \in Links
  BY ElementOfSeq
<1> QED BY <1>1 DEF Links

LEMMA NumbersAreNat ==
  ASSUME row \in Rows, NEW got \in Seq(Links)
  PROVE  Numbers(got) \subseteq Nat
<1>1. \A k \in DOMAIN got : got[k].proxy \in Pages
  BY LinksRead
<1> QED BY <1>1, RowTypes DEF Numbers, NumberAt

(* Each place in the order is that of a proxy that was read.               *)
LEMMA SortedWereRead ==
  ASSUME row \in Rows, NEW got \in Seq(Links), NEW k \in 1..Cardinality(Numbers(got))
  PROVE  \E j \in DOMAIN got : SortedAt(got, k) = got[j]
<1> DEFINE Rank(m) == Cardinality({b \in Numbers(got) : b < m}) = k - 1
<1>1. \E m \in Numbers(got) : Rank(m)
  BY NumbersFinite, NumbersAreNat, RankExists
<1>2. PICK m \in Numbers(got) : m = CHOOSE i \in Numbers(got) : Rank(i)
  <2> HIDE DEF Rank
  <2> QED BY <1>1
<1>3. SortedAt(got, k) = proxy_by_page(got, m)
  BY <1>2 DEF SortedAt
<1> QED BY <1>3, PlacesOf

LEMMA NeighbourIsOne ==
  ASSUME NEW got \in Seq(Links), NEW m
  PROVE  /\ Neighbour(got, m) \subseteq Pages
         /\ \A p, q \in Neighbour(got, m) : p = q
<1>1. CASE m \in Numbers(got)
  BY <1>1, PlacesOf, LinksRead DEF Neighbour
<1>2. CASE m \notin Numbers(got)
  BY <1>2 DEF Neighbour
<1> QED BY <1>1, <1>2

-----------------------------------------------------------------------------
(* An item that can be shown: nothing refers to what is not there, and     *)
(* whoever finds a first page finds everything.                            *)
Full(w) ==
  /\ w.pages = Pages /\ w.has_member = Pages /\ w.proxies = Pages
  /\ w.binaries = AllFiles /\ w.described = AllFiles /\ w.has_file = AllFiles
Visible(w) == w.first # None
Referred(w) ==
  /\ w.has_member \subseteq w.pages
  /\ w.has_file \subseteq w.described /\ w.described \subseteq w.binaries
  /\ w.binaries \subseteq AllFiles
  /\ w.proxies = Pages \/ \A p \in Pages : w.prev[p] = {} /\ w.next[p] = {}
Shown(w) ==
  /\ w \in Items /\ Referred(w)
  /\ IF Visible(w) THEN Full(w) /\ w.first = 1 /\ w.last = Len(row) ELSE w.last = None

(* The chain as create_page_sequence() makes it: every page leads to the   *)
(* one after it, at the latest when the item shows a first page.           *)
Fresh(w) ==
  /\ \A p \in Pages : w.next[p] \subseteq After(p)
  /\ Visible(w) => \A p \in Pages : w.next[p] = After(p)

(* How far the creator c has come with the item w.                         *)
Ended == {"done", "failed"}
Linking == {"link", "finish", "commit"}
AfterMember == {"reread", "proxies", "proxy"}
AfterPage == AfterMember \cup {"files", "put_files", "binary", "describe", "attach", "member"}
InFiles == {"files", "put_files", "binary", "describe", "attach"}

FilesAttached(w, c) ==
  /\ \A p \in Pages : p < c.page => \A f \in FilesOf(p) : <<p, f>> \in w.has_file
  /\ \A f \in FilesOf(c.page) :
       <<c.page, f>> \in w.has_file \/ \E k \in DOMAIN c.left : f = c.left[k]
  /\ \A k \in DOMAIN c.left : c.left[k] \in FilesOf(c.page)
  /\ c.pc \in AfterMember \cup {"member"} => c.left = <<>>
  /\ c.pc \in {"describe", "attach"} => <<c.page, Head(c.left)>> \in w.binaries
  /\ c.pc = "attach" => <<c.page, Head(c.left)>> \in w.described

PagesMade(w, c) ==
  /\ w.pages = {p \in Pages : p < c.page \/ (p = c.page /\ c.pc \in AfterPage)}
  /\ w.has_member = {p \in Pages : p < c.page \/ (p = c.page /\ c.pc \in AfterMember)}
  /\ w.proxies = {p \in Pages : p < c.page}
  /\ \A p \in Pages : w.prev[p] = {} /\ w.next[p] = {}

Linked(w, c) ==
  /\ Full(w)
  /\ \A p \in Pages :
       IF c.pc # "link" \/ p < c.page THEN w.next[p] = After(p) ELSE w.next[p] = {}

Progress(w, c) ==
  /\ Visible(w) <=> c.pc = "commit"
  /\ c.pc = "commit" => tx
  /\ IF c.pc \in Linking THEN Linked(w, c) ELSE PagesMade(w, c) /\ FilesAttached(w, c)

Creators ==
  [pc : {"members", "put_members", "page", "files", "put_files", "binary",
         "describe", "attach", "member", "reread", "proxies", "proxy", "link",
         "finish", "commit", "done", "failed"},
   page : Pages, left : Seq(Files)]

CreatorInv ==
  /\ row \in Rows /\ tx \in BOOLEAN
  /\ creator \in Creators /\ (creator.pc \in InFiles => creator.left # <<>>)
  /\ Shown(repo) /\ Shown(txn) /\ Fresh(txn)
  /\ creator.pc \notin Ended => Progress(work, creator) /\ ~ Visible(repo)
  /\ IF tx THEN Visible(repo) \/ repo = Bare ELSE txn = Bare
  /\ ~ Visible(repo) => Fresh(repo)

(* What a run of fixpageorder holds: links it has read, and a place in     *)
(* their order.  Who found a proxy found the whole item.                   *)
FixerTypes ==
  fixer \in [Fixers -> [pc : {"idle", "follow", "patch", "commit"}, dry : BOOLEAN,
                        at : Pages \cup {None}, got : Seq(Links), todo : Nat,
                        writes : SUBSET [old : Links, new : Links]]]
FixerHolds(f) ==
  /\ f.pc = "idle" => f = NotFixing
  /\ f.at # None \/ f.got # <<>> \/ f.pc \in {"patch", "commit"} => Visible(repo)
  /\ f.pc \notin {"patch", "commit"} => f.writes = {}
  /\ f.pc = "patch" => f.todo \in 1..Cardinality(Numbers(f.got))
FixerInv == FixerTypes /\ \A x \in Fixers : FixerHolds(fixer[x])

(* While no two runs overlap, what the one that goes on has read is still  *)
(* so, and every page leads to one other at most.                          *)
AsRead(f) ==
  /\ \A k \in DOMAIN f.got : f.got[k].next = repo.next[f.got[k].proxy]
  /\ \A w \in f.writes :
       /\ w.old.next = repo.next[w.old.proxy]
       /\ \A p, q \in w.new.next : p = q
Alone ==
  ~overlapped =>
    /\ \A x, y \in Fixers : fixer[x].pc # "idle" /\ fixer[y].pc # "idle" => x = y
    /\ \A x \in Fixers : AsRead(fixer[x])
    /\ \A p \in Pages : \A q, r \in repo.next[p] : q = r

(* What the export has read is the beginning of a chain; as long as nothing*)
(* is relinked, it goes on from the last page.                             *)
ReaderTypes ==
  reader \in [pc : {"idle", "follow", "done", "failed"}, at : Pages \cup {None},
              yielded : Seq([page : Pages, files : SUBSET Files])]
OnChain ==
  LET read == reader.yielded IN
  /\ IF read = <<>> THEN reader.at \in {None, repo.first}
     ELSE /\ read[1].page = repo.first
          /\ reader.at \in Value(repo.next[read[Len(read)].page])
  /\ \A k \in 1..Len(read) - 1 : read[k + 1].page \in repo.next[read[k].page]
  /\ \A k \in DOMAIN read : read[k].files = FilesOf(read[k].page)
  /\ fixes = 0 => \A k \in DOMAIN read : read[k].page = k
ReaderInv ==
  /\ ReaderTypes
  /\ reader.at # None \/ reader.yielded # <<>> => Visible(repo)
  /\ reader.pc = "idle" => reader.at = None /\ reader.yielded = <<>>
  /\ reader.pc = "done" => reader.at = None
  /\ reader.pc \in {"follow", "done"} /\ ~relinked => OnChain

Bounds ==
  /\ relinked \in BOOLEAN /\ overlapped \in BOOLEAN
  /\ fixes \in 0..MaxFixes /\ faults \in 0..MaxFaults
  /\ fixes = 0 => \A x \in Fixers : fixer[x] = NotFixing
  /\ fixes = 0 => Fresh(repo)

PagesInv == CreatorInv /\ FixerInv /\ Alone /\ ReaderInv /\ Bounds

-----------------------------------------------------------------------------
(* The creator.  No step changes the file groups.                          *)
LEMMA SameRow ==
  ASSUME row' = row
  PROVE  /\ Pages' = Pages /\ Items' = Items /\ AllFiles' = AllFiles /\ Creators' = Creators
         /\ Bare' = Bare
         /\ \A p : FilesOf(p)' = FilesOf(p) /\ After(p)' = After(p)
BY DEF Pages, Items, AllFiles, Creators, Bare, FilesOf, After

LEMMA BareIsShown ==
  ASSUME row \in Rows PROVE Shown(Bare) /\ Fresh(Bare) /\ ~ Visible(Bare)
<1>1. Bare \in Items
  BY DEF Bare, Items
<1> QED BY <1>1 DEF Bare, Shown, Referred, Visible, Fresh, None

Sent(w, next) == (Keep(w) /\ creator' = next) \/ Fails(w)

(* The item is handed on as the creator left it, on the server or in its   *)
(* transaction.                                                            *)
LEMMA SendKeeps ==
  ASSUME CreatorInv, creator.pc \notin Ended, UNCHANGED Others,
         NEW w, Shown(w), Fresh(w),
         NEW next \in Creators, next.pc \in InFiles => next.left # <<>>,
         next.pc \notin Ended => Progress(w, next),
         Visible(w) => next.pc \in Ended \/ tx,
         Sent(w, next)
  PROVE  CreatorInv' /\ Fresh(repo)'
<1> USE DEF CreatorInv
<1>1. row' = row /\ tx' = tx
  BY DEF Others
<1>2. Shown(repo') /\ Shown(txn') /\ Fresh(txn')
  BY BareIsShown DEF Sent, Keep, Fails
<1>3. Shown(repo)' /\ Shown(txn)' /\ Fresh(txn)'
  BY <1>1, <1>2, SameRow DEF Shown, Referred, Visible, Full, Fresh
<1>4. Fresh(repo')
  BY DEF Sent, Keep, Fails
<1>5. Fresh(repo)'
  BY <1>1, <1>4, SameRow DEF Visible, Fresh
<1>6. creator' \in Creators /\ (creator'.pc \in InFiles => creator'.left # <<>>)
  BY DEF Sent, Fails, Creators, InFiles
<1>7. creator'.pc \notin Ended =>
        /\ creator' = next /\ Progress(w, next) /\ (IF tx THEN txn' ELSE repo') = w
        /\ ~ Visible(repo')
  BY DEF Sent, Keep, Fails, Ended, Creators
<1>8. (creator.pc \notin Ended => Progress(work, creator) /\ ~ Visible(repo))'
  BY <1>1, <1>7, SameRow DEF work, Progress, Visible, Linked, Full, PagesMade, FilesAttached
<1>9. (IF tx THEN Visible(repo) \/ repo = Bare ELSE txn = Bare)'
  BY <1>1, SameRow DEF Sent, Keep, Fails, Visible, Ended
<1> QED BY <1>1, <1>3, <1>5, <1>6, <1>8, <1>9, SameRow

LEMMA AtWork ==
  ASSUME CreatorInv, creator.pc \notin Ended
  PROVE  /\ Shown(work) /\ Fresh(work) /\ Progress(work, creator)
         /\ Visible(work) => tx
         /\ creator.page \in Pages /\ creator.left \in Seq(Files)
BY DEF CreatorInv, work, Creators

LEMMA StageOf ==
  ASSUME CreatorInv, NEW stage \in {"members", "put_members", "page", "files", "put_files",
           "binary", "describe", "attach", "member", "reread", "proxies", "proxy", "link",
           "finish", "commit", "failed"}
  PROVE  /\ To(stage) \in Creators /\ To(stage).pc = stage
         /\ To(stage).page = creator.page /\ To(stage).left = creator.left
BY DEF CreatorInv, Creators, To

LEMMA AtFile ==
  ASSUME CreatorInv, creator.pc \in InFiles
  PROVE  /\ creator.pc \notin Ended
         /\ creator.left # <<>> /\ Head(creator.left) = creator.left[1]
         /\ file = <<creator.page, Head(creator.left)>> /\ file \in Pages \X Files
         /\ file \in AllFiles
         /\ Tail(creator.left) \in Seq(Files)
         /\ \A k \in DOMAIN creator.left : creator.left[k] \in FilesOf(creator.page)
         /\ \A k \in DOMAIN Tail(creator.left) :
              Tail(creator.left)[k] \in FilesOf(creator.page)
         /\ \A k \in DOMAIN creator.left :
              \/ creator.left[k] = Head(creator.left)
              \/ \E j \in DOMAIN Tail(creator.left) : creator.left[k] = Tail(creator.left)[j]
<1> DEFINE left == creator.left
<1>1. creator.pc \notin Ended /\ creator.pc \notin Linking
  BY DEF InFiles, Ended, Linking
<1>2. left \in Seq(Files) /\ left # <<>> /\ creator.page \in Pages
  BY <1>1, AtWork DEF CreatorInv
<1>3. \A k \in DOMAIN left : left[k] \in FilesOf(creator.page)
  BY <1>1, AtWork DEF Progress, FilesAttached
<1>4. /\ Head(left) = left[1] /\ Head(left) \in Files /\ Tail(left) \in Seq(Files)
      /\ Len(left) \in Nat \ {0} /\ DOMAIN left = 1..Len(left)
      /\ DOMAIN Tail(left) = 1..Len(left) - 1
      /\ \A k \in 1..Len(left) - 1 : Tail(left)[k] = left[k + 1]
  <2> HIDE DEF left
  <2> QED BY <1>2
<1>5. \A k \in 1..Len(left) - 1 : k + 1 \in DOMAIN left
  <2> HIDE DEF left
  <2> QED BY <1>4
<1>6. \A k \in DOMAIN left : k = 1 \/ (k - 1 \in 1..Len(left) - 1 /\ left[k] = Tail(left)[k - 1])
  <2> HIDE DEF left
  <2> QED BY <1>4
<1>7. file = <<creator.page, Head(left)>> /\ 1 \in DOMAIN left
  <2>1. 1 \in DOMAIN left
    <3> HIDE DEF left
    <3> QED BY <1>4
  <2> QED BY <2>1 DEF file, n
<1>8. file \in AllFiles
  BY <1>2, <1>3, <1>4, <1>7 DEF AllFiles
<1> HIDE DEF left
<1>9. \A k \in DOMAIN Tail(left) : Tail(left)[k] \in FilesOf(creator.page)
  BY <1>3, <1>4, <1>5
<1>10. \A k \in DOMAIN left :
         left[k] = Head(left) \/ \E j \in DOMAIN Tail(left) : left[k] = Tail(left)[j]
  BY <1>4, <1>6
<1>11. file \in Pages \X Files
  BY <1>2, <1>4, <1>7
<1> QED BY <1>1, <1>2, <1>3, <1>4, <1>7, <1>8, <1>9, <1>10, <1>11 DEF left

(* Asking for a container, whatever the answer.                            *)
LEMMA ExistsKeeps ==
  ASSUME CreatorInv, creator.pc \notin Ended, NEW there,
         NEW found \in {"page", "binary"}, NEW missing \in {"put_members", "put_files"},
         \A stage \in {found, missing} :
           /\ Progress(work, To(stage))
           /\ stage \in InFiles => creator.left # <<>>,
         Exists(there, found, missing)
  PROVE  CreatorInv' /\ Fresh(repo)'
<1>1. UNCHANGED Others
  BY DEF Exists, Request
<1>2. PICK stage \in {found, missing} : Sent(work, To(stage))
  BY DEF Exists, Request, Sent, Keep, work
<1>3. Visible(work) => tx
  BY AtWork
<1> QED BY <1>1, <1>2, <1>3, AtWork, StageOf, SendKeeps

LEMMA PutKeeps ==
  ASSUME CreatorInv, creator.pc \notin Ended, NEW there,
         NEW w, Shown(w), Fresh(w), Visible(w) => tx,
         NEW stage \in {"page", "binary"}, stage \in InFiles => creator.left # <<>>,
         Progress(w, To(stage)),
         PutContainer(there, w, To(stage))
  PROVE  CreatorInv' /\ Fresh(repo)'
<1>1. UNCHANGED Others
  BY DEF PutContainer, Request
<1>2. CASE ~ there
  <2>1. Sent(w, To(stage))
    BY <1>2 DEF PutContainer, Request, Sent
  <2> QED BY <1>1, <2>1, StageOf, SendKeeps
<1>3. CASE there
  <2> DEFINE v == IF tx THEN Bare ELSE work
  <2>1. Shown(v) /\ Fresh(v) /\ (Visible(v) => tx)
    BY AtWork, BareIsShown DEF CreatorInv
  <2>2. Sent(v, To("failed"))
    BY <1>3 DEF PutContainer, Sent, Keep, work, CreatorInv
  <2>3. To("failed").pc \in Ended /\ To("failed").pc \notin InFiles
    BY StageOf DEF Ended, InFiles
  <2> HIDE DEF v
  <2> QED BY <1>1, <2>1, <2>2, <2>3, StageOf, SendKeeps
<1> QED BY <1>2, <1>3

(* The stages of one page.                                                 *)
LEMMA HeadMembersKeeps == CreatorInv /\ HeadMembers => CreatorInv' /\ Fresh(repo)'
<1> SUFFICES ASSUME CreatorInv, HeadMembers PROVE CreatorInv' /\ Fresh(repo)'
  OBVIOUS
<1>1. creator.pc = "members" /\ creator.pc \notin Ended
  BY DEF HeadMembers, Ended
<1>2. \A stage \in {"page", "put_members"} : Progress(work, To(stage)) /\ stage \notin InFiles
  BY <1>1, AtWork, StageOf DEF Progress, Linking, InFiles, PagesMade, FilesAttached, AfterPage,
     AfterMember
<1> QED BY <1>1, <1>2, ExistsKeeps DEF HeadMembers

LEMMA PutMembersKeeps == CreatorInv /\ PutMembers => CreatorInv' /\ Fresh(repo)'
<1> SUFFICES ASSUME CreatorInv, PutMembers PROVE CreatorInv' /\ Fresh(repo)'
  OBVIOUS
<1> DEFINE w == [work EXCEPT !.members_container = TRUE]
<1>1. creator.pc = "put_members" /\ creator.pc \notin Ended
  BY DEF PutMembers, Ended
<1>2. Shown(work) /\ Fresh(work) /\ Progress(work, creator)
  BY <1>1, AtWork
<1>3. w \in Items
  BY <1>2 DEF Shown, Items
<1>4. Shown(w) /\ Fresh(w) /\ ~ Visible(w)
  BY <1>1, <1>2, <1>3 DEF Shown, Referred, Visible, Full, Fresh, Items, Progress
<1>5. Progress(w, To("page")) /\ "page" \notin InFiles
  BY <1>1, <1>2, <1>4, StageOf DEF Progress, Linking, InFiles, PagesMade, FilesAttached,
     AfterPage, AfterMember, Shown, Items
<1> QED BY <1>1, <1>4, <1>5, PutKeeps DEF PutMembers

LEMMA PostPageKeeps == CreatorInv /\ PostPage => CreatorInv' /\ Fresh(repo)'
<1> SUFFICES ASSUME CreatorInv, PostPage PROVE CreatorInv' /\ Fresh(repo)'
  OBVIOUS
<1> DEFINE w == [work EXCEPT !.pages = @ \cup {n}]
           next == WithFiles(creator.left)
<1>1. creator.pc = "page" /\ creator.pc \notin Ended /\ ~ Visible(work)
  BY AtWork DEF PostPage, Ended, Progress
<1>2. Shown(work) /\ Fresh(work) /\ Progress(work, creator) /\ creator.page \in Pages
  BY <1>1, AtWork
<1>3. w \in Items
  BY <1>2 DEF Shown, Items, n
<1>4. Shown(w) /\ Fresh(w) /\ ~ Visible(w)
  BY <1>1, <1>2, <1>3 DEF Shown, Referred, Visible, Full, Fresh, Items, Progress, n,
     Linking, PagesMade, AfterPage, AfterMember
<1>5. next \in Creators /\ (next.pc \in InFiles => next.left # <<>>)
  BY <1>1, <1>2, StageOf DEF CreatorInv, Creators, InFiles, n, WithFiles
<1>6. Progress(w, next)
  BY <1>1, <1>2, <1>4, StageOf DEF Progress, Linking, InFiles, PagesMade, FilesAttached,
     AfterPage, AfterMember, Shown, Items, n, WithFiles
<1> HIDE DEF w, next
<1>7. UNCHANGED Others /\ Sent(w, next)
  BY DEF PostPage, Request, Sent, w, next, n
<1> QED BY <1>1, <1>4, <1>5, <1>6, <1>7, SendKeeps

LEMMA HeadFilesKeeps == CreatorInv /\ HeadFiles => CreatorInv' /\ Fresh(repo)'
<1> SUFFICES ASSUME CreatorInv, HeadFiles PROVE CreatorInv' /\ Fresh(repo)'
  OBVIOUS
<1>1. creator.pc = "files" /\ creator.pc \notin Ended /\ creator.left # <<>>
  BY DEF HeadFiles, Ended, CreatorInv, InFiles
<1>2. \A stage \in {"binary", "put_files"} : Progress(work, To(stage))
  BY <1>1, AtWork, StageOf DEF Progress, Linking, PagesMade, FilesAttached, AfterPage,
     AfterMember
<1> QED BY <1>1, <1>2, ExistsKeeps DEF HeadFiles

LEMMA PutFilesKeeps == CreatorInv /\ PutFiles => CreatorInv' /\ Fresh(repo)'
<1> SUFFICES ASSUME CreatorInv, PutFiles PROVE CreatorInv' /\ Fresh(repo)'
  OBVIOUS
<1> DEFINE w == [work EXCEPT !.files_containers = @ \cup {n}]
<1>1. creator.pc = "put_files" /\ creator.pc \notin Ended /\ creator.left # <<>>
  BY DEF PutFiles, Ended, CreatorInv, InFiles
<1>2. Shown(work) /\ Fresh(work) /\ Progress(work, creator) /\ creator.page \in Pages
  BY <1>1, AtWork
<1>3. w \in Items
  BY <1>2 DEF Shown, Items, n
<1>4. Shown(w) /\ Fresh(w) /\ ~ Visible(w)
  BY <1>1, <1>2, <1>3 DEF Shown, Referred, Visible, Full, Fresh, Items, Progress
<1>5. Progress(w, To("binary"))
  BY <1>1, <1>2, <1>4, StageOf DEF Progress, Linking, PagesMade, FilesAttached,
     AfterPage, AfterMember, Shown, Items
<1> QED BY <1>1, <1>4, <1>5, PutKeeps DEF PutFiles

LEMMA PostBinaryKeeps == CreatorInv /\ PostBinary => CreatorInv' /\ Fresh(repo)'
<1> SUFFICES ASSUME CreatorInv, PostBinary PROVE CreatorInv' /\ Fresh(repo)'
  OBVIOUS
<1> DEFINE w == [work EXCEPT !.binaries = @ \cup {file}]
           next == To("describe")
<1>1. creator.pc = "binary" /\ creator.pc \notin Ended /\ ~ Visible(work)
  BY AtWork DEF PostBinary, Ended, Progress
<1>f. creator.pc \in InFiles
  BY <1>1 DEF InFiles
<1>2. Shown(work) /\ Fresh(work) /\ Progress(work, creator) /\ creator.page \in Pages
  BY <1>1, AtWork
<1>3. w \in Items
  BY <1>2, <1>f, AtFile DEF Shown, Items
<1>4. Shown(w) /\ Fresh(w) /\ ~ Visible(w)
  BY <1>1, <1>2, <1>3, <1>f, AtFile DEF Shown, Referred, Visible, Full, Fresh, Items, Progress
<1>5. next \in Creators /\ (next.pc \in InFiles => next.left # <<>>)
  BY <1>1, <1>2, <1>f, AtFile, StageOf DEF CreatorInv, Creators, InFiles
<1>6. Progress(w, next)
  BY <1>1, <1>2, <1>4, <1>f, AtFile, StageOf DEF Progress, Linking, InFiles, PagesMade, FilesAttached,
     AfterPage, AfterMember, Shown, Items
<1> HIDE DEF w, next
<1>7. UNCHANGED Others /\ Sent(w, next)
  BY DEF PostBinary, Request, Sent, w, next, n
<1> QED BY <1>1, <1>4, <1>5, <1>6, <1>7, SendKeeps

LEMMA PatchFileKeeps == CreatorInv /\ PatchFile => CreatorInv' /\ Fresh(repo)'
<1> SUFFICES ASSUME CreatorInv, PatchFile PROVE CreatorInv' /\ Fresh(repo)'
  OBVIOUS
<1> DEFINE w == [work EXCEPT !.described = @ \cup {file}]
           next == To("attach")
<1>1. creator.pc = "describe" /\ creator.pc \notin Ended /\ ~ Visible(work)
  BY AtWork DEF PatchFile, Ended, Progress
<1>f. creator.pc \in InFiles
  BY <1>1 DEF InFiles
<1>2. Shown(work) /\ Fresh(work) /\ Progress(work, creator) /\ creator.page \in Pages
  BY <1>1, AtWork
<1>g. file \in work.binaries
  BY <1>1, <1>2, <1>f, AtFile DEF Progress, Linking, FilesAttached
<1>3. w \in Items
  BY <1>2, <1>f, AtFile DEF Shown, Items
<1>4. Shown(w) /\ Fresh(w) /\ ~ Visible(w)
  BY <1>1, <1>2, <1>3, <1>g DEF Shown, Referred, Visible, Full, Fresh, Items, Progress
<1>5. next \in Creators /\ (next.pc \in InFiles => next.left # <<>>)
  BY <1>1, <1>2, <1>f, AtFile, StageOf DEF CreatorInv, Creators, InFiles
<1>6. Progress(w, next)
  <2>1. next.pc = "attach" /\ next.page = creator.page /\ next.left = creator.left
    BY StageOf
  <2>2. /\ w.described = work.described \cup {file} /\ w.binaries = work.binaries
        /\ w.has_file = work.has_file
        /\ w.pages = work.pages /\ w.has_member = work.has_member
        /\ w.proxies = work.proxies /\ w.prev = work.prev /\ w.next = work.next
    BY <1>2 DEF Shown, Items
  <2>3. PagesMade(work, creator) /\ FilesAttached(work, creator)
    BY <1>1, <1>2 DEF Progress, Linking
  <2> HIDE DEF w, next
  <2>4. PagesMade(w, next)
    BY <1>1, <2>1, <2>2, <2>3 DEF PagesMade, AfterPage, AfterMember
  <2>5. FilesAttached(w, next)
    BY <1>1, <1>f, <2>1, <2>2, <2>3, AtFile DEF FilesAttached, AfterMember
  <2> QED BY <1>4, <2>1, <2>4, <2>5 DEF Progress, Linking
<1> HIDE DEF w, next
<1>7. UNCHANGED Others /\ Sent(w, next)
  BY DEF PatchFile, Request, Sent, w, next, n
<1> QED BY <1>1, <1>4, <1>5, <1>6, <1>7, SendKeeps

LEMMA AttachFileKeeps == CreatorInv /\ AttachFile => CreatorInv' /\ Fresh(repo)'
<1> SUFFICES ASSUME CreatorInv, AttachFile PROVE CreatorInv' /\ Fresh(repo)'
  OBVIOUS
<1> DEFINE w == [work EXCEPT !.has_file = @ \cup {file}]
           next == WithFiles(Tail(creator.left))
<1>1. creator.pc = "attach" /\ creator.pc \notin Ended /\ ~ Visible(work)
  BY AtWork DEF AttachFile, Ended, Progress
<1>f. creator.pc \in InFiles
  BY <1>1 DEF InFiles
<1>2. Shown(work) /\ Fresh(work) /\ Progress(work, creator) /\ creator.page \in Pages
  BY <1>1, AtWork
<1>g. file \in work.described
  BY <1>1, <1>2, <1>f, AtFile DEF Progress, Linking, FilesAttached
<1>3. w \in Items
  BY <1>2, <1>f, AtFile DEF Shown, Items
<1>4. Shown(w) /\ Fresh(w) /\ ~ Visible(w)
  BY <1>1, <1>2, <1>3, <1>g DEF Shown, Referred, Visible, Full, Fresh, Items, Progress
<1>5. next \in Creators /\ (next.pc \in InFiles => next.left # <<>>)
  BY <1>1, <1>2, <1>f, AtFile, StageOf DEF CreatorInv, Creators, InFiles, WithFiles
<1>6. Progress(w, next)
  BY <1>1, <1>2, <1>4, <1>f, AtFile, StageOf DEF Progress, Linking, InFiles, PagesMade, FilesAttached,
     AfterPage, AfterMember, Shown, Items, WithFiles
<1> HIDE DEF w, next
<1>7. UNCHANGED Others /\ Sent(w, next)
  BY DEF AttachFile, Request, Sent, w, next, n
<1> QED BY <1>1, <1>4, <1>5, <1>6, <1>7, SendKeeps

LEMMA PatchMemberKeeps == CreatorInv /\ PatchMember => CreatorInv' /\ Fresh(repo)'
<1> SUFFICES ASSUME CreatorInv, PatchMember PROVE CreatorInv' /\ Fresh(repo)'
  OBVIOUS
<1> DEFINE w == [work EXCEPT !.has_member = @ \cup {n}]
           next == To("reread")
<1>1. creator.pc = "member" /\ creator.pc \notin Ended /\ ~ Visible(work)
  BY AtWork DEF PatchMember, Ended, Progress
<1>2. Shown(work) /\ Fresh(work) /\ Progress(work, creator) /\ creator.page \in Pages
  BY <1>1, AtWork
<1>3. w \in Items
  BY <1>2 DEF Shown, Items, n
<1>4. Shown(w) /\ Fresh(w) /\ ~ Visible(w)
  BY <1>1, <1>2, <1>3 DEF Shown, Referred, Visible, Full, Fresh, Items, Progress, n,
     Linking, PagesMade, AfterPage, AfterMember
<1>5. next \in Creators /\ (next.pc \in InFiles => next.left # <<>>)
  BY <1>1, <1>2, StageOf DEF CreatorInv, Creators, InFiles, n
<1>6. Progress(w, next)
  BY <1>1, <1>2, <1>4, StageOf DEF Progress, Linking, InFiles, PagesMade, FilesAttached,
     AfterPage, AfterMember, Shown, Items, n
<1> HIDE DEF w, next
<1>7. UNCHANGED Others /\ Sent(w, next)
  BY DEF PatchMember, Request, Sent, w, next, n
<1> QED BY <1>1, <1>4, <1>5, <1>6, <1>7, SendKeeps

LEMMA RereadPageKeeps == CreatorInv /\ RereadPage => CreatorInv' /\ Fresh(repo)'
<1> SUFFICES ASSUME CreatorInv, RereadPage PROVE CreatorInv' /\ Fresh(repo)'
  OBVIOUS
<1> DEFINE w == work
           next == To(IF work.proxies_container THEN "proxy" ELSE "proxies")
<1>1. creator.pc = "reread" /\ creator.pc \notin Ended /\ ~ Visible(work)
  BY AtWork DEF RereadPage, Ended, Progress
<1>2. Shown(work) /\ Fresh(work) /\ Progress(work, creator) /\ creator.page \in Pages
  BY <1>1, AtWork
<1>3. w \in Items
  BY <1>2 DEF Shown, Items
<1>4. Shown(w) /\ Fresh(w) /\ ~ Visible(w)
  BY <1>1, <1>2, <1>3 DEF Shown, Referred, Visible, Full, Fresh, Items, Progress
<1>5. next \in Creators /\ (next.pc \in InFiles => next.left # <<>>)
  BY <1>1, <1>2, StageOf DEF CreatorInv, Creators, InFiles
<1>6. Progress(w, next)
  BY <1>1, <1>2, <1>4, StageOf DEF Progress, Linking, InFiles, PagesMade, FilesAttached,
     AfterPage, AfterMember, Shown, Items
<1> HIDE DEF w, next
<1>7. UNCHANGED Others /\ Sent(w, next)
  BY DEF RereadPage, Request, Sent, w, next, n
<1> QED BY <1>1, <1>4, <1>5, <1>6, <1>7, SendKeeps

LEMMA PostProxiesKeeps == CreatorInv /\ PostProxies => CreatorInv' /\ Fresh(repo)'
<1> SUFFICES ASSUME CreatorInv, PostProxies PROVE CreatorInv' /\ Fresh(repo)'
  OBVIOUS
<1> DEFINE w == [work EXCEPT !.proxies_container = TRUE]
           next == To("proxy")
<1>1. creator.pc = "proxies" /\ creator.pc \notin Ended /\ ~ Visible(work)
  BY AtWork DEF PostProxies, Ended, Progress
<1>2. Shown(work) /\ Fresh(work) /\ Progress(work, creator) /\ creator.page \in Pages
  BY <1>1, AtWork
<1>3. w \in Items
  BY <1>2 DEF Shown, Items
<1>4. Shown(w) /\ Fresh(w) /\ ~ Visible(w)
  BY <1>1, <1>2, <1>3 DEF Shown, Referred, Visible, Full, Fresh, Items, Progress
<1>5. next \in Creators /\ (next.pc \in InFiles => next.left # <<>>)
  BY <1>1, <1>2, StageOf DEF CreatorInv, Creators, InFiles
<1>6. Progress(w, next)
  BY <1>1, <1>2, <1>4, StageOf DEF Progress, Linking, InFiles, PagesMade, FilesAttached,
     AfterPage, AfterMember, Shown, Items
<1> HIDE DEF w, next
<1>7. UNCHANGED Others /\ Sent(w, next)
  BY DEF PostProxies, Request, Sent, w, next, n
<1> QED BY <1>1, <1>4, <1>5, <1>6, <1>7, SendKeeps

LEMMA PostProxyKeeps == CreatorInv /\ PostProxy => CreatorInv' /\ Fresh(repo)'
<1> SUFFICES ASSUME CreatorInv, PostProxy PROVE CreatorInv' /\ Fresh(repo)'
  OBVIOUS
<1> DEFINE w == [work EXCEPT !.proxies = @ \cup {n}]
           next == IF n < Len(row)
                   THEN [pc |-> "members", page |-> n + 1, left |-> row[n + 1].files]
                   ELSE [pc |-> "link", page |-> 1, left |-> <<>>]
<1>1. creator.pc = "proxy" /\ creator.pc \notin Ended /\ ~ Visible(work)
  BY AtWork DEF PostProxy, Ended, Progress
<1>2. Shown(work) /\ Fresh(work) /\ Progress(work, creator) /\ creator.page \in Pages
  BY <1>1, AtWork
<1>3. w \in Items
  BY <1>2 DEF Shown, Items, n
<1>4. Shown(w) /\ Fresh(w) /\ ~ Visible(w)
  BY <1>1, <1>2, <1>3 DEF Shown, Referred, Visible, Full, Fresh, Items, Progress, n,
     Linking, PagesMade, AfterPage, AfterMember
<1>r. /\ n = creator.page /\ (n < Len(row) => n + 1 \in Pages /\ row[n + 1].files \in Seq(Files))
      /\ 1 \in Pages /\ creator \in Creators
  BY <1>2, RowTypes DEF n, CreatorInv
<1>5. next \in Creators /\ (next.pc \in InFiles => next.left # <<>>)
  BY <1>1, <1>r, StageOf DEF Creators, InFiles
<1>6. Progress(w, next)
  <2> DEFINE k == creator.page
  <2>1. /\ w.proxies = work.proxies \cup {k} /\ w.pages = work.pages
        /\ w.has_member = work.has_member /\ w.has_file = work.has_file
        /\ w.described = work.described /\ w.binaries = work.binaries
        /\ w.prev = work.prev /\ w.next = work.next
    BY <1>2, <1>r DEF Shown, Items
  <2>2. /\ \A p \in Pages : p \in Nat /\ p <= Len(row)
        /\ Len(row) \in Nat /\ k \in Pages /\ k \in Nat
    BY <1>2, RowTypes DEF CreatorInv
  <2>3. /\ work.pages = {p \in Pages : p < k \/ p = k}
        /\ work.has_member = {p \in Pages : p < k \/ p = k}
        /\ work.proxies = {p \in Pages : p < k}
        /\ \A p \in Pages : work.prev[p] = {} /\ work.next[p] = {}
    BY <1>1, <1>2 DEF Progress, Linking, PagesMade, AfterPage, AfterMember
  <2>4. \A p \in Pages : p < k \/ p = k => \A f \in FilesOf(p) : <<p, f>> \in work.has_file
    BY <1>1, <1>2 DEF Progress, Linking, FilesAttached, AfterMember
  <2>5. CASE k < Len(row)
    <3>1. next.pc = "members" /\ next.page = k + 1 /\ next.left = row[k + 1].files
      BY <1>r, <2>5
    <3>2. \A p \in Pages : p < k + 1 <=> p < k \/ p = k
      BY <2>2
    <3> HIDE DEF w, next
    <3>3. PagesMade(w, next)
      BY <2>1, <2>2, <2>3, <3>1, <3>2 DEF PagesMade, AfterPage, AfterMember
    <3>4. FilesAttached(w, next)
      <4> HIDE DEF k
      <4> QED BY <2>1, <2>4, <3>1, <3>2 DEF FilesAttached, FilesOf, AfterMember
    <3> QED BY <1>4, <3>1, <3>3, <3>4 DEF Progress, Linking
  <2>6. CASE ~ (k < Len(row))
    <3>1. next.pc = "link" /\ next.page = 1
      BY <1>r, <2>6
    <3>2. \A p \in Pages : p < k \/ p = k
      BY <2>2, <2>6
    <3> HIDE DEF w, next
    <3>3. AllFiles \subseteq w.has_file
      BY <2>1, <2>4, <3>2 DEF AllFiles
    <3>4. Full(w)
      <4>1. /\ w.has_file \subseteq w.described /\ w.described \subseteq w.binaries
            /\ w.binaries \subseteq AllFiles
        BY <1>4 DEF Shown, Referred
      <4>2. w.has_file = AllFiles /\ w.described = AllFiles /\ w.binaries = AllFiles
        BY <3>3, <4>1
      <4>3. w.pages = Pages /\ w.has_member = Pages /\ w.proxies = Pages
        BY <2>1, <2>2, <2>3, <3>2
      <4> QED BY <4>2, <4>3 DEF Full
    <3>5. \A p \in Pages : ~ (p < 1) /\ w.next[p] = {}
      BY <2>1, <2>3, RowTypes DEF CreatorInv
    <3> QED BY <1>4, <3>1, <3>4, <3>5 DEF Progress, Linking, Linked
  <2> QED BY <2>5, <2>6
<1> HIDE DEF w, next
<1>7. UNCHANGED Others /\ Sent(w, next)
  BY DEF PostProxy, Request, Sent, w, next, n
<1> QED BY <1>1, <1>4, <1>5, <1>6, <1>7, SendKeeps

LEMMA LinkProxyKeeps == CreatorInv /\ LinkProxy => CreatorInv' /\ Fresh(repo)'
<1> SUFFICES ASSUME CreatorInv, LinkProxy PROVE CreatorInv' /\ Fresh(repo)'
  OBVIOUS
<1> DEFINE w == [work EXCEPT !.prev[n] = Before(n), !.next[n] = After(n)]
           next == IF n < Len(row) THEN [creator EXCEPT !.page = n + 1] ELSE To("finish")
<1>1. creator.pc = "link" /\ creator.pc \notin Ended /\ ~ Visible(work)
  BY AtWork DEF LinkProxy, Ended, Progress
<1>2. Shown(work) /\ Fresh(work) /\ Progress(work, creator) /\ creator.page \in Pages
  BY <1>1, AtWork
<1>e. /\ n = creator.page /\ Before(n) \subseteq Pages /\ After(n) \subseteq Pages
      /\ w.prev = [work.prev EXCEPT ![n] = Before(n)]
      /\ w.next = [work.next EXCEPT ![n] = After(n)]
      /\ w = [work EXCEPT !.prev = w.prev, !.next = w.next]
  BY <1>2 DEF n, Before, After, Shown, Items
<1>3. w \in Items
  <2>1. w.prev \in [Pages -> SUBSET Pages] /\ w.next \in [Pages -> SUBSET Pages]
    BY <1>2, <1>e DEF Shown, Items
  <2> HIDE DEF w
  <2> QED BY <1>2, <1>e, <2>1 DEF Shown, Items
<1>4. Shown(w) /\ Fresh(w) /\ ~ Visible(w)
  BY <1>1, <1>2, <1>3 DEF Shown, Referred, Visible, Full, Fresh, Items, Progress, n, Linking, Linked
<1>r. /\ n = creator.page /\ (n < Len(row) => n + 1 \in Pages /\ row[n + 1].files \in Seq(Files))
      /\ 1 \in Pages /\ creator \in Creators
  BY <1>2, RowTypes DEF n, CreatorInv
<1>5. next \in Creators /\ (next.pc \in InFiles => next.left # <<>>)
  BY <1>1, <1>r, StageOf DEF Creators, InFiles
<1>6. Progress(w, next)
  <2> DEFINE k == creator.page
  <2>1. /\ w.proxies = work.proxies /\ w.pages = work.pages
        /\ w.has_member = work.has_member /\ w.has_file = work.has_file
        /\ w.described = work.described /\ w.binaries = work.binaries
        /\ \A p \in Pages : w.next[p] = IF p = k THEN After(k) ELSE work.next[p]
    BY <1>2, <1>e DEF Shown, Items
  <2>2. Linked(work, creator)
    BY <1>1, <1>2 DEF Progress, Linking
  <2>3. /\ \A p \in Pages : p \in Nat /\ p <= Len(row)
        /\ Len(row) \in Nat /\ k \in Pages /\ k \in Nat
    BY <1>2, RowTypes DEF CreatorInv
  <2>4. \A p \in Pages : w.next[p] = IF p < k \/ p = k THEN After(p) ELSE {}
    <3>1. \A p \in Pages : work.next[p] = IF p < k THEN After(p) ELSE {}
      BY <1>1, <2>2 DEF Linked
    <3> HIDE DEF w, k
    <3> QED BY <2>1, <3>1
  <2>5. \A p \in Pages : p < k + 1 <=> p < k \/ p = k
    BY <2>3
  <2>6. ~ (k < Len(row)) => \A p \in Pages : p < k \/ p = k
    BY <2>3
  <2>7. IF k < Len(row) THEN next.pc = "link" /\ next.page = k + 1 ELSE next.pc = "finish"
    BY <1>1, <1>r, StageOf DEF Creators
  <2> HIDE DEF w, next
  <2>8. Full(w)
    BY <2>1, <2>2 DEF Linked, Full
  <2>9. Linked(w, next)
    BY <2>4, <2>5, <2>6, <2>7, <2>8 DEF Linked
  <2> QED BY <1>4, <2>7, <2>9 DEF Progress, Linking
<1> HIDE DEF w, next
<1>7. UNCHANGED Others /\ Sent(w, next)
  BY DEF LinkProxy, Request, Sent, w, next, n
<1> QED BY <1>1, <1>4, <1>5, <1>6, <1>7, SendKeeps

LEMMA PatchFirstKeeps == CreatorInv /\ PatchFirst => CreatorInv' /\ Fresh(repo)'
<1> SUFFICES ASSUME CreatorInv, PatchFirst PROVE CreatorInv' /\ Fresh(repo)'
  OBVIOUS
<1> DEFINE w == [work EXCEPT !.first = 1, !.last = Len(row)]
           next == To(IF tx THEN "commit" ELSE "done")
<1>1. creator.pc = "finish" /\ creator.pc \notin Ended
  BY DEF PatchFirst, Ended
<1>2. Shown(work) /\ Fresh(work) /\ Linked(work, creator)
  BY <1>1, AtWork DEF Progress, Linking
<1>3. 1 \in Pages /\ Len(row) \in Pages
  BY RowTypes DEF CreatorInv
<1>4. /\ w \in Items /\ w.first = 1 /\ w.last = Len(row)
      /\ w.pages = work.pages /\ w.has_member = work.has_member /\ w.proxies = work.proxies
      /\ w.has_file = work.has_file /\ w.described = work.described
      /\ w.binaries = work.binaries /\ w.prev = work.prev /\ w.next = work.next
  BY <1>2, <1>3 DEF Shown, Items
<1>5. /\ next \in Creators /\ next.pc = (IF tx THEN "commit" ELSE "done")
  BY <1>1 DEF CreatorInv, Creators, To
<1> HIDE DEF w, next
<1>6. Full(w) /\ Visible(w)
  BY <1>2, <1>4 DEF Linked, Full, Visible, None
<1>7. Shown(w)
  BY <1>2, <1>4, <1>6 DEF Shown, Referred, Full
<1>8. \A p \in Pages : w.next[p] = After(p)
  BY <1>1, <1>2, <1>4 DEF Linked
<1>9. Fresh(w)
  BY <1>8 DEF Fresh
<1>10. next.pc \notin Ended => Progress(w, next)
  BY <1>5, <1>6, <1>8 DEF Progress, Linking, Linked, Ended
<1>11. UNCHANGED Others /\ Sent(w, next)
  BY DEF PatchFirst, Request, Sent, w, next
<1> QED BY <1>1, <1>5, <1>7, <1>9, <1>10, <1>11, SendKeeps DEF InFiles, Ended

LEMMA CommitKeeps == CreatorInv /\ Commit => CreatorInv' /\ Fresh(repo)'
<1> SUFFICES ASSUME CreatorInv, Commit PROVE CreatorInv' /\ Fresh(repo)'
  OBVIOUS
<1>1. creator.pc = "commit" /\ creator.pc \notin Ended
  BY DEF Commit, Ended
<1>2. tx /\ Visible(txn)
  BY <1>1, AtWork DEF Progress, work
<1>3. row' = row /\ tx' = tx /\ txn' = txn /\ repo' \in {repo, txn}
  BY DEF Commit, Others
<1>4. creator' \in Creators /\ creator'.pc \in Ended /\ creator'.pc \notin InFiles
  BY DEF Commit, CreatorInv, Creators, To, Ended, InFiles
<1>4a. Shown(repo') /\ Shown(txn') /\ Fresh(txn') /\ Fresh(repo')
  BY <1>1, <1>3 DEF CreatorInv
<1>5. Shown(repo)' /\ Shown(txn)' /\ Fresh(txn)' /\ Fresh(repo)'
  BY <1>3, <1>4a, SameRow DEF Shown, Referred, Visible, Full, Fresh
<1>6. (IF tx THEN Visible(repo) \/ repo = Bare ELSE txn = Bare)'
  BY <1>2, <1>3, SameRow DEF CreatorInv, Visible
<1> QED BY <1>3, <1>4, <1>5, <1>6, SameRow DEF CreatorInv

LEMMA CreateKeeps == CreatorInv /\ Create => CreatorInv' /\ Fresh(repo)'
BY HeadMembersKeeps, PutMembersKeeps, PostPageKeeps, HeadFilesKeeps, PutFilesKeeps,
   PostBinaryKeeps, PatchFileKeeps, AttachFileKeeps, PatchMemberKeeps, RereadPageKeeps,
   PostProxiesKeeps, PostProxyKeeps, LinkProxyKeeps, PatchFirstKeeps, CommitKeeps
   DEF Create

(* Nobody has found the item while the creator is at work.                 *)
LEMMA CreateUnseen ==
  ASSUME CreatorInv, Create
  PROVE  /\ ~ Visible(repo) /\ UNCHANGED Others
         /\ faults \in 0..MaxFaults => faults' \in 0..MaxFaults
<1>1. creator.pc \notin Ended
  BY DEF Create, HeadMembers, PutMembers, PostPage, HeadFiles, PutFiles, PostBinary, PatchFile,
     AttachFile, PatchMember, RereadPage, PostProxies, PostProxy, LinkProxy, PatchFirst, Commit,
     Ended
<1>2. UNCHANGED Others
  BY DEF Create, HeadMembers, PutMembers, PostPage, HeadFiles, PutFiles, PostBinary, PatchFile,
     AttachFile, PatchMember, RereadPage, PostProxies, PostProxy, LinkProxy, PatchFirst, Commit,
     Exists, PutContainer, Request
<1>3. UNCHANGED faults \/ Fault
  BY DEF Create, HeadMembers, PutMembers, PostPage, HeadFiles, PutFiles, PostBinary, PatchFile,
     AttachFile, PatchMember, RereadPage, PostProxies, PostProxy, LinkProxy, PatchFirst, Commit,
     Exists, PutContainer, Request, Fails
<1> QED BY <1>1, <1>2, <1>3, PageAssumption DEF CreatorInv, Fault

(* So the readers of the item have nothing in hand yet.                    *)
LEMMA CreateStep == PagesInv /\ Create => PagesInv'
<1> SUFFICES ASSUME PagesInv, Create PROVE PagesInv'
  OBVIOUS
<1> USE DEF PagesInv
<1>1. CreatorInv' /\ Fresh(repo)'
  BY CreateKeeps
<1>2. /\ ~ Visible(repo) /\ row' = row /\ fixer' = fixer /\ reader' = reader
      /\ relinked' = relinked /\ overlapped' = overlapped /\ fixes' = fixes
      /\ faults' \in 0..MaxFaults
  BY CreateUnseen DEF Others, Bounds
<1>3. \A x \in Fixers : /\ fixer[x].at = None /\ fixer[x].got = <<>> /\ fixer[x].writes = {}
                        /\ fixer[x].pc \notin {"patch", "commit"}
  BY <1>2 DEF FixerInv, FixerHolds
<1>4. reader.at = None /\ reader.yielded = <<>>
  BY <1>2 DEF ReaderInv
<1>5. FixerTypes'
  BY <1>2, SameRow DEF FixerInv, FixerTypes, Links
<1>6. \A x \in Fixers : FixerHolds(fixer[x])'
  BY <1>2, <1>3 DEF FixerInv, FixerHolds
<1>7. Alone'
  <2>1. \A p \in Pages : \A q, r \in repo'.next[p] : q = r
    <3>1. \A p \in Pages : \A q, r \in After(p) : q = r
      BY DEF After
    <3>2. \A p \in Pages : repo'.next[p] \subseteq After(p)
      BY <1>1, <1>2, SameRow DEF Fresh
    <3> QED BY <3>1, <3>2
  <2>2. \A x \in Fixers : AsRead(fixer[x])'
    BY <1>2, <1>3 DEF AsRead
  <2> QED BY <1>2, <2>1, <2>2, SameRow DEF Alone
<1>8. ReaderInv'
  BY <1>2, <1>4, SameRow DEF ReaderInv, ReaderTypes, OnChain
<1>9. Bounds'
  BY <1>1, <1>2 DEF Bounds, NotFixing
<1> QED BY <1>1, <1>5, <1>6, <1>7, <1>8, <1>9, <1>2 DEF FixerInv

-----------------------------------------------------------------------------
(* The export.                                                             *)
LEMMA SameItem ==
  ASSUME CreatorInv, UNCHANGED <<row, tx, repo, txn, creator>>
  PROVE  CreatorInv'
BY SameRow DEF CreatorInv, Shown, Referred, Visible, Full, Fresh, work, Progress, Linked,
   PagesMade, FilesAttached

LEMMA SameFixers ==
  ASSUME FixerInv, Alone, UNCHANGED <<row, repo, fixer, overlapped>>
  PROVE  FixerInv' /\ Alone'
<1>1. FixerTypes'
  BY SameRow DEF FixerInv, FixerTypes, Links
<1>2. \A got : Numbers(got)' = Numbers(got)
  BY DEF Numbers, NumberAt, Number
<1>3. \A x \in Fixers : FixerHolds(fixer[x])'
  <2> TAKE x \in Fixers
  <2>1. FixerHolds(fixer[x]) /\ fixer'[x] = fixer[x] /\ Numbers(fixer[x].got)' = Numbers(fixer[x].got)
    BY <1>2 DEF FixerInv
  <2> QED BY <2>1 DEF FixerHolds, Visible, NotFixing
<1>4. Alone'
  BY SameRow DEF Alone, AsRead
<1> QED BY <1>1, <1>3, <1>4 DEF FixerInv

LEMMA FaultsBounded ==
  ASSUME Bounds, UNCHANGED faults \/ Fault
  PROVE  faults' \in 0..MaxFaults
BY PageAssumption DEF Bounds, Fault

(* A page that is found is there with all its files.                       *)
LEMMA FoundIsWhole ==
  ASSUME CreatorInv, Visible(repo), NEW p \in Pages
  PROVE  /\ AttachedTo(p) = FilesOf(p) /\ FilesOf(p) \subseteq Files
         /\ Value(repo.next[p]) \subseteq Pages \cup {None}
         /\ \A q \in Value(repo.next[p]) : IF q = None THEN repo.next[p] = {} ELSE q \in repo.next[p]
<1>1. FilesOf(p) \subseteq Files /\ None \notin Pages
  BY RowTypes DEF CreatorInv, None
<1>2. repo \in Items /\ repo.has_file = AllFiles
  BY DEF CreatorInv, Shown, Full
<1>3. AttachedTo(p) = FilesOf(p)
  BY <1>1, <1>2 DEF AttachedTo, AllFiles
<1>4. repo.next[p] \subseteq Pages
  BY <1>2 DEF Items
<1> QED BY <1>1, <1>3, <1>4 DEF Value

LEMMA AppendRead ==
  ASSUME NEW S, NEW s \in Seq(S), NEW e \in S
  PROVE  LET t == Append(s, e) IN
         /\ t \in Seq(S) /\ t # <<>> /\ Len(s) \in Nat /\ Len(t) = Len(s) + 1
         /\ DOMAIN t = DOMAIN s \cup {Len(s) + 1} /\ DOMAIN s = 1..Len(s)
         /\ \A k \in DOMAIN s : t[k] = s[k]
         /\ t[Len(s) + 1] = e /\ t[1] = IF s = <<>> THEN e ELSE s[1]
         /\ s = <<>> <=> Len(s) = 0
OBVIOUS

LEMMA BeginReadingStep == PagesInv /\ BeginReading => PagesInv'
<1> SUFFICES ASSUME PagesInv, BeginReading PROVE PagesInv'
  OBVIOUS
<1>1. UNCHANGED <<row, tx, repo, txn, creator, overlapped, fixer, fixes>> /\ relinked' = FALSE
  BY DEF BeginReading, Mine
<1>2. CreatorInv' /\ FixerInv' /\ Alone'
  BY <1>1, SameItem, SameFixers DEF PagesInv
<1>3. reader.at = None /\ reader.yielded = <<>>
  BY DEF BeginReading, PagesInv, ReaderInv
<1>4. \/ reader' = [reader EXCEPT !.pc = "follow", !.at = repo.first]
      \/ reader' = [reader EXCEPT !.pc = "failed"]
  BY DEF BeginReading
<1>5. repo.first \in Pages \cup {None}
  BY DEF PagesInv, CreatorInv, Shown, Items
<1>6. ReaderInv'
  <2>1. ReaderTypes'
    BY <1>1, <1>4, <1>5, SameRow DEF PagesInv, ReaderInv, ReaderTypes
  <2>2. /\ reader' \in [pc : {"follow", "failed"}, at : {None, repo.first}, yielded : {<<>>}]
        /\ reader'.pc = "failed" => reader'.at = None
    BY <1>3, <1>4 DEF PagesInv, ReaderInv, ReaderTypes
  <2>3. OnChain'
    BY <1>1, <1>5, <2>2 DEF OnChain
  <2>4. reader'.at # None => Visible(repo)'
    BY <1>1, <2>2 DEF Visible
  <2> QED BY <2>1, <2>2, <2>3, <2>4 DEF ReaderInv
<1>7. Bounds'
  <2>1. faults' \in 0..MaxFaults
    BY FaultsBounded DEF BeginReading, PagesInv
  <2> QED BY <1>1, <2>1, SameRow DEF PagesInv, Bounds, Fresh, Visible, NotFixing
<1> QED BY <1>2, <1>6, <1>7 DEF PagesInv

LEMMA StopIterationStep == PagesInv /\ StopIteration => PagesInv'
<1> SUFFICES ASSUME PagesInv, StopIteration PROVE PagesInv'
  OBVIOUS
<1>1. UNCHANGED <<row, tx, repo, txn, creator, overlapped, fixer, fixes, relinked, faults>>
  BY DEF StopIteration, Mine
<1>2. CreatorInv' /\ FixerInv' /\ Alone'
  BY <1>1, SameItem, SameFixers DEF PagesInv
<1>3. reader' = [reader EXCEPT !.pc = "done"] /\ reader.at = None /\ reader.pc = "follow"
  BY DEF StopIteration
<1>4. ReaderInv'
  BY <1>1, <1>3, SameRow DEF PagesInv, ReaderInv, ReaderTypes, OnChain, Visible, Value
<1>5. Bounds'
  BY <1>1, SameRow DEF PagesInv, Bounds, Fresh, Visible, NotFixing
<1> QED BY <1>2, <1>4, <1>5 DEF PagesInv

LEMMA ReadNextStep == PagesInv /\ ReadNext => PagesInv'
<1> SUFFICES ASSUME PagesInv, ReadNext PROVE PagesInv'
  OBVIOUS
<1> DEFINE at == reader.at  read == reader.yielded
           entry == [page |-> at, files |-> AttachedTo(at)]
           Entries == [page : Pages, files : SUBSET Files]
<1>1. UNCHANGED <<row, tx, repo, txn, creator, overlapped, fixer, fixes, relinked>>
  BY DEF ReadNext, Mine
<1>2. CreatorInv' /\ FixerInv' /\ Alone'
  BY <1>1, SameItem, SameFixers DEF PagesInv
<1>3. Bounds'
  <2>1. faults' \in 0..MaxFaults
    BY FaultsBounded DEF ReadNext, PagesInv
  <2> QED BY <1>1, <2>1, SameRow DEF PagesInv, Bounds, Fresh, Visible, NotFixing
<1>4. /\ reader.pc = "follow" /\ at # None /\ Visible(repo) /\ at \in Pages
      /\ read \in Seq(Entries) /\ reader = [pc |-> "follow", at |-> at, yielded |-> read]
  BY DEF ReadNext, PagesInv, ReaderInv, ReaderTypes
<1>5. CASE reader' = [reader EXCEPT !.pc = "failed"]
  <2>1. ReaderInv'
    BY <1>1, <1>4, <1>5, SameRow DEF PagesInv, ReaderInv, ReaderTypes, Visible
  <2> QED BY <1>2, <1>3, <2>1 DEF PagesInv
<1>6. ASSUME NEW q \in Value(repo.next[at]),
             reader' = [reader EXCEPT !.at = q, !.yielded = Append(@, entry)]
      PROVE  PagesInv'
  <2> DEFINE later == Append(read, entry)
  <2>1. /\ entry \in Entries /\ entry.page = at /\ entry.files = FilesOf(at)
        /\ q \in Pages \cup {None}
    BY <1>4, <1>6, FoundIsWhole DEF PagesInv
  <2>2. reader' = [pc |-> "follow", at |-> q, yielded |-> later]
    BY <1>4, <1>6
  <2>3. /\ later \in Seq(Entries) /\ later # <<>> /\ Len(read) \in Nat /\ Len(later) = Len(read) + 1
        /\ DOMAIN later = DOMAIN read \cup {Len(read) + 1} /\ DOMAIN read = 1..Len(read)
        /\ \A k \in DOMAIN read : later[k] = read[k]
        /\ later[Len(read) + 1] = entry /\ later[1] = IF read = <<>> THEN entry ELSE read[1]
        /\ read = <<>> <=> Len(read) = 0
    <3> HIDE DEF entry, Entries, read
    <3> QED BY <1>4, <2>1, AppendRead
  <2>4. OnChain' \/ relinked
    <3> SUFFICES ASSUME ~ relinked PROVE OnChain'
      OBVIOUS
    <3>1. OnChain
      BY <1>4 DEF PagesInv, ReaderInv
    <3> HIDE DEF entry, Entries
    <3>2. later[1].page = repo.first
      BY <1>4, <2>1, <2>3, <3>1 DEF OnChain
    <3>3. q \in Value(repo.next[later[Len(later)].page])
      BY <1>6, <2>1, <2>3
    <3>4. \A k \in 1..Len(later) - 1 : later[k + 1].page \in repo.next[later[k].page]
      <4> TAKE k \in 1..Len(later) - 1
      <4>1. k \in DOMAIN read /\ k \in Nat
        BY <2>3
      <4>2. CASE k < Len(read)
        <5>1. k \in 1..Len(read) - 1 /\ k + 1 \in DOMAIN read
          BY <2>3, <4>1, <4>2
        <5> QED BY <2>3, <3>1, <4>1, <5>1 DEF OnChain
      <4>3. CASE k = Len(read)
        <5>1. at \in Value(repo.next[read[k].page]) /\ read # <<>>
          BY <2>3, <3>1, <4>1, <4>3 DEF OnChain
        <5>2. at \in repo.next[read[k].page]
          BY <1>4, <5>1 DEF Value
        <5> QED BY <2>1, <2>3, <4>1, <4>3, <5>2
      <4> QED BY <2>3, <4>1, <4>2, <4>3
    <3>5. \A k \in DOMAIN later : later[k].files = FilesOf(later[k].page)
      BY <2>1, <2>3, <3>1 DEF OnChain
    <3>6. ASSUME fixes = 0 PROVE \A k \in DOMAIN later : later[k].page = k
      <4>1. at = Len(read) + 1
        <5>1. CASE read = <<>>
          <6>1. repo.first = 1
            BY <1>4 DEF PagesInv, CreatorInv, Shown
          <6> QED BY <1>4, <2>3, <3>1, <5>1, <6>1 DEF OnChain
        <5>2. CASE read # <<>>
          <6>1. /\ Len(read) \in DOMAIN read /\ read[Len(read)].page = Len(read)
                /\ at \in Value(repo.next[read[Len(read)].page])
            BY <2>3, <3>1, <3>6, <5>2 DEF OnChain
          <6>2. read[Len(read)].page \in Pages
            <7>1. read[Len(read)] \in Entries
              <8> HIDE DEF read
              <8> QED BY <1>4, <2>3, <6>1, ElementOfSeq
            <7> QED BY <7>1 DEF Entries
          <6>3. repo.next[read[Len(read)].page] = After(Len(read))
            BY <1>4, <3>6, <6>1, <6>2 DEF PagesInv, Bounds, Fresh
          <6> QED BY <1>4, <6>1, <6>3 DEF Value, After
        <5> QED BY <5>1, <5>2
      <4> QED BY <2>1, <2>3, <3>1, <3>6, <4>1 DEF OnChain
    <3> HIDE DEF later
    <3> QED BY <1>1, <2>2, <2>3, <3>2, <3>3, <3>4, <3>5, <3>6, SameRow DEF OnChain, Value
  <2>5. ReaderInv'
    <3> HIDE DEF later, entry
    <3> QED BY <1>1, <1>4, <2>1, <2>2, <2>3, <2>4, SameRow DEF ReaderInv, ReaderTypes, Visible
  <2> QED BY <1>2, <1>3, <2>5 DEF PagesInv
<1> QED BY <1>5, <1>6 DEF ReadNext

-----------------------------------------------------------------------------
(* fixpageorder.                                                           *)
FixerStates ==
  [pc : {"idle", "follow", "patch", "commit"}, dry : BOOLEAN, at : Pages \cup {None},
   got : Seq(Links), todo : Nat, writes : SUBSET [old : Links, new : Links]]

LEMMA NotFixingHolds ==
  NotFixing \in FixerStates /\ FixerHolds(NotFixing) /\ AsRead(NotFixing)
BY DEF NotFixing, FixerStates, FixerHolds, AsRead

(* Where a run of fixpageorder is, and that it is alone if none overlapped.*)
LEMMA AtFixer ==
  ASSUME PagesInv, NEW x \in Fixers, fixer[x].pc # "idle"
  PROVE  /\ fixer[x] \in FixerStates /\ FixerHolds(fixer[x]) /\ fixes \in 1..MaxFixes
         /\ fixer[x].got \in Seq(Links) /\ fixer[x].at \in Pages \cup {None}
         /\ ~overlapped => AsRead(fixer[x]) /\ \A y \in Fixers \ {x} : fixer[y].pc = "idle"
<1>1. fixer[x] \in FixerStates /\ FixerHolds(fixer[x])
  BY DEF PagesInv, FixerInv, FixerTypes, FixerStates
<1>2. fixes \in 1..MaxFixes
  <2>1. fixes # 0
    BY DEF PagesInv, Bounds, NotFixing
  <2> QED BY <2>1, PageAssumption DEF PagesInv, Bounds
<1>3. fixer[x].got \in Seq(Links) /\ fixer[x].at \in Pages \cup {None}
  BY <1>1 DEF FixerStates
<1>4. ~overlapped => AsRead(fixer[x]) /\ \A y \in Fixers \ {x} : fixer[y].pc = "idle"
  BY DEF PagesInv, Alone
<1> QED BY <1>1, <1>2, <1>3, <1>4

(* A step of fixpageorder that leaves the item as it is.                   *)
LEMMA FixerTakes ==
  ASSUME PagesInv, NEW x \in Fixers, NEW f \in FixerStates, FixerHolds(f), Fix(x, f),
         UNCHANGED MineFixing, UNCHANGED <<repo, relinked>>,
         fixes' \in 1..MaxFixes, faults' \in 0..MaxFaults, overlapped' \in BOOLEAN,
         ~overlapped' => /\ ~overlapped /\ AsRead(f)
                         /\ \A y \in Fixers \ {x} : fixer[y].pc = "idle"
  PROVE  PagesInv'
<1>1. UNCHANGED <<row, tx, repo, txn, creator, reader, relinked>>
  BY DEF MineFixing
<1>2. CreatorInv'
  BY <1>1, SameItem DEF PagesInv
<1>3. fixer' = [fixer EXCEPT ![x] = f] /\ fixer \in [Fixers -> FixerStates]
  BY DEF Fix, PagesInv, FixerInv, FixerTypes, FixerStates
<1>4. \A y \in Fixers : fixer'[y] = IF y = x THEN f ELSE fixer[y]
  BY <1>3
<1>5. fixer' \in [Fixers -> FixerStates]
  BY <1>3
<1>6. FixerTypes'
  BY <1>1, <1>5, SameRow DEF FixerTypes, FixerStates, Links
<1>7. \A y \in Fixers : FixerHolds(fixer[y])'
  <2> TAKE y \in Fixers
  <2>1. FixerHolds(fixer'[y])
    BY <1>4 DEF PagesInv, FixerInv
  <2>2. Numbers(fixer'[y].got) = Numbers(fixer[y].got)'
    BY <1>1 DEF Numbers, NumberAt, Number
  <2> QED BY <1>1, <2>1, <2>2 DEF FixerHolds, Visible, NotFixing
<1>8. Alone'
  <2> SUFFICES ASSUME ~overlapped' PROVE Alone'
    BY DEF Alone
  <2>1. \A y, z \in Fixers : fixer'[y].pc # "idle" /\ fixer'[z].pc # "idle" => y = z
    BY <1>4
  <2>2. \A y \in Fixers : AsRead(fixer'[y])
    BY <1>4 DEF PagesInv, Alone
  <2>3. \A y \in Fixers : AsRead(fixer[y])'
    BY <1>1, <2>2 DEF AsRead
  <2>4. \A p \in Pages : \A q, r \in repo.next[p] : q = r
    BY DEF PagesInv, Alone
  <2> QED BY <1>1, <2>1, <2>3, <2>4, SameRow DEF Alone
<1>9. ReaderInv'
  <2>1. fixes' # 0
    OBVIOUS
  <2> QED BY <1>1, <2>1, SameRow DEF PagesInv, ReaderInv, ReaderTypes, OnChain, Visible, Value
<1>10. Bounds'
  <2>1. fixes' # 0 /\ fixes' \in 0..MaxFixes
    BY PageAssumption
  <2> QED BY <1>1, <2>1 DEF PagesInv, Bounds
<1> QED BY <1>2, <1>6, <1>7, <1>8, <1>9, <1>10 DEF PagesInv, FixerInv

LEMMA BeginFixStep == \A x \in Fixers : PagesInv /\ BeginFix(x) => PagesInv'
<1> SUFFICES ASSUME NEW x \in Fixers, PagesInv, BeginFix(x) PROVE PagesInv'
  OBVIOUS
<1>1. PICK dry \in BOOLEAN :
        Fix(x, [NotFixing EXCEPT !.pc = "follow", !.dry = dry, !.at = repo.first])
  BY DEF BeginFix
<1> DEFINE f == [NotFixing EXCEPT !.pc = "follow", !.dry = dry, !.at = repo.first]
<1>2. repo.first \in Pages \cup {None}
  BY DEF PagesInv, CreatorInv, Shown, Items
<1>3. f \in FixerStates /\ FixerHolds(f) /\ AsRead(f)
  BY <1>2, NotFixingHolds DEF NotFixing, FixerStates, FixerHolds, AsRead, Visible
<1>4. fixes' \in 1..MaxFixes /\ faults' \in 0..MaxFaults
  BY PageAssumption DEF BeginFix, PagesInv, Bounds
<1>5. /\ overlapped' \in BOOLEAN
      /\ ~overlapped' => ~overlapped /\ \A y \in Fixers \ {x} : fixer[y].pc = "idle"
  BY DEF BeginFix, PagesInv, Bounds
<1> HIDE DEF f
<1>6. UNCHANGED MineFixing /\ UNCHANGED <<repo, relinked>>
  BY DEF BeginFix
<1>7. Fix(x, f)
  BY <1>1 DEF f
<1> QED BY <1>3, <1>4, <1>5, <1>6, <1>7, FixerTakes

LEMMA FollowProxyStep == \A x \in Fixers : PagesInv /\ FollowProxy(x) => PagesInv'
<1> SUFFICES ASSUME NEW x \in Fixers, PagesInv, FollowProxy(x) PROVE PagesInv'
  OBVIOUS
<1> DEFINE p == fixer[x].at
           link == [proxy |-> p, prev |-> repo.prev[p], next |-> repo.next[p]]
           Later(q) == [fixer[x] EXCEPT !.at = q, !.got = Append(@, link)]
<1>1. fixer[x].pc = "follow" /\ p # None
  BY DEF FollowProxy
<1>2. /\ fixer[x] \in FixerStates /\ FixerHolds(fixer[x]) /\ fixes \in 1..MaxFixes
      /\ fixer[x].got \in Seq(Links) /\ p \in Pages
      /\ ~overlapped => AsRead(fixer[x]) /\ \A y \in Fixers \ {x} : fixer[y].pc = "idle"
  BY <1>1, AtFixer
<1>3. /\ UNCHANGED MineFixing /\ UNCHANGED <<repo, relinked>>
      /\ fixes' \in 1..MaxFixes /\ faults' \in 0..MaxFaults
      /\ overlapped' = overlapped /\ overlapped \in BOOLEAN
  BY <1>2 DEF FollowProxy, PagesInv, Bounds
<1>4. CASE Fix(x, NotFixing)
  BY <1>2, <1>3, <1>4, NotFixingHolds, FixerTakes
<1>5. ASSUME NEW q \in Value(repo.next[p]), Fix(x, Later(q)) PROVE PagesInv'
  <2>1. Visible(repo) /\ fixer[x].writes = {}
    BY <1>1, <1>2 DEF FixerHolds
  <2>2. q \in Pages \cup {None}
    BY <1>2, <1>5, <2>1, FoundIsWhole DEF PagesInv
  <2>3. link \in Links
    BY <1>2 DEF Links, PagesInv, CreatorInv, Shown, Items
  <2>4. /\ Append(fixer[x].got, link) \in Seq(Links)
        /\ \A k \in DOMAIN Append(fixer[x].got, link) :
             Append(fixer[x].got, link)[k] = link
             \/ (k \in DOMAIN fixer[x].got /\ Append(fixer[x].got, link)[k] = fixer[x].got[k])
    <3> HIDE DEF link
    <3> QED BY <1>2, <2>3, AppendRead
  <2>5. /\ Later(q) \in FixerStates /\ Later(q).pc = "follow" /\ Later(q).writes = {}
        /\ Later(q).got = Append(fixer[x].got, link)
    <3> HIDE DEF link
    <3> QED BY <1>1, <1>2, <2>1, <2>2, <2>4 DEF FixerStates
  <2>6. FixerHolds(Later(q))
    <3> HIDE DEF Later
    <3> QED BY <2>1, <2>5 DEF FixerHolds
  <2>7. ~overlapped => AsRead(Later(q))
    <3>1. link.next = repo.next[link.proxy]
      OBVIOUS
    <3> HIDE DEF Later, link
    <3> QED BY <1>2, <2>4, <2>5, <3>1 DEF AsRead
  <2> HIDE DEF Later
  <2> QED BY <1>2, <1>3, <1>5, <2>5, <2>6, <2>7, FixerTakes
<1> QED BY <1>4, <1>5 DEF FollowProxy

LEMMA DecideStep == \A x \in Fixers : PagesInv /\ Decide(x) => PagesInv'
<1> SUFFICES ASSUME NEW x \in Fixers, PagesInv, Decide(x) PROVE PagesInv'
  OBVIOUS
<1> DEFINE got == fixer[x].got
           f == [fixer[x] EXCEPT !.pc = "patch", !.todo = 1]
<1>1. fixer[x].pc = "follow"
  BY DEF Decide
<1>2. /\ fixer[x] \in FixerStates /\ FixerHolds(fixer[x]) /\ fixes \in 1..MaxFixes
      /\ got \in Seq(Links)
      /\ ~overlapped => AsRead(fixer[x]) /\ \A y \in Fixers \ {x} : fixer[y].pc = "idle"
  BY <1>1, AtFixer
<1>3. /\ UNCHANGED MineFixing /\ UNCHANGED <<repo, relinked>>
      /\ fixes' \in 1..MaxFixes /\ faults' \in 0..MaxFaults
      /\ overlapped' = overlapped /\ overlapped \in BOOLEAN
  BY <1>2 DEF Decide, PagesInv, Bounds
<1>4. CASE Fix(x, NotFixing)
  BY <1>2, <1>3, <1>4, NotFixingHolds, FixerTakes
<1>5. CASE ~InOrder(got) /\ Fix(x, f)
  <2>1. got # <<>>
    BY <1>5 DEF InOrder, Numbers
  <2>2. Visible(repo)
    BY <1>2, <2>1 DEF FixerHolds
  <2>3. 1 \in 1..Cardinality(Numbers(got))
    BY <1>2, <2>1, NumbersFinite
  <2>4. f \in FixerStates /\ f.got = got /\ f.writes = {} /\ f.pc = "patch" /\ f.todo = 1
    BY <1>1, <1>2 DEF FixerStates, FixerHolds
  <2> HIDE DEF f
  <2>5. FixerHolds(f)
    BY <2>2, <2>3, <2>4 DEF FixerHolds
  <2>6. ~overlapped => AsRead(f)
    BY <1>2, <2>4 DEF AsRead
  <2> QED BY <1>2, <1>3, <1>5, <2>4, <2>5, <2>6, FixerTakes
<1> QED BY <1>4, <1>5 DEF Decide

LEMMA PatchProxyStep == \A x \in Fixers : PagesInv /\ PatchProxy(x) => PagesInv'
<1> SUFFICES ASSUME NEW x \in Fixers, PagesInv, PatchProxy(x) PROVE PagesInv'
  OBVIOUS
<1> DEFINE got == fixer[x].got
           todo == fixer[x].todo
           old == SortedAt(got, todo)
           new == [old EXCEPT !.prev = Neighbour(got, todo - 1), !.next = Neighbour(got, todo + 1)]
           f == [fixer[x] EXCEPT
                   !.todo = @ + 1,
                   !.pc = IF todo = Cardinality(Numbers(got)) THEN "commit" ELSE @,
                   !.writes = IF new = old THEN @ ELSE @ \cup {[old |-> old, new |-> new]}]
<1>1. fixer[x].pc = "patch"
  BY DEF PatchProxy
<1>2. /\ fixer[x] \in FixerStates /\ FixerHolds(fixer[x]) /\ fixes \in 1..MaxFixes
      /\ got \in Seq(Links)
      /\ ~overlapped => AsRead(fixer[x]) /\ \A y \in Fixers \ {x} : fixer[y].pc = "idle"
  BY <1>1, AtFixer
<1>3. /\ UNCHANGED MineFixing /\ UNCHANGED <<repo, relinked>>
      /\ fixes' \in 1..MaxFixes /\ faults' \in 0..MaxFaults
      /\ overlapped' = overlapped /\ overlapped \in BOOLEAN
  BY <1>2, FaultsBounded DEF PatchProxy, PagesInv, Bounds
<1>4. CASE Fix(x, NotFixing)
  BY <1>2, <1>3, <1>4, NotFixingHolds, FixerTakes
<1>5. CASE Fix(x, f)
  <2>1. Visible(repo) /\ todo \in 1..Cardinality(Numbers(got)) /\ Cardinality(Numbers(got)) \in Nat
    BY <1>1, <1>2, NumbersFinite DEF FixerHolds
  <2>2. PICK j \in DOMAIN got : old = got[j]
    <3>1. row \in Rows
      BY DEF PagesInv, CreatorInv
    <3> QED BY <1>2, <2>1, <3>1, SortedWereRead
  <2>3. old \in Links
    BY <1>2, <2>2, LinksRead
  <2> DEFINE P == Neighbour(got, todo - 1)
             N == Neighbour(got, todo + 1)
  <2>4. P \subseteq Pages /\ N \subseteq Pages /\ \A p, q \in N : p = q
    BY <1>2, NeighbourIsOne
  <2>5. new \in Links /\ new.next = N
    <3> HIDE DEF old, P, N
    <3> QED BY <2>3, <2>4 DEF Links, P, N
  <2> DEFINE last == todo = Cardinality(Numbers(got))
             more == IF new = old THEN fixer[x].writes
                     ELSE fixer[x].writes \cup {[old |-> old, new |-> new]}
  <2>6. /\ f \in FixerStates /\ f.got = got /\ f.todo = todo + 1
        /\ f.pc = IF todo = Cardinality(Numbers(got)) THEN "commit" ELSE "patch"
        /\ \A w \in f.writes : w \in fixer[x].writes \/ w = [old |-> old, new |-> new]
    <3> HIDE DEF old, new
    <3>1. /\ more \in SUBSET [old : Links, new : Links]
          /\ \A w \in more : w \in fixer[x].writes \/ w = [old |-> old, new |-> new]
      BY <1>2, <2>3, <2>5 DEF FixerStates
    <3>2. f = [fixer[x] EXCEPT !.todo = todo + 1, !.pc = IF last THEN "commit" ELSE "patch",
                               !.writes = more]
      BY <1>1
    <3>3. todo + 1 \in Nat
      BY <2>1
    <3> HIDE DEF more, last, f
    <3>4. f \in FixerStates /\ f.got = got /\ f.todo = todo + 1 /\ f.writes = more
          /\ f.pc = IF last THEN "commit" ELSE "patch"
      BY <1>2, <3>1, <3>2, <3>3 DEF FixerStates
    <3> QED BY <3>1, <3>4 DEF last
  <2> HIDE DEF f, new, old
  <2>7. FixerHolds(f)
    BY <2>1, <2>6 DEF FixerHolds
  <2>8. ~overlapped => AsRead(f)
    <3> SUFFICES ASSUME ~overlapped PROVE AsRead(f)
      OBVIOUS
    <3>1. AsRead(fixer[x])
      BY <1>2
    <3>2. old.next = repo.next[old.proxy]
      BY <2>2, <3>1 DEF AsRead
    <3>3. \A w \in f.writes : w.old.next = repo.next[w.old.proxy] /\ \A p, q \in w.new.next : p = q
      <4> HIDE DEF N
      <4> QED BY <2>4, <2>5, <2>6, <3>1, <3>2 DEF AsRead
    <3> QED BY <2>6, <3>1, <3>3 DEF AsRead
  <2> QED BY <1>2, <1>3, <1>5, <2>6, <2>7, <2>8, FixerTakes
<1> QED BY <1>4, <1>5 DEF PatchProxy

(* What a page leads to after the links were patched.                      *)
LEMMA RelinkedTypes ==
  ASSUME NEW current \in [Pages -> SUBSET Pages], NEW writes \in SUBSET [old : Links, new : Links],
         NEW field \in {"prev", "next"}
  PROVE  Relinked(field, current, writes) \in [Pages -> SUBSET Pages]
<1> SUFFICES ASSUME NEW p \in Pages
             PROVE  (IF \E w \in writes : w.old.proxy = p
                     THEN LET w == CHOOSE w \in writes : w.old.proxy = p
                          IN Patched(current[p], w.old[field], w.new[field])
                     ELSE current[p]) \in SUBSET Pages
  BY DEF Relinked
<1>1. CASE \E w \in writes : w.old.proxy = p
  <2> DEFINE w == CHOOSE w \in writes : w.old.proxy = p
  <2>1. w \in writes
    BY <1>1
  <2>2. w.old \in Links /\ w.new \in Links
    BY <2>1
  <2> HIDE DEF w
  <2>3. w.old[field] \in SUBSET Pages /\ w.new[field] \in SUBSET Pages
    BY <2>2 DEF Links
  <2>4. Patched(current[p], w.old[field], w.new[field]) \in SUBSET Pages
    BY <2>3 DEF Patched
  <2> QED BY <1>1, <2>4 DEF w
<1>2. CASE ~ \E w \in writes : w.old.proxy = p
  BY <1>2
<1> QED BY <1>1, <1>2

LEMMA RelinkedOne ==
  ASSUME NEW current, NEW writes, NEW p \in Pages, \A q, r \in current[p] : q = r,
         \A w \in writes : w.old.next = current[w.old.proxy] /\ \A q, r \in w.new.next : q = r
  PROVE  \A q, r \in Relinked("next", current, writes)[p] : q = r
<1> DEFINE w == CHOOSE w \in writes : w.old.proxy = p
<1>1. CASE \E v \in writes : v.old.proxy = p
  <2>1. w \in writes /\ w.old.proxy = p
    BY <1>1
  <2>2. Relinked("next", current, writes)[p] = Patched(current[p], w.old.next, w.new.next)
    BY <1>1 DEF Relinked
  <2> HIDE DEF w
  <2>3. Patched(current[p], w.old.next, w.new.next) = w.new.next
    BY <2>1 DEF Patched
  <2> QED BY <2>1, <2>2, <2>3
<1>2. CASE ~ \E v \in writes : v.old.proxy = p
  <2>1. Relinked("next", current, writes)[p] = current[p]
    BY <1>2 DEF Relinked
  <2> QED BY <2>1
<1> QED BY <1>1, <1>2

LEMMA CommitFixStep == \A x \in Fixers : PagesInv /\ CommitFix(x) => PagesInv'
<1> SUFFICES ASSUME NEW x \in Fixers, PagesInv, CommitFix(x) PROVE PagesInv'
  OBVIOUS
<1> DEFINE f == fixer[x]
           w == [repo EXCEPT !.prev = Relinked("prev", @, fixer[x].writes),
                             !.next = Relinked("next", @, fixer[x].writes)]
<1>1. f.pc = "commit" /\ Fix(x, NotFixing)
  BY DEF CommitFix
<1>2. /\ f \in FixerStates /\ FixerHolds(f) /\ fixes \in 1..MaxFixes
      /\ ~overlapped => AsRead(f) /\ \A y \in Fixers \ {x} : fixer[y].pc = "idle"
  BY <1>1, AtFixer
<1>3. /\ UNCHANGED MineFixing /\ fixes' = fixes
      /\ fixes' \in 1..MaxFixes /\ faults' \in 0..MaxFaults
      /\ overlapped' = overlapped /\ overlapped \in BOOLEAN
  BY <1>2, FaultsBounded DEF CommitFix, PagesInv, Bounds
<1>4. CASE UNCHANGED <<repo, relinked>>
  BY <1>1, <1>2, <1>3, <1>4, NotFixingHolds, FixerTakes
<1>5. CASE repo' = w /\ relinked' = TRUE
  <2>1. Visible(repo) /\ Shown(repo) /\ Full(repo) /\ repo \in Items /\ creator.pc \in Ended
    BY <1>1, <1>2 DEF FixerHolds, PagesInv, CreatorInv, Shown
  <2>2. f.writes \in SUBSET [old : Links, new : Links]
    BY <1>2 DEF FixerStates
  <2>3. /\ Relinked("prev", repo.prev, f.writes) \in [Pages -> SUBSET Pages]
        /\ Relinked("next", repo.next, f.writes) \in [Pages -> SUBSET Pages]
    BY <2>1, <2>2, RelinkedTypes DEF Items
  <2>4. repo' = [repo EXCEPT !.prev = Relinked("prev", repo.prev, f.writes),
                             !.next = Relinked("next", repo.next, f.writes)]
    BY <1>5
  <2>5. /\ repo' \in Items /\ repo'.next = Relinked("next", repo.next, f.writes)
        /\ repo'.first = repo.first /\ repo'.last = repo.last
        /\ repo'.pages = repo.pages /\ repo'.has_member = repo.has_member
        /\ repo'.proxies = repo.proxies /\ repo'.binaries = repo.binaries
        /\ repo'.described = repo.described /\ repo'.has_file = repo.has_file
    BY <2>1, <2>3, <2>4 DEF Items
  <2> HIDE DEF f, w
  <2>6. row' = row /\ tx' = tx /\ txn' = txn /\ creator' = creator /\ reader' = reader
    BY <1>3 DEF MineFixing
  <2>7. Shown(repo') /\ Visible(repo')
    BY <2>1, <2>5 DEF Shown, Referred, Visible, Full
  <2>8. CreatorInv'
    <3>1. Shown(repo)' /\ Visible(repo)' /\ Shown(txn)' /\ Fresh(txn)'
      BY <2>6, <2>7, SameRow DEF PagesInv, CreatorInv, Shown, Referred, Visible, Full, Fresh
    <3> QED BY <2>1, <2>6, <3>1, SameRow DEF PagesInv, CreatorInv, Ended
  <2>9. fixer' = [fixer EXCEPT ![x] = NotFixing] /\ fixer \in [Fixers -> FixerStates]
    BY <1>1 DEF Fix, PagesInv, FixerInv, FixerTypes, FixerStates
  <2>10. \A y \in Fixers : fixer'[y] = IF y = x THEN NotFixing ELSE fixer[y]
    BY <2>9
  <2>11. FixerTypes'
    <3>1. fixer' \in [Fixers -> FixerStates]
      BY <2>9, NotFixingHolds
    <3> QED BY <2>6, <3>1, SameRow DEF FixerTypes, FixerStates, Links
  <2>12. \A y \in Fixers : FixerHolds(fixer[y])'
    <3> TAKE y \in Fixers
    <3>1. FixerHolds(fixer'[y])
      BY <2>10, NotFixingHolds DEF PagesInv, FixerInv
    <3>2. Numbers(fixer'[y].got) = Numbers(fixer[y].got)'
      BY <2>6 DEF Numbers, NumberAt, Number
    <3> QED BY <2>1, <2>7, <3>1, <3>2 DEF FixerHolds, Visible, NotFixing
  <2>13. Alone'
    <3> SUFFICES ASSUME ~overlapped PROVE Alone'
      BY <1>3 DEF Alone
    <3>1. \A y \in Fixers : fixer'[y] = NotFixing
      BY <1>2, <2>10 DEF PagesInv, FixerInv, FixerHolds
    <3>2. \A y \in Fixers : fixer'[y].pc = "idle" /\ AsRead(fixer[y])'
      BY <3>1 DEF NotFixing, AsRead
    <3>3. \A p \in Pages : \A q, r \in repo'.next[p] : q = r
      <4> TAKE p \in Pages
      <4>1. \A q, r \in repo.next[p] : q = r
        BY DEF PagesInv, Alone
      <4>2. \A v \in f.writes : v.old.next = repo.next[v.old.proxy] /\ \A q, r \in v.new.next : q = r
        BY <1>2 DEF AsRead
      <4> QED BY <2>5, <4>1, <4>2, RelinkedOne
    <3> QED BY <2>6, <3>2, <3>3, SameRow DEF Alone
  <2>14. ReaderInv'
    BY <1>5, <2>1, <2>6, <2>7, SameRow DEF PagesInv, ReaderInv, ReaderTypes, Visible
  <2>15. Bounds'
    <3>1. fixes' # 0 /\ fixes' \in 0..MaxFixes
      BY <1>3, PageAssumption
    <3> QED BY <1>3, <1>5, <3>1 DEF PagesInv, Bounds
  <2> QED BY <2>8, <2>11, <2>12, <2>13, <2>14, <2>15 DEF PagesInv, FixerInv
<1> QED BY <1>4, <1>5 DEF CommitFix

-----------------------------------------------------------------------------
(* The item with its pages.                                                *)
LEMMA InitPages == Init => PagesInv
<1> SUFFICES ASSUME Init PROVE PagesInv
  OBVIOUS
<1> USE DEF Init
<1>1. row \in Rows /\ 1 \in Pages /\ row[1].files \in Seq(Files)
  BY RowTypes
<1>2. Shown(Bare) /\ Fresh(Bare) /\ ~ Visible(Bare)
  BY <1>1, BareIsShown
<1>3. Progress(work, creator)
  <2>1. work = Bare
    BY DEF work
  <2>2. PagesMade(Bare, creator)
    BY <1>1, RowTypes DEF PagesMade, Bare, AfterPage, AfterMember
  <2>3. FilesAttached(Bare, creator)
    BY <1>1, RowTypes DEF FilesAttached, FilesOf, AfterMember
  <2> QED BY <1>2, <2>1, <2>2, <2>3 DEF Progress, Linking
<1>4. CreatorInv
  BY <1>1, <1>2, <1>3 DEF CreatorInv, Creators, InFiles
<1>5. \A x \in Fixers : fixer[x] = NotFixing
  OBVIOUS
<1>6. FixerInv
  <2>1. FixerTypes
    BY NotFixingHolds DEF FixerTypes, FixerStates
  <2> QED BY <1>5, <2>1, NotFixingHolds DEF FixerInv
<1>7. Alone
  <2>1. \A p \in Pages : repo.next[p] = {}
    BY DEF Bare
  <2> QED BY <1>5, <2>1, NotFixingHolds DEF Alone, NotFixing
<1>8. ReaderInv
  BY DEF ReaderInv, ReaderTypes, OnChain
<1>9. Bounds
  <2>1. 0 \in 0..MaxFixes /\ 0 \in 0..MaxFaults
    BY PageAssumption
  <2>2. fixes = 0 /\ faults = 0 /\ relinked \in BOOLEAN /\ overlapped \in BOOLEAN /\ Fresh(repo)
    BY <1>2
  <2> HIDE DEF Init
  <2> QED BY <1>5, <2>1, <2>2 DEF Bounds
<1> QED BY <1>4, <1>6, <1>7, <1>8, <1>9 DEF PagesInv

(* Nothing happens to the item.                                            *)
LEMMA StutterPages == PagesInv /\ UNCHANGED vars => PagesInv'
<1> SUFFICES ASSUME PagesInv, UNCHANGED vars PROVE PagesInv'
  OBVIOUS
<1>1. UNCHANGED <<row, tx, repo, txn, creator, overlapped, fixer, fixes, relinked, faults, reader>>
  BY DEF vars
<1>2. CreatorInv' /\ FixerInv' /\ Alone'
  BY <1>1, SameItem, SameFixers DEF PagesInv
<1>3. ReaderInv'
  BY <1>1, SameRow DEF PagesInv, ReaderInv, ReaderTypes, OnChain, Visible, Value
<1>4. Bounds'
  BY <1>1, SameRow DEF PagesInv, Bounds, Fresh, Visible, NotFixing
<1> QED BY <1>2, <1>3, <1>4 DEF PagesInv

(* Every step of the creator, of the export and of every fixpageorder keeps*)
(* the invariant.                                                          *)
THEOREM PagesCorrect == Spec => []PagesInv
<1>1. PagesInv /\ [Next]_vars => PagesInv'
  <2> SUFFICES ASSUME PagesInv, [Next]_vars PROVE PagesInv'
    OBVIOUS
  <2>1. CASE Create
    BY <2>1, CreateStep
  <2>2. CASE Read
    BY <2>2, BeginReadingStep, ReadNextStep, StopIterationStep DEF Read
  <2>3. ASSUME NEW x \in Fixers, BeginFix(x) \/ FixStep(x) PROVE PagesInv'
    BY <2>3, BeginFixStep, FollowProxyStep, DecideStep, PatchProxyStep, CommitFixStep DEF FixStep
  <2>4. CASE UNCHANGED vars
    BY <2>4, StutterPages
  <2> QED BY <2>1, <2>2, <2>3, <2>4 DEF Next
<1> QED BY InitPages, <1>1, PTL DEF Spec

(* The item, its creator, the export and all runs of fixpageorder keep     *)
(* their types, for items of any size and any number of runs.              *)
THEOREM PageTypes == Spec => []TypeOK
<1>1. PagesInv => TypeOK
  BY DEF PagesInv, CreatorInv, Shown, Creators, InFiles, FixerInv, FixerTypes, ReaderInv, ReaderTypes,
     Bounds, TypeOK
<1> QED BY <1>1, PagesCorrect, PTL

(* Whatever requests fail: whoever finds the first proxy finds the whole   *)
(* item, nothing refers to what is not there, and a transaction creates all*)
(* or nothing.                                                             *)
THEOREM ItemsWhole == Spec => []CreatedWhole
<1>1. PagesInv => CreatedWhole
  <2> SUFFICES ASSUME PagesInv PROVE CreatedWhole
    OBVIOUS
  <2>1. repo \in Items /\ Shown(repo) /\ Referred(repo) /\ 1 \in Pages /\ Len(row) \in Pages
    BY RowTypes DEF PagesInv, CreatorInv, Shown
  <2>2. VisibleMeansWhole
    BY <2>1 DEF Shown, Visible, Full, VisibleMeansWhole
  <2>3. NoDangling
    <3>1. {repo.first, repo.last} \subseteq repo.proxies \cup {None}
      BY <2>1 DEF Shown, Visible, Full
    <3>2. \A p \in Pages : /\ repo.prev[p] \cup repo.next[p] \subseteq Pages
      BY <2>1 DEF Items
    <3>3. \A p \in Pages :
            /\ repo.prev[p] \cup repo.next[p] \subseteq repo.proxies
            /\ repo.prev[p] \cup repo.next[p] # {} => p \in repo.proxies
      BY <2>1, <3>2 DEF Referred
    <3> QED BY <2>1, <3>1, <3>3 DEF NoDangling, Referred
  <2>4. AllOrNothing
    BY DEF PagesInv, CreatorInv, AllOrNothing, Visible
  <2> QED BY <2>2, <2>3, <2>4 DEF CreatedWhole
<1> QED BY <1>1, PagesCorrect, PTL

(* A chain on which every page leads to one other at most, and which ends, *)
(* has no page twice: after the last page that is there a second time would*)
(* come one that is, too.                                                  *)
LEMMA NoneTwice ==
  ASSUME NEW S, NEW read \in Seq(S), NEW next, read # <<>>, next[read[Len(read)].page] = {},
         \A k \in 1..Len(read) - 1 : read[k + 1].page \in next[read[k].page],
         \A k \in DOMAIN read : \A q, r \in next[read[k].page] : q = r
  PROVE  \A j, k \in DOMAIN read : read[j].page = read[k].page => j = k
<1> DEFINE Again == {k \in 1..Len(read) : \E j \in 1..Len(read) :
                       j < k /\ read[j].page = read[k].page}
<1>1. Len(read) \in Nat /\ DOMAIN read = 1..Len(read)
  OBVIOUS
<1>2. Again = {}
  <2> SUFFICES ASSUME Again # {} PROVE FALSE
    OBVIOUS
  <2>1. PICK k \in Again : \A i \in Again : i <= k
    <3>1. \A i \in Again : i \in 1..Len(read)
      OBVIOUS
    <3> HIDE DEF Again
    <3> QED BY <1>1, <3>1, Greatest
  <2>2. PICK j \in 1..Len(read) : j < k /\ read[j].page = read[k].page
    OBVIOUS
  <2>0. k \in 1..Len(read) /\ k \in Int /\ j \in Int
    BY <1>1
  <2> HIDE DEF Again
  <2>3. j \in 1..Len(read) - 1 /\ j + 1 \in 1..Len(read)
    BY <1>1, <2>0, <2>2
  <2>4. read[j + 1].page \in next[read[k].page]
    BY <2>2, <2>3
  <2>5. k # Len(read)
    BY <2>4
  <2>6. k \in 1..Len(read) - 1 /\ k + 1 \in 1..Len(read) /\ j + 1 < k + 1
    <3>1. \A L \in Nat : \A a, b \in 1..L :
            b # L /\ a < b => b \in 1..L - 1 /\ b + 1 \in 1..L /\ a + 1 < b + 1
      OBVIOUS
    <3> QED BY <1>1, <2>0, <2>2, <2>5, <3>1
  <2>7. read[k + 1].page = read[j + 1].page
    <3>1. read[k + 1].page \in next[read[k].page]
      BY <2>6
    <3>2. k \in DOMAIN read
      BY <1>1, <2>0
    <3>3. \A q, r \in next[read[k].page] : q = r
      BY <3>2
    <3> DEFINE leads == next[read[k].page]
    <3>4. read[k + 1].page \in leads /\ read[j + 1].page \in leads /\ \A q, r \in leads : q = r
      BY <2>4, <3>1, <3>3
    <3> HIDE DEF leads
    <3> QED BY <3>4
  <2>8. k + 1 \in Again
    BY <2>3, <2>6, <2>7 DEF Again
  <2>9. k + 1 <= k
    BY <2>1, <2>8
  <2> QED BY <2>0, <2>9
<1>3. \A j, k \in 1..Len(read) : j < k => read[j].page # read[k].page
  BY <1>2
<1> QED BY <1>1, <1>3

(* However long the chain and whatever relinks it: no page leads to two    *)
(* while no two runs of fixpageorder overlap, and an export that none of   *)
(* them disturbs gets the chain from its first page to its end.            *)
THEOREM ChainSound == Spec => []ChainIsSound
<1>1. PagesInv => OneSuccessor
  <2> SUFFICES ASSUME PagesInv, ~overlapped, NEW p \in Pages PROVE Cardinality(repo.next[p]) <= 1
    BY DEF OneSuccessor
  <2>1. \A q, r \in repo.next[p] : q = r
    BY DEF PagesInv, Alone
  <2>2. CASE repo.next[p] = {}
    BY <2>2, FS_EmptySet
  <2>3. ASSUME NEW q \in repo.next[p] PROVE Cardinality(repo.next[p]) <= 1
    <3>1. repo.next[p] = {q}
      BY <2>1, <2>3
    <3> QED BY <3>1, FS_Singleton
  <2> QED BY <2>2, <2>3
<1>2. PagesInv => ReadWhole
  <2> DEFINE read == reader.yielded
             end == read[Len(read)].page
             Entries == [page : Pages, files : SUBSET Files]
  <2> SUFFICES ASSUME PagesInv, reader.pc = "done", ~relinked, read # <<>> PROVE ReadWhole
    BY DEF ReadWhole
  <2>1. OnChain /\ reader.at = None /\ Visible(repo) /\ read \in Seq(Entries) /\ row \in Rows
    BY DEF PagesInv, ReaderInv, ReaderTypes, CreatorInv
  <2>2. Len(read) \in Nat \ {0} /\ DOMAIN read = 1..Len(read) /\ Len(read) \in DOMAIN read
    <3> HIDE DEF read, Entries
    <3> QED BY <2>1
  <2>3. \A k \in DOMAIN read : read[k].page \in Pages
    <3>1. \A k \in DOMAIN read : read[k] \in Entries
      <4> HIDE DEF read, Entries
      <4> QED BY <2>1, ElementOfSeq
    <3> QED BY <3>1
  <2>4. read[1].page = repo.first /\ None \in Value(repo.next[end])
    BY <2>1 DEF OnChain
  <2>5. repo.next[end] = {}
    <3>1. end \in Pages /\ None \notin Pages
      BY <2>2, <2>3 DEF Pages, None
    <3>2. repo.next[end] \subseteq Pages
      BY <3>1 DEF PagesInv, CreatorInv, Shown, Items
    <3> QED BY <2>4, <3>1, <3>2 DEF Value
  <2>6. /\ \A k \in 1..Len(read) - 1 : read[k + 1].page \in repo.next[read[k].page]
        /\ \A k \in DOMAIN read : read[k].files = FilesOf(read[k].page)
    BY <2>1 DEF OnChain
  <2>7. ASSUME fixes = 0 PROVE Len(read) = Len(row) /\ \A k \in Pages : read[k].page = k
    <3>1. \A k \in DOMAIN read : read[k].page = k
      BY <2>1, <2>7 DEF OnChain
    <3>2. Len(read) \in Pages /\ end = Len(read)
      BY <2>2, <2>3, <3>1
    <3>3. After(Len(read)) = {}
      BY <2>1, <2>5, <2>7, <3>2 DEF PagesInv, Bounds, Fresh
    <3>4. Len(row) \in Nat /\ Pages = 1..Len(row)
      BY <2>1, RowTypes
    <3>5. Len(read) = Len(row)
      BY <3>2, <3>3, <3>4 DEF After
    <3> QED BY <2>2, <3>1, <3>4, <3>5
  <2>8. overlapped \/ \A j, k \in DOMAIN read : read[j].page = read[k].page => j = k
    <3> SUFFICES ASSUME ~overlapped
                 PROVE  \A j, k \in DOMAIN read : read[j].page = read[k].page => j = k
      OBVIOUS
    <3>1. \A k \in DOMAIN read : \A q, r \in repo.next[read[k].page] : q = r
      BY <2>3 DEF PagesInv, Alone
    <3> HIDE DEF read, Entries
    <3> QED BY <2>1, <2>5, <2>6, <3>1, NoneTwice DEF end
  <2> QED BY <2>4, <2>5, <2>6, <2>7, <2>8 DEF ReadWhole
<1> QED BY <1>1, <1>2, PagesCorrect, PTL DEF ChainIsSound

-----------------------------------------------------------------------------
(* What fixpageorder does to the chain, where the numbers of the pages are *)
(* 1, 2, 3 and so on, each once, the first page has number 1, and one run  *)
(* goes on at a time: the chain is always in one of two orders, that of the*)
(* pages as they were made and that of their numbers.                      *)
NumberedOnce ==
  /\ CompleteNumbers /\ Number(1) = 1
  /\ \A p, q \in Pages : p # q => Number(p) # Number(q)
Orders == {[p \in Pages |-> p], [p \in Pages |-> Number(p)]}
InOrderOf(r, w) == \A p \in Pages : w.next[p] = {q \in Pages : r[q] = r[p] + 1}
ByNumber(p) == {q \in Pages : Number(q) = Number(p) + 1}

(* A run that has found a page reads them in this order, all before it is  *)
(* at the end.                                                             *)
HasRead(f, r) ==
  f.pc # "idle" /\ (f.got # <<>> \/ f.at # None) =>
    /\ \A k \in DOMAIN f.got : r[f.got[k].proxy] = k
    /\ IF f.at = None THEN Len(f.got) = Len(row) ELSE r[f.at] = Len(f.got) + 1

(* A page whose place is behind the run is to lead to the next number, or  *)
(* does already.                                                           *)
HasPlanned(f, w) ==
  f.pc \in {"patch", "commit"} =>
    /\ f.at = None /\ f.got # <<>>
    /\ \A v \in f.writes : v.new.next = ByNumber(v.old.proxy)
    /\ \A p \in Pages : f.pc = "commit" \/ Number(p) < f.todo =>
         w.next[p] = ByNumber(p) \/ \E v \in f.writes : v.old.proxy = p

OrderInv ==
  ~overlapped /\ NumberedOnce /\ Visible(repo) =>
    \E r \in Orders :
      InOrderOf(r, repo) /\ \A x \in Fixers : HasRead(fixer[x], r) /\ HasPlanned(fixer[x], repo)

LEMMA SameNumbers ==
  ASSUME row' = row
  PROVE  /\ Pages' = Pages /\ Orders' = Orders /\ (NumberedOnce' <=> NumberedOnce)
         /\ \A p : Number(p)' = Number(p) /\ ByNumber(p)' = ByNumber(p)
         /\ \A r, w : InOrderOf(r, w)' <=> InOrderOf(r, w)
         /\ \A f, r : HasRead(f, r)' <=> HasRead(f, r)
         /\ \A f, w : HasPlanned(f, w)' <=> HasPlanned(f, w)
<1>1. Pages' = Pages /\ \A p : Number(p)' = Number(p)
  BY DEF Pages, Number
<1>2. Orders' = Orders /\ \A p : ByNumber(p)' = ByNumber(p)
  BY <1>1 DEF Orders, ByNumber
<1>3. CompleteNumbers' <=> CompleteNumbers
  BY <1>1 DEF CompleteNumbers
<1>4. NumberedOnce' <=> NumberedOnce
  BY <1>1, <1>3 DEF NumberedOnce
<1>5. \A r, w : InOrderOf(r, w)' <=> InOrderOf(r, w)
  BY <1>1 DEF InOrderOf
<1>6. \A f, r : HasRead(f, r)' <=> HasRead(f, r)
  BY <1>1 DEF HasRead, None
<1>7. \A f, w : HasPlanned(f, w)' <=> HasPlanned(f, w)
  BY <1>1, <1>2 DEF HasPlanned, None
<1> QED BY <1>1, <1>2, <1>4, <1>5, <1>6, <1>7

LEMMA UpTo ==
  ASSUME NEW k \in Nat
  PROVE  IsFiniteSet(1..k) /\ Cardinality(1..k) = k
<1>1. IsFiniteSet(1..k) /\ Cardinality(1..k) = IF 1 > k THEN 0 ELSE k - 1 + 1
  BY FS_Interval
<1> QED BY <1>1

(* Both orders give each page a place of its own, and the first page the   *)
(* first place.                                                            *)
LEMMA NumbersArePlaces ==
  ASSUME row \in Rows, NumberedOnce
  PROVE  /\ \A p \in Pages : Number(p) \in 1..Len(row)
         /\ \A k \in 1..Len(row) : \E p \in Pages : Number(p) = k
<1>1. Len(row) \in Nat \ {0} /\ Pages = 1..Len(row)
  BY RowTypes
<1>2. PICK top \in Pages : {Number(p) : p \in Pages} = 1..top
  BY DEF NumberedOnce, CompleteNumbers
<1> DEFINE r == [p \in Pages |-> Number(p)]
<1>3. r \in Surjection(Pages, 1..top) /\ r \in Injection(Pages, 1..top)
  <2>1. r \in [Pages -> 1..top] /\ \A k \in 1..top : \E p \in Pages : r[p] = k
    BY <1>2
  <2>2. \A p, q \in Pages : r[p] = r[q] => p = q
    BY DEF NumberedOnce
  <2> HIDE DEF r
  <2> QED BY <2>1, <2>2 DEF Surjection, Injection, IsInjective
<1>4. IsFiniteSet(Pages) /\ Cardinality(Pages) = Len(row)
  BY <1>1, UpTo
<1>5. Cardinality(1..top) = top
  BY <1>1, <1>2, UpTo
<1>6. top = Len(row)
  <2> HIDE DEF r
  <2> QED BY <1>3, <1>4, <1>5, FS_Surjection
<1> QED BY <1>2, <1>6

LEMMA OrderOfPages ==
  ASSUME row \in Rows, NumberedOnce, NEW r \in Orders
  PROVE  /\ \A p \in Pages : r[p] \in 1..Len(row)
         /\ \A p, q \in Pages : r[p] = r[q] => p = q
         /\ \A k \in 1..Len(row) : \E p \in Pages : r[p] = k
         /\ r[1] = 1
<1>1. Len(row) \in Nat \ {0} /\ Pages = 1..Len(row) /\ 1 \in Pages
  BY RowTypes
<1>2. CASE r = [p \in Pages |-> p]
  BY <1>1, <1>2
<1>3. CASE r = [p \in Pages |-> Number(p)]
  BY <1>1, <1>3, NumbersArePlaces DEF NumberedOnce
<1> QED BY <1>2, <1>3 DEF Orders

(* Whoever has come to the end has read every page.                        *)
LEMMA AllRead ==
  ASSUME row \in Rows, NumberedOnce, NEW r \in Orders, NEW f, f.got \in Seq(Links), f.pc # "idle",
         f.got # <<>>, f.at = None, HasRead(f, r)
  PROVE  /\ \A p \in Pages : \E k \in DOMAIN f.got : f.got[k].proxy = p
         /\ Numbers(f.got) = 1..Len(row)
<1>1. \A k \in DOMAIN f.got : r[f.got[k].proxy] = k
  BY DEF HasRead
<1>2. DOMAIN f.got = 1..Len(row)
  BY DEF HasRead
<1>3. \A k \in DOMAIN f.got : f.got[k].proxy \in Pages
  BY LinksRead
<1>4. \A p \in Pages : \E k \in DOMAIN f.got : f.got[k].proxy = p
  <2> TAKE p \in Pages
  <2>1. r[p] \in DOMAIN f.got
    BY <1>2, OrderOfPages
  <2>2. r[f.got[r[p]].proxy] = r[p] /\ f.got[r[p]].proxy \in Pages
    BY <1>1, <1>3, <2>1
  <2>3. f.got[r[p]].proxy = p
    BY <2>2, OrderOfPages
  <2> QED BY <2>1, <2>3
<1>5. Numbers(f.got) = {Number(p) : p \in Pages}
  BY <1>3, <1>4 DEF Numbers, NumberAt
<1>6. {Number(p) : p \in Pages} = 1..Len(row)
  BY NumbersArePlaces
<1> QED BY <1>4, <1>5, <1>6

(* Then the proxy at a position is that of the page with this number, and  *)
(* its neighbour the one with the next.                                    *)
LEMMA SortedByNumber ==
  ASSUME row \in Rows, NumberedOnce, NEW got \in Seq(Links), Numbers(got) = 1..Len(row),
         NEW k \in 1..Len(row)
  PROVE  /\ SortedAt(got, k) \in Links /\ Number(SortedAt(got, k).proxy) = k
         /\ \E j \in DOMAIN got : SortedAt(got, k) = got[j]
         /\ Neighbour(got, k + 1) = {q \in Pages : Number(q) = k + 1}
<1> DEFINE top == Len(row)
           Rank(m) == Cardinality({b \in 1..top : b < m})
<1>1. top \in Nat \ {0} /\ k \in Nat
  BY RowTypes
<1>2. \A m \in 1..top : Rank(m) = m - 1
  <2> TAKE m \in 1..top
  <2>1. {b \in 1..top : b < m} = 1..(m - 1)
    BY <1>1
  <2>2. Cardinality(1..(m - 1)) = m - 1
    <3>1. m - 1 \in Nat
      BY <1>1
    <3> QED BY <3>1, UpTo
  <2> QED BY <2>1, <2>2
<1>3. (CHOOSE m \in 1..top : Rank(m) = k - 1) = k
  <2> HIDE DEF Rank
  <2>1. \A m \in 1..top : Rank(m) = k - 1 <=> m = k
    BY <1>1, <1>2
  <2> QED BY <2>1
<1>4. SortedAt(got, k) = proxy_by_page(got, k)
  BY <1>3 DEF SortedAt
<1>5. \A m \in 1..top : \E j \in DOMAIN got :
        Number(got[j].proxy) = m /\ proxy_by_page(got, m) = got[j] /\ got[j] \in Links
        /\ got[j].proxy \in Pages
  <2> TAKE m \in 1..top
  <2>1. PICK j \in DOMAIN got : NumberAt(got, j) = m /\ proxy_by_page(got, m) = got[j]
    BY PlacesOf
  <2> QED BY <2>1, LinksRead DEF NumberAt
<1>6. Neighbour(got, k + 1) = {q \in Pages : Number(q) = k + 1}
  <2>1. CASE k + 1 \in 1..top
    <3>1. PICK j \in DOMAIN got : /\ Number(got[j].proxy) = k + 1 /\ got[j].proxy \in Pages
                                  /\ proxy_by_page(got, k + 1) = got[j]
      BY <1>5, <2>1
    <3>2. Neighbour(got, k + 1) = {got[j].proxy}
      BY <2>1, <3>1 DEF Neighbour
    <3>3. \A q \in Pages : Number(q) = k + 1 => q = got[j].proxy
      BY <3>1 DEF NumberedOnce
    <3> QED BY <3>1, <3>2, <3>3
  <2>2. CASE k + 1 \notin 1..top
    <3>1. {q \in Pages : Number(q) = k + 1} = {}
      BY <2>2, NumbersArePlaces
    <3> QED BY <2>2, <3>1 DEF Neighbour
  <2> QED BY <2>1, <2>2
<1> QED BY <1>4, <1>5, <1>6

-----------------------------------------------------------------------------
(* Each step keeps OrderInv.  Only the creator and a commit change the     *)
(* chain.                                                                  *)
LEMMA NotFixingOrdered ==
  ASSUME NEW r, NEW w
  PROVE  HasRead(NotFixing, r) /\ HasPlanned(NotFixing, w)
BY DEF NotFixing, HasRead, HasPlanned

LEMMA CreateOrdered == PagesInv /\ Create => OrderInv'
<1> SUFFICES ASSUME PagesInv, Create, (NumberedOnce /\ Visible(repo))' PROVE OrderInv'
  BY DEF OrderInv
<1>1. CreatorInv' /\ Fresh(repo)'
  BY CreateKeeps DEF PagesInv
<1>2. ~ Visible(repo) /\ row' = row /\ fixer' = fixer
  BY CreateUnseen DEF Others, PagesInv
<1> DEFINE r == [p \in Pages |-> p]
<1>3. \A p \in Pages : repo'.next[p] = After(p)
  BY <1>1, <1>2, SameRow DEF Fresh
<1>4. InOrderOf(r, repo')
  BY <1>3 DEF InOrderOf, After
<1>5. \A x \in Fixers : HasRead(fixer'[x], r) /\ HasPlanned(fixer'[x], repo')
  BY <1>2 DEF PagesInv, FixerInv, FixerHolds, HasRead, HasPlanned
<1>6. r \in Orders
  BY DEF Orders
<1> HIDE DEF r
<1> QED BY <1>2, <1>4, <1>5, <1>6, SameNumbers DEF OrderInv

LEMMA ReadOrdered ==
  ASSUME OrderInv, UNCHANGED <<row, repo, fixer, overlapped>>
  PROVE  OrderInv'
<1>1. Visible(repo)' <=> Visible(repo)
  BY DEF Visible, None
<1> QED BY <1>1, SameNumbers DEF OrderInv

(* A step of fixpageorder that leaves the item as it is.                   *)
LEMMA FixerOrdered ==
  ASSUME PagesInv, OrderInv, NEW x \in Fixers, NEW f, Fix(x, f), UNCHANGED <<row, repo>>,
         ~overlapped' => ~overlapped,
         ASSUME NEW r \in Orders, ~overlapped, NumberedOnce, Visible(repo), InOrderOf(r, repo),
                HasRead(fixer[x], r), HasPlanned(fixer[x], repo)
         PROVE  HasRead(f, r) /\ HasPlanned(f, repo)
  PROVE  OrderInv'
<1> SUFFICES ASSUME ~overlapped, NumberedOnce, Visible(repo) PROVE OrderInv'
  <2>1. (Visible(repo)' <=> Visible(repo)) /\ (NumberedOnce' <=> NumberedOnce)
    BY SameNumbers DEF Visible, None
  <2> QED BY <2>1 DEF OrderInv
<1>1. PICK r \in Orders :
        /\ InOrderOf(r, repo)
        /\ \A y \in Fixers : HasRead(fixer[y], r) /\ HasPlanned(fixer[y], repo)
  BY DEF OrderInv
<1>2. HasRead(f, r) /\ HasPlanned(f, repo)
  BY <1>1
<1>3. \A y \in Fixers : fixer'[y] = IF y = x THEN f ELSE fixer[y]
  BY DEF Fix, PagesInv, FixerInv, FixerTypes
<1>4. \A y \in Fixers : HasRead(fixer'[y], r) /\ HasPlanned(fixer'[y], repo)
  BY <1>1, <1>2, <1>3
<1> QED BY <1>1, <1>4, SameNumbers DEF OrderInv

LEMMA BeginFixOrdered == \A x \in Fixers : PagesInv /\ OrderInv /\ BeginFix(x) => OrderInv'
<1> SUFFICES ASSUME NEW x \in Fixers, PagesInv, OrderInv, BeginFix(x) PROVE OrderInv'
  OBVIOUS
<1>1. PICK dry \in BOOLEAN :
        Fix(x, [NotFixing EXCEPT !.pc = "follow", !.dry = dry, !.at = repo.first])
  BY DEF BeginFix
<1> DEFINE f == [NotFixing EXCEPT !.pc = "follow", !.dry = dry, !.at = repo.first]
<1>2. f.pc = "follow" /\ f.got = <<>> /\ f.at = repo.first
  BY DEF NotFixing
<1>3. UNCHANGED <<row, repo>> /\ (~overlapped' => ~overlapped)
  BY DEF BeginFix, MineFixing
<1>4. ASSUME NEW r \in Orders, NumberedOnce, Visible(repo) PROVE HasRead(f, r) /\ HasPlanned(f, repo)
  <2>1. repo.first = 1 /\ row \in Rows
    BY <1>4 DEF PagesInv, CreatorInv, Shown
  <2>2. r[1] = 1
    BY <1>4, <2>1, OrderOfPages
  <2>3. Len(f.got) = 0 /\ DOMAIN f.got = {}
    BY <1>2
  <2> HIDE DEF f
  <2> QED BY <1>2, <2>1, <2>2, <2>3 DEF HasRead, HasPlanned, None
<1> HIDE DEF f
<1>5. Fix(x, f)
  BY <1>1 DEF f
<1> QED BY <1>3, <1>4, <1>5, FixerOrdered

LEMMA FollowProxyOrdered == \A x \in Fixers : PagesInv /\ OrderInv /\ FollowProxy(x) => OrderInv'
<1> SUFFICES ASSUME NEW x \in Fixers, PagesInv, OrderInv, FollowProxy(x) PROVE OrderInv'
  OBVIOUS
<1> DEFINE p == fixer[x].at
           link == [proxy |-> p, prev |-> repo.prev[p], next |-> repo.next[p]]
           Later(q) == [fixer[x] EXCEPT !.at = q, !.got = Append(@, link)]
<1>1. fixer[x].pc = "follow" /\ p # None
  BY DEF FollowProxy
<1>2. /\ fixer[x] \in FixerStates /\ fixer[x].got \in Seq(Links) /\ p \in Pages /\ row \in Rows
      /\ Visible(repo)
  BY <1>1, AtFixer DEF PagesInv, CreatorInv, FixerHolds
<1>3. UNCHANGED <<row, repo>> /\ overlapped' = overlapped
  BY DEF FollowProxy, MineFixing
<1>4. CASE Fix(x, NotFixing)
  BY <1>3, <1>4, NotFixingOrdered, FixerOrdered
<1>5. ASSUME NEW q \in Value(repo.next[p]), Fix(x, Later(q)) PROVE OrderInv'
  <2> DEFINE f == Later(q)
  <2>1. link \in Links /\ link.proxy = p
    BY <1>2 DEF Links, PagesInv, CreatorInv, Shown, Items
  <2>2. /\ f.pc = "follow" /\ f.at = q /\ f.got = Append(fixer[x].got, link)
        /\ Len(f.got) = Len(fixer[x].got) + 1 /\ Len(fixer[x].got) \in Nat
        /\ DOMAIN f.got = DOMAIN fixer[x].got \cup {Len(f.got)}
        /\ \A k \in DOMAIN fixer[x].got : f.got[k] = fixer[x].got[k]
        /\ f.got[Len(f.got)] = link
    <3>1. f.pc = "follow" /\ f.at = q /\ f.got = Append(fixer[x].got, link)
      <4> HIDE DEF link
      <4> QED BY <1>1, <1>2 DEF FixerStates
    <3> HIDE DEF f, link
    <3> QED BY <1>2, <2>1, <3>1, AppendRead
  <2>3. ASSUME NEW r \in Orders, NumberedOnce, InOrderOf(r, repo), HasRead(fixer[x], r)
        PROVE  HasRead(f, r) /\ HasPlanned(f, repo)
    <3>1. /\ \A k \in DOMAIN fixer[x].got : r[fixer[x].got[k].proxy] = k
          /\ r[p] = Len(fixer[x].got) + 1
      BY <1>1, <2>3 DEF HasRead
    <3> HIDE DEF f, link
    <3>2. \A k \in DOMAIN f.got : r[f.got[k].proxy] = k
      <4> TAKE k \in DOMAIN f.got
      <4>1. CASE k \in DOMAIN fixer[x].got
        BY <2>2, <3>1, <4>1
      <4>2. CASE k = Len(f.got)
        BY <2>1, <2>2, <3>1, <4>2
      <4> QED BY <2>2, <4>1, <4>2
    <3>3. repo.next[p] = {s \in Pages : r[s] = r[p] + 1}
      BY <1>2, <2>3 DEF InOrderOf
    <3>4. r[p] \in 1..Len(row) /\ Len(row) \in Nat
      BY <1>2, <2>3, OrderOfPages, RowTypes
    <3>5. CASE repo.next[p] = {}
      <4>1. q = None
        BY <1>5, <3>5 DEF Value
      <4>2. r[p] + 1 \notin 1..Len(row)
        BY <1>2, <2>3, <3>3, <3>5, OrderOfPages
      <4>3. r[p] = Len(row)
        BY <3>4, <4>2
      <4> QED BY <2>2, <3>1, <3>2, <4>1, <4>3 DEF HasRead, HasPlanned
    <3>6. CASE repo.next[p] # {}
      <4>1. q \in Pages /\ r[q] = r[p] + 1
        BY <1>5, <3>3, <3>6 DEF Value
      <4>2. q # None
        BY <1>2, <4>1, RowTypes DEF None
      <4>3. r[q] = Len(f.got) + 1
        BY <2>2, <3>1, <4>1
      <4> QED BY <2>2, <3>2, <4>2, <4>3 DEF HasRead, HasPlanned
    <3> QED BY <3>5, <3>6
  <2> HIDE DEF f
  <2>4. Fix(x, f)
    BY <1>5 DEF f
  <2> QED BY <1>3, <2>3, <2>4, FixerOrdered
<1> QED BY <1>4, <1>5 DEF FollowProxy

LEMMA DecideOrdered == \A x \in Fixers : PagesInv /\ OrderInv /\ Decide(x) => OrderInv'
<1> SUFFICES ASSUME NEW x \in Fixers, PagesInv, OrderInv, Decide(x) PROVE OrderInv'
  OBVIOUS
<1> DEFINE got == fixer[x].got
           f == [fixer[x] EXCEPT !.pc = "patch", !.todo = 1]
<1>1. fixer[x].pc = "follow" /\ fixer[x].at = None
  BY DEF Decide
<1>2. fixer[x] \in FixerStates /\ FixerHolds(fixer[x]) /\ row \in Rows
  BY <1>1, AtFixer DEF PagesInv, CreatorInv
<1>3. UNCHANGED <<row, repo>> /\ overlapped' = overlapped
  BY DEF Decide, MineFixing
<1>4. CASE Fix(x, NotFixing)
  BY <1>3, <1>4, NotFixingOrdered, FixerOrdered
<1>5. CASE ~InOrder(got) /\ Fix(x, f)
  <2>1. got # <<>>
    BY <1>5 DEF InOrder, Numbers
  <2>2. /\ f.pc = "patch" /\ f.got = got /\ f.at = None /\ f.todo = 1
        /\ f.writes = {}
    BY <1>1, <1>2 DEF FixerStates, FixerHolds
  <2> HIDE DEF f
  <2>3. ASSUME NEW r \in Orders, NumberedOnce, HasRead(fixer[x], r)
        PROVE  HasRead(f, r) /\ HasPlanned(f, repo)
    <3>1. HasRead(f, r)
      BY <1>1, <2>1, <2>2, <2>3 DEF HasRead
    <3>2. \A m \in Pages : ~ (Number(m) < 1)
      BY <1>2, <2>3, NumbersArePlaces, RowTypes
    <3> QED BY <2>1, <2>2, <3>1, <3>2 DEF HasPlanned
  <2> QED BY <1>3, <1>5, <2>3, FixerOrdered
<1> QED BY <1>4, <1>5 DEF Decide

LEMMA PatchProxyOrdered == \A x \in Fixers : PagesInv /\ OrderInv /\ PatchProxy(x) => OrderInv'
<1> SUFFICES ASSUME NEW x \in Fixers, PagesInv, OrderInv, PatchProxy(x) PROVE OrderInv'
  OBVIOUS
<1> DEFINE got == fixer[x].got
           todo == fixer[x].todo
           old == SortedAt(got, todo)
           new == [old EXCEPT !.prev = Neighbour(got, todo - 1), !.next = Neighbour(got, todo + 1)]
           write == [old |-> old, new |-> new]
           more == IF new = old THEN fixer[x].writes ELSE fixer[x].writes \cup {write}
           f == [fixer[x] EXCEPT
                   !.todo = @ + 1,
                   !.pc = IF todo = Cardinality(Numbers(got)) THEN "commit" ELSE @,
                   !.writes = IF new = old THEN @ ELSE @ \cup {[old |-> old, new |-> new]}]
<1>1. fixer[x].pc = "patch"
  BY DEF PatchProxy
<1>2. /\ fixer[x] \in FixerStates /\ FixerHolds(fixer[x]) /\ row \in Rows /\ got \in Seq(Links)
      /\ ~overlapped => AsRead(fixer[x])
  BY <1>1, AtFixer DEF PagesInv, CreatorInv
<1>3. UNCHANGED <<row, repo>> /\ overlapped' = overlapped
  BY DEF PatchProxy, MineFixing
<1>4. CASE Fix(x, NotFixing)
  BY <1>3, <1>4, NotFixingOrdered, FixerOrdered
<1>5. CASE Fix(x, f)
  <2>1. todo \in 1..Cardinality(Numbers(got))
    BY <1>1, <1>2 DEF FixerHolds
  <2>2. /\ f.pc = (IF todo = Cardinality(Numbers(got)) THEN "commit" ELSE "patch")
        /\ f.at = fixer[x].at /\ f.got = got /\ f.todo = todo + 1 /\ f.writes = more
    <3> HIDE DEF old, new
    <3> QED BY <1>1, <1>2 DEF FixerStates
  <2> HIDE DEF f
  <2>3. ASSUME NEW r \in Orders, ~overlapped, NumberedOnce, HasRead(fixer[x], r),
               HasPlanned(fixer[x], repo)
        PROVE  HasRead(f, r) /\ HasPlanned(f, repo)
    <3>1. /\ fixer[x].at = None /\ got # <<>>
          /\ \A v \in fixer[x].writes : v.new.next = ByNumber(v.old.proxy)
          /\ \A p \in Pages : Number(p) < todo =>
               repo.next[p] = ByNumber(p) \/ \E v \in fixer[x].writes : v.old.proxy = p
      BY <1>1, <2>3 DEF HasPlanned
    <3>2. HasRead(f, r)
      BY <1>1, <2>2, <2>3, <3>1 DEF HasRead
    <3>3. Numbers(got) = 1..Len(row)
      BY <1>1, <1>2, <2>3, <3>1, AllRead
    <3>4. Len(row) \in Nat \ {0} /\ Cardinality(Numbers(got)) = Len(row) /\ todo \in 1..Len(row)
      <4>1. Len(row) \in Nat \ {0}
        BY <1>2, RowTypes
      <4>2. Cardinality(Numbers(got)) = Len(row)
        BY <3>3, <4>1, UpTo
      <4> QED BY <2>1, <4>1, <4>2
    <3>5. /\ old \in Links /\ Number(old.proxy) = todo /\ old.proxy \in Pages
          /\ old.next = repo.next[old.proxy]
          /\ Neighbour(got, todo + 1) = ByNumber(old.proxy)
      <4>1. /\ old \in Links /\ Number(old.proxy) = todo /\ \E j \in DOMAIN got : old = got[j]
            /\ Neighbour(got, todo + 1) = {q \in Pages : Number(q) = todo + 1}
        <5> HIDE DEF got, todo
        <5> QED BY <1>2, <2>3, <3>3, <3>4, SortedByNumber
      <4> HIDE DEF old
      <4> QED BY <1>2, <2>3, <4>1 DEF AsRead, Links, ByNumber
    <3>6. new.next = ByNumber(old.proxy) /\ (new = old => repo.next[old.proxy] = ByNumber(old.proxy))
      <4> HIDE DEF old
      <4>1. new.next = Neighbour(got, todo + 1)
        BY <3>5 DEF Links
      <4> HIDE DEF new
      <4> QED BY <3>5, <4>1
    <3> HIDE DEF old, new
    <3>7. \A v \in more : v \in fixer[x].writes \/ v = write
      OBVIOUS
    <3>8. fixer[x].writes \subseteq more /\ (new # old => write \in more)
      OBVIOUS
    <3>9. write.old = old /\ write.new = new
      OBVIOUS
    <3> HIDE DEF more, write
    <3>10. \A v \in more : v.new.next = ByNumber(v.old.proxy)
      BY <3>1, <3>6, <3>7, <3>9
    <3>11. \A p \in Pages : Number(p) <= todo =>
             repo.next[p] = ByNumber(p) \/ \E v \in more : v.old.proxy = p
      <4> SUFFICES ASSUME NEW p \in Pages, Number(p) <= todo
                   PROVE  repo.next[p] = ByNumber(p) \/ \E v \in more : v.old.proxy = p
        OBVIOUS
      <4>1. CASE Number(p) < todo
        BY <3>1, <3>8, <4>1
      <4>2. CASE Number(p) = todo
        <5>1. p = old.proxy
          BY <2>3, <3>5, <4>2 DEF NumberedOnce
        <5> QED BY <3>6, <3>8, <3>9, <5>1
      <4>3. Number(p) \in Nat
        BY <1>2, RowTypes
      <4> QED BY <3>4, <4>1, <4>2, <4>3
    <3>12. \A p \in Pages : f.pc = "commit" \/ Number(p) < f.todo => Number(p) <= todo
      <4> TAKE p \in Pages
      <4>1. Number(p) \in 1..Len(row)
        BY <1>2, <2>3, NumbersArePlaces
      <4> QED BY <2>2, <3>4, <4>1
    <3>13. HasPlanned(f, repo)
      BY <2>2, <3>1, <3>10, <3>11, <3>12 DEF HasPlanned
    <3> QED BY <3>2, <3>13
  <2> QED BY <1>3, <1>5, <2>3, FixerOrdered
<1> QED BY <1>4, <1>5 DEF PatchProxy

(* The writes of a whole run put the chain in the order of the numbers.    *)
LEMMA WritesSort ==
  ASSUME NEW current, NEW f, NEW w, w.next = current, f.pc = "commit", HasPlanned(f, w), AsRead(f),
         current = repo.next
  PROVE  \A p \in Pages : Relinked("next", current, f.writes)[p] = ByNumber(p)
<1> TAKE p \in Pages
<1> DEFINE v == CHOOSE v \in f.writes : v.old.proxy = p
<1>1. CASE \E u \in f.writes : u.old.proxy = p
  <2>1. v \in f.writes /\ v.old.proxy = p
    BY <1>1
  <2>2. Relinked("next", current, f.writes)[p] = Patched(current[p], v.old.next, v.new.next)
    BY <1>1 DEF Relinked
  <2> HIDE DEF v
  <2>3. v.old.next = current[p] /\ v.new.next = ByNumber(p)
    BY <2>1 DEF AsRead, HasPlanned
  <2> QED BY <2>2, <2>3 DEF Patched
<1>2. CASE ~ \E u \in f.writes : u.old.proxy = p
  <2>1. Relinked("next", current, f.writes)[p] = current[p]
    BY <1>2 DEF Relinked
  <2>2. current[p] = ByNumber(p)
    BY <1>2 DEF HasPlanned
  <2> QED BY <2>1, <2>2
<1> QED BY <1>1, <1>2

LEMMA CommitSorts ==
  ASSUME PagesInv, OrderInv, NEW x \in Fixers, CommitFix(x), ~overlapped, NumberedOnce
  PROVE  /\ row' = row /\ repo.first = 1 /\ overlapped' = overlapped
         /\ fixer' = [fixer EXCEPT ![x] = NotFixing]
         /\ faults' = faults \/ repo' # repo =>
              repo'.first = 1 /\ \A p \in Pages : repo'.next[p] = ByNumber(p)
<1> DEFINE f == fixer[x]
           u == [repo EXCEPT !.prev = Relinked("prev", @, fixer[x].writes),
                             !.next = Relinked("next", @, fixer[x].writes)]
<1>1. f.pc = "commit" /\ fixer' = [fixer EXCEPT ![x] = NotFixing] /\ overlapped' = overlapped
  BY DEF CommitFix, Fix
<1>2. f \in FixerStates /\ FixerHolds(f) /\ AsRead(f)
  BY <1>1, AtFixer
<1>3. Visible(repo) /\ repo \in Items /\ repo.first = 1 /\ row \in Rows
  BY <1>1, <1>2 DEF FixerHolds, PagesInv, CreatorInv, Shown
<1>4. row' = row
  BY DEF CommitFix, MineFixing
<1>5. HasPlanned(f, repo)
  BY <1>3 DEF OrderInv
<1>6. \A p \in Pages : Relinked("next", repo.next, f.writes)[p] = ByNumber(p)
  <2> HIDE DEF f
  <2> QED BY <1>1, <1>2, <1>5, WritesSort
<1>7. u.first = 1 /\ u.next = Relinked("next", repo.next, f.writes)
  BY <1>3 DEF Items
<1>8. ASSUME faults' = faults \/ repo' # repo PROVE repo' = u
  <2>1. faults' # faults \/ ~ Fault
    BY DEF PagesInv, Bounds, Fault
  <2> QED BY <1>8, <2>1 DEF CommitFix
<1> QED BY <1>1, <1>3, <1>4, <1>6, <1>7, <1>8

LEMMA CommitFixOrdered == \A x \in Fixers : PagesInv /\ OrderInv /\ CommitFix(x) => OrderInv'
<1> SUFFICES ASSUME NEW x \in Fixers, PagesInv, OrderInv, CommitFix(x),
                    (~overlapped /\ NumberedOnce /\ Visible(repo))'
             PROVE  OrderInv'
  BY DEF OrderInv
<1>1. row' = row /\ overlapped' = overlapped
  BY DEF CommitFix, MineFixing
<1>2. NumberedOnce /\ ~overlapped
  BY <1>1, SameNumbers
<1>3. /\ fixer' = [fixer EXCEPT ![x] = NotFixing]
      /\ faults' = faults \/ repo' # repo => \A p \in Pages : repo'.next[p] = ByNumber(p)
  BY <1>2, CommitSorts
<1>4. \A y \in Fixers : fixer'[y] = NotFixing
  <2>1. fixer[x].pc = "commit"
    BY DEF CommitFix
  <2>2. \A y \in Fixers \ {x} : fixer[y] = NotFixing
    BY <1>2, <2>1, AtFixer DEF PagesInv, FixerInv, FixerHolds
  <2> QED BY <1>3, <2>2 DEF PagesInv, FixerInv, FixerTypes
<1>5. \A r, y : y \in Fixers => HasRead(fixer'[y], r) /\ HasPlanned(fixer'[y], repo')
  BY <1>4, NotFixingOrdered
<1>6. CASE repo' = repo
  <2>1. PICK r \in Orders : InOrderOf(r, repo)
    BY <1>2, <1>6 DEF OrderInv, Visible, None
  <2> QED BY <1>1, <1>5, <1>6, <2>1, SameNumbers DEF OrderInv
<1>7. CASE repo' # repo
  <2> DEFINE r == [p \in Pages |-> Number(p)]
  <2>1. r \in Orders
    BY DEF Orders
  <2>2. \A p \in Pages : repo'.next[p] = ByNumber(p)
    BY <1>3, <1>7
  <2>3. InOrderOf(r, repo')
    BY <2>2 DEF InOrderOf, ByNumber
  <2> HIDE DEF r
  <2> QED BY <1>1, <1>5, <2>1, <2>3, SameNumbers DEF OrderInv
<1> QED BY <1>6, <1>7

THEOREM OrderKept == Spec => []OrderInv
<1>1. Init => OrderInv
  BY DEF Init, OrderInv, Visible, Bare
<1>2. PagesInv /\ OrderInv /\ [Next]_vars => OrderInv'
  <2> SUFFICES ASSUME PagesInv, OrderInv, [Next]_vars PROVE OrderInv'
    OBVIOUS
  <2>1. CASE Create
    BY <2>1, CreateOrdered
  <2>2. CASE Read
    BY <2>2, ReadOrdered DEF Read, BeginReading, ReadNext, StopIteration, Mine
  <2>3. ASSUME NEW x \in Fixers, BeginFix(x) \/ FixStep(x) PROVE OrderInv'
    BY <2>3, BeginFixOrdered, FollowProxyOrdered, DecideOrdered, PatchProxyOrdered, CommitFixOrdered
       DEF FixStep
  <2>4. CASE UNCHANGED vars
    BY <2>4, ReadOrdered DEF vars
  <2> QED BY <2>1, <2>2, <2>3, <2>4 DEF Next
<1> QED BY <1>1, <1>2, PagesCorrect, PTL DEF Spec

(* However many pages an item has, and however often the command was run,  *)
(* stopped or failed before: a run of fixpageorder that none overlaps and  *)
(* that commits without an error leaves all pages of the item in one chain,*)
(* in the order of their numbers, if these are 1, 2, 3 and so on, each     *)
(* once, and the first page has the first.                                 *)
THEOREM FixedPagesSorted == Spec => FixSorts
<1>1. ASSUME PagesInv, OrderInv, [Next]_vars, NEW x \in Fixers, Commits(x), ~overlapped, NumberedOnce
      PROVE  Sorted'
  <2>1. CommitFix(x)
    <3>1. fixer' # fixer /\ fixer[x].pc = "commit" /\ fixer'[x].pc = "idle"
      BY <1>1 DEF Commits
    <3>2. ~ UNCHANGED vars /\ ~ Read
      BY <3>1 DEF vars, Read, BeginReading, ReadNext, StopIteration
    <3>3. ~ Create
      BY <1>1, <3>1, CreateUnseen DEF Others, PagesInv
    <3>4. PICK y \in Fixers : BeginFix(y) \/ FixStep(y)
      BY <1>1, <3>2, <3>3 DEF Next
    <3>5. \E f : fixer' = [fixer EXCEPT ![y] = f]
      BY <3>4 DEF BeginFix, FixStep, FollowProxy, Decide, PatchProxy, CommitFix, Fix
    <3>6. y = x
      BY <3>1, <3>5 DEF PagesInv, FixerInv, FixerTypes
    <3>7. fixer[y].pc = "commit"
      BY <3>1, <3>6
    <3> QED BY <3>4, <3>6, <3>7 DEF BeginFix, FixStep, FollowProxy, Decide, PatchProxy
  <2>2. row' = row /\ repo'.first = 1 /\ \A p \in Pages : repo'.next[p] = ByNumber(p)
    BY <1>1, <2>1, CommitSorts DEF Commits
  <2>3. row \in Rows /\ Len(row) \in Nat \ {0} /\ Pages = 1..Len(row) /\ 1 \in Pages
    BY <1>1, RowTypes DEF PagesInv, CreatorInv
  <2> DEFINE path == [k \in Pages |-> CHOOSE p \in Pages : Number(p) = k]
  <2>4. path \in [Pages -> Pages] /\ \A k \in Pages : Number(path[k]) = k
    BY <1>1, <2>3, NumbersArePlaces
  <2> HIDE DEF path
  <2>5. path[1] = 1
    BY <1>1, <2>3, <2>4 DEF NumberedOnce
  <2>6. repo'.next[path[Len(row)]] = {}
    <3>1. Len(row) \in Pages /\ Len(row) + 1 \notin 1..Len(row)
      BY <2>3
    <3>2. ByNumber(path[Len(row)]) = {}
      <4>1. \A q \in Pages : Number(q) \in 1..Len(row)
        BY <1>1, <2>3, NumbersArePlaces
      <4>2. \A q \in Pages : Number(q) # Number(path[Len(row)]) + 1
        BY <2>4, <3>1, <4>1
      <4> QED BY <4>2 DEF ByNumber
    <3> QED BY <2>2, <2>4, <3>1, <3>2
  <2>7. ASSUME NEW k \in 1..Len(row) - 1
        PROVE  repo'.next[path[k]] = {path[k + 1]} /\ Number(path[k]) < Number(path[k + 1])
    <3>1. k \in Pages /\ k + 1 \in Pages /\ k < k + 1
      BY <2>3
    <3>2. ByNumber(path[k]) = {path[k + 1]}
      <4>1. \A q \in Pages : Number(q) = k + 1 => q = path[k + 1]
        BY <1>1, <2>4, <3>1 DEF NumberedOnce
      <4> QED BY <2>4, <3>1, <4>1 DEF ByNumber
    <3> QED BY <2>2, <2>4, <3>1, <3>2
  <2>8. Pages' = Pages /\ \A p : Number(p)' = Number(p)
    BY <2>2, SameNumbers
  <2> QED BY <2>2, <2>4, <2>5, <2>6, <2>7, <2>8 DEF Sorted
<1>2. PagesInv /\ OrderInv /\ [Next]_vars =>
        [\A x \in Fixers :
           /\ Commits(x) /\ ~overlapped /\ CompleteNumbers /\ Number(1) = 1
           /\ \A p, q \in Pages : p # q => Number(p) # Number(q)
           => Sorted']_vars
  BY <1>1 DEF NumberedOnce
<1> QED BY <1>2, PagesCorrect, OrderKept, PTL DEF Spec, FixSorts
=============================================================================
