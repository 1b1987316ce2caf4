------------------------- MODULE ChatHistoryProofs -------------------------
(***************************************************************************)
(* Proofs about the chat history, for any number of pumps and any limit.   *)
(***************************************************************************)
EXTENDS ChatHistory, FiniteSetTheorems, TLAPS

\* A pump stores its rows in the order of their stamps, and none is younger
\* than the stamp in its hands or than the clock.
StampsGrow ==
  /\ \A p \in Pumps : stamp[p] <= now
  /\ \A i \in DOMAIN rows :
       /\ rows[i].sentAt <= now
       /\ stamp[rows[i].from] # 0 => rows[i].sentAt <= stamp[rows[i].from]
  /\ \A i, j \in DOMAIN rows :
       i < j /\ rows[i].from = rows[j].from => rows[i].sentAt <= rows[j].sentAt

IInv == TypeOK /\ StampsGrow

LEMMA RowTypes ==
  ASSUME TypeOK
  PROVE  /\ DOMAIN rows = 1 .. Len(rows) /\ Len(rows) \in Nat
         /\ \A i \in DOMAIN rows : rows[i].from \in Pumps /\ rows[i].sentAt \in Nat
<1>1. DOMAIN rows = 1 .. Len(rows) /\ Len(rows) \in Nat /\ \A i \in DOMAIN rows : rows[i] \in Row
  BY DEF TypeOK
<1>. QED  BY <1>1 DEF Row

LEMMA InitIInv == Init => IInv
  BY LimitAssumption, MaxAssumption DEF Init, IInv, TypeOK, StampsGrow

LEMMA SaveStep ==
  ASSUME IInv, NEW p \in Pumps, SaveChatMessage(p)
  PROVE  IInv'
<1> DEFINE row == [from |-> p, sentAt |-> stamp[p]]
<1>1. row \in Row
  BY DEF IInv, TypeOK, SaveChatMessage, StampsGrow, Row
<1>2. /\ rows' \in Seq(Row) /\ Len(rows') = Len(rows) + 1
      /\ DOMAIN rows = 1 .. Len(rows) /\ DOMAIN rows' = 1 .. Len(rows) + 1
      /\ \A i \in DOMAIN rows : rows'[i] = rows[i] /\ rows[i] \in Row
      /\ rows'[Len(rows) + 1] = row
  BY <1>1 DEF IInv, TypeOK, SaveChatMessage
<1>3. TypeOK'
  BY <1>2, LimitAssumption, MaxAssumption DEF IInv, TypeOK, SaveChatMessage
<1>4. \A i \in DOMAIN rows :
        /\ rows'[i].from = rows[i].from /\ rows'[i].sentAt = rows[i].sentAt
        /\ rows[i].from \in Pumps /\ rows[i].sentAt \in Nat
  BY <1>2 DEF Row
<1>5. /\ \A q \in Pumps : stamp'[q] = IF q = p THEN 0 ELSE stamp[q]
      /\ now' = now /\ stamp[p] # 0 /\ stamp[p] \in Nat /\ stamp[p] <= now
  BY DEF IInv, TypeOK, SaveChatMessage, StampsGrow
<1>6. \A i \in DOMAIN rows : rows[i].from = p => rows[i].sentAt <= stamp[p]
  BY <1>5 DEF IInv, StampsGrow
<1>. DEFINE n == Len(rows) + 1
<1>7. /\ rows'[n].from = p /\ rows'[n].sentAt = stamp[p]
      /\ n \in Nat /\ n \notin DOMAIN rows /\ DOMAIN rows' = DOMAIN rows \cup {n}
      /\ \A i \in DOMAIN rows : i < n
  BY <1>2
<1>8. \A q \in Pumps : stamp'[q] <= now'
  BY <1>5 DEF IInv, TypeOK, StampsGrow
<1>9. ASSUME NEW i \in DOMAIN rows'
      PROVE  /\ rows'[i].sentAt <= now'
             /\ stamp'[rows'[i].from] # 0 => rows'[i].sentAt <= stamp'[rows'[i].from]
  BY <1>4, <1>5, <1>7 DEF IInv, StampsGrow
<1>10. ASSUME NEW i \in DOMAIN rows', NEW j \in DOMAIN rows', i < j, rows'[i].from = rows'[j].from
       PROVE  rows'[i].sentAt <= rows'[j].sentAt
  <2>1. i \in DOMAIN rows
    BY <1>2, <1>7, <1>10
  <2>. QED  BY <1>4, <1>6, <1>7, <1>10, <2>1 DEF IInv, StampsGrow
<1>11. StampsGrow'
  BY <1>8, <1>9, <1>10 DEF StampsGrow
<1>. QED  BY <1>3, <1>11 DEF IInv

LEMMA NextIInv == IInv /\ [Next]_vars => IInv'
<1> SUFFICES ASSUME IInv, [Next]_vars PROVE IInv'
  OBVIOUS
<1>0. \A i \in DOMAIN rows : rows[i].from \in Pumps /\ rows[i].sentAt \in Nat
  BY RowTypes DEF IInv
<1>1. CASE Tick
  <2>1. now' = now + 1 /\ UNCHANGED <<stamp, rows>> /\ now \in Nat
    BY <1>1 DEF Tick, IInv, TypeOK
  <2>2. TypeOK'
    BY <1>1, LimitAssumption, MaxAssumption DEF Tick, IInv, TypeOK
  <2>3. \A p \in Pumps : stamp[p] \in Nat
    BY DEF IInv, TypeOK
  <2>4. StampsGrow'
    BY <1>0, <2>1, <2>3 DEF IInv, StampsGrow
  <2>. QED  BY <2>2, <2>4 DEF IInv
<1>2. ASSUME NEW p \in Pumps, Stamp(p) PROVE IInv'
  <2>1. /\ UNCHANGED <<now, rows>> /\ now \in Nat
        /\ \A q \in Pumps : stamp'[q] = IF q = p THEN now ELSE stamp[q]
    BY <1>2 DEF Stamp, IInv, TypeOK
  <2>2. TypeOK'
    BY <1>2, LimitAssumption, MaxAssumption DEF Stamp, IInv, TypeOK
  <2>3. StampsGrow'
    BY <1>0, <2>1 DEF IInv, StampsGrow
  <2>. QED  BY <2>2, <2>3 DEF IInv
<1>3. ASSUME NEW p \in Pumps, SaveFails(p) PROVE IInv'
  <2>1. /\ UNCHANGED <<now, rows>> /\ now \in Nat
        /\ \A q \in Pumps : stamp'[q] = IF q = p THEN 0 ELSE stamp[q]
    BY <1>3 DEF SaveFails, IInv, TypeOK
  <2>2. TypeOK'
    BY <1>3, LimitAssumption, MaxAssumption DEF SaveFails, IInv, TypeOK
  <2>3. StampsGrow'
    BY <1>0, <2>1 DEF IInv, StampsGrow
  <2>. QED  BY <2>2, <2>3 DEF IInv
<1>4. CASE UNCHANGED vars
  BY <1>4 DEF vars, IInv, TypeOK, StampsGrow
<1>. QED  BY <1>1, <1>2, <1>3, <1>4, SaveStep DEF Next

\* The clock, the stamps in the pumps' hands and the rows of chat_messages have
\* their types, and the table does not outgrow its bound.
THEOREM HistoryTypes == Spec => []TypeOK
<1>1. IInv => TypeOK
  BY DEF IInv
<1>. QED  BY <1>1, InitIInv, NextIInv, PTL DEF Spec
-----------------------------------------------------------------------------
\* A history lists every recent row.
LEMMA ListsAll ==
  ASSUME NEW S, IsFiniteSet(S), NEW h \in SetToSeqs(S), NEW x \in S
  PROVE  \E n \in DOMAIN h : h[n] = x
<1> DEFINE D == 1 .. Cardinality(S)
<1>1. Cardinality(S) \in Nat
  BY FS_CardinalityType
<1>2. IsFiniteSet(D) /\ Cardinality(D) = Cardinality(S)
  BY <1>1, FS_Interval
<1>3. h \in Injection(D, S)
  BY DEF SetToSeqs, Injection, IsInjective
<1>4. h \in Surjection(D, S)
  BY <1>2, <1>3, FS_Injection
<1>. QED  BY <1>4 DEF Surjection

\* What is later than a recent row is recent.
LEMMA RecentIsLatest ==
  ASSUME TypeOK, NEW i \in Recent(rows), NEW j \in DOMAIN rows, Later(rows, j, i)
  PROVE  j \in Recent(rows)
<1> DEFINE After(k) == {l \in DOMAIN rows : Later(rows, l, k)}
<1>1. /\ DOMAIN rows = 1 .. Len(rows) /\ Len(rows) \in Nat
      /\ \A k \in DOMAIN rows : rows[k].sentAt \in Nat
  BY RowTypes
<1>2. IsFiniteSet(DOMAIN rows)
  BY <1>1, FS_Interval
<1>3. After(j) \subseteq After(i)
  BY <1>1 DEF Recent, Later
<1>4. IsFiniteSet(After(i))
  BY <1>2, FS_Subset
<1>5. Cardinality(After(j)) <= Cardinality(After(i))
  BY <1>3, <1>4, FS_Subset
<1>6. Cardinality(After(j)) \in Nat /\ Cardinality(After(i)) \in Nat
  BY <1>3, <1>4, FS_Subset, FS_CardinalityType
<1>. QED  BY <1>5, <1>6, LimitAssumption DEF Recent

\* The query that takes the newest Limit rows (SqliteDatabaseManager.go:707-709)
\* never skips a message between two of one sender that it shows, nor one after
\* them: each pump stamps its messages in the order in which it stores them.
THEOREM HistoryHasNoHoles == Spec => []NoHoles
<1>1. IInv => NoHoles
  <2> SUFFICES ASSUME IInv, NEW h \in LoadChatMessages(rows), NEW m \in DOMAIN h,
                      NEW i \in DOMAIN rows, i > h[m], rows[i].from = rows[h[m]].from
               PROVE  \E n \in DOMAIN h : h[n] = i
    BY DEF NoHoles
  <2>1. DOMAIN rows = 1 .. Len(rows) /\ Len(rows) \in Nat
    BY DEF IInv, TypeOK
  <2>2. IsFiniteSet(Recent(rows))
    <3>1. IsFiniteSet(DOMAIN rows)
      BY <2>1, FS_Interval
    <3>2. Recent(rows) \in SUBSET DOMAIN rows
      BY DEF Recent
    <3>. QED  BY <3>1, <3>2, FS_Subset
  <2>3. h \in SetToSeqs(Recent(rows)) /\ h[m] \in Recent(rows) /\ h[m] \in DOMAIN rows
    BY DEF LoadChatMessages, SetToSeqs, Recent
  <2>4. rows[h[m]].sentAt <= rows[i].sentAt
    BY <2>1, <2>3 DEF IInv, StampsGrow
  <2>5. rows[i].sentAt \in Nat /\ rows[h[m]].sentAt \in Nat
    BY <2>3, RowTypes DEF IInv
  <2>6. Later(rows, i, h[m])
    BY <2>1, <2>3, <2>4, <2>5 DEF Later
  <2>7. i \in Recent(rows)
    BY <2>3, <2>6, RecentIsLatest DEF IInv
  <2>. QED  BY <2>2, <2>3, <2>7, ListsAll
<1>. QED  BY <1>1, InitIInv, NextIInv, PTL DEF Spec
=============================================================================
