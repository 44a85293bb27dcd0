-------------------------- MODULE HdlPollingProofs --------------------------
(***************************************************************************)
(* Proofs about HdlPolling for any set of probes.                          *)
(***************************************************************************)
EXTENDS HdlPolling, TLAPS

\* The environments in which the list is sound: no restart while a change is
\* on it, and, where restarts happen at all, no change before the loop runs.
CalmRestarts == Restarts # "any"
CalmStarts   == EarlyChange => Restarts = "never"

-----------------------------------------------------------------------------
(* The list. *)

\* Pushing a record adds it to the entries.
LEMMA PushEntries ==
  ASSUME NEW s \in Seq(Hook), NEW h \in Hook
  PROVE  /\ <<h>> \o s \in Seq(Hook)
         /\ Entries(<<h>> \o s) = {h} \cup Entries(s)
<1> DEFINE t == <<h>> \o s
<1>1. t \in Seq(Hook) /\ Len(t) = Len(s) + 1
  OBVIOUS
<1>2. /\ t[1] = h
      /\ \A i \in 1..Len(s) : t[i + 1] = s[i]
  OBVIOUS
<1>3. DOMAIN t = 1..(Len(s) + 1) /\ DOMAIN s = 1..Len(s) /\ Len(s) \in Nat
  BY <1>1
<1>4. ASSUME NEW x \in Entries(t) PROVE x \in {h} \cup Entries(s)
  <2>1. PICK i \in 1..(Len(s) + 1) : x = t[i]
    BY <1>3, <1>4 DEF Entries
  <2>2. CASE i = 1
    BY <2>1, <2>2, <1>2
  <2>3. CASE i # 1
    <3>1. i - 1 \in 1..Len(s) /\ i = (i - 1) + 1
      BY <2>1, <2>3, <1>3
    <3>2. x = s[i - 1]
      BY <3>1, <2>1, <1>2
    <3> QED BY <3>1, <3>2, <1>3 DEF Entries
  <2> QED BY <2>2, <2>3
<1>5. ASSUME NEW x \in {h} \cup Entries(s) PROVE x \in Entries(t)
  <2>1. CASE x = h
    BY <2>1, <1>2, <1>3 DEF Entries
  <2>2. CASE x \in Entries(s)
    <3>1. PICK i \in 1..Len(s) : x = s[i]
      BY <2>2, <1>3 DEF Entries
    <3>2. i + 1 \in DOMAIN t /\ t[i + 1] = x
      BY <3>1, <1>2, <1>3
    <3> QED BY <3>2 DEF Entries
  <2> QED BY <1>5, <2>1, <2>2
<1> QED BY <1>1, <1>4, <1>5

Distinct(s) == \A i, j \in DOMAIN s : i # j => s[i] # s[j]

\* Pushing a record that is not on the list keeps the entries distinct.
LEMMA PushDistinct ==
  ASSUME NEW s \in Seq(Hook), NEW h \in Hook, Distinct(s), h \notin Entries(s)
  PROVE  Distinct(<<h>> \o s)
<1> DEFINE t == <<h>> \o s
<1>1. DOMAIN t = 1..(Len(s) + 1) /\ DOMAIN s = 1..Len(s) /\ Len(s) \in Nat
  OBVIOUS
<1>2. t[1] = h /\ \A i \in 1..Len(s) : t[i + 1] = s[i]
  OBVIOUS
<1>3. \A i \in 2..(Len(s) + 1) : i - 1 \in DOMAIN s /\ t[i] = s[i - 1]
  <2> TAKE i \in 2..(Len(s) + 1)
  <2>1. i - 1 \in 1..Len(s) /\ i = (i - 1) + 1
    BY <1>1
  <2> QED BY <2>1, <1>1, <1>2
<1>4. \A i \in 2..(Len(s) + 1) : t[i] # h
  BY <1>3 DEF Entries
<1> SUFFICES ASSUME NEW i \in 1..(Len(s) + 1), NEW j \in 1..(Len(s) + 1), i # j
             PROVE  t[i] # t[j]
  BY <1>1 DEF Distinct
<1>5. CASE i = 1
  <2>1. j \in 2..(Len(s) + 1)
    BY <1>5, <1>1
  <2> QED BY <1>5, <2>1, <1>2, <1>4
<1>6. CASE j = 1
  <2>1. i \in 2..(Len(s) + 1)
    BY <1>6, <1>1
  <2> QED BY <1>6, <2>1, <1>2, <1>4
<1>7. CASE i # 1 /\ j # 1
  <2>1. i \in 2..(Len(s) + 1) /\ j \in 2..(Len(s) + 1) /\ i - 1 # j - 1
    BY <1>7, <1>1
  <2> QED BY <2>1, <1>3 DEF Distinct
<1> QED BY <1>5, <1>6, <1>7

\* Popping the newest record removes it, and only it, from the entries.
LEMMA PopEntries ==
  ASSUME NEW s \in Seq(Hook), s # <<>>, Distinct(s)
  PROVE  /\ Head(s) \in Entries(s)
         /\ Tail(s) \in Seq(Hook) /\ Distinct(Tail(s))
         /\ Entries(Tail(s)) = Entries(s) \ {Head(s)}
<1>1. /\ Len(s) \in Nat \ {0} /\ DOMAIN s = 1..Len(s)
      /\ Head(s) = s[1]
      /\ Tail(s) \in Seq(Hook) /\ DOMAIN Tail(s) = 1..(Len(s) - 1)
  OBVIOUS
<1>2. \A i \in 1..(Len(s) - 1) : Tail(s)[i] = s[i + 1]
  OBVIOUS
<1>3. Distinct(Tail(s))
  <2> SUFFICES ASSUME NEW i \in 1..(Len(s) - 1), NEW j \in 1..(Len(s) - 1), i # j
               PROVE  Tail(s)[i] # Tail(s)[j]
    BY <1>1 DEF Distinct
  <2>1. i + 1 \in DOMAIN s /\ j + 1 \in DOMAIN s /\ i + 1 # j + 1
    BY <1>1
  <2> QED BY <2>1, <1>2 DEF Distinct
<1>4. ASSUME NEW x \in Entries(Tail(s)) PROVE x \in Entries(s) \ {Head(s)}
  <2>1. PICK i \in 1..(Len(s) - 1) : x = Tail(s)[i]
    BY <1>1 DEF Entries
  <2>2. i + 1 \in DOMAIN s /\ 1 \in DOMAIN s /\ i + 1 # 1 /\ x = s[i + 1]
    BY <2>1, <1>1, <1>2
  <2> QED BY <2>2, <1>1 DEF Entries, Distinct
<1>5. ASSUME NEW x \in Entries(s) \ {Head(s)} PROVE x \in Entries(Tail(s))
  <2>1. PICK i \in 1..Len(s) : x = s[i]
    BY <1>1 DEF Entries
  <2>2. i - 1 \in 1..(Len(s) - 1) /\ i = (i - 1) + 1
    BY <2>1, <1>1, <1>5
  <2>3. x = Tail(s)[i - 1]
    BY <2>1, <2>2, <1>2
  <2> QED BY <2>2, <2>3, <1>1 DEF Entries
<1>6. Head(s) \in Entries(s)
  BY <1>1 DEF Entries
<1> QED BY <1>1, <1>3, <1>4, <1>5, <1>6

-----------------------------------------------------------------------------
(* Types and the list.                                                     *)

LEMMA EmptyEntries == Entries(<<>>) = {}
BY DEF Entries

\* The list after a push, whether or not the record was on it.
LEMMA PushKeepsList ==
  ASSUME TypeOK, ListAgrees, NEW h \in allHooks
  PROVE  /\ PushIfNeeded(h) \in Seq(Hook) /\ Distinct(PushIfNeeded(h))
         /\ Entries(PushIfNeeded(h)) = {h} \cup Entries(changeList)
<1>1. h \in Hook /\ changeList \in Seq(Hook) /\ Distinct(changeList)
  BY DEF TypeOK, ListAgrees, Distinct
<1>2. CASE on_changeList[h]
  BY <1>1, <1>2 DEF ListAgrees, PushIfNeeded
<1>3. CASE ~on_changeList[h]
  <2>1. h \notin Entries(changeList)
    BY <1>1, <1>3 DEF ListAgrees
  <2>2. PushIfNeeded(h) = <<h>> \o changeList
    BY <1>3 DEF PushIfNeeded
  <2> QED BY <1>1, <2>1, <2>2, PushEntries, PushDistinct
<1> QED BY <1>2, <1>3

LIInv == TypeOK /\ ListAgrees

LEMMA ListInit == Init => LIInv
<1> SUFFICES ASSUME Init PROVE LIInv
  OBVIOUS
<1>1. changeList \in Seq(Hook) /\ DOMAIN changeList = {}
  BY DEF Init
<1>2. TypeOK
  BY <1>1 DEF Init, TypeOK, LoopPlaces
<1>3. ListAgrees
  BY <1>1, EmptyEntries DEF Init, ListAgrees
<1> QED
  BY <1>2, <1>3 DEF LIInv

LEMMA ListStep ==
  ASSUME CalmRestarts, LIInv, [Next]_vars
  PROVE  LIInv'
<1> USE DEF LIInv
<1>1. ASSUME NEW h \in Hook, NEW enable \in BOOLEAN, CreateProbe(h, enable) PROVE LIInv'
  <2>1. h \notin Entries(changeList) /\ changeList' = changeList
    BY <1>1 DEF CreateProbe, Free
  <2>2. TypeOK'
    BY <1>1 DEF CreateProbe, TypeOK
  <2>3. ListAgrees'
    BY <1>1, <2>1 DEF CreateProbe, TypeOK, ListAgrees, Entries
  <2> QED BY <2>2, <2>3
<1>2. ASSUME NEW h \in Hook, NEW enable \in BOOLEAN, SetEnableCallback(h, enable) PROVE LIInv'
  <2>1. TypeOK'
    BY <1>2 DEF SetEnableCallback, svVars, TypeOK
  <2>2. ListAgrees'
    BY <1>2 DEF SetEnableCallback, ListAgrees, Entries
  <2> QED BY <2>1, <2>2
<1>3. ASSUME NEW h \in Hook, ValueChange(h) PROVE LIInv'
  <2>1. h \in allHooks /\ changeList' = PushIfNeeded(h)
    BY <1>3 DEF ValueChange, TypeOK
  <2>2. /\ changeList' \in Seq(Hook) /\ Distinct(changeList')
        /\ Entries(changeList') = {h} \cup Entries(changeList)
    BY <2>1, PushKeepsList
  <2>3. TypeOK'
    <3>1. fatal' \in BOOLEAN /\ loop' \in LoopPlaces
      BY <1>3 DEF ValueChange, TypeOK, ToggleNotifier, Wake, LoopPlaces
    <3> QED BY <1>3, <2>2, <3>1 DEF ValueChange, TypeOK
  <2>4. ListAgrees'
    BY <1>3, <2>1, <2>2 DEF ValueChange, TypeOK, ListAgrees, Distinct
  <2> QED BY <2>3, <2>4
<1>4. ASSUME NotifyNewest PROVE LIInv'
  <2>1. Distinct(changeList) /\ changeList \in Seq(Hook) /\ changeList # <<>>
    BY <1>4 DEF NotifyNewest, TypeOK, ListAgrees, Distinct
  <2>2. /\ Head(changeList) \in Entries(changeList)
        /\ changeList' \in Seq(Hook) /\ Distinct(changeList')
        /\ Entries(changeList') = Entries(changeList) \ {Head(changeList)}
    BY <1>4, <2>1, PopEntries DEF NotifyNewest
  <2>3. TypeOK'
    BY <1>4, <2>2 DEF NotifyNewest, TypeOK, LoopPlaces
  <2>4. ListAgrees'
    BY <1>4, <2>2 DEF NotifyNewest, TypeOK, ListAgrees, Distinct
  <2> QED BY <2>3, <2>4
<1>5. CASE StartLoop
  <2>1. TypeOK'
    BY <1>5 DEF StartLoop, TypeOK, LoopPlaces
  <2>2. ListAgrees'
    BY <1>5 DEF StartLoop, ListAgrees, Entries
  <2> QED
    BY <2>1, <2>2
<1>6. CASE CreateFails \/ EnterProcess \/ ReturnFromNotify \/ LeaveProcess
  <2>1. TypeOK'
    BY <1>6 DEF CreateFails, EnterProcess, ReturnFromNotify, LeaveProcess, cVars,
                TypeOK, LoopPlaces
  <2>2. ListAgrees'
    BY <1>6 DEF CreateFails, EnterProcess, ReturnFromNotify, LeaveProcess, cVars,
                ListAgrees, Entries
  <2> QED
    BY <2>1, <2>2
<1>7. CASE Restart
  <2>1. changeList = <<>> /\ changeList' = <<>>
    BY <1>7 DEF Restart, MayRestart, CalmRestarts
  <2>2. TypeOK'
    BY <1>7, <2>1 DEF Restart, TypeOK, LoopPlaces
  <2>3. ListAgrees'
    BY <1>7, <2>1, EmptyEntries DEF Restart, ListAgrees
  <2> QED BY <2>2, <2>3
<1>8. CASE UNCHANGED vars
  BY <1>8 DEF vars, cVars, svVars, TypeOK, ListAgrees, Entries
<1> QED
  BY <1>1, <1>2, <1>3, <1>4, <1>5, <1>6, <1>7, <1>8 DEF Next, Serve

\* If the simulation does not restart with changes on the list, the flags in
\* the records, the linked list and the records in use always agree: no record
\* is on the list twice and none on it has been freed.
THEOREM ListAgreesAlways == ASSUME CalmRestarts PROVE Spec => []ListAgrees
<1>1. LIInv /\ [Next]_vars => LIInv'
  BY ListStep
<1>2. LIInv => ListAgrees
  BY DEF LIInv
<1> QED BY ListInit, <1>1, <1>2, PTL DEF Spec

\* Under the same assumption the state keeps its types.
THEOREM PollingTypeCorrect == ASSUME CalmRestarts PROVE Spec => []TypeOK
<1>1. LIInv /\ [Next]_vars => LIInv'
  BY ListStep
<1>2. LIInv => TypeOK
  BY DEF LIInv
<1> QED BY ListInit, <1>1, <1>2, PTL DEF Spec

-----------------------------------------------------------------------------
(* No notification is missed.                                              *)

\* While there is no notifier to toggle, the list is empty; once there is one,
\* somebody waits for it.
NotifierReady ==
  /\ notifier = "set" => loop # "none"
  /\ notifier # "set" /\ ~fatal => changeList = <<>>
  /\ notifier = "stale" => Restarts # "never"

SIInv == LIInv /\ NotifierReady /\ ListIsServed

LEMMA ServedInit == Init => SIInv
BY ListInit DEF SIInv, Init, NotifierReady, ListIsServed

LEMMA ServedStep ==
  ASSUME CalmRestarts, CalmStarts, SIInv, [Next]_vars
  PROVE  SIInv'
<1>1. LIInv'
  BY ListStep DEF SIInv
<1> SUFFICES NotifierReady' /\ ListIsServed'
  BY <1>1 DEF SIInv
<1> USE DEF SIInv, NotifierReady, ListIsServed
<1>2. ASSUME NEW h \in Hook, NEW enable \in BOOLEAN,
             CreateProbe(h, enable) \/ SetEnableCallback(h, enable)
      PROVE NotifierReady' /\ ListIsServed'
  BY <1>2 DEF CreateProbe, SetEnableCallback, svVars
<1>3. ASSUME NEW h \in Hook, ValueChange(h) PROVE NotifierReady' /\ ListIsServed'
  <2>1. notifier' = notifier /\ ~fatal /\ loop \in LoopPlaces \ {"walking"}
    BY <1>3 DEF ValueChange, DesignRuns, TestbenchRuns, LIInv, TypeOK
  <2>2. CASE notifier = "set"
    <3>1. CASE changeList = <<>>
      <4>1. loop' = Wake /\ ~fatal' /\ loop # "none"
        BY <1>3, <2>1, <2>2, <3>1 DEF ValueChange, RequireNotification, ToggleNotifier
      <4>2. loop' \in {"woken", "notifying"}
        BY <4>1, <2>1 DEF Wake, LoopPlaces
      <4> QED BY <2>1, <2>2, <4>1, <4>2
    <3>2. CASE changeList # <<>>
      BY <1>3, <2>1, <2>2, <3>2 DEF ValueChange, RequireNotification
    <3> QED BY <3>1, <3>2
  <2>3. CASE notifier # "set"
    <3>1. changeList = <<>> /\ notifier = "null"
      BY <1>3, <2>1, <2>3 DEF ValueChange, CalmStarts, LIInv, TypeOK
    <3>2. fatal'
      BY <1>3, <3>1 DEF ValueChange, RequireNotification, ToggleNotifier
    <3> QED BY <2>1, <3>1, <3>2
  <2> QED BY <2>2, <2>3
<1>4. CASE NotifyNewest
  BY <1>4 DEF NotifyNewest
<1>5. CASE StartLoop
  BY <1>5 DEF StartLoop
<1>6. CASE CreateFails \/ EnterProcess \/ ReturnFromNotify \/ LeaveProcess
  BY <1>6 DEF CreateFails, EnterProcess, ReturnFromNotify, LeaveProcess, cVars
<1>7. CASE Restart
  BY <1>7 DEF Restart, MayRestart, CalmRestarts
<1>8. CASE UNCHANGED vars
  BY <1>8 DEF vars, cVars, svVars
<1> QED
  BY <1>2, <1>3, <1>4, <1>5, <1>6, <1>7, <1>8 DEF Next, Serve

\* No notification is missed: a change on the list has always woken the loop,
\* for any number of probes and whatever the code that is told of a change
\* does, unless the simulation restarts over a pending change or a signal
\* changes between a restart and the start of the loop.
THEOREM ListIsServedAlways ==
  ASSUME CalmRestarts, CalmStarts PROVE Spec => []ListIsServed
<1>1. SIInv /\ [Next]_vars => SIInv'
  BY ServedStep
<1>2. SIInv => ListIsServed
  BY DEF SIInv
<1> QED BY ServedInit, <1>1, <1>2, PTL DEF Spec

-----------------------------------------------------------------------------
(* The steps of the layer are steps of the service.                        *)

LEMMA ServiceStep ==
  ASSUME CalmRestarts, LIInv, [Next]_vars
  PROVE  [Service!Next]_(Service!serviceVars)
<1> DEFINE w == IF fatal THEN {} ELSE cb
           o == IF fatal THEN {} ELSE Entries(changeList)
<1> SUFFICES [Service!Next]_<<w, o>>
  BY DEF Service!serviceVars
<1> USE DEF LIInv, Service!Next, Service!Watch, Service!Unwatch, Service!Change,
            Service!Notify, Service!Restart
<1>1. ASSUME NEW h \in Hook, NEW enable \in BOOLEAN,
             CreateProbe(h, enable) \/ SetEnableCallback(h, enable)
      PROVE [Service!Next]_<<w, o>>
  <2>1. ~fatal /\ ~fatal' /\ Entries(changeList') = Entries(changeList)
    BY <1>1 DEF CreateProbe, SetEnableCallback, svVars, TestbenchRuns
  <2>2. cb' = cb \/ cb' = cb \cup {h} \/ cb' = cb \ {h}
    BY <1>1 DEF CreateProbe, SetEnableCallback
  <2> QED BY <2>1, <2>2
<1>2. ASSUME NEW h \in Hook, ValueChange(h) PROVE [Service!Next]_<<w, o>>
  <2>1. ~fatal /\ h \in cb /\ cb' = cb
    BY <1>2 DEF ValueChange, DesignRuns, TestbenchRuns
  <2>2. Entries(changeList') = {h} \cup Entries(changeList)
    BY <1>2, <2>1, PushKeepsList DEF ValueChange, TypeOK
  <2>3. CASE fatal'
    BY <2>1, <2>3
  <2>4. CASE ~fatal'
    BY <2>1, <2>2, <2>4
  <2> QED BY <2>3, <2>4
<1>3. CASE NotifyNewest
  <2>1. Distinct(changeList) /\ changeList \in Seq(Hook) /\ changeList # <<>>
    BY <1>3 DEF NotifyNewest, TypeOK, ListAgrees, Distinct
  <2>2. /\ Head(changeList) \in Entries(changeList)
        /\ Entries(changeList') = Entries(changeList) \ {Head(changeList)}
    BY <1>3, <2>1, PopEntries DEF NotifyNewest
  <2>3. Head(changeList) \in Hook
    BY <2>1
  <2> QED BY <1>3, <2>2, <2>3 DEF NotifyNewest
<1>4. CASE CreateFails
  BY <1>4 DEF CreateFails
<1>5. CASE StartLoop \/ EnterProcess \/ ReturnFromNotify \/ LeaveProcess
  BY <1>5 DEF StartLoop, EnterProcess, ReturnFromNotify, LeaveProcess, cVars
<1>6. CASE Restart
  <2>1. ~fatal /\ ~fatal' /\ cb' = {} /\ changeList' = <<>>
    BY <1>6 DEF Restart, MayRestart, CalmRestarts, TestbenchRuns
  <2> QED BY <2>1, EmptyEntries
<1>7. CASE UNCHANGED vars
  BY <1>7 DEF vars, cVars, svVars
<1> QED
  BY <1>1, <1>2, <1>3, <1>4, <1>5, <1>6, <1>7 DEF Next, Serve

\* The safety part of KeepsPromise: every step of the layer is a step of the
\* service or leaves the service as it is.  Nothing is told that did not
\* happen, and nothing that happened is forgotten.
THEOREM ImplementsService ==
  ASSUME CalmRestarts
  PROVE  Spec => Service!Init /\ [][Service!Next]_(Service!serviceVars)
<1>1. Init => Service!Init
  BY EmptyEntries DEF Init, Service!Init
<1>2. LIInv /\ [Next]_vars => LIInv'
  BY ListStep
<1>3. LIInv /\ [Next]_vars => [Service!Next]_(Service!serviceVars)
  BY ServiceStep
<1> QED BY ListInit, <1>1, <1>2, <1>3, PTL DEF Spec
=============================================================================
