------------------------ MODULE SubscriptionsProofs ------------------------
(***************************************************************************)
(* The two safety properties of the subscription store, for any event      *)
(* types, concurrent updates, failing statements and restarts.             *)
(***************************************************************************)
EXTENDS Subscriptions, TLAPS

\* A call that is about to write the copy knows what it has stored.
CallLocals ==
    \A c \in Calls : cpc[c] = "copy" => event[c] \in EventTypes /\ value[c] # "absent"

TypeInv == TypeOK /\ CallLocals

LEMMA TypeInit == Init => TypeInv
  BY DEF Init, TypeInv, TypeOK, CallLocals, Nothing, Setting

\* Every action keeps every variable in its type.
LEMMA TypeStep == TypeInv /\ [Next]_vars => TypeInv'
<1> SUFFICES ASSUME TypeInv, [Next]_vars PROVE TypeInv'
    OBVIOUS
<1> USE SubscriptionsAssumption DEF TypeInv, TypeOK, CallLocals, Setting, callVars
<1>1. ASSUME NEW c \in Calls, NEW b \in [EventTypes -> Setting],
             UpdateDeviceSubscriptions(c, b)
      PROVE TypeInv'
  BY <1>1 DEF UpdateDeviceSubscriptions
<1>2. ASSUME NEW c \in Calls, NEW e \in EventTypes, StoreSetting(c, e) PROVE TypeInv'
  BY <1>2 DEF StoreSetting
<1>3. ASSUME NEW c \in Calls, NEW e \in EventTypes, StoreSettingFails(c, e)
      PROVE TypeInv'
  <2>1. row' \in [EventTypes -> Setting]
    BY <1>3 DEF StoreSettingFails
  <2>2. unsettled' \subseteq EventTypes
    BY <1>3 DEF StoreSettingFails
  <2>3. QED
    BY <1>3, <2>1, <2>2 DEF StoreSettingFails, AfterError
<1>4. ASSUME NEW c \in Calls, CopyUnderLock(c) PROVE TypeInv'
  BY <1>4 DEF CopyUnderLock, CopySetting, NextSetting
<1>5. CASE Crash
  BY <1>5 DEF Crash
<1>6. CASE UNCHANGED vars
  BY <1>6 DEF vars
<1>7. QED
  BY <1>1, <1>2, <1>3, <1>4, <1>5, <1>6 DEF Next

LEMMA TypeInvariant == Spec => []TypeInv
  BY TypeInit, TypeStep, PTL DEF Spec

\* The type invariant of the store holds in every reachable state.
THEOREM TypeCorrect == Spec => []TypeOK
  BY TypeInvariant, PTL DEF TypeInv

-----------------------------------------------------------------------------
(* What is about to be copied has been stored, so the copy never knows an  *)
(* event type the database does not know.                                  *)

PendingHasRow ==
    \A c \in Calls : cpc[c] = "copy" => row[event[c]] # "absent"

RowInv == CopyHasRow /\ PendingHasRow

\* Rows are written before the copy and never deleted.
LEMMA RowStep == TypeInv /\ RowInv /\ [Next]_vars => RowInv'
<1> SUFFICES ASSUME TypeInv, RowInv, [Next]_vars PROVE RowInv'
    OBVIOUS
<1> USE DEF TypeInv, TypeOK, CallLocals, RowInv, CopyHasRow, PendingHasRow, Setting,
            callVars
<1>1. ASSUME NEW c \in Calls, NEW b \in [EventTypes -> Setting],
             UpdateDeviceSubscriptions(c, b)
      PROVE RowInv'
  BY <1>1 DEF UpdateDeviceSubscriptions
<1>2. ASSUME NEW c \in Calls, NEW e \in EventTypes, StoreSetting(c, e) PROVE RowInv'
  BY <1>2 DEF StoreSetting
<1>3. ASSUME NEW c \in Calls, NEW e \in EventTypes, StoreSettingFails(c, e) PROVE RowInv'
  BY <1>3 DEF StoreSettingFails, AfterError
<1>4. ASSUME NEW c \in Calls, CopyUnderLock(c) PROVE RowInv'
  BY <1>4 DEF CopyUnderLock, CopySetting, NextSetting
<1>5. CASE Crash
  BY <1>5 DEF Crash
<1>6. CASE UNCHANGED vars
  BY <1>6 DEF vars
<1>7. QED
  BY <1>1, <1>2, <1>3, <1>4, <1>5, <1>6 DEF Next

\* The gate never follows a setting without a row.
THEOREM CopyHasRowCorrect == Spec => []CopyHasRow
<1>1. Init => RowInv
  BY DEF Init, RowInv, CopyHasRow, PendingHasRow, Nothing
<1>2. TypeInv /\ RowInv /\ [Next]_vars => (TypeInv /\ RowInv)'
  BY TypeStep, RowStep
<1>3. QED
  BY TypeInit, <1>1, <1>2, PTL DEF Spec, RowInv

-----------------------------------------------------------------------------
(* Where an event type is settled, the call that is about to write its     *)
(* copy is the only one, and holds the value of the row.                   *)

LonePending ==
    \A e \in EventTypes \ unsettled :
        \A c \in Calls :
            (cpc[c] = "copy" /\ event[c] = e) =>
                /\ value[c] = row[e]
                /\ ~ CopyPending(c, e)

CurrentInv == CopyIsCurrent /\ LonePending

\* Storing settles an event type only when nobody else has still to copy it.
LEMMA CurrentStep == TypeInv /\ CurrentInv /\ [Next]_vars => CurrentInv'
<1> SUFFICES ASSUME TypeInv, CurrentInv, [Next]_vars PROVE CurrentInv'
    OBVIOUS
<1> USE DEF TypeInv, TypeOK, CallLocals, CurrentInv, CopyIsCurrent, LonePending,
            CopyPending, Setting, callVars
<1>1. ASSUME NEW c \in Calls, NEW b \in [EventTypes -> Setting],
             UpdateDeviceSubscriptions(c, b)
      PROVE CurrentInv'
  BY <1>1 DEF UpdateDeviceSubscriptions
<1>2. ASSUME NEW c \in Calls, NEW e \in EventTypes, StoreSetting(c, e) PROVE CurrentInv'
  BY <1>2 DEF StoreSetting
<1>3. ASSUME NEW c \in Calls, NEW e \in EventTypes, StoreSettingFails(c, e)
      PROVE CurrentInv'
  BY <1>3 DEF StoreSettingFails, AfterError
<1>4. ASSUME NEW c \in Calls, CopyUnderLock(c) PROVE CurrentInv'
  BY <1>4 DEF CopyUnderLock, CopySetting, NextSetting
<1>5. CASE Crash
  BY <1>5 DEF Crash
<1>6. CASE UNCHANGED vars
  BY <1>6 DEF vars
<1>7. QED
  BY <1>1, <1>2, <1>3, <1>4, <1>5, <1>6 DEF Next

\* Gate and database agree on every settled event type nobody is writing.
THEOREM CopyIsCurrentCorrect == Spec => []CopyIsCurrent
<1>1. Init => CurrentInv
  BY DEF Init, CurrentInv, CopyIsCurrent, LonePending
<1>2. TypeInv /\ CurrentInv /\ [Next]_vars => (TypeInv /\ CurrentInv)'
  BY TypeStep, CurrentStep
<1>3. QED
  BY TypeInit, <1>1, <1>2, PTL DEF Spec, CurrentInv

-----------------------------------------------------------------------------
(* What may go wrong, and nothing else.                                     *)

\* No update writes the row of an event type another one has yet to copy.
StoresAfterCopies ==
    \A c \in Calls, e \in EventTypes : StoreSetting(c, e) => ~ CopyPending(c, e)

UpdatesDoNotOverlap == [][StoresAfterCopies]_vars

\* Once all updates are answered the gate is what the database says, through
\* restarts, as long as statements succeed and no two updates of one event
\* type overlap: the lock that is not held over both writes is the only cause.
THEOREM OnlyOverlapsFlip ==
    ASSUME ~ DbMayFail
    PROVE  Spec /\ UpdatesDoNotOverlap => []SettledCopyIsStored
<1>1. Init => unsettled = {}
  BY DEF Init
<1>2. ASSUME TypeInv, unsettled = {}, [Next]_vars, [StoresAfterCopies]_vars
      PROVE  unsettled' = {}
  <2>1. ASSUME NEW c \in Calls, NEW e \in EventTypes, StoreSetting(c, e)
        PROVE  unsettled' = {}
    <3>1. vars' # vars
      BY <1>2, <2>1 DEF StoreSetting, TypeInv, TypeOK, vars, callVars
    <3>2. ~ CopyPending(c, e)
      BY <1>2, <2>1, <3>1 DEF StoresAfterCopies
    <3>3. QED
      BY <1>2, <2>1, <3>2 DEF StoreSetting
  <2>2. ASSUME NEW c \in Calls, NEW e \in EventTypes PROVE ~ StoreSettingFails(c, e)
    BY DEF StoreSettingFails
  <2>3. QED
    BY <1>2, <2>1, <2>2
       DEF Next, UpdateDeviceSubscriptions, CopyUnderLock, Crash, vars
<1>3. TypeInv /\ unsettled = {} /\ CopyIsCurrent => SettledCopyIsStored
  BY DEF TypeInv, TypeOK, CopyIsCurrent, SettledCopyIsStored
<1>4. QED
  <2>1. TypeInv /\ unsettled = {} /\ [Next]_vars /\ [StoresAfterCopies]_vars
        => (unsettled = {})'
    BY <1>2
  <2>2. QED
    BY <1>1, <1>3, <2>1, TypeInvariant, CopyIsCurrentCorrect, PTL
       DEF Spec, UpdatesDoNotOverlap
=============================================================================
