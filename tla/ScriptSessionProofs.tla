------------------------ MODULE ScriptSessionProofs ------------------------
(***************************************************************************)
(* Theorems of ScriptSession, for any scripts and any number of changes    *)
(* and loads, each under the premises it needs.                            *)
(*                                                                         *)
(*   SessionTypeCorrect   Spec => []TypeOK                                 *)
(*   KeepsWhatIsSaved     Spec => SavedIsKept                              *)
(*   KeepsDocumentsApart  Spec => []OwnDocument                            *)
(*   CleanDocumentsSaved  Spec => [](WritesHold => CleanMeansSaved)        *)
(*   SavesWhatIsStored    Spec => []StoredIsSaved                          *)
(*   RestoresSettings     Spec => []SettingsRestored                       *)
(*   UnloadsWhatItOpened  Spec => []UnloadRuns                             *)
(*   StoreIsDurable       Spec => ImplementsStore                          *)
(***************************************************************************)
EXTENDS ScriptSession, Facts

\* No store file fails to be written.
WritesHold == "write_error" \notin may

-----------------------------------------------------------------------------
(* Types.                                                                  *)

\* What a panel holds.
LEMMA ControlTyped ==
  ASSUME NEW list \in Seq(Control), NEW i \in DOMAIN list
  PROVE  /\ i \in Nat /\ list # << >> /\ list[i] \in Control
         /\ list[i].id \in Controls /\ list[i].value \in Values
<1>1. DOMAIN list = 1..Len(list) /\ Len(list) \in Nat /\ list[i] \in Control
  OBVIOUS
<1>2. i \in Nat /\ list # << >>
  BY <1>1
<1> QED
  BY <1>1, <1>2 DEF Control

\* The map of a panel has the values of its controls, and of no others.
LEMMA ValuesTyped ==
  ASSUME NEW list \in Seq(Control)
  PROVE  /\ Declared(list) \in SUBSET Controls
         /\ ValuesOf(list) \in ControlValues
         /\ \A c \in Controls \ Declared(list) : ValuesOf(list)[c] = None
<1>1. DOMAIN list \in SUBSET Nat /\ Len(list) \in Nat /\ \A i \in DOMAIN list : i <= Len(list)
  <2>1. Len(list) \in Nat /\ DOMAIN list = 1..Len(list)
    OBVIOUS
  <2> QED
    BY <2>1
<1>2. \A i \in DOMAIN list : list[i].id \in Controls /\ list[i].value \in Values
  BY ControlTyped
<1> DEFINE IsLast(c, i) == list[i].id = c /\ \A j \in DOMAIN list : list[j].id = c => j <= i
<1>3. ASSUME NEW c \in Declared(list)
      PROVE  \E i \in DOMAIN list : IsLast(c, i)
  <2> DEFINE S == {i \in DOMAIN list : list[i].id = c}
  <2>1. S \in SUBSET Nat /\ S # {} /\ \A m \in S : m <= Len(list)
    BY <1>1, <1>3 DEF Declared
  <2>2. \E n \in S : \A m \in S : m <= n
    BY <1>1, <2>1, GreatestNat
  <2> QED
    BY <2>2
<1>4. ASSUME NEW c \in Declared(list)
      PROVE  list[CHOOSE i \in DOMAIN list : IsLast(c, i)].value \in Values
  <2>1. (CHOOSE i \in DOMAIN list : IsLast(c, i)) \in DOMAIN list
    BY <1>3
  <2> QED
    BY <1>2, <2>1
<1>5. Declared(list) \in SUBSET Controls
  BY <1>2 DEF Declared
<1>6. \A c \in Declared(list) : ValuesOf(list)[c] \in Values
  BY <1>4, <1>5 DEF ValuesOf
<1>7. \A c \in Controls \ Declared(list) : ValuesOf(list)[c] = None
  BY DEF ValuesOf
<1>8. ValuesOf(list) \in ControlValues
  <2>1. ValuesOf(list) = [c \in Controls |-> ValuesOf(list)[c]]
    BY DEF ValuesOf
  <2> QED
    BY <1>6, <1>7, <2>1 DEF ControlValues
<1> QED
  BY <1>5, <1>7, <1>8

\* No two controls of a panel have one id.
Distinct(list) == \A i, j \in DOMAIN list : list[i].id = list[j].id => i = j

\* Then each finds its own value in the map.
LEMMA ValuesFound ==
  ASSUME NEW list \in Seq(Control), Distinct(list), NEW i \in DOMAIN list
  PROVE  ValuesOf(list)[list[i].id] = list[i].value
<1> DEFINE c == list[i].id
           IsLast(k) == list[k].id = c /\ \A j \in DOMAIN list : list[j].id = c => j <= k
<1>1. c \in Controls /\ c \in Declared(list) /\ i \in Nat
  BY ControlTyped DEF Declared
<1>2. IsLast(i) /\ \A k \in DOMAIN list : IsLast(k) => k = i
  BY <1>1 DEF Distinct
<1>3. (CHOOSE k \in DOMAIN list : IsLast(k)) = i
  BY <1>2
<1>4. ValuesOf(list)[c] = list[CHOOSE k \in DOMAIN list : IsLast(k)].value
  BY <1>1 DEF ValuesOf
<1> QED
  BY <1>3, <1>4

\* persist_controls leaves a document whose own keys are as they were.
LEMMA PersistTyped ==
  ASSUME TypeOK, NEW list \in Seq(Control), Persist(list)
  PROVE  /\ data' \in Document /\ data'.own = data.own
         /\ dirty' \in BOOLEAN /\ dropped' \in [Scripts -> SUBSET Controls]
         /\ list = << >> => dirty' = dirty
<1>1. CASE list = << >>
  BY <1>1 DEF Persist, TypeOK
<1>2. CASE list # << >>
  <2>1. /\ data' = [data EXCEPT !.ui = ValuesOf(list)] /\ dirty' = TRUE
        /\ dropped' = [dropped EXCEPT ![script] =
                         @ \cup {c \in Controls \ Declared(list) : data.ui[c] # None}]
    BY <1>2 DEF Persist
  <2>2. data' \in Document /\ data'.own = data.own
    BY <2>1, ValuesTyped DEF TypeOK, Document
  <2>3. dropped' \in [Scripts -> SUBSET Controls]
    BY <2>1 DEF TypeOK
  <2> QED
    BY <1>2, <2>1, <2>2, <2>3
<1> QED
  BY <1>1, <1>2

\* What an edit leaves.
LEMMA EditTyped ==
  ASSUME TypeOK, NEW i \in DOMAIN items, Edit(i)
  PROVE  /\ items' = [items EXCEPT ![i].value = changes'] /\ items' \in Seq(Control)
         /\ items' # << >> /\ items # << >>
         /\ changes' \in 0..MaxChanges /\ changes' \in Nat /\ changes \in Nat /\ changes' > changes
         /\ shown' \in [Scripts -> ControlValues]
         /\ data' \in Document /\ data'.own = data.own /\ dirty' = TRUE
         /\ dropped' \in [Scripts -> SUBSET Controls]
         /\ DOMAIN items' = DOMAIN items
         /\ items'[i].value = changes' /\ \A j \in DOMAIN items : items'[j].id = items[j].id
         /\ \A j \in DOMAIN items : j # i => items'[j] = items[j]
<1>1. /\ items' = [items EXCEPT ![i].value = changes']
      /\ shown' = [shown EXCEPT ![script][items[i].id] = changes']
      /\ changes < MaxChanges /\ changes' = changes + 1
      /\ Persist(items')
  BY DEF Edit, SetInPanel, Change
<1>2. changes' \in 0..MaxChanges /\ changes' \in Nat /\ changes \in Nat /\ changes' > changes /\ changes' \in Values
  BY <1>1, SessionAssumption DEF TypeOK, Values
<1>3. items \in Seq(Control) /\ items[i] \in Control
  BY DEF TypeOK
<1>4. items' \in Seq(Control) /\ items' # << >> /\ items # << >> /\ DOMAIN items' = DOMAIN items
  <2>1. [items[i] EXCEPT !.value = changes'] \in Control
    BY <1>2, <1>3 DEF Control
  <2>2. items' = [items EXCEPT ![i] = [items[i] EXCEPT !.value = changes']]
    BY <1>1
  <2> QED
    BY <1>3, <2>1, <2>2
<1>5. /\ items'[i].value = changes' /\ \A j \in DOMAIN items : items'[j].id = items[j].id
      /\ \A j \in DOMAIN items : j # i => items'[j] = items[j]
  BY <1>1, <1>3 DEF Control
<1>6. shown' \in [Scripts -> ControlValues]
  BY <1>1, <1>2, <1>3 DEF TypeOK, ControlValues, Control
<1>7. /\ data' \in Document /\ data'.own = data.own /\ dirty' = TRUE
      /\ dropped' \in [Scripts -> SUBSET Controls]
  <2>1. dirty' = TRUE
    BY <1>1, <1>4 DEF Persist
  <2> QED
    BY <1>1, <1>4, <2>1, PersistTyped
<1> QED
  BY <1>1, <1>2, <1>4, <1>5, <1>6, <1>7

\* Whatever may happen in a behaviour may happen throughout.
LEMMA MayStep == [Next]_vars => may' = may /\ (WritesHold' <=> WritesHold)
  BY DEF Next, vars, WritesHold

\* What a process without a script has.
LEMMA EmptyTyped == Empty \in Document /\ << >> \in Seq(Control)
<1>1. NoValues \in ControlValues
  BY DEF NoValues, ControlValues
<1> QED
  BY <1>1 DEF Empty, Document

\* Types hold after every step.
LEMMA TypeStep ==
  ASSUME TypeOK, [Next]_vars
  PROVE  TypeOK'
<1> may' \in Behaviours
  BY MayStep DEF TypeOK
<1>1. CASE StoreSet
  <2>1. /\ changes' \in 0..MaxChanges /\ data' \in Document /\ dirty' = TRUE /\ script \in Scripts
        /\ stored' \in [Scripts -> Versions \cup {None}]
    BY <1>1, SessionAssumption
    DEF TypeOK, Document, Versions, StoreSet, Own, Change, InLua, MayStore
  <2> QED
    BY <1>1, <2>1 DEF TypeOK, StoreSet, MayStore, InLua, luaUnchanged, diskVars, settings
<1>2. CASE StoreSave
  <2>1. NoValues \in ControlValues
    BY DEF NoValues, ControlValues
  <2>2. /\ changes' \in 0..MaxChanges /\ data' \in Document /\ dirty' = TRUE /\ script \in Scripts
        /\ stored' \in [Scripts -> Versions \cup {None}]
    BY <1>2, <2>1, SessionAssumption
    DEF TypeOK, Document, Versions, StoreSave, Own, Change, InLua, MayStore
  <2> QED
    BY <1>2, <2>2 DEF TypeOK, StoreSave, MayStore, InLua, luaUnchanged, diskVars, settings
<1>3. ASSUME NEW c \in Controls, Declare(c)
      PROVE  TypeOK'
  <2>1. OrDefault(data.ui[c]) \in Values
    BY SessionAssumption DEF TypeOK, Document, ControlValues, OrDefault, Values
  <2>2. items' \in Seq(Control)
    BY <1>3, <2>1 DEF TypeOK, Declare, Control
  <2> QED
    BY <1>3, <2>2 DEF TypeOK, Declare, luaUnchanged, diskVars, settings
<1>4. ASSUME NEW i \in DOMAIN items, UiSet(i)
      PROVE  TypeOK'
  <2>1. changes' \in 0..MaxChanges /\ changes' \in Values
    BY <1>4, SessionAssumption DEF TypeOK, UiSet, Change, Values
  <2>2. items \in Seq(Control) /\ items[i] \in Control /\ items # << >>
    BY DEF TypeOK
  <2>3. items' \in Seq(Control)
    <3>1. [items[i] EXCEPT !.value = changes'] \in Control
      BY <2>1, <2>2 DEF Control
    <3>2. items' = [items EXCEPT ![i] = [items[i] EXCEPT !.value = changes']]
      BY <1>4 DEF UiSet
    <3> QED
      BY <2>2, <3>1, <3>2
  <2> QED
    BY <1>4, <2>1, <2>2, <2>3 DEF TypeOK, UiSet, luaUnchanged, diskVars, settings
<1>5. CASE BeginFrame
  BY <1>5, SessionAssumption
  DEF TypeOK, BeginFrame, storeVars, hostVars, diskVars, history, settings
<1>6. CASE FrameReturns
  BY <1>6, SessionAssumption
  DEF TypeOK, FrameReturns, storeVars, diskVars, history, settings
<1>7. CASE FlushClean
  BY <1>7, SessionAssumption
  DEF TypeOK, FlushClean, AfterFlush, storeVars, hostVars,
      diskVars, history, settings
<1>8. CASE FlushWrite
  BY <1>8, SessionAssumption
  DEF TypeOK, FlushWrite, hostVars, history, settings
<1>9. CASE FlushRename
  BY <1>9, SessionAssumption
  DEF TypeOK, FlushRename, AfterFlush, storeVars, hostVars,
      history, settings
<1>10. CASE FlushFails
  BY <1>10, SessionAssumption
  DEF TypeOK, FlushFails, AfterFlush, hostVars, diskVars,
      history, settings
<1>11. ASSUME NEW i \in DOMAIN items, Edit(i)
      PROVE  TypeOK'
  BY <1>11, EditTyped DEF TypeOK, Edit, SetInPanel, diskVars
<1>12. CASE EndUpdate
  <2>1. CASE items = << >>
    BY <1>12, <2>1 DEF TypeOK, EndUpdate, storeVars, hostVars, diskVars, settings
  <2>2. CASE items # << >>
    <3>1. /\ shown' = [shown EXCEPT ![script] =
                         [c \in Controls |-> IF c \in Declared(items)
                                             THEN ValuesOf(items)[c] ELSE @[c]]]
          /\ dropped' = [dropped EXCEPT ![script] = @ \ Declared(items)]
      BY <1>12, <2>2 DEF EndUpdate
    <3>2. shown' \in [Scripts -> ControlValues] /\ dropped' \in [Scripts -> SUBSET Controls]
      BY <3>1, ValuesTyped DEF TypeOK, ControlValues
    <3> QED
      BY <1>12, <3>2 DEF TypeOK, EndUpdate, storeVars, hostVars, diskVars
  <2> QED
    BY <2>1, <2>2
<1>13. ASSUME NEW s \in Scripts, LoadScript(s)
      PROVE  TypeOK'
  <2>1. loads' \in 0..MaxLoads
    BY <1>13, SessionAssumption DEF TypeOK, LoadScript
  <2>2. data' \in Document /\ path' = s /\ dirty' = FALSE
    BY <1>13 DEF TypeOK, LoadScript, Bind
  <2>3. CASE loaded
    BY <1>13, <2>1, <2>2, <2>3, SessionAssumption
    DEF TypeOK, LoadScript, hostVars, diskVars, settings
  <2>4. CASE ~loaded
    BY <1>13, <2>1, <2>2, <2>4, EmptyTyped, SessionAssumption
    DEF TypeOK, LoadScript, EnterVm, diskVars, settings
  <2> QED
    BY <2>3, <2>4
<1>14. CASE UnloadReturns
  BY <1>14, EmptyTyped, SessionAssumption
  DEF TypeOK, UnloadReturns, EnterVm, storeVars, diskVars, settings
<1>15. CASE LoadSucceeds
  <2>1. items \in Seq(Control) /\ Persist(items)
    BY <1>15 DEF TypeOK, LoadSucceeds
  <2> QED
    BY <1>15, <2>1, PersistTyped DEF TypeOK, LoadSucceeds
<1>16. CASE LoadFails
  BY <1>16, SessionAssumption
  DEF TypeOK, LoadFails, storeVars, hostVars, diskVars, history, settings
<1>17. CASE Exit
  BY <1>17, SessionAssumption
  DEF TypeOK, Exit, storeVars, hostVars, diskVars, history, settings
<1>18. CASE Crash
  <2>1. /\ shown' \in [Scripts -> ControlValues] /\ dropped' \in [Scripts -> SUBSET Controls]
        /\ stored' \in [Scripts -> Versions \cup {None}]
    BY <1>18 DEF TypeOK, Crash, Document
  <2> QED
    BY <1>18, <2>1, EmptyTyped DEF TypeOK, Crash, NoMemory, diskVars
<1>19. CASE Start
  <2>1. loads' \in 0..MaxLoads
    BY <1>19, SessionAssumption DEF TypeOK, Start
  <2>2. CASE NoMemory /\ at' = "update"
    BY <1>19, <2>1, <2>2, EmptyTyped DEF TypeOK, Start, NoMemory, diskVars, settings
  <2>3. CASE last_script # None /\ Bind(last_script) /\ EnterVm(last_script)
    <3>1. last_script \in Scripts /\ data' = disk[last_script] /\ data' \in Document
      BY <2>3 DEF TypeOK, Bind
    <3> QED
      BY <1>19, <2>1, <2>3, <3>1, EmptyTyped DEF TypeOK, Start, Bind, EnterVm, diskVars, settings
  <2> QED
    BY <1>19, <2>2, <2>3 DEF Start
<1>20. CASE UNCHANGED vars
  BY <1>20, SessionAssumption
  DEF TypeOK, vars, storeVars, hostVars, diskVars, history, settings
<1> QED
  BY <1>1, <1>2, <1>3, <1>4, <1>5, <1>6, <1>7, <1>8, <1>9, <1>10, <1>11, <1>12, <1>13, <1>14,
      <1>15, <1>16, <1>17, <1>18, <1>19, <1>20 DEF Next, Lua, App, Flush

\* The initial state has the types, and all the invariants.
LEMMA InitInvs ==
  ASSUME Init
  PROVE  TypeOK /\ SessionInv /\ OwnInv /\ CleanMeansSaved /\ StoredInv /\ ShownInv
<1>1. TypeOK
  <2>1. Empty \in Document /\ << >> \in Seq(Control) /\ NoValues \in ControlValues
    BY EmptyTyped DEF NoValues, ControlValues
  <2>2. 0 \in 0..MaxChanges /\ 0 \in 0..MaxLoads
    BY SessionAssumption
  <2> QED
    BY <2>1, <2>2 DEF Init, TypeOK
<1>2. SessionInv
  BY DEF Init, SessionInv, StoreOfScript, ExitsLast, FlushedFirst, MemoryIsNewer, Empty
<1>3. OwnInv /\ CleanMeansSaved /\ StoredInv
  BY DEF Init, OwnInv, OwnDocument, CleanMeansSaved, StoredInv, Empty
<1>4. ShownInv
  <2>1. /\ items = << >> /\ \A s \in Scripts : Found[s] = Empty /\ shown[s] = NoValues
    BY SessionAssumption DEF Init, Found
  <2> QED
    BY <2>1 DEF ShownInv, Empty
<1> QED
  BY <1>1, <1>2, <1>3, <1>4

-----------------------------------------------------------------------------
(* The order of things.                                                    *)

\* What is bound, being written and being ended stays in order.
LEMMA OrderStep ==
  ASSUME TypeOK, StoreOfScript, ExitsLast, FlushedFirst, [Next]_vars
  PROVE  StoreOfScript' /\ ExitsLast' /\ FlushedFirst'
<1>1. CASE StoreSet
  BY <1>1
  DEF StoreOfScript, ExitsLast, FlushedFirst, StoreSet, Own, Change, InLua, MayStore, luaUnchanged,
      diskVars
<1>2. CASE StoreSave
  BY <1>2
  DEF StoreOfScript, ExitsLast, FlushedFirst, StoreSave, Own, Change, InLua, MayStore, luaUnchanged,
      diskVars
<1>3. ASSUME NEW c \in Controls, Declare(c)
      PROVE  StoreOfScript' /\ ExitsLast' /\ FlushedFirst'
  BY <1>3
  DEF StoreOfScript, ExitsLast, FlushedFirst, Declare, luaUnchanged, diskVars
<1>4. ASSUME NEW i \in DOMAIN items, UiSet(i)
      PROVE  StoreOfScript' /\ ExitsLast' /\ FlushedFirst'
  BY <1>4
  DEF StoreOfScript, ExitsLast, FlushedFirst, UiSet, Change, InLua, MayStore, luaUnchanged, diskVars
<1>5. CASE BeginFrame
  BY <1>5
  DEF StoreOfScript, ExitsLast, FlushedFirst, BeginFrame, storeVars, hostVars, diskVars,
      history, settings
<1>6. CASE FrameReturns
  BY <1>6
  DEF StoreOfScript, ExitsLast, FlushedFirst, FrameReturns, storeVars, diskVars, history, settings
<1>7. CASE FlushClean
  BY <1>7
  DEF StoreOfScript, ExitsLast, FlushedFirst, FlushClean, AfterFlush, storeVars, hostVars,
      diskVars, history, settings
<1>8. CASE FlushWrite
  BY <1>8
  DEF StoreOfScript, ExitsLast, FlushedFirst, FlushWrite, hostVars, history, settings
<1>9. CASE FlushRename
  BY <1>9
  DEF StoreOfScript, ExitsLast, FlushedFirst, FlushRename, AfterFlush, storeVars, hostVars,
      history, settings
<1>10. CASE FlushFails
  BY <1>10
  DEF StoreOfScript, ExitsLast, FlushedFirst, FlushFails, AfterFlush, hostVars, diskVars,
      history, settings
<1>11. ASSUME NEW i \in DOMAIN items, Edit(i)
      PROVE  StoreOfScript' /\ ExitsLast' /\ FlushedFirst'
  BY <1>11
  DEF StoreOfScript, ExitsLast, FlushedFirst, Edit, SetInPanel, Persist, Change, diskVars
<1>12. CASE EndUpdate
  BY <1>12
  DEF StoreOfScript, ExitsLast, FlushedFirst, EndUpdate, storeVars, hostVars, diskVars,
      history, settings
<1>13. ASSUME NEW s \in Scripts, LoadScript(s)
      PROVE  StoreOfScript' /\ ExitsLast' /\ FlushedFirst'
  BY <1>13
  DEF StoreOfScript, ExitsLast, FlushedFirst, LoadScript, Bind, EnterVm, hostVars, diskVars
<1>14. CASE UnloadReturns
  BY <1>14
  DEF StoreOfScript, ExitsLast, FlushedFirst, UnloadReturns, EnterVm, storeVars, diskVars
<1>15. CASE LoadSucceeds
  BY <1>15
  DEF StoreOfScript, ExitsLast, FlushedFirst, LoadSucceeds
<1>16. CASE LoadFails
  BY <1>16
  DEF StoreOfScript, ExitsLast, FlushedFirst, LoadFails, storeVars, hostVars, diskVars,
      history, settings
<1>17. CASE Exit
  BY <1>17
  DEF StoreOfScript, ExitsLast, FlushedFirst, Exit, storeVars, hostVars, diskVars, history, settings
<1>18. CASE Crash
  BY <1>18
  DEF StoreOfScript, ExitsLast, FlushedFirst, Crash, NoMemory, diskVars, Empty
<1>19. CASE Start
  BY <1>19
  DEF StoreOfScript, ExitsLast, FlushedFirst, Start, NoMemory, Bind, EnterVm, diskVars,
      Empty
<1>20. CASE UNCHANGED vars
  BY <1>20
  DEF StoreOfScript, ExitsLast, FlushedFirst, vars, storeVars, hostVars, diskVars, history, settings
<1> QED
  BY <1>1, <1>2, <1>3, <1>4, <1>5, <1>6, <1>7, <1>8, <1>9, <1>10, <1>11, <1>12, <1>13, <1>14,
      <1>15, <1>16, <1>17, <1>18, <1>19, <1>20 DEF Next, Lua, App, Flush

-----------------------------------------------------------------------------
(* What is in memory and on disk.                                          *)

\* A step that leaves the documents alone.
Quiet == UNCHANGED <<data, path, disk, stored>> /\ changes' \in Nat /\ changes' >= changes

\* The others are few.
LEMMA QuietSteps ==
  ASSUME TypeOK, [Next]_vars
  PROVE  \/ Quiet \/ StoreSet \/ StoreSave \/ FlushRename
         \/ \E i \in DOMAIN items : Edit(i)
         \/ \E s \in Scripts : LoadScript(s)
         \/ LoadSucceeds \/ Crash \/ Start
<1>1. changes \in Nat
  BY SessionAssumption DEF TypeOK
<1>2. CASE \/ \E c \in Controls : Declare(c)
           \/ \E i \in DOMAIN items : UiSet(i)
  <2>1. ASSUME NEW c \in Controls, Declare(c)
        PROVE  Quiet
    BY <1>1, <2>1 DEF Quiet, Declare, luaUnchanged, diskVars
  <2>2. ASSUME NEW i \in DOMAIN items, UiSet(i)
        PROVE  Quiet
    <3>1. changes' = changes + 1 /\ UNCHANGED <<data, path, disk, stored>>
      BY <2>2 DEF UiSet, Change, luaUnchanged, diskVars
    <3> QED
      BY <1>1, <3>1 DEF Quiet
  <2> QED
    BY <1>2, <2>1, <2>2
<1>3. CASE FlushClean \/ FlushWrite \/ FlushFails
  BY <1>1, <1>3 DEF Quiet, FlushClean, FlushWrite, FlushFails, storeVars, diskVars, history, settings
<1>4. CASE BeginFrame \/ EndUpdate
  BY <1>1, <1>4 DEF Quiet, BeginFrame, EndUpdate, storeVars, diskVars, history
<1>5. CASE FrameReturns
  <2>1. UNCHANGED <<storeVars, diskVars, history>>
    BY <1>5 DEF FrameReturns
  <2> QED
    BY <1>1, <2>1 DEF Quiet, storeVars, diskVars, history, settings
<1>6. CASE UnloadReturns \/ LoadFails \/ Exit \/ UNCHANGED vars
  BY <1>1, <1>6 DEF Quiet, UnloadReturns, LoadFails, Exit, vars, storeVars, diskVars, history, settings
<1> QED
  BY <1>2, <1>3, <1>4, <1>5, <1>6 DEF Next, Lua, App, Flush

\* The document in memory stays the newest.
LEMMA NewerStep ==
  ASSUME TypeOK, SessionInv, [Next]_vars
  PROVE  MemoryIsNewer'
<1>1. CASE StoreSet \/ StoreSave
  <2>1. changes' \in Nat /\ changes' > changes /\ changes \in Nat /\ UNCHANGED <<path, disk>>
    BY <1>1, SessionAssumption
    DEF TypeOK, StoreSet, StoreSave, Change, luaUnchanged, diskVars
  <2>2. data'.own = Own /\ Own \in Versions
    BY <1>1, <2>1, SessionAssumption
    DEF TypeOK, StoreSet, StoreSave, Change, InLua, MayStore, Own, Document, Versions
  <2>3. data'.own # None /\ data'.own.n = changes'
    BY <2>2, SessionAssumption DEF Own
  <2>4. \A s \in Scripts : disk[s].own # None => disk[s].own.n \in Nat /\ disk[s].own.n <= changes
    BY DEF TypeOK, Document, Versions, SessionInv, MemoryIsNewer
  <2> QED
    BY <2>1, <2>3, <2>4 DEF TypeOK, MemoryIsNewer
<1>2. CASE FlushRename
  BY <1>2
  DEF TypeOK, Document, Versions, SessionInv, FlushedFirst, MemoryIsNewer, FlushRename,
      AfterFlush, storeVars, hostVars, history, settings
<1>3. ASSUME NEW i \in DOMAIN items, Edit(i)
      PROVE  MemoryIsNewer'
  <2>1. data'.own = data.own /\ changes \in Nat /\ changes' \in Nat /\ changes' > changes
    BY <1>3, EditTyped
  <2>2. UNCHANGED <<path, disk>>
    BY <1>3 DEF Edit, SetInPanel, diskVars
  <2> QED
    BY <2>1, <2>2 DEF TypeOK, Document, Versions, SessionInv, MemoryIsNewer
<1>4. ASSUME NEW s \in Scripts, LoadScript(s)
      PROVE  MemoryIsNewer'
  BY <1>4
  DEF TypeOK, Document, Versions, SessionInv, FlushedFirst, MemoryIsNewer, LoadScript, Bind,
      EnterVm, hostVars, diskVars
<1>5. CASE LoadSucceeds
  <2>1. data'.own = data.own /\ UNCHANGED <<path, disk, changes>>
    BY <1>5, PersistTyped DEF LoadSucceeds, TypeOK
  <2> QED
    BY <2>1 DEF TypeOK, Document, Versions, SessionInv, MemoryIsNewer
<1>6. CASE Crash
  BY <1>6
  DEF TypeOK, Document, Versions, SessionInv, FlushedFirst, MemoryIsNewer, Crash, NoMemory,
      diskVars, Empty
<1>7. CASE Start
  BY <1>7
  DEF TypeOK, Document, Versions, SessionInv, FlushedFirst, MemoryIsNewer, Start, NoMemory,
      Bind, EnterVm, diskVars, Empty
<1>8. CASE Quiet
  BY <1>8
  DEF Quiet, TypeOK, Document, Versions, SessionInv, FlushedFirst, MemoryIsNewer
<1> QED
  BY <1>1, <1>2, <1>3, <1>4, <1>5, <1>6, <1>7, <1>8, QuietSteps

\* No step takes a store file back.
LEMMA SavedStep ==
  ASSUME TypeOK, SessionInv, [Next]_vars
  PROVE  \A s \in Scripts :
           disk[s].own # None => disk'[s].own # None /\ disk'[s].own.n >= disk[s].own.n
<1>1. CASE FlushRename
  BY <1>1
  DEF TypeOK, Document, Versions, SessionInv, FlushedFirst, MemoryIsNewer, FlushRename
<1>2. UNCHANGED disk \/ FlushRename
  BY QuietSteps DEF Quiet, StoreSet, StoreSave, Edit, SetInPanel, LoadScript, LoadSucceeds, Crash, Start,
                    luaUnchanged, diskVars
<1> QED
  BY <1>1, <1>2 DEF TypeOK, Document, Versions

\* Unless on_unload writes elsewhere, documents stay apart.
LEMMA OwnStep ==
  ASSUME ~WritesElsewhere, TypeOK, SessionInv, OwnInv, [Next]_vars
  PROVE  OwnInv'
<1>1. CASE StoreSet
  BY <1>1
  DEF TypeOK, Document, Versions, SessionInv, StoreOfScript, ExitsLast, FlushedFirst,
      OwnInv, OwnDocument, StoreSet, Own, Change, InLua, MayStore, luaUnchanged, diskVars
<1>2. CASE StoreSave
  BY <1>2
  DEF TypeOK, Document, Versions, SessionInv, StoreOfScript, ExitsLast, FlushedFirst,
      OwnInv, OwnDocument, StoreSave, Own, Change, InLua, MayStore, luaUnchanged, diskVars
<1>3. CASE FlushRename
  BY <1>3
  DEF TypeOK, Document, Versions, SessionInv, StoreOfScript, ExitsLast, FlushedFirst,
      OwnInv, OwnDocument, FlushRename, AfterFlush, storeVars, hostVars, history, settings
<1>4. ASSUME NEW i \in DOMAIN items, Edit(i)
      PROVE  OwnInv'
  <2>1. data'.own = data.own /\ UNCHANGED <<path, disk>>
    BY <1>4, EditTyped DEF Edit, SetInPanel, diskVars
  <2> QED
    BY <2>1 DEF OwnInv, OwnDocument
<1>5. ASSUME NEW s \in Scripts, LoadScript(s)
      PROVE  OwnInv'
  BY <1>5
  DEF TypeOK, Document, Versions, SessionInv, StoreOfScript, ExitsLast, FlushedFirst,
      OwnInv, OwnDocument, LoadScript, Bind, EnterVm, hostVars, diskVars
<1>6. CASE LoadSucceeds
  <2>1. data'.own = data.own /\ UNCHANGED <<path, disk>>
    BY <1>6, PersistTyped DEF LoadSucceeds, TypeOK
  <2> QED
    BY <2>1 DEF OwnInv, OwnDocument
<1>7. CASE Crash
  BY <1>7
  DEF TypeOK, Document, Versions, SessionInv, StoreOfScript, ExitsLast, FlushedFirst,
      OwnInv, OwnDocument, Crash, NoMemory, diskVars, Empty
<1>8. CASE Start
  BY <1>8
  DEF TypeOK, Document, Versions, SessionInv, StoreOfScript, ExitsLast, FlushedFirst,
      OwnInv, OwnDocument, Start, NoMemory, Bind, EnterVm, diskVars, Empty
<1>9. CASE Quiet
  BY <1>9
  DEF Quiet, TypeOK, Document, Versions, SessionInv, StoreOfScript, ExitsLast, FlushedFirst,
      OwnInv, OwnDocument
<1> QED
  BY <1>1, <1>2, <1>3, <1>4, <1>5, <1>6, <1>7, <1>8, <1>9, QuietSteps

\* Unless writes fail, a clean document is saved.
LEMMA CleanStep ==
  ASSUME WritesHold, TypeOK, SessionInv, CleanMeansSaved, [Next]_vars
  PROVE  CleanMeansSaved'
<1>1. CASE StoreSet
  BY <1>1
  DEF TypeOK, SessionInv, FlushedFirst, CleanMeansSaved, StoreSet, Own, Change, InLua,
      luaUnchanged, diskVars
<1>2. CASE StoreSave
  BY <1>2
  DEF TypeOK, SessionInv, FlushedFirst, CleanMeansSaved, StoreSave, Own, Change, InLua,
      luaUnchanged, diskVars
<1>3. ASSUME NEW c \in Controls, Declare(c)
      PROVE  CleanMeansSaved'
  BY <1>3
  DEF TypeOK, SessionInv, FlushedFirst, CleanMeansSaved, Declare, luaUnchanged, diskVars
<1>4. ASSUME NEW i \in DOMAIN items, UiSet(i)
      PROVE  CleanMeansSaved'
  BY <1>4
  DEF TypeOK, SessionInv, FlushedFirst, CleanMeansSaved, UiSet, Change, InLua, MayStore, luaUnchanged,
      diskVars
<1>5. CASE BeginFrame
  BY <1>5
  DEF TypeOK, SessionInv, FlushedFirst, CleanMeansSaved, BeginFrame, storeVars, hostVars,
      diskVars, history, settings
<1>6. CASE FrameReturns
  BY <1>6
  DEF TypeOK, SessionInv, FlushedFirst, CleanMeansSaved, FrameReturns, storeVars, diskVars,
      history, settings
<1>7. CASE FlushClean
  BY <1>7
  DEF TypeOK, SessionInv, FlushedFirst, CleanMeansSaved, FlushClean, AfterFlush, storeVars,
      hostVars, diskVars, history, settings
<1>8. CASE FlushWrite
  BY <1>8
  DEF TypeOK, SessionInv, FlushedFirst, CleanMeansSaved, FlushWrite, hostVars, history, settings
<1>9. CASE FlushRename
  BY <1>9
  DEF TypeOK, SessionInv, FlushedFirst, CleanMeansSaved, FlushRename, AfterFlush, storeVars,
      hostVars, history, settings
<1>10. ~FlushFails
  BY DEF FlushFails, WritesHold
<1>11. ASSUME NEW i \in DOMAIN items, Edit(i)
      PROVE  CleanMeansSaved'
  BY <1>11, EditTyped DEF CleanMeansSaved
<1>12. CASE EndUpdate
  BY <1>12
  DEF TypeOK, SessionInv, FlushedFirst, CleanMeansSaved, EndUpdate, storeVars, hostVars,
      diskVars, history, settings
<1>13. ASSUME NEW s \in Scripts, LoadScript(s)
      PROVE  CleanMeansSaved'
  BY <1>13
  DEF TypeOK, SessionInv, FlushedFirst, CleanMeansSaved, LoadScript, Bind, EnterVm,
      hostVars, diskVars
<1>14. CASE UnloadReturns
  BY <1>14
  DEF TypeOK, SessionInv, FlushedFirst, CleanMeansSaved, UnloadReturns, EnterVm, storeVars,
      diskVars
<1>15. CASE LoadSucceeds
  BY <1>15 DEF CleanMeansSaved, LoadSucceeds, Persist
<1>16. CASE LoadFails
  BY <1>16
  DEF TypeOK, SessionInv, FlushedFirst, CleanMeansSaved, LoadFails, storeVars, hostVars,
      diskVars, history, settings
<1>17. CASE Exit
  BY <1>17
  DEF TypeOK, SessionInv, FlushedFirst, CleanMeansSaved, Exit, storeVars, hostVars,
      diskVars, history, settings
<1>18. CASE Crash
  BY <1>18
  DEF TypeOK, SessionInv, FlushedFirst, CleanMeansSaved, Crash, NoMemory, diskVars, Empty
<1>19. CASE Start
  BY <1>19
  DEF TypeOK, SessionInv, FlushedFirst, CleanMeansSaved, Start, NoMemory, Bind, EnterVm,
      diskVars, Empty
<1>20. CASE UNCHANGED vars
  BY <1>20
  DEF TypeOK, SessionInv, FlushedFirst, CleanMeansSaved, vars, storeVars, hostVars,
      diskVars, history, settings
<1> QED
  BY <1>1, <1>2, <1>3, <1>4, <1>5, <1>6, <1>7, <1>8, <1>9, <1>10, <1>11, <1>12, <1>13, <1>14,
      <1>15, <1>16, <1>17, <1>18, <1>19, <1>20 DEF Next, Lua, App, Flush

\* What a script stored last is kept, in memory or on disk.
LEMMA StoredStep ==
  ASSUME WritesHold, ~WritesElsewhere, TypeOK, SessionInv, CleanMeansSaved, StoredInv, [Next]_vars
  PROVE  StoredInv'
<1>1. CASE StoreSet
  BY <1>1
  DEF TypeOK, SessionInv, StoreOfScript, ExitsLast, FlushedFirst, CleanMeansSaved,
      StoredInv, StoreSet, Own, Change, InLua, MayStore, luaUnchanged, diskVars
<1>2. CASE StoreSave
  BY <1>2
  DEF TypeOK, SessionInv, StoreOfScript, ExitsLast, FlushedFirst, CleanMeansSaved,
      StoredInv, StoreSave, Own, Change, InLua, MayStore, luaUnchanged, diskVars
<1>3. CASE FlushRename
  BY <1>3
  DEF TypeOK, SessionInv, StoreOfScript, ExitsLast, FlushedFirst, CleanMeansSaved,
      StoredInv, FlushRename, AfterFlush, storeVars, hostVars, history, settings
<1>4. ASSUME NEW i \in DOMAIN items, Edit(i)
      PROVE  StoredInv'
  <2>1. data'.own = data.own /\ UNCHANGED <<path, disk, stored>>
    BY <1>4, EditTyped DEF Edit, SetInPanel, diskVars
  <2> QED
    BY <2>1 DEF StoredInv
<1>5. ASSUME NEW s \in Scripts, LoadScript(s)
      PROVE  StoredInv'
  <2>1. path # None => disk[path] = data
    BY <1>5 DEF LoadScript, SessionInv, FlushedFirst, CleanMeansSaved
  <2>2. \A t \in Scripts : disk[t].own = stored[t]
    BY <1>5, <2>1, SessionAssumption DEF StoredInv
  <2>3. UNCHANGED <<disk, stored>> /\ path' = s /\ data' = disk[s]
    BY <1>5 DEF LoadScript, Bind, diskVars
  <2> QED
    BY <2>2, <2>3 DEF StoredInv
<1>6. CASE LoadSucceeds
  <2>1. data'.own = data.own /\ UNCHANGED <<path, disk, stored>>
    BY <1>6, PersistTyped DEF LoadSucceeds, TypeOK
  <2> QED
    BY <2>1 DEF StoredInv
<1>7. CASE Crash
  BY <1>7
  DEF TypeOK, SessionInv, StoreOfScript, ExitsLast, FlushedFirst, CleanMeansSaved,
      StoredInv, Crash, NoMemory, diskVars, Empty
<1>8. CASE Start
  <2>1. path # None => disk[path] = data
    BY <1>8 DEF Start, SessionInv, FlushedFirst, CleanMeansSaved
  <2>2. \A t \in Scripts : disk[t].own = stored[t]
    BY <1>8, <2>1, SessionAssumption DEF StoredInv
  <2>3. UNCHANGED <<disk, stored>>
    BY <1>8 DEF Start, diskVars
  <2>4. path' # None => path' \in Scripts /\ data' = disk[path']
    BY <1>8 DEF Start, NoMemory, Bind, TypeOK
  <2> QED
    BY <2>2, <2>3, <2>4 DEF StoredInv
<1>9. CASE Quiet
  BY <1>9
  DEF Quiet, TypeOK, SessionInv, StoreOfScript, ExitsLast, FlushedFirst, CleanMeansSaved,
      StoredInv
<1> QED
  BY <1>1, <1>2, <1>3, <1>4, <1>5, <1>6, <1>7, <1>8, <1>9, QuietSteps

\* What a control shows is never no value, and is what it shows.
LEMMA DefaultFacts ==
  /\ \A v \in Values \cup {None} : OrDefault(v) \in Values
  /\ \A v \in Values : OrDefault(v) = v
  BY SessionAssumption DEF OrDefault, Values

\* Where a script's values are found as before, nothing is lost by a step that
\* leaves the panel alone or starts another.
LEMMA ShownKept ==
  ASSUME TypeOK, ShownInv, UNCHANGED settings,
         UNCHANGED <<items, script>> \/ items' = << >>,
         \A s \in Scripts : Found'[s].ui = Found[s].ui
  PROVE  ShownInv'
<1>1. UNCHANGED <<shown, dropped>>
  BY DEF settings
<1>2. CASE UNCHANGED <<items, script>>
  <2>1. items # << >> => script \in Scripts
    BY DEF TypeOK
  <2>2. \A i \in DOMAIN items : items # << >>
    OBVIOUS
  <2> QED
    BY <1>1, <1>2, <2>1, <2>2 DEF ShownInv
<1>3. CASE items' = << >>
  BY <1>1, <1>3 DEF ShownInv
<1> QED
  BY <1>2, <1>3

\* persist_controls saves the values of the panel, and what else it changes it
\* drops.
LEMMA PersistSaves ==
  ASSUME TypeOK, script = path, path \in Scripts, NEW list \in Seq(Control), list # << >>,
         Distinct(list), Persist(list), UNCHANGED <<path, disk>>
  PROVE  /\ \A i \in DOMAIN list : Found'[script].ui[list[i].id] = list[i].value
         /\ \A c \in Controls \ Declared(list) :
              c \notin dropped'[script] => Found'[script].ui[c] = Found[script].ui[c]
         /\ \A s \in Scripts : dropped[s] \subseteq dropped'[s]
         /\ \A s \in Scripts \ {script} : Found'[s] = Found[s]
<1>1. /\ data' = [data EXCEPT !.ui = ValuesOf(list)]
      /\ dropped' = [dropped EXCEPT ![script] =
                       @ \cup {c \in Controls \ Declared(list) : data.ui[c] # None}]
  BY DEF Persist
<1>2. /\ Found[script] = data /\ Found'[script] = data' /\ data'.ui = ValuesOf(list)
      /\ \A s \in Scripts \ {script} : Found'[s] = Found[s]
  BY <1>1 DEF Found, TypeOK, Document
<1>3. /\ \A s \in Scripts : dropped[s] \subseteq dropped'[s]
      /\ dropped'[script] = dropped[script] \cup {c \in Controls \ Declared(list) : data.ui[c] # None}
  BY <1>1 DEF TypeOK
<1>4. ASSUME NEW c \in Controls \ Declared(list), c \notin dropped'[script]
      PROVE  Found'[script].ui[c] = Found[script].ui[c]
  BY <1>2, <1>3, <1>4, ValuesTyped
<1> QED
  BY <1>2, <1>3, <1>4, ValuesFound

\* What a control showed last is kept, where its declaration finds it.
LEMMA ShownStep ==
  ASSUME may \cap Unsettling = {}, TypeOK, SessionInv, CleanMeansSaved, ShownInv, [Next]_vars
  PROVE  ShownInv'
<1> USE SessionAssumption
<1>1. /\ "ui_set" \notin may /\ "store_save" \notin may /\ "same_id" \notin may
      /\ "write_error" \notin may
  BY DEF Unsettling
<1>2. Distinct(items) /\ items \in Seq(Control) /\ (items # << >> => script \in Scripts)
  BY DEF ShownInv, Distinct, TypeOK
<1>3. CASE StoreSet
  <2>1. UNCHANGED settings /\ UNCHANGED <<items, script, path, disk>> /\ data'.ui = data.ui
    BY <1>3 DEF StoreSet, luaUnchanged, diskVars, TypeOK, Document
  <2>2. \A s \in Scripts : Found'[s].ui = Found[s].ui
    BY <2>1 DEF Found
  <2> QED
    BY <2>1, <2>2, ShownKept
<1>4. ASSUME NEW c \in Controls, Declare(c)
      PROVE  ShownInv'
  <2>1. /\ items' = Append(items, [id |-> c, value |-> OrDefault(data.ui[c])])
        /\ c \notin Declared(items)
        /\ UNCHANGED <<script, path, data, disk, shown, dropped>>
    BY <1>1, <1>4 DEF Declare, luaUnchanged, diskVars, settings
  <2>2. /\ script \in Scripts /\ script = path /\ Found[script].ui[c] = data.ui[c] /\ Found' = Found
    BY <1>4, <2>1 DEF Declare, TypeOK, SessionInv, StoreOfScript, Found
  <2>3. /\ DOMAIN items' = 1..(Len(items) + 1) /\ DOMAIN items = 1..Len(items) /\ Len(items) \in Nat
        /\ \A i \in DOMAIN items : items'[i] = items[i]
        /\ items'[Len(items) + 1] = [id |-> c, value |-> OrDefault(data.ui[c])]
    <3>1. OrDefault(data.ui[c]) \in Values
      BY DefaultFacts DEF TypeOK, Document, ControlValues
    <3>2. [id |-> c, value |-> OrDefault(data.ui[c])] \in Control
      BY <3>1 DEF Control
    <3> QED
      BY <1>2, <2>1, <3>2
  <2>4. \A i \in DOMAIN items : items[i].id # c
    BY <2>1 DEF Declared
  <2>5. Distinct(items')
    BY <1>2, <2>3, <2>4 DEF Distinct
  <2>6. \A i \in DOMAIN items' : items'[i].value = OrDefault(Found[script].ui[items'[i].id])
    BY <2>2, <2>3 DEF ShownInv
  <2> QED
    BY <2>1, <2>2, <2>5, <2>6 DEF ShownInv, Distinct
<1>5. ASSUME NEW i \in DOMAIN items, Edit(i)
      PROVE  ShownInv'
  <2>1. /\ shown' = [shown EXCEPT ![script][items[i].id] = changes']
        /\ Persist(items') /\ UNCHANGED <<script, path, disk>>
        /\ script = path /\ script \in Scripts
    BY <1>2, <1>5 DEF Edit, SetInPanel, diskVars, SessionInv, StoreOfScript
  <2>2. /\ items' \in Seq(Control) /\ items' # << >> /\ DOMAIN items' = DOMAIN items
        /\ items'[i].value = changes' /\ \A j \in DOMAIN items : items'[j].id = items[j].id
        /\ \A j \in DOMAIN items : j # i => items'[j] = items[j]
    BY <1>5, EditTyped
  <2>3. Distinct(items') /\ Declared(items') = Declared(items)
    BY <1>2, <2>2 DEF Distinct, Declared
  <2>4. /\ \A j \in DOMAIN items' : Found'[script].ui[items'[j].id] = items'[j].value
        /\ \A c \in Controls \ Declared(items) :
             c \notin dropped'[script] => Found'[script].ui[c] = Found[script].ui[c]
        /\ \A s \in Scripts : dropped[s] \subseteq dropped'[s]
        /\ \A s \in Scripts \ {script} : Found'[s] = Found[s]
    BY <2>1, <2>2, <2>3, PersistSaves
  <2>5. \A j \in DOMAIN items' : items'[j] \in Control
    BY <2>2
  <2>6. \A j \in DOMAIN items' : items'[j].value = OrDefault(Found'[script].ui[items'[j].id])
    BY <2>4, <2>5, DefaultFacts DEF Control
  <2>7. ASSUME NEW s \in Scripts, NEW c \in Controls \ dropped'[s]
        PROVE  OrDefault(shown'[s][c]) = OrDefault(Found'[s].ui[c])
    <3>1. c \notin dropped[s] /\ OrDefault(shown[s][c]) = OrDefault(Found[s].ui[c])
      BY <2>4, <2>7 DEF ShownInv
    <3>2. CASE s # script
      BY <2>1, <2>4, <3>1, <3>2 DEF TypeOK
    <3>3. CASE s = script /\ c \notin Declared(items)
      <4>1. c # items[i].id
        BY <3>3 DEF Declared
      <4>2. shown'[s][c] = shown[s][c]
        BY <2>1, <3>3, <4>1 DEF TypeOK, ControlValues
      <4> QED
        BY <2>4, <2>7, <3>1, <3>3, <4>2
    <3>4. CASE s = script /\ c \in Declared(items)
      <4>1. PICK j \in DOMAIN items : items[j].id = c
        BY <3>4 DEF Declared
      <4>2. Found'[s].ui[c] = items'[j].value
        BY <2>2, <2>4, <3>4, <4>1
      <4>3. CASE j = i
        <5>1. shown'[s][c] = changes'
          BY <2>1, <3>4, <4>1, <4>3 DEF TypeOK, ControlValues
        <5> QED
          BY <2>2, <4>2, <4>3, <5>1
      <4>4. CASE j # i
        <5>1. c # items[i].id
          BY <1>2, <4>1, <4>4 DEF Distinct
        <5>2. shown'[s][c] = shown[s][c]
          BY <2>1, <3>4, <5>1 DEF TypeOK, ControlValues
        <5>3. items'[j] = items[j] /\ items[j].value = OrDefault(Found[s].ui[c])
          BY <2>2, <3>4, <4>1, <4>4 DEF ShownInv
        <5>4. items[j].value \in Values
          BY <1>2, ControlTyped
        <5> QED
          BY <3>1, <4>2, <5>2, <5>3, <5>4, DefaultFacts
      <4> QED
        BY <4>3, <4>4
    <3> QED
      BY <3>2, <3>3, <3>4
  <2> QED
    BY <2>1, <2>3, <2>6, <2>7 DEF ShownInv, Distinct
<1>6. CASE LoadSucceeds
  <2>1. Persist(items) /\ UNCHANGED <<items, script, path, disk, shown>> /\ script = path
    BY <1>6 DEF LoadSucceeds, SessionInv, StoreOfScript
  <2>2. CASE items = << >>
    <3>1. UNCHANGED <<data, dropped>>
      BY <2>1, <2>2 DEF Persist
    <3> QED
      BY <2>1, <3>1, ShownKept DEF Found, settings
  <2>3. CASE items # << >>
    <3>1. /\ \A i \in DOMAIN items : Found'[script].ui[items[i].id] = items[i].value
          /\ \A c \in Controls \ Declared(items) :
               c \notin dropped'[script] => Found'[script].ui[c] = Found[script].ui[c]
          /\ \A s \in Scripts : dropped[s] \subseteq dropped'[s]
          /\ \A s \in Scripts \ {script} : Found'[s] = Found[s]
      BY <1>2, <2>1, <2>3, PersistSaves
    <3>2. \A i \in DOMAIN items : OrDefault(items[i].value) = items[i].value
      BY <1>2, ControlTyped, DefaultFacts
    <3>3. ASSUME NEW s \in Scripts, NEW c \in Controls
          PROVE  c \in dropped'[s] \/ OrDefault(Found'[s].ui[c]) = OrDefault(Found[s].ui[c])
      <4>1. CASE s # script \/ c \notin Declared(items)
        BY <3>1, <4>1
      <4>2. CASE s = script /\ c \in Declared(items)
        <5>1. PICK i \in DOMAIN items : items[i].id = c
          BY <4>2 DEF Declared
        <5> QED
          BY <3>1, <3>2, <4>2, <5>1 DEF ShownInv
      <4> QED
        BY <4>1, <4>2
    <3>4. \A i \in DOMAIN items : items[i].value = OrDefault(Found'[script].ui[items[i].id])
      BY <3>1, <3>2
    <3> QED
      BY <2>1, <3>1, <3>3, <3>4 DEF ShownInv
  <2> QED
    BY <2>2, <2>3
<1>7. CASE EndUpdate
  <2>1. UNCHANGED <<items, script, path, data, disk>> /\ Found' = Found
    BY <1>7 DEF EndUpdate, storeVars, hostVars, diskVars, Found
  <2>2. CASE items = << >>
    BY <1>7, <2>1, <2>2, ShownKept DEF EndUpdate
  <2>3. CASE items # << >>
    <3>1. /\ shown' = [shown EXCEPT ![script] =
                         [c \in Controls |-> IF c \in Declared(items)
                                             THEN ValuesOf(items)[c] ELSE @[c]]]
          /\ dropped' = [dropped EXCEPT ![script] = @ \ Declared(items)]
      BY <1>7, <2>3 DEF EndUpdate
    <3>2. ASSUME NEW s \in Scripts, NEW c \in Controls \ dropped'[s]
          PROVE  OrDefault(shown'[s][c]) = OrDefault(Found[s].ui[c])
      <4>1. CASE s # script \/ c \notin Declared(items)
        <5>1. shown'[s][c] = shown[s][c] /\ c \notin dropped[s]
          BY <3>1, <3>2, <4>1 DEF TypeOK
        <5> QED
          BY <5>1 DEF ShownInv
      <4>2. CASE s = script /\ c \in Declared(items)
        <5>1. PICK i \in DOMAIN items : items[i].id = c
          BY <4>2 DEF Declared
        <5>2. shown'[s][c] = items[i].value
          BY <1>2, <3>1, <4>2, <5>1, ValuesFound DEF TypeOK
        <5>3. items[i].value \in Values /\ items[i].value = OrDefault(Found[s].ui[c])
          BY <1>2, <4>2, <5>1, ControlTyped DEF ShownInv
        <5> QED
          BY <5>2, <5>3, DefaultFacts
      <4> QED
        BY <4>1, <4>2
    <3> QED
      BY <2>1, <3>2 DEF ShownInv
  <2> QED
    BY <2>2, <2>3
<1>8. CASE Crash
  <2>1. /\ items' = << >> /\ shown' = [s \in Scripts |-> disk[s].ui]
        /\ disk' = disk /\ path' = None
    BY <1>8 DEF Crash, NoMemory, diskVars
  <2>2. \A s \in Scripts : Found'[s] = disk[s]
    BY <2>1 DEF Found
  <2> QED
    BY <2>1, <2>2 DEF ShownInv
<1>9. ASSUME NEW s \in Scripts, LoadScript(s)
      PROVE  ShownInv'
  <2>1. path # None => disk[path] = data
    BY <1>9 DEF LoadScript, SessionInv, FlushedFirst, CleanMeansSaved
  <2>2. /\ UNCHANGED settings /\ disk' = disk /\ path' = s /\ data' = disk[s]
        /\ UNCHANGED <<items, script>> \/ items' = << >>
    BY <1>9 DEF LoadScript, Bind, EnterVm, hostVars, diskVars
  <2>3. \A t \in Scripts : Found'[t] = disk[t] /\ Found[t] = disk[t]
    BY <2>1, <2>2 DEF Found
  <2> QED
    BY <2>2, <2>3, ShownKept
<1>10. CASE Start
  <2>1. path # None => disk[path] = data
    BY <1>10 DEF Start, SessionInv, FlushedFirst, CleanMeansSaved
  <2>2. /\ UNCHANGED settings /\ disk' = disk /\ items' = << >>
        /\ path' # None => data' = disk[path']
    BY <1>10 DEF Start, NoMemory, Bind, EnterVm, diskVars
  <2>3. \A t \in Scripts : Found'[t] = disk[t] /\ Found[t] = disk[t]
    BY <2>1, <2>2 DEF Found
  <2> QED
    BY <2>2, <2>3, ShownKept
<1>11. CASE FlushRename
  <2>1. /\ UNCHANGED settings /\ UNCHANGED <<items, script, path, data>>
        /\ disk' = [disk EXCEPT ![path] = data] /\ path \in Scripts
    BY <1>11 DEF FlushRename, SessionInv, FlushedFirst, TypeOK, storeVars, hostVars, history
  <2>2. \A t \in Scripts : Found'[t] = Found[t]
    BY <2>1 DEF Found, TypeOK
  <2> QED
    BY <2>1, <2>2, ShownKept
<1>12. CASE UnloadReturns
  <2>1. /\ UNCHANGED settings /\ UNCHANGED <<path, data, disk>>
        /\ UNCHANGED <<items, script>> \/ items' = << >>
    BY <1>12 DEF UnloadReturns, EnterVm, storeVars, diskVars
  <2> QED
    BY <2>1, ShownKept DEF Found
<1>13. CASE UNCHANGED vars \/ BeginFrame \/ FrameReturns \/ FlushClean \/ FlushWrite \/ LoadFails \/ Exit
  <2>1. UNCHANGED settings /\ UNCHANGED <<items, script, path, data, disk>>
    BY <1>13 DEF vars, BeginFrame, FrameReturns, FlushClean, FlushWrite, LoadFails, Exit,
                 storeVars, hostVars, diskVars, history
  <2> QED
    BY <2>1, ShownKept DEF Found
<1>14. ~StoreSave /\ ~FlushFails /\ \A i \in DOMAIN items : ~UiSet(i)
  BY <1>1 DEF StoreSave, FlushFails, UiSet
<1> QED
  BY <1>3, <1>4, <1>5, <1>6, <1>7, <1>8, <1>9, <1>10, <1>11, <1>12, <1>13, <1>14
  DEF Next, Lua, App, Flush

-----------------------------------------------------------------------------
(* Unloading.                                                              *)

\* As long as on_frame does not fail, what is opened stays loaded until its
\* on_unload.
LEMMA OpenedStep ==
  ASSUME TypeOK, SessionInv, OpenedIsLoaded, "frame_error" \notin may, [Next]_vars
  PROVE  OpenedIsLoaded'
<1>1. ExitsLast
  BY DEF SessionInv
\* Steps that neither load nor unload, and do not leave for good.
<1>2. CASE \/ StoreSet \/ StoreSave
           \/ \E c \in Controls : Declare(c)
           \/ \E i \in DOMAIN items : UiSet(i)
  <2>1. luaUnchanged
    BY <1>2 DEF StoreSet, StoreSave, Declare, UiSet
  <2> QED
    BY <2>1 DEF OpenedIsLoaded, luaUnchanged
<1>3. CASE BeginFrame \/ EndUpdate \/ (\E i \in DOMAIN items : Edit(i)) \/ UNCHANGED vars
  BY <1>1, <1>3
  DEF OpenedIsLoaded, ExitsLast, BeginFrame, EndUpdate, Edit, SetInPanel, hostVars, history, vars
<1>4. CASE FrameReturns
  BY <1>1, <1>4 DEF OpenedIsLoaded, ExitsLast, FrameReturns, TypeOK, history, settings
\* Flushing, which may be the last thing the process does.
<1>5. CASE FlushClean \/ FlushWrite \/ FlushRename \/ FlushFails
  BY <1>5 DEF OpenedIsLoaded, FlushClean, FlushWrite, FlushRename, FlushFails, AfterFlush,
              hostVars, history, settings
\* Loading and unloading.
<1>6. ASSUME NEW s \in Scripts, LoadScript(s)
      PROVE  OpenedIsLoaded'
  BY <1>1, <1>6 DEF OpenedIsLoaded, ExitsLast, LoadScript, EnterVm, hostVars
<1>7. CASE UnloadReturns
  BY <1>7 DEF OpenedIsLoaded, UnloadReturns, EnterVm
<1>8. CASE LoadSucceeds \/ LoadFails
  BY <1>1, <1>8 DEF OpenedIsLoaded, ExitsLast, LoadSucceeds, LoadFails, hostVars, history, settings
\* The end of the process, and the next one.
<1>9. CASE Exit
  BY <1>9 DEF OpenedIsLoaded, Exit, hostVars, history, settings
<1>10. CASE Crash
  BY <1>10 DEF OpenedIsLoaded, Crash, NoMemory
<1>11. CASE Start
  BY <1>11 DEF OpenedIsLoaded, Start, NoMemory, EnterVm
<1> QED
  BY <1>2, <1>3, <1>4, <1>5, <1>6, <1>7, <1>8, <1>9, <1>10, <1>11 DEF Next, Lua, App, Flush

-----------------------------------------------------------------------------
(* The theorems.                                                           *)

\* Types: loading, frames, flushing, unloading, crashing and starting never
\* run without the store and the script they work on.
THEOREM SessionTypeCorrect == Spec => []TypeOK
  BY InitInvs, TypeStep, PTL DEF Spec

\* The invariant of the order of things.
THEOREM SessionInvariant == Spec => [](TypeOK /\ SessionInv)
<1>1. TypeOK /\ SessionInv /\ [Next]_vars => (TypeOK /\ SessionInv)'
  BY TypeStep, OrderStep, NewerStep DEF SessionInv
<1> QED
  BY <1>1, InitInvs, PTL DEF Spec

\* Whatever scripts do and whenever writes fail or the process dies: a store
\* file is never lost nor replaced by something older.
THEOREM KeepsWhatIsSaved == Spec => SavedIsKept
<1>1. TypeOK /\ SessionInv /\ [Next]_vars
        => [\A s \in Scripts :
              disk[s].own # None => disk'[s].own # None /\ disk'[s].own.n >= disk[s].own.n]_vars
  BY SavedStep
<1> QED
  BY <1>1, SessionInvariant, PTL DEF Spec, SavedIsKept

\* A store file holds its own script's data, as long as on_unload, which runs
\* when the store is bound to the next script already, does not write.
THEOREM KeepsDocumentsApart ==
  ASSUME ~WritesElsewhere
  PROVE  Spec => []OwnDocument
<1>1. TypeOK /\ SessionInv /\ OwnInv /\ [Next]_vars => OwnInv'
  BY OwnStep
<1>2. OwnInv => OwnDocument
  BY DEF OwnInv
<1> QED
  BY <1>1, <1>2, InitInvs, SessionInvariant, PTL DEF Spec

\* A document that flush_if_dirty would skip is the one in its file, as long
\* as writes do not fail.
THEOREM CleanDocumentsSaved == Spec => [](WritesHold => CleanMeansSaved)
<1>1. TypeOK /\ SessionInv /\ (WritesHold => CleanMeansSaved) /\ [Next]_vars
        => (WritesHold => CleanMeansSaved)'
  BY CleanStep, MayStep
<1> QED
  BY <1>1, InitInvs, SessionInvariant, PTL DEF Spec

\* When the process has ended, every script's file holds what it stored last,
\* as long as writes do not fail.
THEOREM SavesWhatIsStored ==
  ASSUME ~WritesElsewhere
  PROVE  Spec => []StoredIsSaved
<1>1. TypeOK /\ SessionInv /\ [Next]_vars /\ (WritesHold => CleanMeansSaved)
      /\ (WritesHold => StoredInv) => (WritesHold => StoredInv)'
  <2> SUFFICES ASSUME TypeOK, SessionInv, [Next]_vars, WritesHold => CleanMeansSaved,
                      WritesHold => StoredInv
               PROVE  (WritesHold => StoredInv)'
    OBVIOUS
  <2>1. CASE WritesHold
    BY <2>1, StoredStep
  <2>2. CASE ~WritesHold
    BY <2>2, MayStep
  <2> QED
    BY <2>1, <2>2
<1>2. SessionInv /\ (WritesHold => CleanMeansSaved) /\ (WritesHold => StoredInv) => StoredIsSaved
  <2> SUFFICES ASSUME SessionInv, WritesHold => CleanMeansSaved, WritesHold => StoredInv,
                      WritesHold, at = "exited", NEW s \in Scripts
               PROVE  disk[s].own = stored[s]
    BY DEF StoredIsSaved, WritesHold
  <2>1. path # None => disk[path] = data
    BY DEF SessionInv, FlushedFirst, CleanMeansSaved
  <2> QED
    BY <2>1, SessionAssumption DEF StoredInv
<1> QED
  BY <1>1, <1>2, InitInvs, SessionInvariant, CleanDocumentsSaved, PTL DEF Spec

\* A control shows what it showed last, through reloads, failed loads,
\* restarts and crashes, whenever the script declares it, unless the panel was
\* persisted without it in between; as long as scripts leave values to the
\* panel, ids differ and writes do not fail.
THEOREM RestoresSettings == Spec => []SettingsRestored
<1> DEFINE Settled == may \cap Unsettling = {}
<1>1. Settled => WritesHold
  BY DEF Unsettling, WritesHold
<1>2. TypeOK /\ SessionInv /\ [Next]_vars /\ (WritesHold => CleanMeansSaved)
      /\ (Settled => ShownInv) => (Settled => ShownInv)'
  <2> SUFFICES ASSUME TypeOK, SessionInv, [Next]_vars, WritesHold => CleanMeansSaved,
                      Settled => ShownInv
               PROVE  (Settled => ShownInv)'
    OBVIOUS
  <2>1. CASE Settled
    BY <1>1, <2>1, ShownStep
  <2>2. CASE ~Settled
    BY <2>2, MayStep DEF Unsettling
  <2> QED
    BY <2>1, <2>2
<1>3. TypeOK /\ (Settled => ShownInv) => SettingsRestored
  <2> SUFFICES ASSUME TypeOK, Settled, ShownInv, NEW i \in DOMAIN items,
                      items[i].id \notin dropped[script]
               PROVE  items[i].value = OrDefault(shown[script][items[i].id])
    BY DEF SettingsRestored
  <2>1. items \in Seq(Control) /\ items # << >> /\ script \in Scripts /\ items[i].id \in Controls
    BY ControlTyped DEF TypeOK
  <2> QED
    BY <2>1 DEF ShownInv
<1>4. Init => ShownInv
  BY InitInvs
<1> QED
  BY <1>2, <1>3, <1>4, SessionInvariant, CleanDocumentsSaved, PTL DEF Spec

\* A script that was initialised is not replaced, nor left behind at exit,
\* without its on_unload, through reloads, failed loads, crashes and restarts,
\* as long as its on_frame does not fail.
THEOREM UnloadsWhatItOpened == Spec => []UnloadRuns
<1>1. Init => OpenedIsLoaded
  BY DEF Init, OpenedIsLoaded
<1>2. TypeOK /\ SessionInv /\ ("frame_error" \notin may => OpenedIsLoaded) /\ [Next]_vars
        => ("frame_error" \notin may => OpenedIsLoaded)'
  BY OpenedStep, MayStep
<1>3. ("frame_error" \notin may => OpenedIsLoaded) => UnloadRuns
  BY DEF OpenedIsLoaded, UnloadRuns
<1> QED
  BY <1>1, <1>2, <1>3, SessionInvariant, PTL DEF Spec

-----------------------------------------------------------------------------
(* The abstract store.                                                     *)

\* A write to the bound document is a change by the script that runs.
LEMMA WriteRefines ==
  ASSUME TypeOK, script = path, script \in Scripts, data' \in Document,
         UNCHANGED <<may, script, path, disk>>
  PROVE  Store!Change
<1>1. Found' \in [Scripts -> Document]
  BY DEF Found, TypeOK
<1>2. \A s \in Scripts \ {script} : Found'[s] = Found[s]
  BY DEF Found
<1> QED
  BY <1>1, <1>2 DEF Store!Change

\* What nothing of the store changes is a stutter of it.
LEMMA StoreStutters ==
  ASSUME UNCHANGED <<may, script, path, data, disk>>
  PROVE  UNCHANGED Store!vars
  BY DEF Store!vars, Found

\* Going to another script or process drops the document in memory: every
\* script finds what is in its file, which is what it found before if the
\* document was saved, and what was saved last otherwise.
LEMMA DropRefines ==
  ASSUME TypeOK, WritesHold => (path # None => disk[path] = data),
         script' \in Scripts \cup {None}, path' # None => data' = disk[path'],
         UNCHANGED <<may, disk>>
  PROVE  Store!Enter \/ Store!FallBack
<1>1. Found' = [s \in Scripts |-> disk[s]]
  BY SessionAssumption DEF Found
<1>2. CASE WritesHold
  <2>1. Found' = Found
    BY <1>1, <1>2, SessionAssumption DEF Found
  <2> QED
    BY <2>1 DEF Store!Enter
<1>3. CASE ~WritesHold
  <2>1. Found' \in [Scripts -> Document]
    BY <1>1 DEF TypeOK
  <2>2. \A s \in Scripts : Found'[s] \in {Found[s], disk[s]}
    BY <1>1
  <2> QED
    BY <1>3, <2>1, <2>2 DEF Store!FallBack, WritesHold
<1> QED
  BY <1>2, <1>3

\* Between updates, on the way to another script or process, a document is
\* flushed unless writes failed.
LEMMA SavedBetween ==
  ASSUME TypeOK, SessionInv, WritesHold => CleanMeansSaved, at \in {"panel", "exited", "down"}
  PROVE  WritesHold => (path # None => disk[path] = data)
  BY DEF SessionInv, FlushedFirst, CleanMeansSaved

\* Every step is a step of the store or stutters, as long as on_unload writes
\* to its own store only.
LEMMA SessionStepRefines ==
  ASSUME ~WritesElsewhere, TypeOK, SessionInv, WritesHold => CleanMeansSaved, [Next]_vars
  PROVE  [Store!Next]_(Store!vars)
<1> may' = may
  BY MayStep
<1> TypeOK'
  BY TypeStep
<1> USE SessionAssumption
<1>1. CASE StoreSet \/ StoreSave
  <2>1. script = path /\ script \in Scripts
    BY <1>1 DEF StoreSet, StoreSave, MayStore, InLua, TypeOK
  <2>2. UNCHANGED <<script, path, disk>>
    BY <1>1 DEF StoreSet, StoreSave, luaUnchanged, diskVars
  <2> QED
    BY <2>1, <2>2, WriteRefines DEF TypeOK, Store!Next
<1>2. ASSUME NEW i \in DOMAIN items, Edit(i)
      PROVE  [Store!Next]_(Store!vars)
  <2>1. script = path /\ script \in Scripts
    BY <1>2, EditTyped DEF Edit, SetInPanel, TypeOK, SessionInv, StoreOfScript
  <2>2. UNCHANGED <<script, path, disk>>
    BY <1>2 DEF Edit, SetInPanel, diskVars
  <2> QED
    BY <2>1, <2>2, WriteRefines DEF TypeOK, Store!Next
<1>3. CASE LoadSucceeds
  <2>1. script = path /\ script \in Scripts
    BY <1>3 DEF LoadSucceeds, TypeOK, SessionInv, StoreOfScript
  <2>2. UNCHANGED <<script, path, disk>>
    BY <1>3 DEF LoadSucceeds
  <2> QED
    BY <2>1, <2>2, WriteRefines DEF TypeOK, Store!Next
<1>4. CASE FlushRename
  <2>1. script = path /\ script \in Scripts /\ tmp = data
    BY <1>4 DEF FlushRename, TypeOK, SessionInv, StoreOfScript, FlushedFirst
  <2>2. UNCHANGED <<script, path, data>> /\ disk' = [disk EXCEPT ![path] = data]
    BY <1>4, <2>1 DEF FlushRename, storeVars, hostVars
  <2>3. Found' = Found /\ Found[script] = data
    BY <2>1, <2>2 DEF Found, TypeOK
  <2>4. Store!Save
    BY <2>1, <2>2, <2>3 DEF Store!Save, Found
  <2> QED
    BY <2>4 DEF Store!Next
<1>5. ASSUME NEW s \in Scripts, LoadScript(s)
      PROVE  Store!Next
  <2>1. script' \in Scripts \cup {None} /\ path' = s /\ data' = disk[s] /\ disk' = disk
    BY <1>5 DEF LoadScript, Bind, EnterVm, hostVars, diskVars, TypeOK
  <2>2. WritesHold => (path # None => disk[path] = data)
    BY <1>5, SavedBetween DEF LoadScript
  <2>3. Store!Enter \/ Store!FallBack
    BY <2>1, <2>2, DropRefines
  <2> QED
    BY <2>3 DEF Store!Next
<1>6. CASE Start
  <2>1. /\ script' \in Scripts \cup {None} /\ disk' = disk
        /\ path' # None => data' = disk[path']
    BY <1>6 DEF Start, Bind, EnterVm, NoMemory, diskVars, TypeOK
  <2>2. WritesHold => (path # None => disk[path] = data)
    BY <1>6, SavedBetween DEF Start
  <2>3. Store!Enter \/ Store!FallBack
    BY <2>1, <2>2, DropRefines
  <2> QED
    BY <2>3 DEF Store!Next
<1>7. CASE UnloadReturns
  <2>1. script' \in Scripts \cup {None} /\ UNCHANGED <<path, data, disk>>
    BY <1>7 DEF UnloadReturns, EnterVm, storeVars, diskVars, TypeOK
  <2>2. Found' = Found
    BY <2>1 DEF Found
  <2>3. Store!Enter
    BY <2>1, <2>2 DEF Store!Enter, Found
  <2> QED
    BY <2>3 DEF Store!Next
<1>8. CASE Crash
  <2>1. script' = None /\ path' = None /\ disk' = disk
    BY <1>8 DEF Crash, NoMemory, diskVars
  <2>2. Found' = disk
    BY <2>1 DEF Found, TypeOK
  <2>3. Store!Crash
    BY <2>1, <2>2 DEF Store!Crash, Found
  <2> QED
    BY <2>3 DEF Store!Next
<1>9. CASE \/ UNCHANGED vars
           \/ (\E c \in Controls : Declare(c)) \/ (\E i \in DOMAIN items : UiSet(i))
           \/ BeginFrame \/ FrameReturns
           \/ FlushClean \/ FlushWrite \/ FlushFails
           \/ EndUpdate \/ LoadFails \/ Exit
  <2>1. UNCHANGED <<script, path, data, disk>>
    BY <1>9
    DEF vars, storeVars, hostVars, diskVars, luaUnchanged, Declare, UiSet, BeginFrame,
        FrameReturns, FlushClean, FlushWrite, FlushFails, EndUpdate, LoadFails, Exit
  <2> QED
    BY <2>1, StoreStutters
<1> QED
  BY <1>1, <1>2, <1>3, <1>4, <1>5, <1>6, <1>7, <1>8, <1>9 DEF Next, Lua, App, Flush

\* The store, with its binding, its dirty flag, its two-step flush and the
\* process that may die in between, is the durable store of DurableStore:
\* only the running script changes its document, which is saved whole, is
\* what the next process finds after an exit, and falls back to what was
\* saved last only if the process is killed or writes fail.
THEOREM StoreIsDurable ==
  ASSUME ~WritesElsewhere
  PROVE  Spec => ImplementsStore
<1>1. Init => Store!Init
  <2> SUFFICES ASSUME Init PROVE Store!Init
    OBVIOUS
  <2>1. Found = [s \in Scripts |-> Empty] /\ disk = Found
    BY SessionAssumption DEF Init, Found
  <2> QED
    BY <2>1, EmptyTyped DEF Init, Store!Init
<1>2. TypeOK /\ SessionInv /\ (WritesHold => CleanMeansSaved) /\ [Next]_vars
        => [Store!Next]_(Store!vars)
  BY SessionStepRefines
<1> QED
  BY <1>1, <1>2, SessionInvariant, CleanDocumentsSaved, PTL
  DEF Spec, ImplementsStore, Store!Spec
=============================================================================
