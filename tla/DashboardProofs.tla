---------------------------- MODULE DashboardProofs ---------------------------
(***************************************************************************)
(* Proofs about the custom dashboard.                                      *)
(*                                                                         *)
(* LayoutSync: what the save chain promises, for any edits, resets and     *)
(* failures.                                                               *)
(*                                                                         *)
(* DashboardLayout: of all the edits only an add can be refused, and only  *)
(* for its depth, for any grid and any starting layout: removing, moving   *)
(* and resizing the widgets of a layout the BFF accepts gives one it       *)
(* accepts.                                                                *)
(***************************************************************************)
EXTENDS LayoutSync, DashboardLayout, WellFoundedInduction, TLAPS

(* The save chain                                                          *)

Phases == {"sent", "applied", "failed"}

LEMMA HeadIsSave == ChainInv /\ chain # <<>> => Head(chain) \in Save
BY DEF ChainInv, TypeOK

LEMMA EnqueueKeeps ==
    ASSUME ChainInv, NEW kind \in {"put", "delete"}, NEW next \in Layout,
           NEW previous \in Layout, Enqueue(kind, next, previous),
           UNCHANGED <<stored, lost>>
    PROVE  /\ chain' \in Seq(Save) /\ saving' \in BOOLEAN /\ saveError' \in BOOLEAN
           /\ chain' # <<>>
           /\ OneInFlight' /\ AppliedIsStored'
<1> DEFINE save == [kind |-> kind, next |-> next, previous |-> previous,
                    phase |-> "sent"]
<1>1. chain \in Seq(Save) /\ save \in Save
  BY DEF ChainInv, TypeOK, Save
<1>2. chain' = Append(chain, save)
  BY DEF Enqueue
<1> HIDE DEF save
<1>3. /\ chain' \in Seq(Save) /\ Len(chain') = Len(chain) + 1 /\ chain' # <<>>
      /\ \A i \in 1..Len(chain) : chain'[i] = chain[i]
      /\ chain'[Len(chain) + 1] = save
  BY <1>1, <1>2
<1>4. save.phase = "sent"
  BY DEF save
<1>5. OneInFlight'
  BY <1>1, <1>3, <1>4 DEF ChainInv, OneInFlight
<1>6. AppliedIsStored'
  <2>1. CASE chain = <<>>
    <3>1. Head(chain') = save
      BY <2>1, <1>1, <1>3
    <3> QED
      BY <3>1, <1>4 DEF AppliedIsStored, HeadIs
  <2>2. CASE chain # <<>>
    <3>1. Head(chain') = Head(chain)
      BY <2>2, <1>1, <1>3
    <3> QED
      BY <2>2, <3>1 DEF ChainInv, AppliedIsStored, HeadIs
  <2> QED
    BY <2>1, <2>2
<1> QED
  BY <1>3, <1>5, <1>6 DEF Enqueue

LEMMA HeadBecomesKeeps ==
    ASSUME ChainInv, chain # <<>>, NEW phase \in Phases, HeadBecomes(phase)
    PROVE  /\ chain' \in Seq(Save) /\ chain' # <<>>
           /\ OneInFlight'
           /\ Head(chain').phase = phase /\ Head(chain').next = Head(chain).next
           /\ Head(chain').kind = Head(chain).kind
           /\ Head(chain').previous = Head(chain).previous
           /\ Len(chain') = Len(chain)
<1>1. chain \in Seq(Save) /\ chain[1] \in Save /\ Len(chain) >= 1
  BY DEF ChainInv, TypeOK
<1> DEFINE save == [chain[1] EXCEPT !.phase = phase]
<1>2. /\ save \in Save /\ save.phase = phase /\ save.next = chain[1].next
      /\ save.kind = chain[1].kind /\ save.previous = chain[1].previous
  BY <1>1 DEF Save, Phases
<1>3. chain' = [chain EXCEPT ![1] = save]
  BY DEF HeadBecomes
<1> HIDE DEF save
<1>4. /\ chain' \in Seq(Save) /\ Len(chain') = Len(chain) /\ chain' # <<>>
      /\ chain'[1] = save
      /\ \A i \in 2..Len(chain) : chain'[i] = chain[i]
  BY <1>1, <1>2, <1>3
<1>5. OneInFlight'
  BY <1>1, <1>4 DEF ChainInv, OneInFlight
<1>6. Head(chain') = save /\ Head(chain) = chain[1]
  BY <1>1, <1>4
<1> QED
  BY <1>2, <1>4, <1>5, <1>6

LEMMA SettleKeeps ==
    ASSUME ChainInv, chain # <<>>, Settle
    PROVE  /\ chain' \in Seq(Save) /\ saving' \in BOOLEAN
           /\ OneInFlight' /\ AppliedIsStored'
           /\ Head(chain) \in Save
<1>1. chain \in Seq(Save) /\ Head(chain) \in Save
  BY DEF ChainInv, TypeOK
<1>2. chain' = Tail(chain)
  BY DEF Settle
<1>3. /\ chain' \in Seq(Save) /\ Len(chain') = Len(chain) - 1
      /\ \A i \in 1..Len(chain') : chain'[i] = chain[i + 1]
  BY <1>1, <1>2
<1>4. OneInFlight'
  BY <1>1, <1>3 DEF ChainInv, OneInFlight
<1>5. AppliedIsStored'
  <2> SUFFICES ASSUME chain' # <<>> PROVE Head(chain').phase = "sent"
    BY DEF AppliedIsStored, HeadIs
  <2>1. Len(chain') >= 1 /\ Head(chain') = chain'[1]
    BY <1>3
  <2> QED
    BY <1>1, <1>3, <2>1 DEF ChainInv, OneInFlight
<1> QED
  BY <1>1, <1>3, <1>4, <1>5 DEF Settle

LEMMA InitChainInv == Init => ChainInv
<1> SUFFICES ASSUME Init PROVE ChainInv
  OBVIOUS
<1>1. chain \in Seq(Save) /\ Len(chain) = 0
  BY DEF Init
<1>2. TypeOK
  BY <1>1 DEF Init, TypeOK, Layout, Default
<1>3. OneInFlight /\ AppliedIsStored
  BY <1>1 DEF Init, OneInFlight, AppliedIsStored, HeadIs
<1>4. SettledAgrees
  BY DEF Init, SettledAgrees
<1> QED
  BY <1>2, <1>3, <1>4 DEF ChainInv

LEMMA StepChainInv == ChainInv /\ [Next]_vars => ChainInv'
<1> SUFFICES ASSUME ChainInv, [Next]_vars PROVE ChainInv'
  OBVIOUS
<1> USE DEF loadVars, saveVars, boundVars, historyVars
<1>0. TypeOK /\ OneInFlight /\ AppliedIsStored /\ SettledAgrees
  BY DEF ChainInv
<1>a. Default \in Layout
  BY DEF Default, Layout
<1>1. ASSUME LoadRead \/ LoadFails \/ Reload
      PROVE  ChainInv'
  <2>1. TypeOK'
    BY <1>0, <1>1 DEF TypeOK, LoadRead, LoadFails, Reload
  <2>2. UNCHANGED <<stored, ui, saveVars, historyVars>>
    BY <1>1 DEF LoadRead, LoadFails, Reload
  <2> QED
    BY <1>0, <2>1, <2>2 DEF ChainInv, OneInFlight, AppliedIsStored, SettledAgrees, HeadIs
<1>2. ASSUME LoadArrives
      PROVE  ChainInv'
  <2>1. TypeOK'
    BY <1>0, <1>2 DEF TypeOK, LoadArrives
  <2>2. SettledAgrees'
    BY <1>2 DEF SettledAgrees, LoadArrives
  <2> QED
    BY <1>0, <1>2, <2>1, <2>2 DEF ChainInv, OneInFlight, AppliedIsStored, HeadIs, LoadArrives
<1>3. ASSUME NEW e \in Edits, Edit(e)
      PROVE  ChainInv'
  <2>1. ui \in Layout /\ ui \cup {e} \in Layout
    BY <1>0, <1>3 DEF TypeOK, Edit, Layout
  <2>2. Enqueue("put", ui \cup {e}, ui) /\ UNCHANGED <<stored, lost>>
    BY <1>3 DEF Edit
  <2>3. /\ chain' \in Seq(Save) /\ saving' \in BOOLEAN /\ saveError' \in BOOLEAN
        /\ chain' # <<>> /\ OneInFlight' /\ AppliedIsStored'
    BY <2>1, <2>2, EnqueueKeeps
  <2>4. TypeOK'
    BY <1>0, <1>3, <2>1, <2>3 DEF TypeOK, Edit, Click
  <2> QED
    BY <2>3, <2>4 DEF ChainInv, SettledAgrees
<1>4. ASSUME Reset
      PROVE  ChainInv'
  <2>2. Enqueue("delete", Default, Default) /\ UNCHANGED <<stored, lost>>
    BY <1>4 DEF Reset
  <2>3. /\ chain' \in Seq(Save) /\ saving' \in BOOLEAN /\ saveError' \in BOOLEAN
        /\ chain' # <<>> /\ OneInFlight' /\ AppliedIsStored'
    BY <1>a, <2>2, EnqueueKeeps
  <2>4. TypeOK'
    BY <1>0, <1>4, <2>3 DEF TypeOK, Reset, Click
  <2> QED
    BY <2>3, <2>4 DEF ChainInv, SettledAgrees
<1>5. ASSUME Apply
      PROVE  ChainInv'
  <2>1. chain # <<>> /\ HeadBecomes("applied")
    BY <1>5 DEF Apply, HeadIs
  <2>2. /\ chain' \in Seq(Save) /\ chain' # <<>> /\ OneInFlight'
        /\ Head(chain').phase = "applied" /\ Head(chain').next = Head(chain).next
    BY <2>1, HeadBecomesKeeps DEF Phases
  <2>3. Head(chain).next \in Layout
    BY <2>1, HeadIsSave DEF Save
  <2>4. TypeOK'
    BY <1>0, <1>5, <2>2, <2>3 DEF TypeOK, Apply
  <2>5. AppliedIsStored'
    BY <1>5, <2>2 DEF AppliedIsStored, Apply
  <2> QED
    BY <2>2, <2>4, <2>5 DEF ChainInv, SettledAgrees
<1>6. ASSUME Refuse \/ Disconnect
      PROVE  ChainInv'
  <2>1. chain # <<>> /\ HeadBecomes("failed")
    BY <1>6 DEF Refuse, Disconnect, HeadIs
  <2>2. /\ chain' \in Seq(Save) /\ chain' # <<>> /\ OneInFlight'
        /\ Head(chain').phase = "failed"
    BY <2>1, HeadBecomesKeeps DEF Phases
  <2>3. Head(chain).next \in Layout
    BY <2>1, HeadIsSave DEF Save
  <2>4. TypeOK'
    <3>1. CASE Refuse
      BY <1>0, <3>1, <2>2 DEF TypeOK, Refuse
    <3>2. CASE Disconnect
      <4>1. strays' \subseteq Layout
        BY <1>0, <3>2, <2>3 DEF TypeOK, Disconnect
      <4> QED
        BY <1>0, <3>2, <2>2, <4>1 DEF TypeOK, Disconnect
    <3> QED
      BY <1>6, <3>1, <3>2
  <2> QED
    BY <2>2, <2>4 DEF ChainInv, SettledAgrees, AppliedIsStored, HeadIs
<1>7. ASSUME ApplyStray
      PROVE  ChainInv'
  <2>1. TypeOK'
    BY <1>0, <1>7 DEF TypeOK, ApplyStray
  <2>2. lost' = TRUE /\ chain' = chain
    BY <1>7 DEF ApplyStray
  <2> QED
    BY <1>0, <2>1, <2>2 DEF ChainInv, OneInFlight, AppliedIsStored, SettledAgrees
<1>8. ASSUME SaveSucceeds
      PROVE  ChainInv'
  <2>1. chain # <<>> /\ Settle
    BY <1>8 DEF SaveSucceeds, HeadIs
  <2>2. /\ chain' \in Seq(Save) /\ saving' \in BOOLEAN
        /\ OneInFlight' /\ AppliedIsStored' /\ Head(chain) \in Save
    BY <2>1, SettleKeeps
  <2>3. TypeOK'
    BY <1>0, <1>8, <2>2 DEF TypeOK, SaveSucceeds, Save
  <2>4. SettledAgrees'
    BY <1>0, <1>8 DEF SettledAgrees, SaveSucceeds, AppliedIsStored
  <2> QED
    BY <2>2, <2>3, <2>4 DEF ChainInv
<1>9. ASSUME PutFails \/ ResetFails
      PROVE  ChainInv'
  <2>1. chain # <<>> /\ Settle
    BY <1>9 DEF PutFails, ResetFails, HeadIs
  <2>2. /\ chain' \in Seq(Save) /\ saving' \in BOOLEAN
        /\ OneInFlight' /\ AppliedIsStored' /\ Head(chain) \in Save
    BY <2>1, SettleKeeps
  <2>3. TypeOK'
    <3>1. CASE PutFails
      BY <1>0, <3>1, <2>2 DEF TypeOK, PutFails, Save
    <3>2. CASE ResetFails
      BY <1>0, <3>2, <2>2 DEF TypeOK, ResetFails
    <3> QED
      BY <1>9, <3>1, <3>2
  <2>4. lastOk' = FALSE
    BY <1>9 DEF PutFails, ResetFails
  <2> QED
    BY <2>2, <2>3, <2>4 DEF ChainInv, SettledAgrees
<1>10. CASE UNCHANGED vars
  BY <1>0, <1>10 DEF vars, ChainInv, TypeOK, OneInFlight, AppliedIsStored, SettledAgrees,
     HeadIs
<1> QED
  BY <1>1, <1>2, <1>3, <1>4, <1>5, <1>6, <1>7, <1>8, <1>9, <1>10 DEF Next, Answered

-------------------------------------------------------------------------------
(* The user who waits for each answer.                                     *)

\* A patient click finds the chain empty: its save is the only one.
LEMMA PatientEnqueue ==
    ASSUME ChainInv, Patience, ~hasty', Click,
           NEW kind \in {"put", "delete"}, NEW next \in Layout,
           NEW previous \in Layout, Enqueue(kind, next, previous)
    PROVE  /\ ~hasty /\ status = "success" /\ chain = <<>> /\ AfterFirstAnswer
           /\ saving' /\ chain' # <<>> /\ Len(chain') = 1
           /\ Head(chain').kind = kind /\ Head(chain').next = next
           /\ Head(chain').previous = previous /\ Head(chain').phase = "sent"
<1> DEFINE save == [kind |-> kind, next |-> next, previous |-> previous,
                    phase |-> "sent"]
<1>1. ~hasty /\ ~saving /\ status = "success"
  BY Zenon DEF Click
<1>2. chain = <<>> /\ AfterFirstAnswer
  BY <1>1, Zenon DEF Patience
<1>3. save \in Save
  BY DEF Save
<1>4. chain' = Append(chain, save) /\ saving'
  BY DEF Enqueue
<1>5. /\ save.kind = kind /\ save.next = next /\ save.previous = previous
      /\ save.phase = "sent"
  OBVIOUS
<1> HIDE DEF save
<1>6. chain' # <<>> /\ Len(chain') = 1 /\ Head(chain') = save
  BY <1>2, <1>3, <1>4
<1> QED
  BY <1>1, <1>2, <1>4, <1>5, <1>6

\* The patient chain has one entry at most, and settling it leaves none.
LEMMA PatientSettle ==
    ASSUME ChainInv, Patience, ~hasty, chain # <<>>, Settle
    PROVE  chain' = <<>> /\ ~saving' /\ status = "success" /\ AfterFirstAnswer
<1>1. chain \in Seq(Save) /\ Len(chain) = 1
  <2>1. chain \in Seq(Save)
    BY DEF ChainInv, TypeOK
  <2>2. Len(chain) <= 1
    BY Zenon DEF Patience
  <2>3. Len(chain) \in Nat /\ Len(chain) >= 1
    BY <2>1
  <2>4. \A n \in Nat : n <= 1 /\ n >= 1 => n = 1
    OBVIOUS
  <2> QED
    BY <2>1, <2>2, <2>3, <2>4, Zenon
<1>2. status = "success" /\ AfterFirstAnswer
  BY DEF Patience, BeforeFirstAnswer
<1>3. chain' = <<>>
  BY <1>1 DEF Settle
<1> QED
  BY <1>2, <1>3 DEF Settle

LEMMA StepPatience == ChainInv /\ Patience /\ [Next]_vars => Patience'
<1> SUFFICES ASSUME ChainInv, Patience, [Next]_vars, ~hasty'
             PROVE  Patience'
  BY DEF Patience
<1> USE DEF loadVars, saveVars, boundVars, historyVars
<1>0. TypeOK /\ AppliedIsStored
  BY DEF ChainInv
<1>a. Default \in Layout
  BY DEF Default, Layout
<1>1. CASE LoadRead \/ LoadArrives \/ LoadFails \/ Reload
  <2>1. /\ ~hasty /\ UNCHANGED <<stored, saveVars, strays, due, hasty, lost>>
        /\ status # "success" \/ load # "none"
    BY <1>1 DEF LoadRead, LoadArrives, LoadFails, Reload
  <2>2. status # "success" /\ BeforeFirstAnswer
    BY <2>1 DEF Patience, AfterFirstAnswer
  <2>3. (saving <=> chain # <<>>) /\ Len(chain) <= 1
    BY <2>1 DEF Patience
  <2>4. CASE LoadArrives
    <3>1. ui' = stored /\ load' = "none" /\ status' = "success" /\ due = stored
      BY <2>2, <2>4 DEF LoadArrives, BeforeFirstAnswer
    <3>2. stored # Unloaded
      BY <1>0, LayoutAssumption DEF TypeOK, Layout
    <3> QED
      BY <2>1, <2>2, <2>3, <3>1, <3>2 DEF Patience, AfterFirstAnswer, BeforeFirstAnswer
  <2>5. CASE LoadRead \/ LoadFails \/ Reload
    <3>1. BeforeFirstAnswer' /\ status' # "success"
      BY <2>2, <2>5 DEF BeforeFirstAnswer, LoadRead, LoadFails, Reload
    <3> QED
      BY <2>1, <2>3, <3>1 DEF Patience
  <2> QED
    BY <1>1, <2>4, <2>5
<1>2. ASSUME NEW e \in Edits, Edit(e) PROVE Patience'
  <2>1. ui \in Layout /\ ui \cup {e} \in Layout
    BY <1>0, <1>2 DEF TypeOK, Edit, Layout
  <2>2. /\ ~hasty /\ status = "success" /\ chain = <<>> /\ AfterFirstAnswer
        /\ saving' /\ chain' # <<>> /\ Len(chain') = 1
        /\ Head(chain').kind = "put" /\ Head(chain').next = ui \cup {e}
        /\ Head(chain').previous = ui
    BY <1>2, <2>1, PatientEnqueue DEF Edit
  <2>3. /\ UNCHANGED <<stored, load, status, lost>>
        /\ ui' = ui \cup {e} /\ due' = due \cup {e}
    BY <1>2 DEF Edit
  <2>4. ui' # Unloaded
    BY <2>1, <2>3, LayoutAssumption DEF Layout
  <2> QED
    BY <2>2, <2>3, <2>4 DEF Patience, AfterFirstAnswer
<1>3. CASE Reset
  <2>1. /\ ~hasty /\ status = "success" /\ chain = <<>> /\ AfterFirstAnswer
        /\ saving' /\ chain' # <<>> /\ Len(chain') = 1
        /\ Head(chain').kind = "delete"
    BY <1>3, <1>a, PatientEnqueue DEF Reset
  <2>2. UNCHANGED <<stored, ui, load, status, lost>> /\ due' = {}
    BY <1>3 DEF Reset
  <2> QED
    BY <2>1, <2>2 DEF Patience, AfterFirstAnswer
<1>4. CASE Apply \/ Refuse \/ Disconnect
  <2>1. PICK phase \in {"applied", "failed"} : HeadBecomes(phase)
    BY <1>4 DEF Apply, Refuse, Disconnect
  <2>2. /\ chain # <<>> /\ ~hasty
        /\ UNCHANGED <<ui, load, status, saving, due, hasty>>
    BY <1>4 DEF Apply, Refuse, Disconnect, HeadIs
  <2>3. status = "success" /\ AfterFirstAnswer
    BY <2>2 DEF Patience, BeforeFirstAnswer
  <2>4. /\ chain' # <<>> /\ Len(chain') = Len(chain)
        /\ Head(chain').kind = Head(chain).kind
        /\ Head(chain').next = Head(chain).next
        /\ Head(chain').previous = Head(chain).previous
        /\ Head(chain').phase = phase
    BY <2>1, <2>2, HeadBecomesKeeps DEF Phases
  <2>5. \/ phase = "applied"
        \/ lost'
        \/ Head(chain).phase = "sent" /\ stored' = stored /\ lost' = lost
    <3>1. CASE Apply
      BY <2>1, <2>4, <3>1, HeadBecomesKeeps DEF Apply, Phases
    <3>2. CASE Refuse
      BY <3>2 DEF Refuse, HeadIs
    <3>3. CASE Disconnect
      BY <3>3 DEF Disconnect
    <3> QED
      BY <1>4, <3>1, <3>2, <3>3
  <2>6. AfterFirstAnswer'
    BY <2>2, <2>3, <2>4, <2>5 DEF AfterFirstAnswer
  <2> QED
    BY <2>2, <2>3, <2>4, <2>6 DEF Patience
<1>5. CASE ApplyStray
  <2>1. lost' /\ strays # {} /\ UNCHANGED <<ui, load, status, saving, chain, due, hasty>>
    BY <1>5 DEF ApplyStray
  <2>2. status = "success" /\ AfterFirstAnswer
    BY <2>1 DEF Patience, BeforeFirstAnswer
  <2> QED
    BY <2>1, <2>2 DEF Patience, AfterFirstAnswer
<1>6. CASE Answered
  <2>1. chain # <<>> /\ Settle /\ ~hasty /\ UNCHANGED <<stored, load, status, lost>>
    BY <1>6 DEF Answered, SaveSucceeds, PutFails, ResetFails, HeadIs
  <2>2. chain' = <<>> /\ ~saving' /\ status = "success" /\ AfterFirstAnswer
    BY <2>1, PatientSettle
  <2>3. Head(chain) \in Save
    BY <2>1, HeadIsSave
  <2>4. AfterFirstAnswer'
    <3>1. CASE SaveSucceeds
      <4>1. ui' = Head(chain).next /\ due' = due
        BY <3>1 DEF SaveSucceeds
      <4>2. ~lost => stored = Head(chain).next
        BY <1>0, <3>1 DEF SaveSucceeds, AppliedIsStored
      <4>3. Head(chain).next # Unloaded
        BY <2>3, LayoutAssumption DEF Save, Layout
      <4> QED
        BY <2>1, <2>2, <4>1, <4>2, <4>3 DEF AfterFirstAnswer
    <3>2. CASE PutFails
      <4>1. /\ Head(chain).kind = "put" /\ Head(chain).phase = "failed"
            /\ ui' = Head(chain).previous
            /\ due' = due \ (Head(chain).next \ Head(chain).previous)
        BY <3>2 DEF PutFails, HeadIs
      <4>2. due' \subseteq ui'
        BY <2>1, <2>2, <4>1 DEF AfterFirstAnswer
      <4>3. Head(chain).previous # Unloaded
        BY <2>3, LayoutAssumption DEF Save, Layout
      <4> QED
        BY <2>1, <2>2, <4>1, <4>2, <4>3 DEF AfterFirstAnswer
    <3>3. CASE ResetFails
      <4>1. /\ Head(chain).kind = "delete" /\ Head(chain).phase = "failed"
            /\ ui' = ui /\ due' = due
        BY <3>3 DEF ResetFails, HeadIs
      <4> QED
        BY <2>1, <2>2, <4>1 DEF AfterFirstAnswer
    <3> QED
      BY <1>6, <3>1, <3>2, <3>3 DEF Answered
  <2> QED
    BY <2>1, <2>2, <2>4 DEF Patience
<1>7. CASE UNCHANGED vars
  BY <1>7 DEF vars, Patience, AfterFirstAnswer, BeforeFirstAnswer
<1> QED
  BY <1>1, <1>2, <1>3, <1>4, <1>5, <1>6, <1>7 DEF Next

-------------------------------------------------------------------------------

\* The save chain runs one request at a time, in order, and what it applied is
\* what the server holds.
THEOREM Invariance == Spec => []IInv
<1>1. Init => Patience
  BY DEF Init, Patience, BeforeFirstAnswer, Default
<1> QED
  BY <1>1, InitChainInv, StepChainInv, StepPatience, PTL DEF Spec, IInv

\* useDashboardLayout.ts:44: for any number of edits, resets, refusals and
\* lost replies, a save that settles last and succeeds leaves the user and the
\* server with one layout.
THEOREM LastSaveAgrees == Spec => []LastSaveWins
<1>1. IInv => LastSaveWins
  BY DEF IInv, ChainInv, SettledAgrees, LastSaveWins, Quiet
<1> QED
  BY <1>1, Invariance, PTL

\* useDashboardLayout.ts:8-9, :70 and :82: for a user who waits for each
\* answer, whatever was refused and reverted, no edit whose save did not fail
\* is missing on the server, and the screen shows what the server holds.
THEOREM PatientEditsKept == Spec => []PatientEditsPersist
<1>1. IInv => PatientEditsPersist
  BY DEF IInv, Patience, BeforeFirstAnswer, AfterFirstAnswer,
         PatientEditsPersist, Quiet
<1> QED
  BY <1>1, Invariance, PTL

-------------------------------------------------------------------------------
(* What the saving chip waits for                                          *)

\* While the chip is on there is a save whose request the BFF can still serve or
\* whose answer the hook can take.
SavingIsOwed ==
    saving => HeadIs("sent") \/ HeadIs("applied")
              \/ (HeadIs("failed") /\ Head(chain).kind \in {"put", "delete"})

LEMMA HeadSettles ==
    ASSUME ChainInv, saving => chain # <<>>
    PROVE  SavingIsOwed
<1>1. chain # <<>> => Head(chain) \in Save
  BY HeadIsSave
<1> QED
  BY <1>1 DEF SavingIsOwed, HeadIs, Save

LEMMA StepSaving == ChainInv /\ (saving => chain # <<>>) /\ [Next]_vars
                        => (saving => chain # <<>>)'
<1> SUFFICES ASSUME ChainInv, saving => chain # <<>>, [Next]_vars, saving'
             PROVE  chain' # <<>>
  OBVIOUS
<1>1. CASE \/ LoadRead \/ LoadArrives \/ LoadFails \/ Reload \/ ApplyStray
           \/ UNCHANGED vars
  BY <1>1 DEF LoadRead, LoadArrives, LoadFails, Reload, ApplyStray, saveVars, vars
<1>2. CASE Apply \/ Refuse \/ Disconnect
  <2>1. PICK phase \in Phases : HeadBecomes(phase) /\ chain # <<>>
    BY <1>2 DEF Apply, Refuse, Disconnect, HeadIs, Phases
  <2> QED
    BY <2>1, HeadBecomesKeeps
<1>3. CASE Reset \/ \E e \in Edits : Edit(e)
  <2>1. PICK kind, next, previous : Enqueue(kind, next, previous)
    BY <1>3 DEF Reset, Edit
  <2>2. chain \in Seq(Save)
    BY DEF ChainInv, TypeOK
  <2> DEFINE save == [kind |-> kind, next |-> next, previous |-> previous, phase |-> "sent"]
  <2>3. chain' = Append(chain, save)
    BY <2>1 DEF Enqueue
  <2> HIDE DEF save
  <2>4. Len(chain') = Len(chain) + 1 /\ Len(chain) \in Nat
    BY <2>2, <2>3
  <2> QED
    BY <2>4
\* A save that settles turns the chip off, also if others wait behind it.
<1>4. CASE Answered
  BY <1>4 DEF Answered, SaveSucceeds, PutFails, ResetFails, Settle
<1> QED
  BY <1>1, <1>2, <1>3, <1>4 DEF Next

\* useDashboardLayout.ts:75-87 and :152-161: the chip is never on without a save
\* that will turn it off, however clicks, refusals and lost connections fall:
\* what SavingEnds needs besides fairness.
THEOREM ChipIsOwed == Spec => []SavingIsOwed
<1>1. Init => (saving => chain # <<>>)
  BY DEF Init
<1> QED
  BY <1>1, InitChainInv, StepChainInv, StepSaving, HeadSettles, PTL DEF Spec

-------------------------------------------------------------------------------
(* The geometry of the grid                                                *)

\* Less-than on the natural numbers, as a set of pairs.
Below == {p \in Nat \X Nat : p[1] < p[2]}

\* Every nonempty set of natural numbers has a least element: what an induction
\* over the rows of the grid would give.
LEMMA LeastNatural ==
    ASSUME NEW S \in SUBSET Nat, S # {}
    PROVE  \E n \in S : \A m \in S : n <= m
<1>1. IsWellFoundedOn(Below, Nat)
    BY NatLessThanWellFounded DEF OpToRel, Below
<1>2. PICK n \in S : \A m \in S : <<m, n>> \notin Below
    BY <1>1, WFMin
<1>3. ASSUME NEW m \in S PROVE n <= m
    <2>1. ~(m < n)
        BY <1>2 DEF Below
    <2> QED
        BY <2>1
<1> QED
    BY <1>3

\* A bounded set of natural numbers that holds 0 has a greatest element.
LEMMA GreatestNatural ==
    ASSUME NEW S \in SUBSET Nat, 0 \in S, NEW b \in Nat, \A c \in S : c <= b
    PROVE  \E n \in S : \A c \in S : c <= n
<1> DEFINE T == {n \in Nat : \A c \in S : c <= n}
<1>1. b \in T
    OBVIOUS
<1>2. PICK n \in T : \A m \in T : n <= m
    <2>1. T \in SUBSET Nat /\ T # {}
        BY <1>1
    <2> HIDE DEF T
    <2> QED
        BY <2>1, LeastNatural
<1>3. n \in Nat /\ \A c \in S : c <= n
    OBVIOUS
<1>4. n \in S
    <2> SUFFICES ASSUME n \notin S PROVE FALSE
        OBVIOUS
    <2>1. n # 0 /\ n - 1 \in Nat
        BY <1>3
    <2>2. \A c \in S : c <= n - 1
        BY <1>3
    <2>3. n - 1 \in T
        BY <2>1, <2>2
    <2>4. n <= n - 1
        BY <1>2, <2>3
    <2> QED
        BY <1>3, <2>4
<1> QED
    BY <1>3, <1>4

\* A widget added to a layout that nowhere reaches below the last row starts
\* at one of its rows: the lowest bottom there is, or the first row.
LEMMA BottomInGrid ==
    ASSUME GridAssumption, GridInv,
           \A i \in DOMAIN widgets : widgets[i].y + widgets[i].h <= MaxY
    PROVE  Bottom \in 0..MaxY
<1> DEFINE bottoms == {0} \cup {widgets[i].y + widgets[i].h : i \in 1..Len(widgets)}
<1>1. \A i \in 1..Len(widgets) : widgets[i].y + widgets[i].h \in 0..MaxY
    <2> SUFFICES ASSUME NEW i \in 1..Len(widgets)
                 PROVE  widgets[i].y + widgets[i].h \in 0..MaxY
        OBVIOUS
    <2>1. WidgetOk(widgets[i]) /\ i \in DOMAIN widgets
        BY DEF GridInv, GridTypeOK, Accepts
    <2>2. widgets[i].y \in Nat /\ widgets[i].h \in Nat
        BY <2>1 DEF WidgetOk, GridAssumption
    <2>3. widgets[i].y + widgets[i].h <= MaxY
        BY <2>1
    <2> QED
        BY <2>2, <2>3 DEF GridAssumption
<1>2. bottoms \in SUBSET (0..MaxY) /\ 0 \in bottoms /\ MaxY \in Nat
    BY <1>1 DEF GridAssumption
<1>3. Bottom = CHOOSE b \in bottoms : \A c \in bottoms : c <= b
    BY DEF Bottom
<1> HIDE DEF bottoms
<1>4. \E b \in bottoms : \A c \in bottoms : c <= b
    <2>1. bottoms \in SUBSET Nat /\ \A c \in bottoms : c <= MaxY
        BY <1>2
    <2> QED
        BY <1>2, <2>1, GreatestNatural
<1>5. Bottom \in bottoms
    <2>1. \A S : (\E b \in S : \A c \in S : c <= b) =>
                  (CHOOSE b \in S : \A c \in S : c <= b) \in S
        OBVIOUS
    <2> QED
        BY <1>3, <1>4, <2>1
<1> QED
    BY <1>2, <1>5

\* An edit whose result the BFF would accept is never refused.
LEMMA PersistAccepted ==
    ASSUME GridInv, NEW next \in Seq(Widget), Accepts(next),
           NEW edit \in {"add", "remove", "move", "resize"}, Persist(edit, next)
    PROVE  GridInv'
<1>1. widgets' = next /\ refused' = "none"
    BY DEF Persist
<1>2. Accepts(widgets)'
    BY <1>1 DEF Accepts
<1> QED
    BY <1>1, <1>2 DEF GridInv, GridTypeOK, OnlyAddsRefused

\* Removing a widget shifts the ones after it down.
LEMMA WithoutAccepted ==
    ASSUME GridAssumption, GridInv, NEW i \in DOMAIN widgets
    PROVE  Without(i) \in Seq(Widget) /\ Accepts(Without(i))
<1>1. /\ widgets \in Seq(Widget)
      /\ Len(widgets) \in Nat
      /\ DOMAIN widgets = 1..Len(widgets)
      /\ i \in 1..Len(widgets)
    BY DEF GridInv, GridTypeOK
<1>2. Len(widgets) - 1 \in Nat
    BY <1>1
<1>3. ASSUME NEW j \in 1..(Len(widgets) - 1)
      PROVE  /\ (IF j < i THEN j ELSE j + 1) \in 1..Len(widgets)
             /\ widgets[IF j < i THEN j ELSE j + 1] \in Widget
    BY <1>1
<1>4. Without(i) \in [1..(Len(widgets) - 1) -> Widget]
    BY <1>3 DEF Without
<1>5. Without(i) \in Seq(Widget) /\ Len(Without(i)) = Len(widgets) - 1
    BY <1>2, <1>4
<1>6. ASSUME NEW j \in 1..(Len(widgets) - 1) PROVE WidgetOk(Without(i)[j])
    BY <1>3 DEF Without, GridInv, Accepts
<1>7. Len(Without(i)) <= MaxWidgets
    BY <1>1, <1>5 DEF GridAssumption, GridInv, Accepts
<1> QED
    BY <1>5, <1>6, <1>7 DEF Accepts

\* Moving a widget exchanges two.
LEMMA SwappedAccepted ==
    ASSUME GridInv, NEW i \in DOMAIN widgets, NEW j \in DOMAIN widgets
    PROVE  Swapped(i, j) \in Seq(Widget) /\ Accepts(Swapped(i, j))
<1>1. /\ widgets \in Seq(Widget)
      /\ \A k \in 1..Len(widgets) : WidgetOk(widgets[k])
      /\ Len(widgets) <= MaxWidgets
    BY DEF GridInv, GridTypeOK, Accepts
<1>2. /\ Swapped(i, j) \in Seq(Widget)
      /\ Len(Swapped(i, j)) = Len(widgets)
    BY <1>1 DEF Swapped
<1>3. \A k \in 1..Len(widgets) : Swapped(i, j)[k] \in {widgets[k], widgets[i], widgets[j]}
    BY <1>1 DEF Swapped
<1>4. \A k \in 1..Len(widgets) : WidgetOk(Swapped(i, j)[k])
    BY <1>1, <1>3
<1> QED
    BY <1>1, <1>2, <1>4 DEF Accepts

\* A widget of width w that is pulled back ends inside c columns.
LEMMA PulledBack ==
    ASSUME NEW c \in Nat \ {0}, NEW x \in 0..(c - 1), NEW w \in 1..c
    PROVE  LET left == AtLeast(AtMost(x, c - w), 0)
           IN  left \in 0..(c - 1) /\ left + w <= c
BY DEF AtLeast, AtMost

\* A resized widget keeps its row and fits the grid, whatever size is asked for.
LEMMA ResizedOk ==
    ASSUME GridAssumption, NEW g \in Widget, WidgetOk(g), NEW w \in Int, NEW h \in Int
    PROVE  Resized(g, w, h) \in Widget /\ WidgetOk(Resized(g, w, h))
<1> DEFINE nextW == Clamp(MinW, Columns, w)
           nextH == Clamp(MinH, MaxH, h)
           nextX == AtLeast(AtMost(g.x, Columns - nextW), 0)
<1>1. /\ Columns \in Nat \ {0} /\ MinW \in 1..Columns
      /\ MinH \in Nat /\ MaxH \in Nat /\ MinH <= MaxH
    BY DEF GridAssumption
<1>2. g.x \in 0..(Columns - 1) /\ g.y \in 0..MaxY /\ g.y \in Int
    BY DEF WidgetOk, Widget
<1>3. nextW \in MinW..Columns /\ nextH \in MinH..MaxH
    BY <1>1 DEF Clamp
<1> HIDE DEF nextW, nextH
<1>4. nextX \in 0..(Columns - 1) /\ nextX + nextW <= Columns
    <2>1. nextW \in 1..Columns
        BY <1>1, <1>3
    <2> QED
        BY <1>1, <1>2, <2>1, PulledBack
<1> HIDE DEF nextX
<1>5. Resized(g, w, h) = [x |-> nextX, y |-> g.y, w |-> nextW, h |-> nextH]
    BY DEF Resized, nextW, nextH, nextX
<1> QED
    BY <1>1, <1>2, <1>3, <1>4, <1>5 DEF Widget, WidgetOk

\* So does the layout it is in.
LEMMA ResizeGridInv ==
    ASSUME GridAssumption, GridInv, NEW i \in DOMAIN widgets,
           NEW w \in Int, NEW h \in Int, Resize(i, w, h)
    PROVE  GridInv'
<1>1. /\ widgets \in Seq(Widget)
      /\ \A k \in 1..Len(widgets) : WidgetOk(widgets[k])
      /\ Len(widgets) <= MaxWidgets
      /\ i \in 1..Len(widgets) /\ widgets[i] \in Widget
    BY DEF GridInv, GridTypeOK, Accepts
<1>2. Resized(widgets[i], w, h) \in Widget /\ WidgetOk(Resized(widgets[i], w, h))
    BY <1>1, ResizedOk
<1> DEFINE next == [widgets EXCEPT ![i] = Resized(@, w, h)]
<1>3. /\ next \in Seq(Widget) /\ Len(next) = Len(widgets)
      /\ next[i] = Resized(widgets[i], w, h)
      /\ \A k \in 1..Len(widgets) : k # i => next[k] = widgets[k]
    BY <1>1, <1>2
<1>4. Accepts(next)
    BY <1>1, <1>2, <1>3 DEF Accepts
<1>5. Persist("resize", next)
    BY DEF Resize
<1> HIDE DEF next
<1> QED
    BY <1>3, <1>4, <1>5, PersistAccepted

\* An add is refused or leads to an accepted layout of well-formed widgets.
LEMMA AddGridInv == ASSUME GridAssumption, GridInv, Add PROVE GridInv'
<1> DEFINE added == [x |-> 0, y |-> Bottom, w |-> Columns, h |-> AddH]
           next  == IF Len(widgets) >= MaxWidgets THEN widgets
                    ELSE Append(widgets, added)
<1>1. Persist("add", next)
    BY DEF Add
<1>2. CASE Accepts(next)
    <2>1. next \in Seq(Widget)
        <3>1. CASE Len(widgets) >= MaxWidgets
            BY <3>1 DEF GridInv, GridTypeOK
        <3>2. CASE ~(Len(widgets) >= MaxWidgets)
            <4>1. widgets \in Seq(Widget) /\ next = Append(widgets, added)
                BY <3>2 DEF GridInv, GridTypeOK
            <4>2. next[Len(widgets) + 1] = added /\ Len(next) = Len(widgets) + 1
                BY <4>1
            <4>3. WidgetOk(added)
                BY <1>2, <4>1, <4>2 DEF Accepts
            <4>4. added.y \in 0..MaxY
                BY <4>3 DEF WidgetOk
            <4>5. Bottom \in Int /\ Columns \in Int /\ AddH \in Int
                BY <4>4 DEF GridAssumption
            <4>6. added \in Widget
                BY <4>5 DEF Widget
            <4> QED
                BY <4>1, <4>6
        <3> QED
            BY <3>1, <3>2
    <2> HIDE DEF next
    <2> QED
        BY <1>1, <1>2, <2>1, PersistAccepted
<1>3. CASE ~Accepts(next)
    <2> HIDE DEF next
    <2>1. widgets' = widgets /\ refused' = "add"
        BY <1>1, <1>3 DEF Persist
    <2> QED
        BY <2>1 DEF GridInv, GridTypeOK, OnlyAddsRefused, Accepts
<1> QED
    BY <1>2, <1>3

\* Every step preserves the invariant.
LEMMA StepGridInv == ASSUME GridAssumption, GridInv, [GridNext]_gridVars PROVE GridInv'
<1>1. CASE Add
    BY <1>1, AddGridInv
<1>2. ASSUME NEW i \in DOMAIN widgets, Remove(i) PROVE GridInv'
    BY <1>2, WithoutAccepted, PersistAccepted DEF Remove
<1>3. ASSUME NEW i \in DOMAIN widgets, NEW j \in DOMAIN widgets, Move(i, j) PROVE GridInv'
    BY <1>3, SwappedAccepted, PersistAccepted DEF Move
<1>4. ASSUME NEW i \in DOMAIN widgets,
             Narrow(i) \/ Widen(i) \/ Taller(i) \/ Shorter(i)
      PROVE  GridInv'
    <2>1. widgets[i].w \in Int /\ widgets[i].h \in Int
        <3>1. widgets[i] \in Widget
            BY DEF GridInv, GridTypeOK
        <3> QED
            BY <3>1 DEF Widget
    <2>2. Columns \in Int /\ MinW \in Int /\ MinH \in Int
        BY DEF GridAssumption
    <2>3. /\ AtLeast(widgets[i].w - 2, MinW) \in Int
          /\ AtMost(widgets[i].w + 2, Columns) \in Int
          /\ widgets[i].h + 1 \in Int
          /\ AtLeast(widgets[i].h - 1, MinH) \in Int
        BY <2>1, <2>2 DEF AtLeast, AtMost
    <2> QED
        BY <1>4, <2>1, <2>3, ResizeGridInv DEF Narrow, Widen, Taller, Shorter
<1>5. CASE ResetLayout
    BY <1>5 DEF ResetLayout, GridAssumption, GridInv, GridTypeOK, OnlyAddsRefused, Accepts
<1>6. CASE UNCHANGED gridVars
    BY <1>6 DEF gridVars, GridInv, GridTypeOK, OnlyAddsRefused, Accepts
<1> QED
    BY <1>1, <1>2, <1>3, <1>4, <1>5, <1>6 DEF GridNext

\* The layout on the screen is always one the BFF accepts.
THEOREM GridInvariance == GridSpec => []GridInv
<1>1. GridInit => GridInv
    BY GridAssumption DEF GridInit, GridAssumption, GridInv, GridTypeOK, OnlyAddsRefused
<1>2. GridInv /\ [GridNext]_gridVars => GridInv'
    BY GridAssumption, StepGridInv
<1> QED
    BY <1>1, <1>2, PTL DEF GridSpec

\* No sequence of clicks makes the BFF refuse a remove, a move or a resize.
THEOREM EditsAccepted == GridSpec => []OnlyAddsRefused
<1>1. GridInv => OnlyAddsRefused
    BY DEF GridInv
<1> QED
    BY <1>1, GridInvariance, PTL

\* An add to an accepted layout fails the schema by its row alone, so it is
\* refused only if some widget already reaches below the last row.
LEMMA AddRefusedDeep ==
    ASSUME GridAssumption, GridInv, RefusedOnlyWhenDeep, Add
    PROVE  RefusedOnlyWhenDeep'
<1> DEFINE added == [x |-> 0, y |-> Bottom, w |-> Columns, h |-> AddH]
           next  == IF Len(widgets) >= MaxWidgets THEN widgets
                    ELSE Append(widgets, added)
<1>1. Persist("add", next)
    BY DEF Add
<1>2. CASE Accepts(next)
    <2> HIDE DEF next
    <2> QED
        BY <1>1, <1>2 DEF Persist, RefusedOnlyWhenDeep
<1>3. CASE ~Accepts(next)
    <2>1. widgets' = widgets
        <3> HIDE DEF next
        <3> QED
            BY <1>1, <1>3 DEF Persist
    <2> SUFFICES ASSUME ~ \E i \in DOMAIN widgets : widgets[i].y + widgets[i].h > MaxY
                 PROVE  FALSE
        BY <2>1 DEF RefusedOnlyWhenDeep
    <2>2. /\ widgets \in Seq(Widget) /\ Accepts(widgets)
          /\ DOMAIN widgets = 1..Len(widgets)
        BY DEF GridInv, GridTypeOK
    <2>3. ~(Len(widgets) >= MaxWidgets)
        BY <1>3, <2>2
    <2>4. \A i \in DOMAIN widgets : widgets[i].y + widgets[i].h <= MaxY
        <3> SUFFICES ASSUME NEW i \in DOMAIN widgets
                     PROVE  widgets[i].y + widgets[i].h <= MaxY
            OBVIOUS
        <3>1. widgets[i].y \in Int /\ widgets[i].h \in Int
            <4>1. widgets[i] \in Widget
                BY <2>2
            <4> QED
                BY <4>1 DEF Widget
        <3>2. ~(widgets[i].y + widgets[i].h > MaxY)
            BY Zenon
        <3>3. MaxY \in Int
            BY DEF GridAssumption
        <3> QED
            BY <3>1, <3>2, <3>3
    <2>5. Bottom \in 0..MaxY
        BY <2>4, BottomInGrid
    <2>6. added \in Widget /\ WidgetOk(added)
        <3>1. /\ added.x = 0 /\ added.y = Bottom
              /\ added.w = Columns /\ added.h = AddH
            OBVIOUS
        <3>2. Bottom \in Int /\ Columns \in Int /\ AddH \in Int
            BY <2>5 DEF GridAssumption
        <3>3. added \in Widget
            BY <3>2 DEF Widget
        <3> HIDE DEF added
        <3> QED
            BY <2>5, <3>1, <3>3 DEF WidgetOk, GridAssumption
    <2> HIDE DEF added
    <2>7. /\ next = Append(widgets, added)
          /\ Len(next) = Len(widgets) + 1
          /\ \A i \in 1..Len(widgets) : next[i] = widgets[i]
          /\ next[Len(widgets) + 1] = added
        BY <2>2, <2>3, <2>6
    <2> HIDE DEF next
    <2>8. Accepts(next)
        <3>1. Len(next) <= MaxWidgets
            BY <2>2, <2>3, <2>7 DEF GridAssumption
        <3>2. \A i \in 1..Len(next) : WidgetOk(next[i])
            BY <2>2, <2>6, <2>7 DEF Accepts
        <3> QED
            BY <3>1, <3>2 DEF Accepts
    <2> QED
        BY <1>3, <2>8
<1> QED
    BY <1>2, <1>3

\* Only an add ever leaves "add" as the edit refused.
LEMMA StepRefusedDeep ==
    ASSUME GridAssumption, GridInv, RefusedOnlyWhenDeep, [GridNext]_gridVars
    PROVE  RefusedOnlyWhenDeep'
<1>1. CASE Add
    BY <1>1, AddRefusedDeep
<1>2. ASSUME NEW edit \in {"remove", "move", "resize"}, NEW next, Persist(edit, next)
      PROVE  RefusedOnlyWhenDeep'
    BY <1>2 DEF Persist, RefusedOnlyWhenDeep
<1>3. ASSUME NEW i \in DOMAIN widgets,
             \/ Remove(i)
             \/ \E j \in DOMAIN widgets : Move(i, j)
             \/ Narrow(i) \/ Widen(i) \/ Taller(i) \/ Shorter(i)
      PROVE  RefusedOnlyWhenDeep'
    BY <1>2, <1>3, Zenon DEF Remove, Move, Narrow, Widen, Taller, Shorter, Resize
<1>4. CASE ResetLayout
    BY <1>4 DEF ResetLayout, RefusedOnlyWhenDeep
<1>5. CASE UNCHANGED gridVars
    BY <1>5 DEF gridVars, RefusedOnlyWhenDeep
<1> QED
    BY <1>1, <1>3, <1>4, <1>5 DEF GridNext

\* Whatever was clicked before, an add is refused only when the stack already
\* reaches below the last row the schema accepts.
THEOREM RefusedOnlyDeep == GridSpec => []RefusedOnlyWhenDeep
<1>1. GridInit => RefusedOnlyWhenDeep
    BY DEF GridInit, RefusedOnlyWhenDeep
<1>2. GridInv /\ RefusedOnlyWhenDeep /\ [GridNext]_gridVars => RefusedOnlyWhenDeep'
    BY GridAssumption, StepRefusedDeep
<1> QED
    BY <1>1, <1>2, GridInvariance, PTL DEF GridSpec
===============================================================================
