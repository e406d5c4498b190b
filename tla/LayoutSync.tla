------------------------------ MODULE LayoutSync ------------------------------
(***************************************************************************)
(* The custom dashboard of one user: the hook that edits a layout          *)
(* optimistically and saves it through a promise chain, and the BFF's      *)
(* layout endpoints over one Redis key.                                    *)
(*                                                                         *)
(* A layout is represented by the set of edits that went into it; the      *)
(* default layout is the empty set.  What an edit does to the widgets is   *)
(* the subject of DashboardLayout.                                         *)
(***************************************************************************)
EXTENDS Integers, Sequences

CONSTANTS
    Unloaded,     \* the hook's layout before the first answer
    Edits,        \* add, remove, move and resize clicks
    MaxResets,    \* bound on Reset clicks, for model checking
    MaxReloads,   \* bound on Retry clicks, for model checking
    Refusals,     \* the BFF may refuse a request (400, 401, Redis failure)
    LostReplies   \* a fetch may fail whatever becomes of its request

ASSUME LayoutAssumption ==
    /\ \A edits \in SUBSET Edits : Unloaded # edits
    /\ MaxResets \in Nat
    /\ MaxReloads \in Nat
    /\ Refusals \in BOOLEAN
    /\ LostReplies \in BOOLEAN

Layout == SUBSET Edits
Default == {}

\* An entry of the save chain.  Its head is the request in flight: sent,
\* applied by the BFF with the reply on its way, or failed.
Save == [kind : {"put", "delete"}, next : Layout, previous : Layout,
         phase : {"sent", "applied", "failed"}]

VARIABLES
    stored,     \* the layout under dash:layout:v1:<subject>, or the default
    ui,         \* layout state of the hook
    status,     \* status state of the hook
    load,       \* the GET in flight: "none", "sent", "read"
    answer,     \* what that GET has read
    chain,      \* saveChain
    saving,     \* saving state of the hook
    saveError,  \* saveError state of the hook
    strays,     \* saves given up by the browser that may still reach the BFF
    made,       \* edits clicked so far
    resets, reloads,
    \* History, read by the properties only:
    due,        \* edits the user may expect to be persisted in the end
    lastOk,     \* the save that settled last succeeded
    lost,       \* the server may hold, or may yet get, what the hook was told failed
    hasty,      \* the user has clicked while a load or a save was under way
    staleLoad   \* a load showed what the server no longer held

loadVars == <<status, load, answer>>
saveVars == <<chain, saving, saveError>>
boundVars == <<made, resets, reloads>>
historyVars == <<due, lastOk, lost, hasty, staleLoad>>
vars == <<stored, ui, loadVars, saveVars, strays, boundVars, historyVars>>

TypeOK ==
    /\ stored \in Layout
    /\ ui \in {Unloaded} \cup Layout
    /\ status \in {"loading", "success", "error"}
    /\ load \in {"none", "sent", "read"}
    /\ answer \in Layout
    /\ chain \in Seq(Save)
    /\ saving \in BOOLEAN /\ saveError \in BOOLEAN
    /\ strays \subseteq Layout
    /\ made \subseteq Edits /\ resets \in Nat /\ reloads \in Nat
    /\ due \subseteq Edits
    /\ lastOk \in BOOLEAN /\ lost \in BOOLEAN
    /\ hasty \in BOOLEAN /\ staleLoad \in BOOLEAN

\* The page opens: the effect has sent its GET.  Some edits were made and
\* stored on earlier visits.
Init ==
    /\ stored \in Layout
    /\ ui = Unloaded
    /\ status = "loading" /\ load = "sent" /\ answer = Default
    /\ chain = <<>> /\ saving = FALSE /\ saveError = FALSE
    /\ strays = {}
    /\ made = stored /\ resets = 0 /\ reloads = 0
    /\ due = stored /\ lastOk = TRUE /\ lost = FALSE
    /\ hasty = FALSE /\ staleLoad = FALSE

-------------------------------------------------------------------------------
(* The load effect                                                         *)

\* GET answers the stored layout as it is when the BFF reads it.
LoadRead ==
    /\ load = "sent"
    /\ load' = "read" /\ answer' = stored
    /\ UNCHANGED <<stored, ui, status, saveVars, boundVars, historyVars, strays>>

LoadArrives ==
    /\ load = "read"
    /\ load' = "none" /\ status' = "success" /\ ui' = answer
    /\ staleLoad' = (answer # stored)
    /\ UNCHANGED <<stored, answer, saveVars, boundVars, due, lastOk, lost, hasty, strays>>

LoadFails ==
    /\ \/ Refusals /\ load = "sent"
       \/ LostReplies /\ load = "read"
    /\ load' = "none" /\ status' = "error"
    /\ UNCHANGED <<stored, ui, answer, saveVars, boundVars, historyVars, strays>>

\* The Retry button of the error state.
Reload ==
    /\ status = "error"
    /\ reloads < MaxReloads
    /\ reloads' = reloads + 1
    /\ load' = "sent" /\ status' = "loading"
    /\ UNCHANGED <<stored, ui, answer, saveVars, made, resets, historyVars, strays>>

-------------------------------------------------------------------------------
(* Clicks                                                                  *)

\* A click while a load or a save is under way.
Click == hasty' = (hasty \/ saving \/ status # "success")

\* Mutant: a save starts at once instead of after the ones before it.
EnqueueFirst(kind, next, previous) ==
    /\ chain' = <<[kind |-> kind, next |-> next,
                   previous |-> previous, phase |-> "sent"]>> \o chain
    /\ saving' = TRUE
    /\ saveError' = FALSE

Enqueue(kind, next, previous) ==
    /\ chain' = Append(chain, [kind |-> kind, next |-> next,
                               previous |-> previous, phase |-> "sent"])
    /\ saving' = TRUE
    /\ saveError' = FALSE

\* mutate: without a layout it does nothing.
Edit(e) ==
    /\ Click
    /\ ui # Unloaded
    /\ e \notin made
    /\ ui' = ui \cup {e}
    /\ Enqueue("put", ui \cup {e}, ui)
    /\ made' = made \cup {e}
    /\ due' = due \cup {e}
    /\ UNCHANGED <<stored, loadVars, resets, reloads, lastOk, lost, staleLoad, strays>>

\* Reset leaves the layout as it is until the BFF has answered.
Reset ==
    /\ Click
    /\ resets < MaxResets
    /\ resets' = resets + 1
    /\ Enqueue("delete", Default, Default)
    /\ due' = {}
    /\ UNCHANGED <<stored, ui, loadVars, made, reloads, lastOk, lost, staleLoad, strays>>

-------------------------------------------------------------------------------
(* The BFF                                                                 *)

HeadIs(phase) == chain # <<>> /\ Head(chain).phase = phase

HeadBecomes(phase) == chain' = [chain EXCEPT ![1].phase = phase]

\* PUT replaces the stored layout, DELETE drops it.
Apply ==
    /\ HeadIs("sent")
    /\ HeadBecomes("applied")
    /\ stored' = Head(chain).next
    /\ lost' = (strays # {})
    /\ UNCHANGED <<ui, loadVars, saving, saveError, strays, boundVars, due, lastOk,
                   hasty, staleLoad>>

\* Session, CSRF header, size or schema is not accepted, or Redis fails.
Refuse ==
    /\ Refusals
    /\ HeadIs("sent")
    /\ HeadBecomes("failed")
    /\ UNCHANGED <<stored, ui, loadVars, saving, saveError, strays, boundVars,
                   historyVars>>

\* The connection breaks: before the request reached the BFF, which it may do
\* later all the same, or after.
Disconnect ==
    /\ LostReplies
    /\ \/ HeadIs("sent") /\ strays' = strays \cup {Head(chain).next}
       \/ HeadIs("applied") /\ UNCHANGED strays
    /\ HeadBecomes("failed")
    /\ lost' = TRUE
    /\ UNCHANGED <<stored, ui, loadVars, saving, saveError, boundVars, due, lastOk,
                   hasty, staleLoad>>

ApplyStray ==
    \E layout \in strays :
        /\ strays' = strays \ {layout}
        /\ stored' = layout
        /\ lost' = TRUE
        /\ UNCHANGED <<ui, loadVars, saveVars, boundVars, due, lastOk, hasty, staleLoad>>

-------------------------------------------------------------------------------
(* The answers                                                             *)

Settle == chain' = Tail(chain) /\ saving' = FALSE

\* The BFF echoes the layout it stored, the default after a DELETE.
SaveSucceeds ==
    /\ HeadIs("applied")
    /\ Settle
    /\ ui' = Head(chain).next
    /\ lastOk' = TRUE /\ staleLoad' = FALSE
    /\ UNCHANGED <<stored, loadVars, saveError, strays, boundVars, due, lost, hasty>>

\* Mutant: the revert falls back to the default layout.
PutFailsToDefault ==
    /\ HeadIs("failed")
    /\ Head(chain).kind = "put"
    /\ Settle
    /\ ui' = Default
    /\ saveError' = TRUE
    /\ lastOk' = FALSE
    /\ due' = due \ (Head(chain).next \ Head(chain).previous)
    /\ UNCHANGED <<stored, loadVars, strays, boundVars, lost, hasty, staleLoad>>

\* Mutant: the catch forgets setSaving(false).
PutFailsSaving ==
    /\ HeadIs("failed")
    /\ Head(chain).kind = "put"
    /\ chain' = Tail(chain)
    /\ ui' = Head(chain).previous
    /\ saveError' = TRUE
    /\ lastOk' = FALSE
    /\ due' = due \ (Head(chain).next \ Head(chain).previous)
    /\ UNCHANGED <<stored, loadVars, saving, strays, boundVars, lost, hasty, staleLoad>>

PutFails ==
    /\ HeadIs("failed")
    /\ Head(chain).kind = "put"
    /\ Settle
    /\ ui' = Head(chain).previous
    /\ saveError' = TRUE
    /\ lastOk' = FALSE
    /\ due' = due \ (Head(chain).next \ Head(chain).previous)
    /\ UNCHANGED <<stored, loadVars, strays, boundVars, lost, hasty, staleLoad>>

ResetFails ==
    /\ HeadIs("failed")
    /\ Head(chain).kind = "delete"
    /\ Settle
    /\ saveError' = TRUE
    /\ lastOk' = FALSE
    /\ UNCHANGED <<stored, ui, loadVars, strays, boundVars, due, lost, hasty, staleLoad>>

Answered == SaveSucceeds \/ PutFails \/ ResetFails

Next ==
    \/ LoadRead \/ LoadArrives \/ LoadFails \/ Reload
    \/ \E e \in Edits : Edit(e)
    \/ Reset
    \/ Apply \/ Refuse \/ Disconnect \/ ApplyStray
    \/ Answered

Spec == Init /\ [][Next]_vars

\* A request is served or refused, and its fetch settles.
FairSpec == Spec /\ WF_vars(Apply) /\ WF_vars(Answered)

-------------------------------------------------------------------------------
(* Properties                                                              *)

Quiet == chain = <<>> /\ status # "loading"

\* useDashboardLayout.ts:8-9, :70 and :82: once every request of a user who
\* waits for each answer before the next click has settled, no edit whose save
\* did not fail is missing on the server, and the user looks at what it holds,
\* also after saves have failed and been reverted.
PatientEditsPersist ==
    Quiet /\ ~hasty /\ ~lost =>
        /\ due \subseteq stored
        /\ ui # Unloaded /\ ~staleLoad => ui = stored

\* useDashboardLayout.ts:44: saves persist in order and the last write wins,
\* so a save that settles last and succeeds leaves the user and the server
\* with one layout, however the saves before it went.
LastSaveWins ==
    Quiet /\ lastOk /\ ui # Unloaded /\ ~lost /\ ~staleLoad => ui = stored

\* useDashboardLayout.ts:75-87 and :152-161: the "Saving..." chip goes away.
SavingEnds == saving ~> ~saving

\* The inductive invariant behind LastSaveWins: one save is in flight at a time,
\* the server holds what it has applied, and so does the screen once it settled.
OneInFlight == \A i \in 2..Len(chain) : chain[i].phase = "sent"

AppliedIsStored == HeadIs("applied") /\ ~lost => stored = Head(chain).next

SettledAgrees ==
    chain = <<>> /\ lastOk /\ ui # Unloaded /\ ~lost /\ ~staleLoad => ui = stored

ChainInv == TypeOK /\ OneInFlight /\ AppliedIsStored /\ SettledAgrees

\* The inductive invariant behind PatientEditsPersist: the one save of a user
\* who waits carries what the screen shows over what the server holds.
BeforeFirstAnswer ==
    /\ ui = Unloaded /\ chain = <<>> /\ strays = {} /\ due = stored
    /\ load = "read" => answer = stored

AfterFirstAnswer ==
    /\ load = "none" /\ ui # Unloaded /\ due \subseteq ui
    /\ chain = <<>> /\ ~lost => ui = stored
    /\ chain # <<>> =>
         LET save == Head(chain)
         IN  /\ due \subseteq save.next
             /\ save.kind = "put" => ui = save.next
             /\ ~lost /\ save.phase # "applied" =>
                  stored = IF save.kind = "put" THEN save.previous ELSE ui

Patience ==
    ~hasty =>
        /\ saving <=> chain # <<>>
        /\ Len(chain) <= 1
        /\ IF status = "success" THEN AfterFirstAnswer ELSE BeforeFirstAnswer

IInv == ChainInv /\ Patience
===============================================================================
