---------------------------- MODULE OperatorsPage ----------------------------
(***************************************************************************)
(* The SMPP operators page of the admin panel,                            *)
(* services/admin-web/app/(admin)/operators/page.tsx, against the admin   *)
(* API's operator store.                                                  *)
(*                                                                         *)
(* The page shows the list of its last applied loadOperators() answer.    *)
(* The create/edit dialog posts through react-hook-form's handleSubmit,   *)
(* whose isSubmitting disables "Save" until onSubmit, including the       *)
(* reload it awaits, has finished, or until the dialog is closed and      *)
(* reopened: reset() clears isSubmitting.  Delete confirms, deletes and   *)
(* reloads.                                                               *)
(* Every request is answered in any order.  Other administrators may      *)
(* change the store at any time.                                          *)
(*                                                                         *)
(* An operator's configuration (name, host, port, system id, password,    *)
(* status) is one model value of Configs.                                 *)
(***************************************************************************)
EXTENDS Naturals, FiniteSets

CONSTANTS
    Operators,        \* operator ids (model values)
    Configs,          \* valid operator configurations (model values)
    DefaultConfig,    \* the values handleCreate resets the form to
    InitialStore,     \* the store when the page is opened
    ServerErrors,     \* whether the API may refuse a create/update/delete
    OtherAdmins,      \* whether another administrator edits the store
    MaxRequests,      \* bound on requests issued
    Absent, NoOp

ASSUME /\ DefaultConfig \in Configs
       /\ InitialStore \in [Operators -> Configs \union {Absent}]
       /\ ServerErrors \in BOOLEAN /\ OtherAdmins \in BOOLEAN
       /\ MaxRequests \in Nat

VARIABLES
    srv,           \* the server's store: id -> configuration or Absent
    operators,     \* operators: the list shown, same shape as srv
    isLoading,     \* isLoading
    error,         \* error banner shown
    isDialogOpen,  \* isDialogOpen
    editing,       \* editingOperator: an id or NoOp
    draft,         \* the dialog's form values
    isSubmitting,  \* react-hook-form's formState.isSubmitting
    awaited,       \* ids of the loads onSubmit awaits
    loads,         \* list requests: [id, phase, data]
    muts,          \* create/update/delete requests: [id, kind, target, cfg, phase]
    issued         \* requests issued so far (bounds the model)

vars == <<srv, operators, isLoading, error, isDialogOpen, editing, draft,
          isSubmitting, awaited, loads, muts, issued>>

Store == [Operators -> Configs \union {Absent}]
Ids == 1..MaxRequests
Load == [id : 0..MaxRequests, phase : {"sent", "served"}, data : Store]
Mutation == [id : Ids, kind : {"create", "update", "delete"},
             target : Operators \union {NoOp}, cfg : Configs, phase : {"sent", "ok", "failed"}]

TypeOK ==
    /\ srv \in Store /\ operators \in Store
    /\ isLoading \in BOOLEAN /\ error \in BOOLEAN
    /\ isDialogOpen \in BOOLEAN
    /\ editing \in Operators \union {NoOp}
    /\ draft \in Configs
    /\ isSubmitting \in BOOLEAN
    /\ awaited \subseteq Ids
    /\ loads \subseteq Load
    /\ muts \subseteq Mutation
    /\ issued \in 0..MaxRequests

\* The table (and its edit and delete buttons) is rendered, and reachable
\* only while the modal dialog is closed.
TableShown == ~isLoading /\ ~isDialogOpen

-----------------------------------------------------------------------------
(* The page                                                                *)

\* loadOperators(): isLoading, then the list request.
LoadOperators(id) ==
    /\ isLoading' = TRUE
    /\ loads' = loads \union {[id |-> id, phase |-> "sent", data |-> srv]}

\* "Создать Оператора": a fresh form for a new operator.  react-hook-form's
\* reset() also clears formState.isSubmitting, whether or not an earlier
\* onSubmit is still running.
HandleCreate ==
    /\ ~isDialogOpen
    /\ editing' = NoOp
    /\ draft' = DefaultConfig
    /\ isSubmitting' = FALSE
    /\ isDialogOpen' = TRUE
    /\ UNCHANGED <<srv, operators, isLoading, error, awaited, loads, muts, issued>>

\* The pencil of a row: reset() to that row's values as listed, which
\* also clears isSubmitting.
HandleEdit(o) ==
    /\ TableShown
    /\ operators[o] # Absent
    /\ editing' = o
    /\ draft' = operators[o]
    /\ isSubmitting' = FALSE
    /\ isDialogOpen' = TRUE
    /\ UNCHANGED <<srv, operators, isLoading, error, awaited, loads, muts, issued>>

\* Editing the dialog's fields.
EditForm(c) ==
    /\ isDialogOpen
    /\ draft' = c
    /\ UNCHANGED <<srv, operators, isLoading, error, isDialogOpen, editing,
                   isSubmitting, awaited, loads, muts, issued>>

\* "Отмена", or the dialog closed by onOpenChange.
CloseDialog ==
    /\ isDialogOpen
    /\ isDialogOpen' = FALSE
    /\ UNCHANGED <<srv, operators, isLoading, error, editing, draft, isSubmitting, awaited, loads, muts, issued>>

\* "Создать"/"Сохранить", disabled while isSubmitting: handleSubmit sets
\* isSubmitting before it validates, then onSubmit creates or updates.
Submit ==
    /\ isDialogOpen
    /\ ~isSubmitting
    /\ issued < MaxRequests
    /\ isSubmitting' = TRUE
    /\ muts' = muts \union
         {[id |-> issued + 1, kind |-> IF editing = NoOp THEN "create" ELSE "update",
           target |-> editing, cfg |-> draft, phase |-> "sent"]}
    /\ issued' = issued + 1
    /\ UNCHANGED <<srv, operators, isLoading, error, isDialogOpen, editing,
                   draft, awaited, loads>>

\* onSubmit after a successful create or update: the dialog is closed and
\* onSubmit awaits loadOperators().
SaveSucceeded(m) ==
    /\ m \in muts /\ m.kind # "delete" /\ m.phase = "ok"
    /\ muts' = muts \ {m}
    /\ isDialogOpen' = FALSE
    /\ LoadOperators(m.id)
    /\ awaited' = awaited \union {m.id}
    /\ UNCHANGED <<srv, operators, error, editing, draft, isSubmitting, issued>>

\* A refused save: alert(); the dialog stays open and handleSubmit ends.
SaveFailed(m) ==
    /\ m \in muts /\ m.kind # "delete" /\ m.phase = "failed"
    /\ muts' = muts \ {m}
    /\ isSubmitting' = FALSE
    /\ UNCHANGED <<srv, operators, isLoading, error, isDialogOpen, editing,
                   draft, awaited, loads, issued>>

\* The trash button of a row (handleDelete), once confirm() is accepted.
HandleDelete(o) ==
    /\ TableShown
    /\ operators[o] # Absent
    /\ issued < MaxRequests
    /\ muts' = muts \union
         {[id |-> issued + 1, kind |-> "delete", target |-> o,
           cfg |-> DefaultConfig, phase |-> "sent"]}
    /\ issued' = issued + 1
    /\ UNCHANGED <<srv, operators, isLoading, error, isDialogOpen, editing,
                   draft, isSubmitting, awaited, loads>>

\* The delete succeeded: handleDelete awaits loadOperators().
DeleteSucceeded(m) ==
    /\ m \in muts /\ m.kind = "delete" /\ m.phase = "ok"
    /\ muts' = muts \ {m}
    /\ LoadOperators(m.id)
    /\ UNCHANGED <<srv, operators, error, isDialogOpen, editing, draft,
                   isSubmitting, awaited, issued>>

\* The delete failed: alert() and nothing else.
DeleteFailed(m) ==
    /\ m \in muts /\ m.kind = "delete" /\ m.phase = "failed"
    /\ muts' = muts \ {m}
    /\ UNCHANGED <<srv, operators, isLoading, error, isDialogOpen, editing,
                   draft, isSubmitting, awaited, loads, issued>>

\* The end of a loadOperators() call lets the onSubmit awaiting it return,
\* which ends handleSubmit and clears isSubmitting.
Release(l) ==
    /\ awaited' = awaited \ {l.id}
    /\ isSubmitting' = IF l.id \in awaited THEN FALSE ELSE isSubmitting

\* The list arrives: setOperators, the error cleared, finally not loading.
LoadAnswered(l) ==
    /\ l \in loads /\ l.phase = "served"
    /\ loads' = loads \ {l}
    /\ operators' = l.data
    /\ error' = FALSE
    /\ isLoading' = FALSE
    /\ Release(l)
    /\ UNCHANGED <<srv, isDialogOpen, editing, draft, muts, issued>>

\* A failed list request: the error is shown, finally not loading.
LoadFailed(l) ==
    /\ ServerErrors
    /\ l \in loads
    /\ loads' = loads \ {l}
    /\ error' = TRUE
    /\ isLoading' = FALSE
    /\ Release(l)
    /\ UNCHANGED <<srv, operators, isDialogOpen, editing, draft, muts, issued>>

-----------------------------------------------------------------------------
(* The admin API's operator store                                          *)

\* The id the store gives a new operator.
NewId == CHOOSE o \in Operators : srv[o] = Absent

\* Whether the store can carry out a request: a free id for a create, an
\* existing operator for an update or a delete.
Applicable(m) ==
    IF m.kind = "create" THEN \E o \in Operators : srv[o] = Absent
                         ELSE srv[m.target] # Absent

\* GET: the list is the store as it is when the request is served.
ServeLoad(l) ==
    /\ l \in loads /\ l.phase = "sent"
    /\ loads' = (loads \ {l}) \union {[l EXCEPT !.phase = "served", !.data = srv]}
    /\ UNCHANGED <<srv, operators, isLoading, error, isDialogOpen, editing,
                   draft, isSubmitting, awaited, muts, issued>>

\* POST, PUT or DELETE carried out.
ApplyMutation(m) ==
    /\ m \in muts /\ m.phase = "sent"
    /\ Applicable(m)
    /\ srv' = CASE m.kind = "create" -> [srv EXCEPT ![NewId] = m.cfg]
                [] m.kind = "update" -> [srv EXCEPT ![m.target] = m.cfg]
                [] m.kind = "delete" -> [srv EXCEPT ![m.target] = Absent]
    /\ muts' = (muts \ {m}) \union {[m EXCEPT !.phase = "ok"]}
    /\ UNCHANGED <<operators, isLoading, error, isDialogOpen, editing, draft,
                   isSubmitting, awaited, loads, issued>>

\* Refused: the operator is gone (404) or the API fails; nothing changes.
RefuseMutation(m) ==
    /\ m \in muts /\ m.phase = "sent"
    /\ ServerErrors \/ ~Applicable(m)
    /\ muts' = (muts \ {m}) \union {[m EXCEPT !.phase = "failed"]}
    /\ UNCHANGED <<srv, operators, isLoading, error, isDialogOpen, editing,
                   draft, isSubmitting, awaited, loads, issued>>

\* Another administrator creates, edits or deletes an operator.
OtherAdminEdit(o, v) ==
    /\ OtherAdmins
    /\ issued < MaxRequests
    /\ v # srv[o]
    /\ srv' = [srv EXCEPT ![o] = v]
    /\ issued' = issued + 1
    /\ UNCHANGED <<operators, isLoading, error, isDialogOpen, editing, draft,
                   isSubmitting, awaited, loads, muts>>

-----------------------------------------------------------------------------

\* Mount: isLoading starts true and the effect calls loadOperators().
Init ==
    /\ srv = InitialStore
    /\ operators = [o \in Operators |-> Absent]
    /\ isLoading = TRUE
    /\ error = FALSE
    /\ isDialogOpen = FALSE
    /\ editing = NoOp
    /\ draft = DefaultConfig
    /\ isSubmitting = FALSE
    /\ awaited = {}
    /\ loads = {[id |-> 0, phase |-> "sent", data |-> InitialStore]}
    /\ muts = {}
    /\ issued = 0

PageStep ==
    \/ HandleCreate
    \/ \E o \in Operators : HandleEdit(o) \/ HandleDelete(o)
    \/ \E c \in Configs : EditForm(c)
    \/ CloseDialog
    \/ Submit
    \/ \E m \in muts : \/ SaveSucceeded(m) \/ SaveFailed(m)
                       \/ DeleteSucceeded(m) \/ DeleteFailed(m)
    \/ \E l \in loads : LoadAnswered(l) \/ LoadFailed(l)

ServerStep ==
    \/ \E l \in loads : ServeLoad(l)
    \/ \E m \in muts : ApplyMutation(m) \/ RefuseMutation(m)
    \/ \E o \in Operators, v \in Configs \union {Absent} : OtherAdminEdit(o, v)

Next == PageStep \/ ServerStep

\* The API answers every request and the page runs every callback; no
\* administrator is obliged to click anything.
Fairness ==
    /\ \A i \in 0..MaxRequests :
         /\ WF_vars(\E l \in loads : l.id = i /\ ServeLoad(l))
         /\ WF_vars(\E l \in loads : l.id = i /\ (LoadAnswered(l) \/ LoadFailed(l)))
         /\ WF_vars(\E m \in muts : m.id = i /\ (ApplyMutation(m) \/ RefuseMutation(m)))
         /\ WF_vars(\E m \in muts : m.id = i /\ \/ SaveSucceeded(m) \/ SaveFailed(m)
                                                 \/ DeleteSucceeded(m) \/ DeleteFailed(m))

Spec == Init /\ [][Next]_vars /\ Fairness

-----------------------------------------------------------------------------
(* Properties                                                              *)

\* At most one create or update of the page is in flight at a time, so one
\* dialog never creates the same operator twice.
OneSaveAtATime == Cardinality({m \in muts : m.kind # "delete"}) <= 1

\* Once no request of the page is in flight and nobody else edits the
\* store, the table lists exactly the operators the store holds.
ListMatchesServer ==
    (~OtherAdmins /\ loads = {} /\ muts = {}) => operators = srv
====
