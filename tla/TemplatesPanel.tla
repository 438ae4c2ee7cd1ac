---------------------------- MODULE TemplatesPanel ----------------------------
(***************************************************************************)
(* The account side of the web console's "Тексты" tab,                    *)
(* services/web-admin/src/App.tsx: the new-template form posting through  *)
(* createTemplateMutation and the "Мои тексты" list of templateQuery.     *)
(*                                                                         *)
(* The list is the cached result of GET /templates.  A successful create  *)
(* invalidates the query, which in TanStack Query cancels a fetch still   *)
(* running and starts a new one, except on the first load, where the      *)
(* running fetch is joined.  The window regaining focus refetches an     *)
(* idle query (it has no staleTime).  The server's side (spec 4.5, 6) is  *)
(* modelled from the spec: a create stores a new pending template.         *)
(*                                                                         *)
(* The form's fields are the payload of the POST; only the ids of the     *)
(* templates matter to the list, so a template is its id.                 *)
(***************************************************************************)
EXTENDS Naturals, FiniteSets

CONSTANTS
    Templates,     \* ids the server can give new templates (model values)
    ServerErrors,  \* whether POST /templates may fail
    MaxCreates,    \* bound on createTemplateMutation.mutate calls
    NoData

ASSUME ServerErrors \in BOOLEAN /\ MaxCreates \in Nat

VARIABLES
    srv,       \* the account's templates on the server
    list,      \* templateQuery.data: a set of ids, or NoData before the first load
    fetch,     \* templateQuery's fetch: [st, data]
    creates,   \* POST /templates requests: [n, phase, id]
    mutCount,  \* mutate calls so far
    notice,    \* the success notice is shown
    error,     \* the error banner is shown
    mine       \* history: templates this panel created

vars == <<srv, list, fetch, creates, mutCount, notice, error, mine>>

FetchState == [st : {"idle", "sent", "served"}, data : SUBSET Templates]
Create == [n : 1..MaxCreates, phase : {"sent", "ok", "failed"},
           id : Templates \union {NoData}]

TypeOK ==
    /\ srv \subseteq Templates
    /\ list \in (SUBSET Templates) \union {NoData}
    /\ fetch \in FetchState
    /\ creates \subseteq Create
    /\ mutCount \in 0..MaxCreates
    /\ notice \in BOOLEAN /\ error \in BOOLEAN
    /\ mine \subseteq srv

\* createTemplateMutation.isPending: the latest mutate call has not settled.
IsPending == \E r \in creates : r.n = mutCount

-----------------------------------------------------------------------------

\* "Отправить на модерацию", disabled without an API key (one is set here)
\* or while isPending: mutationFn clears both banners and posts the form.
Submit ==
    /\ ~IsPending
    /\ mutCount < MaxCreates
    /\ mutCount' = mutCount + 1
    /\ creates' = creates \union {[n |-> mutCount + 1, phase |-> "sent", id |-> NoData]}
    /\ notice' = FALSE
    /\ error' = FALSE
    /\ UNCHANGED <<srv, list, fetch, mine>>

\* POST /templates: a new pending template with a fresh id.
ServerCreate(r) ==
    /\ r \in creates /\ r.phase = "sent"
    /\ \E t \in Templates \ srv :
         /\ srv' = srv \union {t}
         /\ mine' = mine \union {t}
         /\ creates' = (creates \ {r}) \union {[r EXCEPT !.phase = "ok", !.id = t]}
    /\ UNCHANGED <<list, fetch, mutCount, notice, error>>

\* ValidationError or any other failure: nothing is stored.
ServerRefuse(r) ==
    /\ r \in creates /\ r.phase = "sent"
    /\ ServerErrors
    /\ creates' = (creates \ {r}) \union {[r EXCEPT !.phase = "failed"]}
    /\ UNCHANGED <<srv, list, fetch, mutCount, notice, error, mine>>

\* onSuccess: invalidateQueries(["templates", apiKey]) refetches with
\* cancelRefetch, but Query.fetch cancels a running fetch only when the
\* query already has data: on the first load (data undefined) the running
\* fetch is joined and its answer, taken before the create, is kept.  The
\* name and category are cleared and the notice shown.
OnCreateSuccess(r) ==
    /\ r \in creates /\ r.phase = "ok"
    /\ creates' = creates \ {r}
    /\ fetch' = IF fetch.st # "idle" /\ list = NoData
                THEN fetch
                ELSE [st |-> "sent", data |-> {}]
    /\ notice' = TRUE
    /\ UNCHANGED <<srv, list, mutCount, error, mine>>

\* onError = handleError: the server's detail is shown.
OnCreateError(r) ==
    /\ r \in creates /\ r.phase = "failed"
    /\ creates' = creates \ {r}
    /\ error' = TRUE
    /\ UNCHANGED <<srv, list, fetch, mutCount, notice, mine>>

\* GET /templates is answered with the account's templates as they are now.
ServeTemplates ==
    /\ fetch.st = "sent"
    /\ fetch' = [st |-> "served", data |-> srv]
    /\ UNCHANGED <<srv, list, creates, mutCount, notice, error, mine>>

\* The answer becomes templateQuery.data.
ReceiveTemplates ==
    /\ fetch.st = "served"
    /\ list' = fetch.data
    /\ fetch' = [st |-> "idle", data |-> {}]
    /\ UNCHANGED <<srv, creates, mutCount, notice, error, mine>>

\* The window regains focus: the idle query is refetched.
FocusRefetch ==
    /\ fetch.st = "idle"
    /\ fetch' = [st |-> "sent", data |-> {}]
    /\ UNCHANGED <<srv, list, creates, mutCount, notice, error, mine>>

-----------------------------------------------------------------------------

\* Mount with an API key: templateQuery is enabled and fetching.
Init ==
    /\ srv = {}
    /\ list = NoData
    /\ fetch = [st |-> "sent", data |-> {}]
    /\ creates = {}
    /\ mutCount = 0
    /\ notice = FALSE /\ error = FALSE
    /\ mine = {}

Next ==
    \/ Submit
    \/ \E r \in creates : \/ ServerCreate(r) \/ ServerRefuse(r)
                          \/ OnCreateSuccess(r) \/ OnCreateError(r)
    \/ ServeTemplates
    \/ ReceiveTemplates
    \/ FocusRefetch

\* The server answers and the browser runs every callback; the user need
\* not click or focus anything.
Fairness ==
    /\ \A n \in 1..MaxCreates :
         /\ WF_vars(\E r \in creates : r.n = n /\ (ServerCreate(r) \/ ServerRefuse(r)))
         /\ WF_vars(\E r \in creates : r.n = n /\ (OnCreateSuccess(r) \/ OnCreateError(r)))
    /\ WF_vars(ServeTemplates)
    /\ WF_vars(ReceiveTemplates)

Spec == Init /\ [][Next]_vars /\ Fairness

-----------------------------------------------------------------------------
(* Properties                                                              *)

\* Every template this panel creates eventually appears in its list.
CreatedEventuallyListed ==
    \A t \in Templates : t \in mine ~> (list # NoData /\ t \in list)
====
