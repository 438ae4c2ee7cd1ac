----------------------------- MODULE WebConsole -----------------------------
(***************************************************************************)
(* One open web console, services/web-admin/src/App.tsx, as a whole: the   *)
(* client side's template form (createTemplateMutation) and nick request   *)
(* form, and the administrator's moderation queue (decisionMutation, the   *)
(* module Moderation with this console as its only console), all writing   *)
(* the one pair of banners App keeps in its state: error and notice.       *)
(*                                                                         *)
(* Both mutations clear both banners when they start, and their callbacks  *)
(* set them when they end, in whatever order the server answers.  The      *)
(* role and tab switches only choose which controls are on screen; any     *)
(* control can be reached at any time, so they are left out.               *)
(***************************************************************************)
EXTENDS Naturals

CONSTANTS
    Templates, MaxVersion, MaxMutations, NetworkErrors, NoModal,
    CW,            \* this console
    ServerErrors,  \* whether POST /templates may be refused
    MaxCreates     \* bound on createTemplateMutation.mutate calls

VARIABLES
    srv, view, fetch, reqs, mutCount, modal, notice, error, decisions, acked,
    hasApiKey,     \* Boolean(apiKey)
    creates,       \* POST /templates requests: [n, phase]
    createCount,   \* createTemplateMutation.mutate calls so far
    balFetching,   \* balanceQuery.isFetching
    profFetching,  \* profileQuery.isFetching
    nickFilled,    \* the nick form's required fields are filled in
    nickSubmitted  \* nickSubmitted

M == INSTANCE Moderation WITH Consoles <- {CW}

moderationVars == <<srv, view, fetch, reqs, mutCount, modal, notice, error,
                    decisions, acked>>
clientVars == <<hasApiKey, creates, createCount, balFetching, profFetching,
                nickFilled, nickSubmitted>>
vars == <<moderationVars, clientVars>>

\* The notices a mutation's onSuccess shows.
SuccessNotices == {"created"} \union M!Verdicts

\* createTemplateMutation.isPending.
CreatePending == \E r \in creates : r.n = createCount

-----------------------------------------------------------------------------
(* The client side                                                         *)

\* The API key field: a key typed in, or the field cleared.  A new key is
\* a new query key, so the balance and profile queries, enabled by
\* hasApiKey, start fetching for it; a cleared key disables them.
SetApiKey(b) ==
    /\ hasApiKey' = b
    /\ balFetching' = b
    /\ profFetching' = b
    /\ UNCHANGED <<moderationVars, creates, createCount, nickFilled, nickSubmitted>>

\* "Обновить", disabled without a key or while the balance is fetching.
RefreshBalance ==
    /\ hasApiKey /\ ~balFetching
    /\ balFetching' = TRUE
    /\ UNCHANGED <<moderationVars, hasApiKey, creates, createCount, profFetching,
                   nickFilled, nickSubmitted>>

\* GET /balance settles (the card only displays its data).
BalanceSettled ==
    /\ balFetching
    /\ balFetching' = FALSE
    /\ UNCHANGED <<moderationVars, hasApiKey, creates, createCount, profFetching,
                   nickFilled, nickSubmitted>>

\* GET /profile settles (rate_limit_rps is only displayed).
ProfileSettled ==
    /\ profFetching
    /\ profFetching' = FALSE
    /\ UNCHANGED <<moderationVars, hasApiKey, creates, createCount, balFetching,
                   nickFilled, nickSubmitted>>

\* "Отправить на модерацию", disabled without an API key or while the
\* mutation is pending: mutationFn clears both banners and posts the form.
CreateMutate ==
    /\ hasApiKey
    /\ ~CreatePending
    /\ createCount < MaxCreates
    /\ createCount' = createCount + 1
    /\ creates' = creates \union {[n |-> createCount + 1, phase |-> "sent"]}
    /\ error' = [error EXCEPT ![CW] = FALSE]
    /\ notice' = [notice EXCEPT ![CW] = "none"]
    /\ UNCHANGED <<srv, view, fetch, reqs, mutCount, modal, decisions, acked,
                   hasApiKey, balFetching, profFetching, nickFilled, nickSubmitted>>

\* POST /templates stores a new pending template (Moderation's Submit).
ServerCreate(r) ==
    /\ r \in creates /\ r.phase = "sent"
    /\ \E t \in Templates : M!Submit(t)
    /\ creates' = (creates \ {r}) \union {[r EXCEPT !.phase = "ok"]}
    /\ UNCHANGED <<hasApiKey, createCount, balFetching, profFetching, nickFilled,
                   nickSubmitted>>

\* The create is refused (ValidationError or any other failure).
ServerCreateRefuse(r) ==
    /\ ServerErrors
    /\ r \in creates /\ r.phase = "sent"
    /\ creates' = (creates \ {r}) \union {[r EXCEPT !.phase = "failed"]}
    /\ UNCHANGED <<moderationVars, hasApiKey, createCount, balFetching, profFetching,
                   nickFilled, nickSubmitted>>

\* onSuccess: the notice that the template went to moderation.  The
\* invalidated "templates" query belongs to TemplatesPanel.
OnCreateSuccess(r) ==
    /\ r \in creates /\ r.phase = "ok"
    /\ creates' = creates \ {r}
    /\ notice' = [notice EXCEPT ![CW] = "created"]
    /\ UNCHANGED <<srv, view, fetch, reqs, mutCount, modal, error, decisions,
                   acked, hasApiKey, createCount, balFetching, profFetching,
                   nickFilled, nickSubmitted>>

\* onError = handleError: the error banner.
OnCreateError(r) ==
    /\ r \in creates /\ r.phase = "failed"
    /\ creates' = creates \ {r}
    /\ error' = [error EXCEPT ![CW] = TRUE]
    /\ UNCHANGED <<srv, view, fetch, reqs, mutCount, modal, notice, decisions,
                   acked, hasApiKey, createCount, balFetching, profFetching,
                   nickFilled, nickSubmitted>>

\* The nick request form's fields: company and nick (required), comment,
\* and the required confirmation box, filled in or not.
EditNickForm(b) ==
    /\ nickFilled' = b
    /\ UNCHANGED <<moderationVars, hasApiKey, creates, createCount, balFetching,
                   profFetching, nickSubmitted>>

\* nickSubmit: the browser submits only a form whose required fields are
\* filled in, and the button is disabled once submitted.  It sets the
\* notice and leaves the error banner as it is; nothing is posted.
NickSubmit ==
    /\ nickFilled
    /\ ~nickSubmitted
    /\ nickSubmitted' = TRUE
    /\ notice' = [notice EXCEPT ![CW] = "nick"]
    /\ UNCHANGED <<srv, view, fetch, reqs, mutCount, modal, error, decisions,
                   acked, hasApiKey, creates, createCount, balFetching,
                   profFetching, nickFilled>>

\* The notice's close button.
CloseNotice ==
    /\ notice[CW] # "none"
    /\ notice' = [notice EXCEPT ![CW] = "none"]
    /\ UNCHANGED <<srv, view, fetch, reqs, mutCount, modal, error, decisions,
                   acked, clientVars>>

-----------------------------------------------------------------------------

\* The console opens with no API key and the admin token preset, so the
\* moderation queue is fetching.
Init ==
    /\ M!Init
    /\ hasApiKey = FALSE
    /\ creates = {}
    /\ createCount = 0
    /\ balFetching = FALSE /\ profFetching = FALSE
    /\ nickFilled = FALSE /\ nickSubmitted = FALSE

\* Every step is a control of the client side or a step of the moderation
\* queue, which leaves the client side as it is.
Next ==
    \/ \E b \in BOOLEAN : SetApiKey(b)
    \/ RefreshBalance \/ BalanceSettled \/ ProfileSettled
    \/ CreateMutate
    \/ \E r \in creates : \/ ServerCreate(r) \/ ServerCreateRefuse(r)
                          \/ OnCreateSuccess(r) \/ OnCreateError(r)
    \/ \E b \in BOOLEAN : EditNickForm(b)
    \/ NickSubmit
    \/ CloseNotice
    \/ M!Next /\ UNCHANGED clientVars

Spec == Init /\ [][Next]_vars

-----------------------------------------------------------------------------
(* Properties                                                              *)

\* Each mutation clears both banners when it starts, so that they tell the
\* outcome of what the user just did: a success notice of a mutation is
\* never shown beside the error banner.
BannersAgree == ~(notice[CW] \in SuccessNotices /\ error[CW])
====
