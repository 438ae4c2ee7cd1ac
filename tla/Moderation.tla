----------------------------- MODULE Moderation -----------------------------
(***************************************************************************)
(* Template moderation end to end: the server's template store (spec       *)
(* section 4.5; the backend is not in this repository, so its actions are  *)
(* modelled from the spec) and the moderation queue of the web console,    *)
(* services/web-admin/src/App.tsx, one instance per open console.          *)
(*                                                                         *)
(* A console shows the cached result of GET /admin/templates               *)
(* (pendingTemplatesQuery), posts decisions through decisionMutation and,  *)
(* when a decision succeeds, invalidates the cached list so it is fetched  *)
(* again.  Fetches and decisions are asynchronous: a request is sent, the  *)
(* server handles it at some later point against its then-current state,   *)
(* and the answer is applied to the console later still.                  *)
(*                                                                         *)
(* Content is abstracted to a version number: every resubmission of a      *)
(* template is a new content version, and the console's list shows which   *)
(* version the moderator is looking at.                                    *)
(***************************************************************************)
EXTENDS Naturals, FiniteSets

CONSTANTS
    Templates,      \* template ids (model values)
    Consoles,       \* open moderation consoles (model values)
    MaxVersion,     \* bound on resubmissions of one template
    MaxMutations,   \* bound on decisions posted by one console
    NetworkErrors,  \* whether a decision request or its answer may be lost
    NoModal         \* rejectModal = null

ASSUME MaxVersion \in Nat /\ MaxMutations \in Nat /\ NetworkErrors \in BOOLEAN

VARIABLES
    srv,        \* server: template id -> [status, ver]
    view,       \* console -> pendingTemplatesQuery.data, a set of <<id, ver>>
    fetch,      \* console -> state of the pending-templates query fetch
    reqs,       \* decision requests in flight
    mutCount,   \* console -> number of decisionMutation.mutate calls so far
    modal,      \* console -> rejectModal: NoModal or [t, seen]
    notice,     \* console -> notice banner
    error,      \* console -> error banner shown
    decisions,  \* history: every decision the server applied
    acked       \* history: <<console, id, version>> whose onSuccess has run

vars == <<srv, view, fetch, reqs, mutCount, modal, notice, error, decisions, acked>>

Versions  == 0..MaxVersion
Statuses  == {"absent", "pending", "approved", "rejected"}
Verdicts  == {"approved", "rejected"}
Entry     == Templates \X Versions
Request   == [c : Consoles, n : 1..MaxMutations, t : Templates,
              status : Verdicts, seen : Versions,
              phase : {"sent", "ok", "refused"}]
FetchState == [st : {"idle", "sent", "served"}, data : SUBSET Entry]
Decision  == [t : Templates, ver : Versions, seen : Versions, status : Verdicts]

TypeOK ==
    /\ srv \in [Templates -> [status : Statuses, ver : Versions]]
    /\ view \in [Consoles -> SUBSET Entry]
    /\ fetch \in [Consoles -> FetchState]
    /\ reqs \subseteq Request
    /\ mutCount \in [Consoles -> 0..MaxMutations]
    /\ modal \in [Consoles -> {NoModal} \union [t : Templates, seen : Versions]]
    /\ notice \in [Consoles -> {"none"} \union Verdicts]
    /\ error \in [Consoles -> BOOLEAN]
    /\ decisions \subseteq Decision
    /\ acked \subseteq Consoles \X Entry

-----------------------------------------------------------------------------
(* Server side (spec section 4.5 and section 6), modelled from the spec.   *)

\* The templates GET /admin/templates returns: every pending one, with the
\* content version the moderator will read.
PendingList == {<<t, srv[t].ver>> : t \in {u \in Templates : srv[u].status = "pending"}}

\* POST /templates: a new template is stored as pending.
Submit(t) ==
    /\ srv[t].status = "absent"
    /\ srv' = [srv EXCEPT ![t].status = "pending"]
    /\ UNCHANGED <<view, fetch, reqs, mutCount, modal, notice, error, decisions, acked>>

\* Resubmission of an approved or rejected template with new content:
\* back to pending, comment and approved_at cleared.
Resubmit(t) ==
    /\ srv[t].status \in Verdicts
    /\ srv[t].ver < MaxVersion
    /\ srv' = [srv EXCEPT ![t] = [status |-> "pending", ver |-> @.ver + 1]]
    /\ UNCHANGED <<view, fetch, reqs, mutCount, modal, notice, error, decisions, acked>>

\* The server answers a console's GET /admin/templates with its state now.
ServePending(c) ==
    /\ fetch[c].st = "sent"
    /\ fetch' = [fetch EXCEPT ![c] = [st |-> "served", data |-> PendingList]]
    /\ UNCHANGED <<srv, view, reqs, mutCount, modal, notice, error, decisions, acked>>

\* POST /admin/templates/{id}/decision on a pending template: applied to
\* whatever content the template has now.  The request names only the id.
ServerAccept(r) ==
    /\ r \in reqs
    /\ r.phase = "sent"
    /\ srv[r.t].status = "pending"
    /\ srv' = [srv EXCEPT ![r.t].status = r.status]
    /\ decisions' = decisions \union
         {[t |-> r.t, ver |-> srv[r.t].ver, seen |-> r.seen, status |-> r.status]}
    /\ reqs' = (reqs \ {r}) \union {[r EXCEPT !.phase = "ok"]}
    /\ UNCHANGED <<view, fetch, mutCount, modal, notice, error, acked>>

\* A decision on a template that is not pending: InvalidTransition, the
\* template is left as it is.
ServerRefuse(r) ==
    /\ r \in reqs
    /\ r.phase = "sent"
    /\ srv[r.t].status # "pending"
    /\ reqs' = (reqs \ {r}) \union {[r EXCEPT !.phase = "refused"]}
    /\ UNCHANGED <<srv, view, fetch, mutCount, modal, notice, error, decisions, acked>>

-----------------------------------------------------------------------------
(* The console: services/web-admin/src/App.tsx                             *)

\* decisionMutation.isPending: the latest mutate call has not settled.
IsPending(c) == \E r \in reqs : r.c = c /\ r.n = mutCount[c]

\* decisionMutation.mutate: mutationFn clears both banners and posts
\* {status, comment} for the template id; the posted request carries no
\* content version.
Mutate(c, t, status, seen) ==
    /\ mutCount[c] < MaxMutations
    /\ mutCount' = [mutCount EXCEPT ![c] = @ + 1]
    /\ reqs' = reqs \union {[c |-> c, n |-> mutCount[c] + 1, t |-> t,
                             status |-> status, seen |-> seen, phase |-> "sent"]}
    /\ error' = [error EXCEPT ![c] = FALSE]
    /\ notice' = [notice EXCEPT ![c] = "none"]

\* "Одобрить" on a row of the queue; disabled while a decision is pending,
\* and out of reach while the reject dialog is open.
ClickApprove(c, e) ==
    /\ e \in view[c]
    /\ modal[c] = NoModal
    /\ ~IsPending(c)
    /\ Mutate(c, e[1], "approved", e[2])
    /\ UNCHANGED <<srv, view, fetch, modal, decisions, acked>>

\* "Отклонить" on a row opens the reject dialog for that row.
OpenReject(c, e) ==
    /\ e \in view[c]
    /\ modal[c] = NoModal
    /\ ~IsPending(c)
    /\ modal' = [modal EXCEPT ![c] = [t |-> e[1], seen |-> e[2]]]
    /\ UNCHANGED <<srv, view, fetch, reqs, mutCount, notice, error, decisions, acked>>

\* The dialog's "Отклонить": disabled only when there is no rejectModal,
\* not while the mutation is pending.
ConfirmReject(c) ==
    /\ modal[c] # NoModal
    /\ Mutate(c, modal[c].t, "rejected", modal[c].seen)
    /\ UNCHANGED <<srv, view, fetch, modal, decisions, acked>>

\* "Отмена", or the dialog closed by onOpenChange(false).
CloseReject(c) ==
    /\ modal[c] # NoModal
    /\ modal' = [modal EXCEPT ![c] = NoModal]
    /\ UNCHANGED <<srv, view, fetch, reqs, mutCount, notice, error, decisions, acked>>

\* The fetched list becomes the query's data (the old data stays shown
\* while a fetch is outstanding).
ReceivePending(c) ==
    /\ fetch[c].st = "served"
    /\ view' = [view EXCEPT ![c] = fetch[c].data]
    /\ fetch' = [fetch EXCEPT ![c] = [st |-> "idle", data |-> {}]]
    /\ UNCHANGED <<srv, reqs, mutCount, modal, notice, error, decisions, acked>>

\* The moderator returns to the window: the query has no staleTime, so
\* TanStack Query refetches it on focus unless a fetch is running.
FocusRefetch(c) ==
    /\ fetch[c].st = "idle"
    /\ fetch' = [fetch EXCEPT ![c] = [st |-> "sent", data |-> {}]]
    /\ UNCHANGED <<srv, view, reqs, mutCount, modal, notice, error, decisions, acked>>

\* onSuccess that forgets to invalidate the pending-templates query.
OnDecisionSuccessNoRefetch(r) ==
    /\ r \in reqs
    /\ r.phase = "ok"
    /\ reqs' = reqs \ {r}
    /\ modal' = [modal EXCEPT ![r.c] = NoModal]
    /\ notice' = [notice EXCEPT ![r.c] = r.status]
    /\ acked' = acked \union {<<r.c, r.t, r.seen>>}
    /\ UNCHANGED <<srv, view, fetch, mutCount, error, decisions>>

\* onSuccess: invalidateQueries(["pending-templates", adminToken]) starts a
\* new fetch and cancels one in flight; the dialog is closed and the notice
\* for the verdict is shown.
OnDecisionSuccess(r) ==
    /\ r \in reqs
    /\ r.phase = "ok"
    /\ reqs' = reqs \ {r}
    /\ fetch' = [fetch EXCEPT ![r.c] = [st |-> "sent", data |-> {}]]
    /\ modal' = [modal EXCEPT ![r.c] = NoModal]
    /\ notice' = [notice EXCEPT ![r.c] = r.status]
    /\ acked' = acked \union {<<r.c, r.t, r.seen>>}
    /\ UNCHANGED <<srv, view, mutCount, error, decisions>>

\* onError = handleError: the server's detail (InvalidTransition) is shown.
OnDecisionError(r) ==
    /\ r \in reqs
    /\ r.phase = "refused"
    /\ reqs' = reqs \ {r}
    /\ error' = [error EXCEPT ![r.c] = TRUE]
    /\ UNCHANGED <<srv, view, fetch, mutCount, modal, notice, decisions, acked>>

\* The request or its answer is lost: axios rejects and handleError shows
\* the message, whether or not the server applied the decision.
NetworkError(r) ==
    /\ NetworkErrors
    /\ r \in reqs
    /\ r.phase \in {"sent", "ok"}
    /\ reqs' = reqs \ {r}
    /\ error' = [error EXCEPT ![r.c] = TRUE]
    /\ UNCHANGED <<srv, view, fetch, mutCount, modal, notice, decisions, acked>>

-----------------------------------------------------------------------------

\* Every console mounts with the pending-templates query fetching.
Init ==
    /\ srv = [t \in Templates |-> [status |-> "absent", ver |-> 0]]
    /\ view = [c \in Consoles |-> {}]
    /\ fetch = [c \in Consoles |-> [st |-> "sent", data |-> {}]]
    /\ reqs = {}
    /\ mutCount = [c \in Consoles |-> 0]
    /\ modal = [c \in Consoles |-> NoModal]
    /\ notice = [c \in Consoles |-> "none"]
    /\ error = [c \in Consoles |-> FALSE]
    /\ decisions = {}
    /\ acked = {}

ServerStep ==
    \/ \E t \in Templates : Submit(t) \/ Resubmit(t)
    \/ \E c \in Consoles : ServePending(c)
    \/ \E r \in reqs : ServerAccept(r) \/ ServerRefuse(r)

ConsoleStep ==
    \/ \E c \in Consoles :
         \/ \E e \in view[c] : ClickApprove(c, e) \/ OpenReject(c, e)
         \/ ConfirmReject(c)
         \/ CloseReject(c)
         \/ ReceivePending(c)
         \/ FocusRefetch(c)
    \/ \E r \in reqs :
         \/ OnDecisionSuccess(r)
         \/ OnDecisionError(r)
         \/ NetworkError(r)

Next == ServerStep \/ ConsoleStep

\* The server eventually answers every request it receives, and the browser
\* eventually runs the query and mutation callbacks.  Moderators, account
\* owners and resubmissions are under no obligation to act.
Fairness ==
    /\ \A c \in Consoles : WF_vars(ServePending(c)) /\ WF_vars(ReceivePending(c))
    /\ \A r \in Request : WF_vars(ServerAccept(r) \/ ServerRefuse(r))
    /\ \A r \in Request : WF_vars(OnDecisionSuccess(r) \/ OnDecisionError(r))

Spec == Init /\ [][Next]_vars /\ Fairness

-----------------------------------------------------------------------------
(* Properties                                                              *)

\* A row this console decided, and whose success it reported, eventually
\* leaves its queue once the server no longer lists it as pending: the
\* onSuccess invalidation must replace any list fetched before the
\* decision, however the fetches of this console and the decisions of
\* other consoles interleave.  A row decided elsewhere, or whose answer was
\* lost, is repaired only by a focus refetch, which nobody has to do.
StaleEntryDropped ==
    \A c \in Consoles, t \in Templates, v \in Versions :
        (<<t, v>> \in view[c] /\ <<t, v>> \notin PendingList /\ <<c, t, v>> \in acked)
            ~> (<<t, v>> \notin view[c])

\* Whatever the server approves is the content version the moderator had
\* on screen when clicking: an approval is never applied to content that
\* nobody reviewed.
ApprovedContentWasReviewed ==
    \A d \in decisions : d.status = "approved" => d.ver = d.seen
=============================================================================
