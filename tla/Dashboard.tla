----------------------------- MODULE Dashboard -----------------------------
(***************************************************************************)
(* One browser tab of the control center: signing in, the pages with their *)
(* requests in flight, the refresh interval, and the form that submits     *)
(* tasks.  JavaScript runs one callback at a time, so an action is the     *)
(* code from a click, a timer or an answer to its next await.  Texts,      *)
(* toasts, the alert badge, the connection dot and the form's fields are   *)
(* left out.                                                               *)
(***************************************************************************)
EXTENDS Naturals

CONSTANTS MenuPages,    \* the sidebar entries the operator uses
          Filters,      \* of the task and webhook lists
          AllRows,      \* no filter
          Long, LastNo, \* filters with LastNo pages of rows; the others have one
          Buttons,      \* the form's submit buttons: m-submit-quick and -rcs
          MaxClicks,    \* clicks of the operator, who then only watches
          MaxPending,   \* equal polls in flight
          Skeleton      \* a page without data yet

Page == {"dashboard", "robots", "map", "tasks", "webhooks", "alerts", "settings"}
Lists == {"tasks", "webhooks"}
Query == [filter : Filters, no : 1..LastNo]
First == [filter |-> AllRows, no |-> 1]

ASSUME DashboardAssumption ==
  /\ MenuPages \subseteq Page
  /\ AllRows \in Filters /\ Long \subseteq Filters
  /\ LastNo \in Nat \ {0}
  /\ MaxClicks \in Nat /\ MaxPending \in Nat
  /\ Skeleton \notin Query

VARIABLES key,          \* the stored API key, by what the server says of it
          gate,         \* loading, form, checking or app
          page,         \* currentPage
          content,      \* what the content element shows
          shown,        \* the query its data answers
          want,         \* taskPage, taskFilter, whPage and whFilter
          pending,      \* GETs in flight
          intervals,    \* live refresh intervals
          form, open, busy,   \* the last form, its visibility, its disabled buttons
          posts,        \* submits in flight, by form and button
          succeeded,    \* history: submits answered with success
          clicks

vars == <<key, gate, page, content, shown, want, pending, intervals, form, open,
          busy, posts, succeeded, clicks>>
session == <<key, gate, intervals>>
modal == <<form, open, busy, posts, succeeded>>

Get == {g \in [to : Page, query : Query] : g.to \in Lists \/ g.query = First}
Submit == (1..MaxClicks) \X Buttons

Init ==
  /\ key \in {"none", "good", "bad"}
  /\ gate = IF key = "none" THEN "form" ELSE "loading"
  /\ content = IF key = "none" THEN "login" ELSE "blank"
  /\ page = "dashboard"
  /\ shown = Skeleton
  /\ want = [l \in Lists |-> First]
  /\ pending = [g \in Get |-> 0]
  /\ intervals = 0
  /\ form = 0 /\ open = FALSE /\ busy = {}
  /\ posts = {} /\ succeeded = {}
  /\ clicks = 0

-----------------------------------------------------------------------------
(* A request without a key is refused, which changes nothing here. *)
Ask(p, q) ==
  pending' = IF key' = "good" THEN [pending EXCEPT ![[to |-> p, query |-> q]] = @ + 1]
             ELSE pending

Current(p) == IF p \in Lists THEN want[p] ELSE First

(* render*: new elements, the list's page and filter reset, a request. *)
Render(p) ==
  /\ content' = p
  /\ shown' = Skeleton
  /\ want' = IF p \in Lists THEN [want EXCEPT ![p] = First] ELSE want
  /\ Ask(p, First)

(* load* and drawMap: a request for the elements that are there. *)
Reload(p) ==
  /\ Ask(p, Current(p))
  /\ UNCHANGED <<content, shown, want>>

Rerendered == {"dashboard", "robots"}

(* Mutant: the webhook list is left out of the interval. *)
ReloadedButWebhooks == {"map", "alerts"}

Reloaded == {"map", "webhooks", "alerts"}

Tick ==
  /\ intervals > 0
  /\ pending[[to |-> page, query |-> Current(page)]] < MaxPending
  /\ UNCHANGED <<session, page, modal, clicks>>
  /\ \/ page \in Rerendered /\ Render(page)
     \/ page \in Reloaded /\ Reload(page)

(* An answer looks its elements up by id: they are there or it fails. *)
Land(g) ==
  /\ pending[g] > 0
  /\ pending' = [pending EXCEPT ![g] = @ - 1]
  /\ shown' = IF content = g.to THEN g.query ELSE shown
  /\ UNCHANGED <<session, page, content, want, modal, clicks>>

Fail(g) ==
  /\ pending[g] > 0
  /\ pending' = [pending EXCEPT ![g] = @ - 1]
  /\ UNCHANGED <<session, page, content, shown, want, modal, clicks>>

-----------------------------------------------------------------------------
(* Signing in and out. *)
ShowLogin ==
  /\ content' = "login"
  /\ gate' = "form"
  /\ shown' = Skeleton
  /\ UNCHANGED <<page, want, pending>>

Boot ==
  /\ key' = "good"
  /\ gate' = "app"
  /\ intervals' = 1
  /\ page' = "dashboard"
  /\ Render("dashboard")

(* The stored key is validated when the page loads. *)
Loaded ==
  /\ gate = "loading"
  /\ \/ key = "good" /\ Boot
     \/ key' = "none" /\ ShowLogin /\ UNCHANGED intervals
  /\ UNCHANGED <<modal, clicks>>

Click == clicks < MaxClicks /\ clicks' = clicks + 1

Login ==
  /\ Click /\ ~open
  /\ content = "login" /\ gate = "form"
  /\ gate' = "checking"
  /\ UNCHANGED <<key, intervals, page, content, shown, want, pending, modal>>

LoggedIn ==
  /\ gate = "checking"
  /\ \/ Boot
     \/ gate' = "form" /\ UNCHANGED <<key, intervals, page, content, shown, want, pending>>
  /\ UNCHANGED <<modal, clicks>>

(* Mutant: the interval goes on. *)
LogoutPolling ==
  /\ Click /\ ~open
  /\ gate = "app"
  /\ key' = "none"
  /\ ShowLogin
  /\ UNCHANGED <<intervals, modal>>

Logout ==
  /\ Click /\ ~open
  /\ gate = "app"
  /\ key' = "none"
  /\ intervals' = 0
  /\ ShowLogin
  /\ UNCHANGED modal

-----------------------------------------------------------------------------
(* Pages and lists; the open form covers them all. *)
Navigate(p) ==
  /\ Click /\ ~open
  /\ \/ gate = "app" /\ p \in MenuPages
     \/ content = "dashboard" /\ p = "robots"
  /\ page' = p
  /\ UNCHANGED <<session, modal>>
  /\ Render(p)

Load(l, q) ==
  /\ want' = [want EXCEPT ![l] = q]
  /\ UNCHANGED <<session, page, content, shown, modal>>
  /\ Ask(l, q)

Filter(l, f) ==
  /\ Click /\ ~open
  /\ content = l
  /\ Load(l, [filter |-> f, no |-> 1])

(* Mutant: the next button works on the last page. *)
NextAlways(q) ==
  {n \in 1..(LastNo + 1) : q.filter \in Long /\ n <= q.no + 2 /\ q.no <= n + 2}

(* The buttons under a list: around the page it shows, if it shows rows. *)
Pagination(q) ==
  {n \in 1..LastNo : q.filter \in Long /\ n <= q.no + 2 /\ q.no <= n + 2}

(* The filter is the one chosen last, not the one the buttons belong to. *)
Turn(l) ==
  /\ Click /\ ~open
  /\ content = l /\ shown # Skeleton
  /\ \E n \in Pagination(shown) : Load(l, [want[l] EXCEPT !.no = n])

-----------------------------------------------------------------------------
(* The form. *)
OpenForm ==
  /\ Click /\ ~open
  /\ content = "tasks"
  /\ form' = form + 1
  /\ open' = TRUE
  /\ busy' = {}
  /\ UNCHANGED <<session, page, content, shown, want, pending, posts, succeeded>>

CloseForm ==
  /\ Click /\ open
  /\ open' = FALSE
  /\ UNCHANGED <<session, page, content, shown, want, pending, form, busy, posts, succeeded>>

(* Mutant: the button stays enabled. *)
SubmitEnabled(b) ==
  /\ Click /\ open /\ b \notin busy
  /\ posts' = posts \cup {<<form, b>>}
  /\ UNCHANGED <<session, page, content, shown, want, pending, form, open, busy, succeeded>>

SubmitForm(b) ==
  /\ Click /\ open /\ b \notin busy
  /\ busy' = busy \cup {b}
  /\ posts' = posts \cup {<<form, b>>}
  /\ UNCHANGED <<session, page, content, shown, want, pending, form, open, succeeded>>

(* Mutant: the dashboard is rendered wherever the operator is. *)
RefreshDashboard == Render("dashboard")

(* What a success refreshes. *)
Refresh ==
  \/ page = "tasks" /\ Reload("tasks")
  \/ page = "dashboard" /\ Render("dashboard")
  \/ page \notin {"tasks", "dashboard"} /\ UNCHANGED <<content, shown, want, pending>>

(* A success closes the form that is open, whichever it belongs to. *)
SubmitOk(s) ==
  /\ s \in posts
  /\ posts' = posts \ {s}
  /\ succeeded' = succeeded \cup {s}
  /\ open' = FALSE
  /\ UNCHANGED <<session, page, form, busy, clicks>>
  /\ Refresh

(* An error, or an answer that was lost, enables the button again. *)
SubmitError(s) ==
  /\ s \in posts
  /\ posts' = posts \ {s}
  /\ busy' = IF s[1] = form THEN busy \ {s[2]} ELSE busy
  /\ UNCHANGED <<session, page, content, shown, want, pending, form, open, succeeded, clicks>>

Operate ==
  \/ Login \/ Logout \/ OpenForm \/ CloseForm
  \/ \E p \in Page : Navigate(p)
  \/ \E l \in Lists : Turn(l) \/ \E f \in Filters : Filter(l, f)
  \/ \E b \in Buttons : SubmitForm(b)

Next ==
  \/ Operate \/ Loaded \/ LoggedIn \/ Tick
  \/ \E g \in Get : Land(g) \/ Fail(g)
  \/ \E s \in Submit : SubmitOk(s) \/ SubmitError(s)

(***************************************************************************)
(* The browser fires the interval, and a webhook query that is asked again *)
(* and again is answered at last, each answer once: an answer that is on   *)
(* its way arrives or fails.  The operator owes nothing.                   *)
(***************************************************************************)
Fairness ==
  /\ WF_vars(Tick)
  /\ \A q \in Query : SF_vars(Land([to |-> "webhooks", query |-> q]))

Spec == Init /\ [][Next]_vars
FairSpec == Spec /\ Fairness

-----------------------------------------------------------------------------
TypeOK ==
  /\ key \in {"none", "good", "bad"}
  /\ gate \in {"loading", "form", "checking", "app"}
  /\ page \in Page
  /\ content \in Page \cup {"blank", "login"}
  /\ shown \in Query \cup {Skeleton}
  /\ want \in [Lists -> Query]
  /\ pending \in [Get -> 0..(MaxPending + MaxClicks + 1)]
  /\ intervals \in 0..1
  /\ form \in 0..MaxClicks /\ open \in BOOLEAN /\ busy \subseteq Buttons
  /\ posts \subseteq Submit /\ succeeded \subseteq Submit
  /\ clicks \in 0..MaxClicks

(* The screen fits the session, also when an answer or a submit comes back *)
(* after the operator went elsewhere: the highlighted entry is the page    *)
(* shown, and nothing polls for who signed out or was never let in.        *)
ScreenFits ==
  /\ content \in Page => content = page
  /\ intervals > 0 => key = "good" /\ gate = "app"

(* The create request carries no Idempotency-Key, so the form must not     *)
(* send twice: a button submits again only after an error.                 *)
SubmitsOnce ==
  [][\A b \in Buttons : SubmitForm(b) => <<form, b>> \notin posts \cup succeeded]_vars

(* The webhook list follows its filter and page in the end, whatever order *)
(* the answers to older polls and filters come in.                         *)
WebhooksSettle ==
  <>[](content = "webhooks" /\ intervals > 0 => shown = want["webhooks"])
=============================================================================
